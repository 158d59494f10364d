------------------------------ MODULE Discovery ------------------------------
(***************************************************************************)
(* InMemoryServiceDiscovery, for the instances of one service, and         *)
(* MultipleRegistry, which asks several registries one after the other.    *)
(* A listener is the directory it keeps: what was added and not removed.   *)
(* A MultipleRegistry of no registries has nothing to do and is left out.  *)
(***************************************************************************)
EXTENDS Naturals, Sequences, Lists

CONSTANTS
  None,
  Caller,     \* tasks that register and unregister
  Host,       \* where an instance may be
  Watcher,    \* the listeners
  MaxCalls,   \* bound on the calls to the discovery
  Backends,   \* how many registries a MultipleRegistry has
  MaxMultiple \* bound on its calls

ASSUME DiscoveryAssumption ==
  /\ None \notin {[service |-> "s", host |-> h, port |-> 1, metadata |-> <<>>] : h \in Host}
  /\ Backends \in Nat \ {0}

VARIABLES
  instances,  \* the instances registered, in order
  watchers,   \* the listeners subscribed, in order
  doing,      \* what each register_instance() or unregister_instance() has left to do
  calls,      \* how many there were
  listening,  \* history: "before", "on" or "after" its subscription
  seenBy,     \* the directory of each listener
  owed,       \* history: what was registered while a listener was there, and is still
  clashed,    \* history: instances of which two calls have overlapped
  backend,    \* what each registry of the MultipleRegistry holds
  multiple,   \* its current or latest operation
  operations  \* how many there were

discoveryVars == <<instances, watchers, doing, calls, listening, seenBy, owed, clashed>>
multipleVars == <<backend, multiple, operations>>

(***************************************************************************)
(* ServiceInstance and its URL: the parameters of the one are the metadata *)
(* of the other, and the protocol is "dubbo" whatever it was.              *)
(***************************************************************************)
Instance == {[service |-> "s", host |-> h, port |-> 1, metadata |-> <<>>] : h \in Host}
ToUrl(i) ==
  [protocol |-> "dubbo", path |-> i.service, ip |-> i.host, port |-> i.port, params |-> i.metadata]
FromUrl(u) == [service |-> u.path, host |-> u.ip, port |-> u.port, metadata |-> u.params]

Idle == [kind |-> "none", of |-> None, told |-> <<>>, at |-> "idle"]

DiscoveryInit ==
  /\ instances = <<>> /\ watchers = <<>>
  /\ doing = [c \in Caller |-> Idle] /\ calls = 0
  /\ listening = [l \in Watcher |-> "before"]
  /\ seenBy = [l \in Watcher |-> {}] /\ owed = [l \in Watcher |-> {}] /\ clashed = {}

-----------------------------------------------------------------------------
(* InMemoryServiceDiscovery: the lock on the instances is let go before    *)
(* that on the listeners is taken, and both before anyone is told.         *)

Alter(c, kind, i) ==
  /\ doing[c] = Idle /\ calls < MaxCalls
  /\ calls' = calls + 1
  /\ doing' = [doing EXCEPT ![c] = [kind |-> kind, of |-> i, told |-> <<>>, at |-> "stored"]]
  /\ clashed' = IF \E d \in Caller : doing[d].of = i THEN clashed \cup {i} ELSE clashed
  /\ UNCHANGED <<watchers, listening, seenBy, multipleVars>>

RegisterInstance(c, i) ==
  /\ Alter(c, "add", i)
  /\ instances' = Append(instances, i)
  /\ owed' = [l \in Watcher |-> IF l \in ToSet(watchers) THEN owed[l] \cup {i} ELSE owed[l]]

\* retain(): however often an instance was registered, it goes at once.
UnregisterInstance(c, i) ==
  /\ Alter(c, "remove", i)
  /\ instances' = Keep(instances, Instance \ {i})
  /\ owed' = [l \in Watcher |-> owed[l] \ {i}]

ReadWatchers(c) ==
  /\ doing[c].at = "stored"
  /\ doing' = [doing EXCEPT ![c] = IF watchers = <<>> THEN Idle
                                 ELSE [@ EXCEPT !.at = "telling", !.told = watchers]]
  /\ UNCHANGED <<instances, watchers, calls, listening, seenBy, owed, clashed, multipleVars>>

Tell(c) ==
  /\ doing[c].at = "telling"
  /\ LET l == Head(doing[c].told)
         rest == Tail(doing[c].told)
         i == FromUrl(ToUrl(doing[c].of))
     IN /\ seenBy' = [seenBy EXCEPT ![l] =
                        IF doing[c].kind = "add" THEN @ \cup {i} ELSE @ \ {i}]
        /\ doing' = [doing EXCEPT ![c] = IF rest = <<>> THEN Idle ELSE [@ EXCEPT !.told = rest]]
  /\ UNCHANGED <<instances, watchers, calls, listening, owed, clashed, multipleVars>>

\* subscribe_service() tells the new listener nothing of the instances there are.
SubscribeService(l) ==
  /\ listening[l] = "before"
  /\ listening' = [listening EXCEPT ![l] = "on"]
  /\ watchers' = Append(watchers, l)
  /\ UNCHANGED <<instances, doing, calls, seenBy, owed, clashed, multipleVars>>

UnsubscribeService(l) ==
  /\ listening[l] = "on"
  /\ listening' = [listening EXCEPT ![l] = "after"]
  /\ watchers' = Keep(watchers, Watcher \ {l})
  /\ UNCHANGED <<instances, doing, calls, seenBy, owed, clashed, multipleVars>>

-----------------------------------------------------------------------------
(* MultipleRegistry: register(), unregister(), subscribe() and             *)
(* unsubscribe() stop at the first registry that fails.                    *)

Operation == {"register", "unregister", "subscribe", "unsubscribe"}
What(operation) == IF operation \in {"register", "unregister"} THEN "provider" ELSE "listener"
Adds(operation) == operation \in {"register", "subscribe"}

MultipleInit ==
  /\ backend = [r \in 1 .. Backends |-> {}]
  /\ multiple = [operation |-> "none", next |-> 1, result |-> "ok"] /\ operations = 0

Delegate(operation) ==
  /\ multiple.result # "pending" /\ operations < MaxMultiple
  /\ operations' = operations + 1
  /\ multiple' = [operation |-> operation, next |-> 1, result |-> "pending"]
  /\ UNCHANGED <<discoveryVars, backend>>

\* What a registry does, it does whole or, when it fails, not at all.
Ask ==
  /\ multiple.result = "pending"
  /\ LET r == multiple.next
         what == {What(multiple.operation)}
     IN \/ /\ backend' = [backend EXCEPT ![r] =
                IF Adds(multiple.operation) THEN @ \cup what ELSE @ \ what]
           /\ multiple' = [multiple EXCEPT !.next = r + 1,
                             !.result = IF r = Backends THEN "ok" ELSE @]
        \/ multiple' = [multiple EXCEPT !.result = "err"] /\ UNCHANGED backend
  /\ UNCHANGED <<discoveryVars, operations>>

\* destroy() of each: what a registry held is gone.
DestroyAll ==
  /\ multiple.result # "pending" /\ multiple.operation # "destroy"
  /\ backend' = [r \in 1 .. Backends |-> {}]
  /\ multiple' = [operation |-> "destroy", next |-> 1, result |-> "ok"]
  /\ UNCHANGED <<discoveryVars, operations>>

DiscoveryNext ==
  \/ \E c \in Caller, i \in Instance : RegisterInstance(c, i) \/ UnregisterInstance(c, i)
  \/ \E c \in Caller : ReadWatchers(c) \/ Tell(c)
  \/ \E l \in Watcher : SubscribeService(l) \/ UnsubscribeService(l)

MultipleNext == (\E operation \in Operation : Delegate(operation)) \/ Ask \/ DestroyAll

DiscoverySpec ==
  DiscoveryInit /\ MultipleInit /\ [][DiscoveryNext \/ MultipleNext]_<<discoveryVars, multipleVars>>

-----------------------------------------------------------------------------

\* When no call of an instance is pending and no two of them have overlapped, a listener
\* has it if it was registered while the listener was there, and no listener has it
\* that get_instances() would not return.
WatchersAgree ==
  \A i \in Instance \ clashed : (\A c \in Caller : doing[c].of # i) =>
    \A l \in ToSet(watchers) :
      /\ i \in owed[l] => i \in seenBy[l]
      /\ i \in seenBy[l] => i \in ToSet(instances)

\* An operation that MultipleRegistry reports as done was done by all of its registries,
\* and one that has failed by those before the one that failed it.
DelegatedInOrder ==
  multiple.operation \in Operation => \A r \in 1 .. Backends :
    r < multiple.next =>
      (What(multiple.operation) \in backend[r] <=> Adds(multiple.operation))
=============================================================================
