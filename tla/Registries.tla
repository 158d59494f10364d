----------------------------- MODULE Registries -----------------------------
(***************************************************************************)
(* The registries over Redis, etcd and Nacos, for one service: a process   *)
(* that registers providers and keeps them alive, the server, which        *)
(* forgets what is not kept alive, and a process whose listeners are       *)
(* RegistryDirectory objects.  Every event adds to a directory: Redis      *)
(* sends all providers or an empty Remove, etcd the ones put, Nacos an     *)
(* Update, so that a directory never forgets (ZookeeperNaming has one that *)
(* does).  Time is counted in ticks, and a heartbeat is never late.        *)
(***************************************************************************)
EXTENDS Integers, Sequences, FiniteSets

CONSTANTS
  Provider, Listener,
  Expire,    \* ticks until the server forgets: expire_period, the lease, ...
  Period,    \* ticks between heartbeats
  MaxOps     \* bound on the registrations

\* The heartbeat of Redis comes at half the expiry, that of Nacos every 5 of its 15 seconds.
ASSUME RegistryAssumption == Expire \in Nat /\ Period \in Nat \ {0} /\ Period < Expire

VARIABLES
  registry,  \* "redis", "etcd" or "nacos", fixed at the start
  op,        \* what register() or unregister() of each provider has done
  ops,       \* how many registrations there were
  server,    \* ticks each provider has left at the server, 0 if it has none
  kept,      \* redis: registered; nacos: the providers of the heartbeat tasks
  due,       \* ticks until the next heartbeat, -1 without a heartbeat task
  lease,     \* etcd: ticks the lease has left, -1 if none was granted
  sub,       \* what subscribe() of each listener has done
  notifier,  \* "off", "on", or "deaf": it has lost its connection
  pending,   \* redis: messages; etcd: puts, on the way to the notifier
  polled,    \* nacos: what the poll task of each listener has found last
  known,     \* the directory of each listener
  told       \* history: providers announced while a listener was there, until unregistered

serverVars == <<server, kept, due, lease>>
consumerVars == <<sub, notifier, pending, polled, known>>
registryVars == <<registry, op, ops, serverVars, consumerVars, told>>

RegistryInit ==
  /\ registry \in {"redis", "etcd", "nacos"}
  /\ op = [p \in Provider |-> "off"] /\ ops = 0
  /\ server = [p \in Provider |-> 0]
  /\ kept = {} /\ due = -1 /\ lease = -1
  /\ sub = [l \in Listener |-> "off"]
  /\ notifier = "off" /\ pending = <<>>
  /\ polled = [l \in Listener |-> {}]
  /\ known = [l \in Listener |-> {}] /\ told = [l \in Listener |-> {}]

Stored == {p \in Provider : server[p] > 0}
Listeners == {l \in Listener : sub[l] \in {"added", "on"}}

Step(p, from, to) == op[p] = from /\ op' = [op EXCEPT ![p] = to]
Store(p, ticks) == server' = [server EXCEPT ![p] = ticks]
Learn(urls) == known' = [l \in Listener |-> IF l \in Listeners THEN known[l] \cup urls ELSE known[l]]

\* A message reaches a notifier that has its connection; that of Redis names no provider.
Message(p) == IF registry = "redis" THEN "changed" ELSE p
Announce(p) ==
  IF notifier = "on"
  THEN /\ pending' = Append(pending, Message(p))
       /\ told' = [l \in Listener |-> IF l \in Listeners THEN told[l] \cup {p} ELSE told[l]]
  ELSE UNCHANGED <<pending, told>>

Begin == ops < MaxOps /\ ops' = ops + 1

-----------------------------------------------------------------------------
(* RedisRegistry: register() and unregister().                             *)

Hset(p) ==
  /\ registry = "redis" /\ Begin
  /\ Step(p, "off", "stored")
  /\ Store(p, Expire)
  /\ UNCHANGED <<registry, kept, due, lease, consumerVars, told>>

Publish(p) ==
  /\ Step(p, "stored", "published")
  /\ Announce(p)
  /\ UNCHANGED <<registry, ops, serverVars, sub, notifier, polled, known>>

\* The map has one entry for the service; a heartbeat task is started if there is none.
Insert(p) ==
  /\ Step(p, "published", "on")
  /\ kept' = {p}
  /\ due' = IF due = -1 THEN Period ELSE due
  /\ UNCHANGED <<registry, ops, server, lease, consumerVars, told>>

Hdel(p) ==
  /\ registry = "redis"
  /\ Step(p, "on", "deleted")
  /\ Store(p, 0)
  /\ told' = [l \in Listener |-> told[l] \ {p}]
  /\ UNCHANGED <<registry, ops, kept, due, lease, consumerVars>>

\* The entry is removed last: until then the heartbeat may put the provider back.
RemoveEntry(p) ==
  /\ Step(p, "deleted", "off")
  /\ kept' = {}
  /\ pending' = IF notifier = "on" THEN Append(pending, Message(p)) ELSE pending
  /\ UNCHANGED <<registry, ops, server, due, lease, sub, notifier, polled, known, told>>

-----------------------------------------------------------------------------
(* EtcdRegistry: one lease for all, which is kept alive when it is granted  *)
(* and not again; a put with a lease that has run out fails.               *)

Put(p) ==
  /\ registry = "etcd" /\ Begin /\ op[p] = "off"
  /\ LET left == IF lease = -1 THEN Expire ELSE lease
     IN /\ lease' = left
        /\ IF left > 0 THEN /\ Step(p, "off", "on")
                            /\ Store(p, left)
                            /\ Announce(p)
                       ELSE UNCHANGED <<op, server, pending, told>>
  /\ UNCHANGED <<registry, kept, due, sub, notifier, polled, known>>

\* Of deletions nobody is told.
Delete(p) ==
  /\ registry = "etcd"
  /\ Step(p, "on", "off")
  /\ Store(p, 0)
  /\ told' = [l \in Listener |-> told[l] \ {p}]
  /\ UNCHANGED <<registry, ops, kept, due, lease, consumerVars>>

-----------------------------------------------------------------------------
(* NacosRegistry: every register() spawns a heartbeat task, and             *)
(* unregister() stops none.                                                *)

Register(p) ==
  /\ registry = "nacos" /\ Begin
  /\ Step(p, "off", "on")
  /\ Store(p, Expire)
  /\ kept' = kept \cup {p}
  /\ due' = IF due = -1 THEN Period ELSE due
  /\ UNCHANGED <<registry, lease, consumerVars, told>>

Deregister(p) ==
  /\ registry = "nacos"
  /\ Step(p, "on", "off")
  /\ Store(p, 0)
  /\ told' = [l \in Listener |-> told[l] \ {p}]
  /\ UNCHANGED <<registry, ops, kept, due, lease, consumerVars>>

-----------------------------------------------------------------------------
(* Time.                                                                   *)

\* Redis sets the field anew whether or not it is there, Nacos refuses the beat of an
\* instance it has forgotten, and nobody reads its answer.
Refreshed == IF registry = "redis" THEN kept ELSE kept \cap Stored
BugRefreshed == {}
Kept == Refreshed

Heartbeat ==
  /\ due = 0
  /\ due' = Period
  /\ server' = [p \in Provider |-> IF p \in Kept THEN Expire ELSE server[p]]
  /\ UNCHANGED <<registry, op, ops, kept, lease, consumerVars, told>>

Less(n) == IF n > 0 THEN n - 1 ELSE n
\* No tick passes during a call.
Tick ==
  /\ due # 0 /\ \A p \in Provider : op[p] \in {"off", "on", "gone"}
  /\ due' = Less(due) /\ lease' = Less(lease)
  /\ server' = [p \in Provider |-> Less(server[p])]
  /\ UNCHANGED <<registry, op, ops, kept, consumerVars, told>>

\* destroy(), or the end of the process: nothing is unregistered, the heartbeat stops.
Destroy ==
  /\ due >= 0
  /\ kept' = {} /\ due' = -1
  /\ op' = [p \in Provider |-> "gone"]
  /\ UNCHANGED <<registry, ops, server, lease, consumerVars, told>>

-----------------------------------------------------------------------------
(* The consumer.                                                           *)

\* subscribe() adds the listener; the first one has more to do.
AddListener(l) ==
  /\ sub[l] = "off"
  /\ sub' = [sub EXCEPT ![l] = IF registry = "nacos" \/ Listeners # {} THEN "on" ELSE "added"]
  /\ UNCHANGED <<registry, op, ops, serverVars, notifier, pending, polled, known, told>>

\* The snapshot of Redis or etcd, of which all listeners are told.
Snapshot(l) ==
  /\ sub[l] = "added"
  /\ sub' = [sub EXCEPT ![l] = "on"]
  /\ Learn(Stored)
  /\ told' = [told EXCEPT ![l] = @ \cup Stored]
  /\ UNCHANGED <<registry, op, ops, serverVars, notifier, pending, polled>>

\* The notifier comes up later: what happened since the snapshot it does not hear.  The
\* one of Redis connects again and again, that of etcd does not.
Hearken ==
  /\ \E l \in Listener : sub[l] = "on"
  /\ \/ notifier = "off" /\ registry # "nacos"
     \/ notifier = "deaf" /\ registry = "redis"
  /\ notifier' = "on"
  /\ UNCHANGED <<registry, op, ops, serverVars, sub, pending, polled, known, told>>

LoseConnection ==
  /\ notifier = "on"
  /\ notifier' = "deaf"
  /\ UNCHANGED <<registry, op, ops, serverVars, sub, pending, polled, known, told>>

\* Redis looks up what there is by now; etcd has the provider in the event.
Process ==
  /\ pending # <<>>
  /\ pending' = Tail(pending)
  /\ Learn(IF registry = "redis" THEN Stored ELSE {Head(pending)})
  /\ UNCHANGED <<registry, op, ops, serverVars, sub, notifier, polled, told>>

\* The poll task that subscribe() of Nacos has spawned, one per listener: each tells all.
Poll(l) ==
  /\ registry = "nacos" /\ sub[l] # "off" /\ polled[l] # Stored
  /\ polled' = [polled EXCEPT ![l] = Stored]
  /\ Learn(Stored)
  /\ UNCHANGED <<registry, op, ops, serverVars, sub, notifier, pending, told>>

\* unsubscribe() of one listener removes them all; tasks and notifiers stay.
Unsubscribe ==
  /\ \A l \in Listener : sub[l] # "added"
  /\ Listeners # {}
  /\ sub' = [l \in Listener |-> IF l \in Listeners THEN "removed" ELSE sub[l]]
  /\ UNCHANGED <<registry, op, ops, serverVars, notifier, pending, polled, known, told>>

RegistryNext ==
  \/ \E p \in Provider :
       \/ Hset(p) \/ Publish(p) \/ Insert(p) \/ Hdel(p) \/ RemoveEntry(p)
       \/ Put(p) \/ Delete(p)
       \/ Register(p) \/ Deregister(p)
  \/ Heartbeat \/ Tick \/ Destroy
  \/ \E l \in Listener : AddListener(l) \/ Snapshot(l) \/ Poll(l)
  \/ Hearken \/ LoseConnection \/ Process \/ Unsubscribe

RegistrySpec == RegistryInit /\ [][RegistryNext]_registryVars

-----------------------------------------------------------------------------

\* A registered provider is at the server as long as its heartbeat is kept: in Redis as
\* long as it is the last of its service that was registered, in Nacos always.
KeptAlive == \A p \in kept : op[p] = "on" => server[p] > 0

\* Of what a listener was there to hear, all that is still at the server is in its
\* directory, when no message is on the way.
HeardIsKnown ==
  pending = <<>> => \A l \in Listeners : told[l] \cap Stored \subseteq known[l]
=============================================================================
