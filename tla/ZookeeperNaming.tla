--------------------------- MODULE ZookeeperNaming --------------------------
(***************************************************************************)
(* Service discovery through ZooKeeper: providers register and leave, and  *)
(* consumers keep a RegistryDirectory (dubbo-cluster) that ZookeeperRegis- *)
(* try (dubbo-registry-zookeeper) notifies.  One service; all subscribers  *)
(* use one ZookeeperRegistry, and so share its list of listeners.          *)
(*                                                                         *)
(* A subscriber takes a snapshot of the children of the service's node,    *)
(* announces it to all listeners, sets a watch and leaves a task behind    *)
(* which fetches the children again whenever the watch fires, sets the     *)
(* next watch and announces the difference to what it fetched before.      *)
(* ZooKeeper itself is external: watches fire once, and an event is seen   *)
(* no later than the change.  Definitions marked "Bug:" are not part of    *)
(* the model (see README.md).                                              *)
(***************************************************************************)
EXTENDS Integers, Sequences, FiniteSets

CONSTANTS
  Provider,   \* processes that offer the service, each at an address
  Sub,        \* subscribers, each with a RegistryDirectory
  Casts       \* who takes part, and bounds on what can happen to them

ASSUME NamingAssumption ==
  /\ Provider \cap Sub = {}
  /\ \A cast \in Casts :
       /\ cast.actors \subseteq Provider \cup Sub
       /\ cast.changes \in Nat /\ cast.errors \in Nat

VARIABLES
  plain,     \* who calls subscribe(), and not subscribe_with_watcher()
  dir,       \* does the node of the service exist?
  nodes,     \* its children: the providers that are registered
  pc,        \* where each provider and subscriber is
  listeners, \* listener_map of the service
  children,  \* what a subscriber has fetched and not yet announced
  prev,      \* prev_children of its task
  watch,     \* its watch
  queue,     \* the calls of notify() it has yet to make
  computed,  \* the list a notify() has computed and not yet stored
  urls,      \* provider_urls of each directory
  snapshot,  \* history: the first children it fetched
  missed,    \* history: whose last fetch has missed a change
  raced,     \* history: the directories whose list was overwritten unread
  changes,   \* how often the children may still change
  errors     \* how many requests to ZooKeeper may still fail

zk == <<dir, nodes, changes>>
loop == <<children, prev, watch>>
notifying == <<queue, computed, urls>>
history == <<snapshot, missed, raced>>
vars == <<plain, zk, pc, listeners, loop, notifying, history, errors>>

Listening == {listeners[i] : i \in DOMAIN listeners}

Init ==
  /\ plain \in SUBSET Sub
  /\ dir = FALSE /\ nodes = {}
  /\ \E cast \in Casts :
       /\ pc = [a \in Provider \cup Sub |->
                   IF a \in cast.actors THEN "out" ELSE "absent"]
       /\ changes = cast.changes /\ errors = cast.errors
  /\ listeners = <<>>
  /\ children = [s \in Sub |-> {}]
  /\ prev = [s \in Sub |-> {}]
  /\ watch = [s \in Sub |-> "none"]
  /\ queue = [s \in Sub |-> <<>>]
  /\ computed = [s \in Sub |-> {}]
  /\ urls = [s \in Sub |-> {}]
  /\ snapshot = [s \in Sub |-> {}]
  /\ missed = {} /\ raced = {}

Goto(a, from, to) == pc[a] = from /\ pc' = [pc EXCEPT ![a] = to]

-----------------------------------------------------------------------------
(* ZooKeeper.                                                              *)

Fail == errors > 0 /\ errors' = errors - 1

\* s knows the children and has no watch that would tell it of a change.
Exposed(s) ==
  watch[s] = "none" /\ pc[s] \in {"announce", "read", "refresh", "watch", "rewatch"}

ChildrenChange(new) ==
  /\ changes > 0
  /\ changes' = changes - 1
  /\ nodes' = new
  /\ watch' = [s \in Sub |-> IF watch[s] = "set" THEN "fired" ELSE watch[s]]
  /\ missed' = missed \cup {s \in Sub : Exposed(s)}
  /\ UNCHANGED <<plain, dir, listeners, children, prev, notifying, snapshot, raced, errors>>

-----------------------------------------------------------------------------
(* ensure_path(), which providers and subscribers go through: exists() and *)
(* create() are two requests, and a node that another one has created in   *)
(* between makes create() fail.                                            *)

Ensured(a) == IF a \in Provider THEN "register" ELSE "snapshot"
Rejected(a) == IF a \in Provider THEN "out" ELSE "failed"

EnsureExists(a) ==
  /\ Goto(a, "ensure", IF dir THEN Ensured(a) ELSE "create")
  /\ UNCHANGED <<plain, zk, listeners, loop, notifying, history, errors>>

EnsureCreate(a) ==
  /\ Goto(a, "create", IF dir THEN Rejected(a) ELSE Ensured(a))
  /\ dir' = TRUE
  /\ UNCHANGED <<plain, nodes, changes, listeners, loop, notifying, history, errors>>

-----------------------------------------------------------------------------
(* Providers.                                                              *)

Register(p) ==
  /\ Goto(p, "out", "ensure")
  /\ UNCHANGED <<plain, zk, listeners, loop, notifying, history, errors>>

\* create() of the ephemeral node.
Join(p) ==
  /\ Goto(p, "register", "up")
  /\ ChildrenChange(nodes \cup {p})

\* unregister(), destroy(), or the session has ended.
Leave(p) ==
  /\ Goto(p, "up", "out")
  /\ ChildrenChange(nodes \ {p})

-----------------------------------------------------------------------------
(* Subscribers.                                                            *)

Listen(s) ==
  /\ Goto(s, "out", "ensure")
  /\ listeners' = Append(listeners, s)
  /\ UNCHANGED <<plain, zk, loop, notifying, history, errors>>

\* unsubscribe() ignores the listener it is given and removes them all.
Unsubscribe ==
  /\ listeners # <<>>
  /\ listeners' = <<>>
  /\ UNCHANGED <<plain, zk, pc, loop, notifying, history, errors>>

\* subscribe() takes a failure for a service without providers.
Snapshot(s) ==
  /\ \/ /\ Goto(s, "snapshot", "announce")
        /\ children' = [children EXCEPT ![s] = nodes]
        /\ snapshot' = [snapshot EXCEPT ![s] = nodes]
        /\ UNCHANGED errors
     \/ /\ Goto(s, "snapshot", IF s \in plain THEN "plain" ELSE "failed")
        /\ Fail
        /\ UNCHANGED <<children, snapshot>>
  /\ UNCHANGED <<plain, zk, listeners, prev, watch, notifying, missed, raced>>

\* watch_children(): a watch that cannot be set ends the task at once, as the
\* sender of its channel is dropped with the watcher.
Watch(s) ==
  /\ \/ Goto(s, "watch", "wait") /\ watch' = [watch EXCEPT ![s] = "set"] /\ UNCHANGED errors
     \/ Goto(s, "watch", "gone") /\ watch' = [watch EXCEPT ![s] = "dead"] /\ Fail
  /\ UNCHANGED <<plain, zk, listeners, children, prev, notifying, history>>

\* The watch has fired: get_children(), where a failure counts as no children.
Fetch(s) ==
  /\ watch[s] = "fired"
  /\ Goto(s, "wait", "rewatch")
  /\ watch' = [watch EXCEPT ![s] = "none"]
  /\ \/ /\ children' = [children EXCEPT ![s] = nodes]
        /\ missed' = missed \ {s}
        /\ UNCHANGED errors
     \/ /\ children' = [children EXCEPT ![s] = {}]
        /\ missed' = missed \cup {s}
        /\ Fail
  /\ UNCHANGED <<plain, zk, listeners, prev, notifying, snapshot, raced>>

\* get_children_w(), a request of its own.
Rewatch(s) ==
  /\ Goto(s, "rewatch", "announce")
  /\ \/ watch' = [watch EXCEPT ![s] = "set"] /\ UNCHANGED errors
     \/ watch' = [watch EXCEPT ![s] = "dead"] /\ Fail
  /\ UNCHANGED <<plain, zk, listeners, children, prev, notifying, history>>

\* The calls of notify() that tell every listener of the urls in set.
Notes(kind, set) ==
  [i \in DOMAIN listeners |-> [to |-> listeners[i], kind |-> kind, urls |-> set]]

NotesUnlessEmpty(kind, set) == IF set = {} THEN <<>> ELSE Notes(kind, set)

\* Bug: what has gone is told only if nothing has come.
OneChange(s) ==
  LET added == children[s] \ prev[s]
  IN  IF added # {} THEN Notes("add", added)
                    ELSE NotesUnlessEmpty("remove", prev[s] \ children[s])

\* Bug: no children are taken for no news, whatever there was before.
UnlessAllGone(s) ==
  IF children[s] = {} THEN <<>>
  ELSE NotesUnlessEmpty("add", children[s] \ prev[s])
         \o NotesUnlessEmpty("remove", prev[s] \ children[s])

\* The snapshot is announced whole, even if it is empty; the task announces
\* what has come, then what has gone.
Difference(s) ==
  NotesUnlessEmpty("add", children[s] \ prev[s])
    \o NotesUnlessEmpty("remove", prev[s] \ children[s])

Stage(s) ==
  CASE watch[s] = "none" -> (IF s \in plain THEN "plain" ELSE "watch")
    [] watch[s] = "dead" -> "gone"
    [] OTHER -> "wait"

\* Notify whoever listens now.
Announce(s) ==
  LET notes == IF watch[s] = "none" THEN Notes("add", children[s]) ELSE Difference(s)
  IN  /\ queue' = [queue EXCEPT ![s] = notes]
      /\ Goto(s, "announce", IF notes = <<>> THEN Stage(s) ELSE "read")
      /\ prev' = [prev EXCEPT ![s] = IF watch[s] = "none" THEN @ ELSE children[s]]
      /\ children' = [children EXCEPT ![s] = {}]
      /\ UNCHANGED <<plain, zk, listeners, watch, computed, urls, history, errors>>

-----------------------------------------------------------------------------
(* RegistryDirectory.notify(): the list is read, and written by            *)
(* refresh_invokers() under another lock, together with the invokers.      *)

\* Bug: an Add replaces the list.
Replaced(note) ==
  IF note.kind = "add" THEN note.urls ELSE urls[note.to] \ note.urls

Applied(note) ==
  IF note.kind = "add" THEN urls[note.to] \cup note.urls ELSE urls[note.to] \ note.urls

ReadUrls(s) ==
  /\ Goto(s, "read", "refresh")
  /\ computed' = [computed EXCEPT ![s] = Applied(Head(queue[s]))]
  /\ UNCHANGED <<plain, zk, listeners, loop, queue, urls, history, errors>>

\* Another task that has read the list of directory d will overwrite it.
Unread(s, d) == \E other \in Sub \ {s} : pc[other] = "refresh" /\ Head(queue[other]).to = d

RefreshInvokers(s) ==
  LET d == Head(queue[s]).to
  IN  /\ Goto(s, "refresh", IF Len(queue[s]) = 1 THEN Stage(s) ELSE "read")
      /\ urls' = [urls EXCEPT ![d] = computed[s]]
      /\ raced' = IF Unread(s, d) THEN raced \cup {d} ELSE raced
      /\ queue' = [queue EXCEPT ![s] = Tail(@)]
      /\ computed' = [computed EXCEPT ![s] = {}]
      /\ UNCHANGED <<plain, zk, listeners, loop, snapshot, missed, errors>>

-----------------------------------------------------------------------------
SubStep(s) ==
  \/ EnsureExists(s) \/ EnsureCreate(s)
  \/ Snapshot(s) \/ Watch(s)
  \/ Fetch(s) \/ Rewatch(s) \/ Announce(s)
  \/ ReadUrls(s) \/ RefreshInvokers(s)

Next ==
  \/ \E p \in Provider :
       Register(p) \/ EnsureExists(p) \/ EnsureCreate(p) \/ Join(p) \/ Leave(p)
  \/ \E s \in Sub : Listen(s) \/ SubStep(s)
  \/ Unsubscribe

Spec == Init /\ [][Next]_vars

\* Fair: the task of a subscriber, as tokio runs what is ready and ZooKeeper
\* delivers the event of a watch.  Not fair: providers, and the decision to
\* subscribe or to unsubscribe.
FairSpec == Spec /\ \A s \in Sub : WF_vars(SubStep(s))

-----------------------------------------------------------------------------
(* Properties.                                                             *)

\* Only s has ever subscribed, with a watcher, and still listens.
Alone(s) ==
  /\ s \in Listening \ plain
  /\ \A other \in Sub \ {s} : pc[other] \in {"absent", "out"}

\* The directory of a lone subscriber holds all that its task knows of, and of
\* what the task does not know only what the snapshot left there: whatever is
\* missed or fails.
LoopAgrees ==
  \A s \in Sub : Alone(s) /\ pc[s] = "wait" =>
    /\ prev[s] \subseteq urls[s]
    /\ urls[s] \subseteq prev[s] \cup snapshot[s]

Waiting(s) == pc[s] = "wait" /\ watch[s] = "set" /\ s \notin missed

\* Nothing is under way, and no task has ended or missed a change.
Settled ==
  \A s \in Sub : Waiting(s) \/ pc[s] \in {"absent", "out", "failed", "plain"}

Leftover == UNION {snapshot[s] : s \in Sub}

\* Once all is settled the directory of a subscriber that watches is current,
\* whatever changes, failures and interleavings came before, but for these: a
\* change between a fetch and its watch, a provider of a snapshot that has
\* left, and two tasks that notified the directory at the same time.
IdleIsCurrent ==
  Settled => \A s \in Listening \ raced : Waiting(s) =>
    /\ nodes \subseteq urls[s]
    /\ urls[s] \subseteq nodes \cup Leftover

\* A lone s keeps following.
Following(s) == Alone(s) /\ s \notin missed /\ pc[s] \notin {"failed", "gone"}

\* A provider that stays is found in the end, and one that stays away is
\* forgotten, unless it was in the snapshot.
Follows ==
  \A s \in Sub, p \in Provider :
    /\ <>[](Following(s) /\ p \in nodes) => <>[](p \in urls[s])
    /\ <>[](Following(s) /\ p \notin nodes \cup snapshot[s]) => <>[](p \notin urls[s])

\* subscribe_with_watcher() "re-fetches and notifies listeners when children
\* change": with no change missed, a provider that has left is not listed.
RemovalsFollow ==
  \A s \in Sub : Alone(s) /\ Waiting(s) => urls[s] \subseteq nodes

=============================================================================
