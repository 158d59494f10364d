--------------------------- MODULE ConfigCenters ---------------------------
(***************************************************************************)
(* The configuration centres and their listeners, for one key:             *)
(*   "memory"     DynamicConfiguration, which tells its listeners itself;  *)
(*   "polled"     ApolloConfigCenter and NacosConfigCenter, whose task     *)
(*                asks the server again and again;                         *)
(*   "zookeeper"  ZookeeperConfigCenter, with watches that fire once.      *)
(* Whoever stores a value, or learns of one, tells the listeners later,    *)
(* one after the other, and meanwhile the value may change again.          *)
(* The destroy() of the other two centres is left out.                     *)
(***************************************************************************)
EXTENDS Naturals, Sequences, FiniteSets, SequencesExt

CONSTANTS
  ConfigListener,
  Client,    \* those who set and remove values
  Task,      \* poll tasks that may be spawned
  Content,   \* values of the key
  NoContent, \* no value, no task
  MaxChange  \* bound on the changes of the value

ASSUME ConfigAssumption == IsFiniteSet(Task) /\ NoContent \notin Task

VARIABLES
  center,    \* which of the three
  value,     \* the value of the key, or NoContent
  changes,   \* how often it has changed
  listeners, \* the listeners of the key, in order
  watching,  \* where each listener's watch() is
  setter,    \* memory: the set() or remove() of each client
  overlapped, \* history: did two of them overlap?
  poller,    \* polled: each poll task
  handle,    \* polled: the task whose handle is kept
  armed,     \* zookeeper: watches that will fire
  fired,     \* zookeeper: events of watches, not yet handled
  spawned,   \* zookeeper: on_change() calls not yet run
  heard,     \* the events each listener was given: the new values
  since      \* history: how many changes there had been when each began to watch

configVars == <<center, value, changes, listeners, watching, setter, overlapped,
                poller, handle, armed, fired, spawned, heard, since>>
keyVars == <<center, value, changes>>
memoryVars == <<setter, overlapped>>
polledVars == <<poller, handle>>
zookeeperVars == <<armed, fired, spawned>>

\* What a task has to deliver: nothing; an event; or what is left of it.
Rest == [at |-> "rest", new |-> NoContent, left |-> <<>>]
NoTask == [at |-> "none", new |-> NoContent, left |-> <<>>, previous |-> NoContent]

ConfigInit ==
  /\ center \in {"memory", "polled", "zookeeper"}
  /\ value = NoContent /\ changes = 0
  /\ listeners = <<>> /\ watching = [l \in ConfigListener |-> "off"]
  /\ setter = [c \in Client |-> Rest] /\ overlapped = FALSE
  /\ poller = [t \in Task |-> NoTask] /\ handle = NoContent
  /\ armed = 0 /\ fired = <<>> /\ spawned = {}
  /\ heard = [l \in ConfigListener |-> <<>>] /\ since = [l \in ConfigListener |-> 0]

Hear(l, new) == heard' = [heard EXCEPT ![l] = Append(@, new)]
Join(l) == listeners' = Append(listeners, l) /\ since' = [since EXCEPT ![l] = changes]
Change(v) == changes < MaxChange /\ value' = v /\ changes' = changes + 1

-----------------------------------------------------------------------------
(* DynamicConfiguration.                                                   *)

WatchMemory(l) ==
  /\ center = "memory" /\ watching[l] = "off"
  /\ watching' = [watching EXCEPT ![l] = "on"]
  /\ Join(l)
  /\ UNCHANGED <<keyVars, memoryVars, polledVars, zookeeperVars, heard>>

\* set() and remove() let go of the store before they look for listeners.
Set(c, v) ==
  /\ center = "memory" /\ setter[c] = Rest
  /\ v # NoContent \/ value # NoContent
  /\ Change(v)
  /\ setter' = [setter EXCEPT ![c] = [at |-> "stored", new |-> v, left |-> <<>>]]
  /\ overlapped' = (overlapped \/ \E d \in Client : setter[d] # Rest)
  /\ UNCHANGED <<center, listeners, watching, polledVars, zookeeperVars, heard, since>>

\* notify_listeners(): the snapshot, then one listener after the other.
BugReadListeners(c) == SubSeq(listeners, 1, 1)
ReadListeners(c) == listeners

Notify(c) ==
  /\ setter[c].at = "stored"
  /\ setter' = [setter EXCEPT ![c] =
       IF listeners = <<>> THEN Rest ELSE [@ EXCEPT !.at = "telling", !.left = ReadListeners(c)]]
  /\ UNCHANGED <<keyVars, listeners, watching, overlapped, polledVars, zookeeperVars, heard, since>>

TellNext(c) ==
  /\ setter[c].at = "telling"
  /\ Hear(Head(setter[c].left), setter[c].new)
  /\ setter' = IF Len(setter[c].left) = 1 THEN [setter EXCEPT ![c] = Rest]
               ELSE [setter EXCEPT ![c].left = Tail(@)]
  /\ UNCHANGED <<keyVars, listeners, watching, overlapped, polledVars, zookeeperVars, since>>

-----------------------------------------------------------------------------
(* ApolloConfigCenter, NacosConfigCenter.                                  *)

\* set_config() or remove_config() of this or another process reaches the server.
PublishValue(v) ==
  /\ center = "polled" /\ v # value /\ Change(v)
  /\ UNCHANGED <<center, listeners, watching, memoryVars, polledVars, zookeeperVars, heard, since>>

\* watch() adds its listener, then asks whether there is a task, then spawns one.
WatchPolled(l) ==
  /\ center = "polled" /\ watching[l] = "off"
  /\ watching' = [watching EXCEPT ![l] = "added"]
  /\ Join(l)
  /\ UNCHANGED <<keyVars, memoryVars, polledVars, zookeeperVars, heard>>

LookForTask(l) ==
  /\ watching[l] = "added"
  /\ watching' = [watching EXCEPT ![l] = IF handle = NoContent THEN "spawning" ELSE "on"]
  /\ UNCHANGED <<keyVars, listeners, memoryVars, polledVars, zookeeperVars, heard, since>>

\* A handle that is replaced leaves its task running.
StartPollTask(l, t) ==
  /\ watching[l] = "spawning" /\ poller[t] = NoTask
  /\ watching' = [watching EXCEPT ![l] = "on"]
  /\ poller' = [poller EXCEPT ![t].at = "rest"]
  /\ handle' = t
  /\ UNCHANGED <<keyVars, listeners, memoryVars, zookeeperVars, heard, since>>

\* One round: an answer with a value or with none (a failed request changes nothing), and
\* if it is another than the last, the listeners there are by then.
PollServer(t) ==
  /\ poller[t].at = "rest" /\ value # poller[t].previous
  /\ poller' = [poller EXCEPT ![t].at = "fetched", ![t].new = value]
  /\ UNCHANGED <<keyVars, listeners, watching, memoryVars, handle, zookeeperVars, heard, since>>

PollSnapshot(t) ==
  /\ poller[t].at = "fetched"
  /\ poller' = [poller EXCEPT ![t].at = "telling", ![t].left = listeners]
  /\ UNCHANGED <<keyVars, listeners, watching, memoryVars, handle, zookeeperVars, heard, since>>

PollTell(t) ==
  /\ poller[t].at = "telling" /\ poller[t].left # <<>>
  /\ Hear(Head(poller[t].left), poller[t].new)
  /\ poller' = [poller EXCEPT ![t].left = Tail(@)]
  /\ UNCHANGED <<keyVars, listeners, watching, memoryVars, handle, zookeeperVars, since>>

PollDone(t) ==
  /\ poller[t].at = "telling" /\ poller[t].left = <<>>
  /\ poller' = [poller EXCEPT ![t].at = "rest", ![t].previous = poller[t].new]
  /\ UNCHANGED <<keyVars, listeners, watching, memoryVars, handle, zookeeperVars, heard, since>>

\* destroy() of a polling centre aborts the task it has a handle of.
DestroyCenter ==
  /\ center = "polled" /\ handle # NoContent
  /\ poller' = [poller EXCEPT ![handle].at = "aborted"]
  /\ handle' = NoContent
  /\ listeners' = <<>>
  /\ UNCHANGED <<keyVars, watching, memoryVars, zookeeperVars, heard, since>>

-----------------------------------------------------------------------------
(* ZookeeperConfigCenter.                                                  *)

\* notify_listeners() spawns a task for each listener.
Spawn(to, new) ==
  spawned' = spawned \cup
    {[to |-> to[i], new |-> new, nr |-> <<changes, Len(listeners), i>>] : i \in DOMAIN to}

\* register(), unregister() and those who write the node: the watches fire, all at once.
WriteNode(v) ==
  /\ center = "zookeeper" /\ (v # NoContent \/ value # NoContent) /\ Change(v)
  /\ fired' = fired \o [i \in 1 .. armed |-> IF v = NoContent THEN "deleted" ELSE "changed"]
  /\ armed' = 0
  /\ UNCHANGED <<center, listeners, watching, memoryVars, polledVars, spawned, heard, since>>

\* watch(): only a node that exists is watched, and all the listeners are told of it.
WatchZookeeper(l) ==
  /\ center = "zookeeper" /\ watching[l] = "off"
  /\ watching' = [watching EXCEPT ![l] = "on"]
  /\ Join(l)
  /\ IF value = NoContent
     THEN UNCHANGED <<armed, spawned>>
     ELSE armed' = armed + 1 /\ Spawn(Append(listeners, l), value)
  /\ UNCHANGED <<keyVars, memoryVars, polledVars, fired, heard>>

\* ConfigWatcher: the node is read when the event is handled, and is not watched again.
Handle(i) ==
  /\ i \in DOMAIN fired
  /\ fired' = RemoveAt(fired, i)
  /\ IF fired[i] = "deleted" \/ value = NoContent
     THEN listeners' = <<>> /\ Spawn(listeners, NoContent)
     ELSE Spawn(listeners, value) /\ UNCHANGED listeners
  /\ UNCHANGED <<keyVars, watching, memoryVars, polledVars, armed, heard, since>>

RunSpawned(s) ==
  /\ Hear(s.to, s.new)
  /\ spawned' = spawned \ {s}
  /\ UNCHANGED <<keyVars, listeners, watching, memoryVars, polledVars, armed, fired, since>>

ConfigNext ==
  \/ \E l \in ConfigListener : WatchMemory(l) \/ WatchPolled(l) \/ LookForTask(l) \/ WatchZookeeper(l)
  \/ \E l \in ConfigListener, t \in Task : StartPollTask(l, t)
  \/ \E c \in Client : (\E v \in Content \cup {NoContent} : Set(c, v)) \/ Notify(c) \/ TellNext(c)
  \/ \E t \in Task : PollServer(t) \/ PollSnapshot(t) \/ PollTell(t) \/ PollDone(t)
  \/ \E v \in Content \cup {NoContent} : PublishValue(v) \/ WriteNode(v)
  \/ DestroyCenter
  \/ \E i \in DOMAIN fired : Handle(i)
  \/ \E s \in spawned : RunSpawned(s)

ConfigSpec == ConfigInit /\ [][ConfigNext]_configVars

-----------------------------------------------------------------------------

Tasks == {t \in Task : poller[t].at \notin {"none", "aborted"}}
Quiet == /\ \A c \in Client : setter[c] = Rest
         /\ \A t \in Tasks : poller[t].at = "rest"
         /\ fired = <<>> /\ spawned = {}

\* When nothing is on its way: if no two set() overlapped, a listener of the in-memory
\* centre that the value has changed for was told last of the one that is stored; so it is with
\* what the poll task has last found, as long as there is one task; and a listener of a
\* node that is still watched has been told of the value the node has.
QuietListenersAgree ==
  Quiet => \A l \in ToSet(listeners) :
    /\ center = "memory" /\ ~overlapped /\ since[l] < changes =>
         heard[l] # <<>> /\ Last(heard[l]) = value
    /\ center = "polled" /\ heard[l] # <<>> /\ Cardinality({t \in Task : poller[t] # NoTask}) = 1 =>
         \E t \in Tasks : Last(heard[l]) = poller[t].previous
    /\ center = "zookeeper" /\ armed > 0 => value \in ToSet(heard[l])
=============================================================================
