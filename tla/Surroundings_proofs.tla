------------------------- MODULE Surroundings_proofs -------------------------
(***************************************************************************)
(* Proofs about Surroundings, for any number of providers, listeners,      *)
(* callers, registries, applications, calls and probes, and for any expiry *)
(* that is longer than the period of the heartbeat.                        *)
(*                                                                         *)
(* Registries.  Neither half of the property is inductive.  That a kept    *)
(* provider is at the server needs that it has more time left there than   *)
(* the next heartbeat is away (Ahead).  That what was heard is known needs *)
(* to know which providers may come back to the server after they have run *)
(* out: those of which a listener was told and which it does not know are  *)
(* announced and not taken back (Unheard), and no heartbeat brings such a  *)
(* one back, since those it keeps have never run out.                      *)
(*                                                                         *)
(* Discovery.  Of an instance of which no two calls overlap one call at    *)
(* most is on its way, and the invariant says what a directory lacks while *)
(* it is: an added instance where the listener is still to be told, a      *)
(* removed one that a listener still has and is still to be told of.       *)
(*                                                                         *)
(* ConfigCenters.  Each kind of centre has an invariant of its own.  In    *)
(* memory a call that overlaps no other has stored what is there, and who  *)
(* has not heard of it is on its list; a polled centre with one task has   *)
(* told each listener what it has fetched, or is about to; and while a     *)
(* watch of ZooKeeper is armed, each listener has heard the value, or a    *)
(* task that is spawned will tell it.                                      *)
(*                                                                         *)
(* Metadata.  Of an application whose calls did not overlap one call at    *)
(* most is on its way, and it is known how far it has come (Undertakes).   *)
(*                                                                         *)
(* Metrics.  What was counted differs by what the calls being recorded     *)
(* still owe (Balanced).  Tracing.  The spans that have ended and those    *)
(* that are open belong to one trace, and what an end carries names one of *)
(* them (Carries).                                                         *)
(***************************************************************************)
EXTENDS Surroundings, Data_proofs

-----------------------------------------------------------------------------
(* Registries.                                                             *)

Sent == IF registry = "redis" THEN {"changed"} ELSE Provider

RegistryTypeOK ==
  /\ registry \in {"redis", "etcd", "nacos"}
  /\ op \in [Provider -> {"off", "stored", "published", "on", "deleted", "gone"}]
  /\ server \in [Provider -> Nat]
  /\ kept \in SUBSET Provider
  /\ due \in Int /\ -1 <= due /\ due <= Period
  /\ lease \in Int /\ -1 <= lease
  /\ sub \in [Listener -> {"off", "added", "on", "removed"}]
  /\ pending \in Seq(Sent)
  /\ known \in [Listener -> SUBSET Provider]
  /\ told \in [Listener -> SUBSET Provider]

\* A provider that is kept has more time left than the next heartbeat is away, and one
\* that is being registered has all of it.
Ahead ==
  /\ \A p \in kept : op[p] = "on" => due >= 0 /\ server[p] > due
  /\ \A p \in Provider : op[p] \in {"stored", "published"} => server[p] = Expire
  /\ \A p \in kept : op[p] # "gone"
  /\ registry = "etcd" => kept = {}
  /\ \A p \in Provider : op[p] \in {"stored", "published", "deleted"} => registry = "redis"

Unheard(l, p) == p \in told[l] /\ p \notin known[l]

\* What a listener was told of and does not know is announced and not taken back, and if
\* it is still at the server then a message is on its way that will bring it.
OnTheWay ==
  /\ \A l \in Listener : sub[l] = "off" => told[l] = {}
  /\ registry = "nacos" => \A l \in Listener : sub[l] # "added" /\ told[l] = {}
  /\ \A l \in Listeners, p \in Provider : Unheard(l, p) =>
       /\ op[p] \in {"published", "on", "gone"}
       /\ p \in Stored =>
            /\ registry = "redis" => pending # <<>>
            /\ registry = "etcd" => p \in ToSet(pending)

NotifierOff == registry = "nacos" => notifier = "off"

RegistryInv == RegistryTypeOK /\ NotifierOff /\ Ahead /\ OnTheWay

\* What a step of a registration changes.
RegistrationStep(p) ==
  \/ Hset(p) \/ Publish(p) \/ Insert(p) \/ Hdel(p) \/ RemoveEntry(p)
  \/ Put(p) \/ Delete(p)
  \/ Register(p) \/ Deregister(p)

TimeStep == Heartbeat \/ Tick \/ Destroy

ConsumerStep ==
  \/ \E l \in Listener : AddListener(l) \/ Snapshot(l) \/ Poll(l)
  \/ Hearken \/ LoseConnection \/ Process \/ Unsubscribe

LEMMA RegistrySteps ==
  ASSUME [RegistryNext]_registryVars
  PROVE  \/ \E p \in Provider : RegistrationStep(p)
         \/ TimeStep
         \/ ConsumerStep
         \/ UNCHANGED registryVars
BY DEF RegistryNext, RegistrationStep, TimeStep, ConsumerStep

LEMMA InitRegistryInv == RegistryInit => RegistryInv
<1> SUFFICES ASSUME RegistryInit PROVE RegistryInv
  OBVIOUS
<1> USE RegistryAssumption
<1>1. RegistryTypeOK
  BY DEF RegistryInit, RegistryTypeOK, Sent
<1>2. NotifierOff /\ Ahead
  BY DEF RegistryInit, NotifierOff, Ahead
<1>3. OnTheWay
  BY DEF RegistryInit, OnTheWay, Unheard, Listeners
<1> QED
  BY <1>1, <1>2, <1>3 DEF RegistryInv

-----------------------------------------------------------------------------
(* Types.                                                                  *)

LEMMA LessIsNat ==
  ASSUME NEW n \in Int, -1 <= n
  PROVE  /\ Less(n) \in Int /\ -1 <= Less(n) /\ Less(n) <= n
         /\ n \in Nat => Less(n) \in Nat
         /\ n > 0 => Less(n) = n - 1
         /\ n <= 0 => Less(n) = n
BY DEF Less

LEMMA AnnounceKeepsType ==
  ASSUME RegistryTypeOK, NEW p \in Provider, Announce(p)
  PROVE  /\ pending' \in Seq(Sent)
         /\ told' \in [Listener -> SUBSET Provider]
<1>1. Message(p) \in Sent
  BY DEF Message, Sent
<1>2. Append(pending, Message(p)) \in Seq(Sent)
  BY <1>1, AppendFacts DEF RegistryTypeOK
<1>3. CASE notifier = "on"
  <2>1. pending' = Append(pending, Message(p))
    BY <1>3 DEF Announce
  <2>2. told' = [l \in Listener |-> IF l \in Listeners THEN told[l] \cup {p} ELSE told[l]]
    BY <1>3 DEF Announce
  <2>3. told' \in [Listener -> SUBSET Provider]
    BY <2>2 DEF RegistryTypeOK
  <2> QED
    BY <1>2, <2>1, <2>3
<1>4. CASE notifier # "on"
  BY <1>4 DEF Announce, RegistryTypeOK
<1> QED
  BY <1>3, <1>4

LEMMA LearnKeepsType ==
  ASSUME RegistryTypeOK, NEW urls, urls \in SUBSET Provider, Learn(urls)
  PROVE  known' \in [Listener -> SUBSET Provider]
BY DEF Learn, RegistryTypeOK

LEMMA RegistrationKeepsType ==
  ASSUME RegistryTypeOK, NEW p \in Provider, RegistrationStep(p)
  PROVE  RegistryTypeOK'
<1> USE RegistryAssumption DEF RegistryTypeOK, Sent
<1>1. CASE Hset(p)
  BY <1>1 DEF Hset, Step, Store, consumerVars
<1>2. CASE Publish(p)
  BY <1>2, AnnounceKeepsType DEF Publish, Step, serverVars
<1>3. CASE Insert(p)
  BY <1>3 DEF Insert, Step, consumerVars
<1>4. CASE Hdel(p)
  BY <1>4 DEF Hdel, Step, Store, consumerVars
<1>5. CASE RemoveEntry(p)
  <2>1. Message(p) \in Sent
    BY DEF Message, Sent
  <2>2. pending' \in Seq(Sent)
    BY <1>5, <2>1, AppendFacts DEF RemoveEntry
  <2> QED
    BY <1>5, <2>2 DEF RemoveEntry, Step
<1>6. CASE Put(p)
  <2> DEFINE left == IF lease = -1 THEN Expire ELSE lease
  <2>1. left \in Int /\ -1 <= left /\ (left > 0 => left \in Nat)
    OBVIOUS
  <2>2. CASE left > 0
    BY <1>6, <2>1, <2>2, AnnounceKeepsType DEF Put, Step, Store
  <2>3. CASE ~(left > 0)
    BY <1>6, <2>1, <2>3 DEF Put
  <2> QED
    BY <2>2, <2>3
<1>7. CASE Delete(p)
  BY <1>7 DEF Delete, Step, Store, consumerVars
<1>8. CASE Register(p)
  BY <1>8 DEF Register, Step, Store, consumerVars
<1>9. CASE Deregister(p)
  BY <1>9 DEF Deregister, Step, Store, consumerVars
<1> QED
  BY <1>1, <1>2, <1>3, <1>4, <1>5, <1>6, <1>7, <1>8, <1>9 DEF RegistrationStep

LEMMA TimeKeepsType ==
  ASSUME RegistryTypeOK, TimeStep
  PROVE  RegistryTypeOK'
<1> USE RegistryAssumption DEF RegistryTypeOK, Sent
<1>1. CASE Heartbeat
  BY <1>1 DEF Heartbeat, consumerVars
<1>2. CASE Tick
  <2>1. /\ Less(due) \in Int /\ -1 <= Less(due) /\ Less(due) <= Period
        /\ Less(lease) \in Int /\ -1 <= Less(lease)
    BY LessIsNat
  <2>2. ASSUME NEW p \in Provider PROVE Less(server[p]) \in Nat
    BY DEF Less
  <2>3. server' \in [Provider -> Nat]
    BY <1>2, <2>2 DEF Tick
  <2> QED
    BY <1>2, <2>1, <2>3 DEF Tick, consumerVars
<1>3. CASE Destroy
  BY <1>3 DEF Destroy, consumerVars
<1> QED
  BY <1>1, <1>2, <1>3 DEF TimeStep

LEMMA ConsumerKeepsType ==
  ASSUME RegistryTypeOK, ConsumerStep
  PROVE  RegistryTypeOK'
<1> USE DEF RegistryTypeOK, Sent
<1>0. Stored \in SUBSET Provider
  BY DEF Stored
<1>1. ASSUME NEW l \in Listener, AddListener(l) PROVE RegistryTypeOK'
  BY <1>1 DEF AddListener, serverVars
<1>2. ASSUME NEW l \in Listener, Snapshot(l) PROVE RegistryTypeOK'
  BY <1>2, <1>0, LearnKeepsType DEF Snapshot, serverVars
<1>3. ASSUME NEW l \in Listener, Poll(l) PROVE RegistryTypeOK'
  BY <1>3, <1>0, LearnKeepsType DEF Poll, serverVars
<1>4. CASE Hearken \/ LoseConnection
  BY <1>4 DEF Hearken, LoseConnection, serverVars
<1>5. CASE Process
  <2>1. pending' \in Seq(Sent) /\ Head(pending) \in Sent
    BY <1>5 DEF Process
  <2>2. CASE registry = "redis"
    BY <1>0, <1>5, <2>1, <2>2, LearnKeepsType DEF Process, serverVars
  <2>3. CASE registry # "redis"
    BY <1>5, <2>1, <2>3, LearnKeepsType DEF Process, serverVars
  <2> QED
    BY <2>2, <2>3
<1>6. CASE Unsubscribe
  BY <1>6 DEF Unsubscribe, serverVars
<1> QED
  BY <1>1, <1>2, <1>3, <1>4, <1>5, <1>6 DEF ConsumerStep

-----------------------------------------------------------------------------
(* Time left at the server.                                                *)

LEMMA RegistrationKeepsAhead ==
  ASSUME RegistryTypeOK, Ahead, NEW p \in Provider, RegistrationStep(p)
  PROVE  Ahead'
<1> USE RegistryAssumption DEF RegistryTypeOK, Ahead
<1>1. CASE Hset(p)
  BY <1>1 DEF Hset, Step, Store, consumerVars
<1>2. CASE Publish(p)
  BY <1>2 DEF Publish, Step, serverVars
<1>3. CASE Insert(p)
  <2>1. server[p] = Expire /\ due' \in Int /\ due' >= 0 /\ due' <= Period
    BY <1>3 DEF Insert, Step
  <2>2. kept' = {p} /\ server' = server /\ op'[p] = "on" /\ registry' = registry
    BY <1>3 DEF Insert, Step
  <2>3. \A q \in Provider : op'[q] \in {"stored", "published"} => op'[q] = op[q]
    BY <1>3 DEF Insert, Step
  <2>4. registry = "redis"
    BY <1>3 DEF Insert, Step
  <2>5. due' >= 0 /\ server'[p] > due'
    BY <2>1, <2>2
  <2> QED
    BY <2>2, <2>3, <2>4, <2>5
<1>4. CASE Hdel(p)
  BY <1>4 DEF Hdel, Step, Store, consumerVars
<1>5. CASE RemoveEntry(p)
  BY <1>5 DEF RemoveEntry, Step
<1>6. CASE Put(p)
  BY <1>6 DEF Put, Step, Store
<1>7. CASE Delete(p)
  BY <1>7 DEF Delete, Step, Store, consumerVars
<1>8. CASE Register(p)
  BY <1>8 DEF Register, Step, Store, consumerVars
<1>9. CASE Deregister(p)
  BY <1>9 DEF Deregister, Step, Store, consumerVars
<1> QED
  BY <1>1, <1>2, <1>3, <1>4, <1>5, <1>6, <1>7, <1>8, <1>9 DEF RegistrationStep

\* A kept provider that is registered has not run out when its heartbeat comes.
LEMMA TimeKeepsAhead ==
  ASSUME RegistryTypeOK, Ahead, TimeStep
  PROVE  Ahead'
<1> USE RegistryAssumption DEF RegistryTypeOK, Ahead
<1>1. CASE Heartbeat
  <2>1. \A p \in kept : op[p] = "on" => p \in Kept
    BY <1>1 DEF Heartbeat, Kept, Refreshed, Stored
  <2>2. \A p \in Provider : server'[p] = Expire \/ server'[p] = server[p]
    BY <1>1 DEF Heartbeat
  <2>3. \A p \in Provider : p \in Kept => server'[p] = Expire
    BY <1>1 DEF Heartbeat
  <2>4. due' = Period /\ kept' = kept /\ op' = op /\ registry' = registry
    BY <1>1 DEF Heartbeat
  <2> QED
    BY <2>1, <2>2, <2>3, <2>4
<1>2. CASE Tick
  <2>1. \A p \in Provider : op'[p] = op[p] /\ op[p] \notin {"stored", "published"}
    BY <1>2 DEF Tick
  <2>2. ASSUME NEW p \in kept', op'[p] = "on" PROVE due' >= 0 /\ server'[p] > due'
    <3>1. p \in Provider /\ due > 0 /\ server[p] > due
      BY <1>2, <2>1, <2>2 DEF Tick
    <3>2. due' = due - 1 /\ server'[p] = server[p] - 1
      BY <1>2, <3>1 DEF Tick, Less
    <3> QED
      BY <3>1, <3>2
  <2>3. kept' = kept /\ registry' = registry
    BY <1>2 DEF Tick
  <2> QED
    BY <2>1, <2>2, <2>3
<1>3. CASE Destroy
  BY <1>3 DEF Destroy
<1> QED
  BY <1>1, <1>2, <1>3 DEF TimeStep

LEMMA ConsumerKeepsAhead ==
  ASSUME Ahead, ConsumerStep
  PROVE  Ahead'
<1>1. UNCHANGED <<op, server, kept, due, registry>>
  BY DEF ConsumerStep, AddListener, Snapshot, Poll, Hearken, LoseConnection, Process,
         Unsubscribe, serverVars
<1> QED
  BY <1>1 DEF Ahead

-----------------------------------------------------------------------------
(* What is heard.                                                          *)

\* Nothing that a listener was told of and does not know comes back to the server by a step
\* that leaves the consumer and its messages alone.
LEMMA QuietKeepsOnTheWay ==
  ASSUME RegistryTypeOK, OnTheWay, UNCHANGED <<registry, sub, known, pending>>,
         told' \in [Listener -> SUBSET Provider],
         \A l \in Listener : told'[l] \subseteq told[l],
         \A l \in Listeners, p \in Provider : Unheard(l, p) /\ p \in told'[l] =>
           /\ op'[p] \in {"published", "on", "gone"}
           /\ server'[p] > 0 => server[p] > 0
  PROVE  OnTheWay'
<1>1. Listeners' = Listeners
  BY DEF Listeners
<1>2. ASSUME NEW l \in Listeners, NEW p \in Provider, Unheard(l, p)'
      PROVE  /\ op'[p] \in {"published", "on", "gone"}
             /\ p \in Stored' =>
                  /\ registry = "redis" => pending # <<>>
                  /\ registry = "etcd" => p \in ToSet(pending)
  <2>1. l \in Listener /\ Unheard(l, p) /\ p \in told'[l]
    BY <1>2 DEF Unheard, Listeners
  <2>2. p \in Stored' => p \in Stored
    BY <2>1 DEF Stored
  <2> QED
    BY <2>1, <2>2 DEF OnTheWay
<1>3. \A l \in Listener : told[l] = {} => told'[l] = {}
  OBVIOUS
<1> QED
  BY <1>1, <1>2, <1>3 DEF OnTheWay

LEMMA AnnounceKeepsOnTheWay ==
  ASSUME RegistryTypeOK, NotifierOff, OnTheWay, NEW p \in Provider, Announce(p),
         UNCHANGED <<registry, sub, known>>,
         op' = [op EXCEPT ![p] = op'[p]], op'[p] \in {"published", "on"},
         \A q \in Provider \ {p} : server'[q] = server[q],
         op[p] \in {"off", "stored"}
  PROVE  OnTheWay'
<1>1. Listeners' = Listeners
  BY DEF Listeners
<1>2. Message(p) \in Sent /\ (registry = "etcd" => Message(p) = p)
  BY DEF Message, Sent
<1>3. Append(pending, Message(p)) # <<>>
      /\ ToSet(Append(pending, Message(p))) = ToSet(pending) \cup {Message(p)}
  BY <1>2, AppendFacts DEF RegistryTypeOK
<1>4. \A l \in Listeners : ~Unheard(l, p)
  BY DEF OnTheWay
<1>5. \A l \in Listener \ Listeners : told'[l] = told[l]
  BY DEF Announce, RegistryTypeOK
<1>6. registry = "nacos" => told' = told
  BY DEF Announce, NotifierOff
<1>7. ASSUME NEW l \in Listeners, NEW q \in Provider, Unheard(l, q)'
      PROVE  /\ op'[q] \in {"published", "on", "gone"}
             /\ q \in Stored' =>
                  /\ registry = "redis" => pending' # <<>>
                  /\ registry = "etcd" => q \in ToSet(pending')
  <2>0. l \in Listener
    BY DEF Listeners
  <2>1. CASE q = p
    <3>1. notifier = "on"
      BY <1>4, <1>7, <2>0, <2>1 DEF Announce, Unheard
    <3> QED
      BY <1>2, <1>3, <2>1, <3>1 DEF Announce
  <2>2. CASE q # p
    <3>1. Unheard(l, q)
      BY <1>7, <2>0, <2>2 DEF Announce, Unheard, RegistryTypeOK
    <3>2. op'[q] = op[q] /\ (q \in Stored' => q \in Stored)
      BY <2>2 DEF Stored, RegistryTypeOK
    <3>3. /\ pending # <<>> => pending' # <<>>
          /\ ToSet(pending) \subseteq ToSet(pending')
      BY <1>3 DEF Announce
    <3> QED
      BY <3>1, <3>2, <3>3 DEF OnTheWay
  <2> QED
    BY <2>1, <2>2
<1>8. \A l \in Listener : sub[l] = "off" => l \notin Listeners
  BY DEF Listeners
<1> QED
  BY <1>1, <1>5, <1>6, <1>7, <1>8 DEF OnTheWay

LEMMA RegistrationKeepsOnTheWay ==
  ASSUME RegistryTypeOK, NotifierOff, Ahead, OnTheWay, NEW p \in Provider,
         RegistrationStep(p)
  PROVE  OnTheWay'
<1> USE RegistryAssumption
<1>0. told \in [Listener -> SUBSET Provider] /\ told' \in [Listener -> SUBSET Provider]
  BY RegistrationKeepsType DEF RegistryTypeOK
<1>1. CASE op[p] \in {"off", "deleted"} /\ (Hset(p) \/ Register(p))
  <2>1. \A l \in Listeners : ~Unheard(l, p)
    BY <1>1 DEF OnTheWay
  <2>2. \A q \in Provider \ {p} : op'[q] = op[q] /\ server'[q] = server[q]
    BY <1>1 DEF Hset, Register, Step, Store, RegistryTypeOK
  <2>3. UNCHANGED <<registry, sub, known, pending, told>>
    BY <1>1 DEF Hset, Register, consumerVars
  <2>4. \A l \in Listeners, q \in Provider : Unheard(l, q) =>
          /\ op'[q] \in {"published", "on", "gone"}
          /\ server'[q] = server[q]
    BY <2>1, <2>2 DEF OnTheWay
  <2> QED
    BY <1>0, <2>3, <2>4, QuietKeepsOnTheWay
<1>2. CASE Publish(p)
  <2>1. op[p] = "stored" /\ op' = [op EXCEPT ![p] = "published"] /\ Announce(p)
    BY <1>2 DEF Publish, Step
  <2>2. UNCHANGED <<registry, sub, known, server>>
    BY <1>2 DEF Publish, serverVars
  <2>3. op'[p] = "published"
    BY <2>1 DEF RegistryTypeOK
  <2> QED
    BY <2>1, <2>2, <2>3, AnnounceKeepsOnTheWay
<1>3. CASE Insert(p)
  <2>1. \A q \in Provider : op'[q] = op[q] \/ op'[q] = "on"
    BY <1>3 DEF Insert, Step, RegistryTypeOK
  <2>2. UNCHANGED <<registry, sub, known, pending, told, server>>
    BY <1>3 DEF Insert, consumerVars
  <2>3. \A l \in Listeners, q \in Provider : Unheard(l, q) =>
          /\ op'[q] \in {"published", "on", "gone"}
          /\ server'[q] = server[q]
    BY <2>1, <2>2 DEF OnTheWay
  <2> QED
    BY <1>0, <2>2, <2>3, QuietKeepsOnTheWay
<1>4. CASE Hdel(p) \/ Delete(p) \/ Deregister(p)
  <2>1. \A q \in Provider \ {p} : op'[q] = op[q] /\ server'[q] = server[q]
    BY <1>4 DEF Hdel, Delete, Deregister, Step, Store, RegistryTypeOK
  <2>2. UNCHANGED <<registry, sub, known, pending>>
    BY <1>4 DEF Hdel, Delete, Deregister, consumerVars
  <2>3. told' = [l \in Listener |-> told[l] \ {p}]
    BY <1>4 DEF Hdel, Delete, Deregister
  <2>4. \A l \in Listener : told'[l] \subseteq told[l] /\ p \notin told'[l]
    BY <2>3
  <2>5. \A l \in Listeners, q \in Provider : Unheard(l, q) /\ q \in told'[l] =>
          /\ op'[q] \in {"published", "on", "gone"}
          /\ server'[q] = server[q]
    BY <2>1, <2>4 DEF OnTheWay, Listeners
  <2> QED
    BY <1>0, <2>2, <2>4, <2>5, QuietKeepsOnTheWay
<1>5. CASE RemoveEntry(p)
  <2>1. op[p] = "deleted" /\ registry = "redis"
    BY <1>5 DEF RemoveEntry, Step, Ahead
  <2>2. UNCHANGED <<registry, sub, known, told, server>>
    BY <1>5 DEF RemoveEntry
  <2>3. Message(p) \in Sent
    BY DEF Message, Sent
  <2>4. Append(pending, Message(p)) # <<>>
    BY <2>3, AppendFacts DEF RegistryTypeOK
  <2>5. pending # <<>> => pending' # <<>>
    BY <1>5, <2>4 DEF RemoveEntry
  <2>6. \A q \in Provider \ {p} : op'[q] = op[q]
    BY <1>5 DEF RemoveEntry, Step, RegistryTypeOK
  <2> QED
    BY <2>1, <2>2, <2>5, <2>6 DEF OnTheWay, Unheard, Listeners, Stored
<1>6. CASE Put(p)
  <2> DEFINE left == IF lease = -1 THEN Expire ELSE lease
  <2>1. UNCHANGED <<registry, sub, known>> /\ op[p] = "off"
    BY <1>6 DEF Put
  <2>2. CASE left > 0
    <3>1. op' = [op EXCEPT ![p] = "on"] /\ Announce(p)
          /\ server' = [server EXCEPT ![p] = left]
      BY <1>6, <2>2 DEF Put, Step, Store
    <3>2. op'[p] = "on" /\ \A q \in Provider \ {p} : server'[q] = server[q]
      BY <3>1 DEF RegistryTypeOK
    <3> QED
      BY <2>1, <3>1, <3>2, AnnounceKeepsOnTheWay
  <2>3. CASE ~(left > 0)
    <3>1. UNCHANGED <<op, server, pending, told>>
      BY <1>6, <2>3 DEF Put
    <3> QED
      BY <2>1, <3>1 DEF OnTheWay, Unheard, Listeners, Stored
  <2> QED
    BY <2>2, <2>3
<1>7. Hset(p) \/ Register(p) => op[p] = "off"
  BY DEF Hset, Register, Step
<1> QED
  BY <1>1, <1>2, <1>3, <1>4, <1>5, <1>6, <1>7 DEF RegistrationStep

LEMMA TimeKeepsOnTheWay ==
  ASSUME RegistryTypeOK, Ahead, OnTheWay, TimeStep
  PROVE  OnTheWay'
<1> USE RegistryAssumption
<1>0. UNCHANGED <<registry, sub, known, pending, told>>
  BY DEF TimeStep, Heartbeat, Tick, Destroy, consumerVars
<1>1. ASSUME NEW l \in Listeners, NEW p \in Provider, Unheard(l, p)
      PROVE  /\ op'[p] \in {"published", "on", "gone"}
             /\ server'[p] > 0 => server[p] > 0
  <2>1. op[p] \in {"published", "on", "gone"}
    BY <1>1 DEF OnTheWay
  <2>2. CASE Heartbeat
    <3>1. op'[p] = op[p] /\ (p \notin Kept => server'[p] = server[p])
      BY <2>2 DEF Heartbeat
    <3>2. CASE p \in Kept
      <4>1. p \in kept
        BY <3>2 DEF Kept, Refreshed
      <4>2. CASE op[p] = "on"
        <5>1. due >= 0 /\ server[p] > due
          BY <4>1, <4>2 DEF Ahead
        <5> QED
          BY <2>1, <3>1, <5>1 DEF RegistryTypeOK
      <4>3. CASE op[p] = "published"
        BY <2>1, <3>1, <4>3 DEF Ahead
      <4> QED
        BY <2>1, <4>1, <4>2, <4>3 DEF Ahead
    <3> QED
      BY <2>1, <3>1, <3>2
  <2>3. CASE Tick
    <3>1. op'[p] = op[p] /\ server'[p] = Less(server[p])
      BY <2>3 DEF Tick
    <3> QED
      BY <2>1, <3>1 DEF Less, RegistryTypeOK
  <2>4. CASE Destroy
    BY <2>4 DEF Destroy
  <2> QED
    BY <2>2, <2>3, <2>4 DEF TimeStep
<1>2. told' \in [Listener -> SUBSET Provider] /\ \A l \in Listener : told'[l] \subseteq told[l]
  BY <1>0 DEF RegistryTypeOK
<1> QED
  BY <1>0, <1>1, <1>2, QuietKeepsOnTheWay

LEMMA TailElements ==
  ASSUME NEW E, NEW seq \in Seq(E), seq # <<>>
  PROVE  /\ Tail(seq) \in Seq(E) /\ Head(seq) \in E
         /\ ToSet(seq) = {Head(seq)} \cup ToSet(Tail(seq))
<1> DEFINE rest == Tail(seq)
<1>1. /\ Len(seq) \in Nat /\ Len(seq) > 0 /\ DOMAIN seq = 1 .. Len(seq)
      /\ rest \in Seq(E) /\ Len(rest) = Len(seq) - 1 /\ DOMAIN rest = 1 .. Len(rest)
      /\ \A i \in 1 .. Len(rest) : rest[i] = seq[i + 1]
      /\ Head(seq) = seq[1] /\ Head(seq) \in E
  OBVIOUS
<1>2. ASSUME NEW i \in 1 .. Len(seq), i # 1
      PROVE  i - 1 \in 1 .. Len(rest) /\ rest[i - 1] = seq[i]
  <2>1. i - 1 \in 1 .. Len(rest) /\ (i - 1) + 1 = i
    BY <1>1, <1>2
  <2> QED
    BY <1>1, <2>1
<1>3. \A i \in 1 .. Len(rest) : i + 1 \in 1 .. Len(seq)
  BY <1>1
<1>4. ASSUME NEW e \in ToSet(seq) PROVE e = Head(seq) \/ e \in ToSet(rest)
  <2>1. PICK i \in 1 .. Len(seq) : e = seq[i]
    BY <1>1, <1>4 DEF ToSet
  <2> QED
    BY <1>1, <1>2, <2>1 DEF ToSet
<1>5. ASSUME NEW e \in ToSet(rest) PROVE e \in ToSet(seq)
  <2>1. PICK i \in 1 .. Len(rest) : e = rest[i]
    BY <1>1, <1>5 DEF ToSet
  <2> QED
    BY <1>1, <1>3, <2>1 DEF ToSet
<1>6. Head(seq) \in ToSet(seq)
  <2>1. 1 \in DOMAIN seq
    BY <1>1
  <2> QED
    BY <1>1, <2>1 DEF ToSet
<1> QED
  BY <1>1, <1>4, <1>5, <1>6

LEMMA ConsumerKeepsOnTheWay ==
  ASSUME RegistryTypeOK, NotifierOff, OnTheWay, ConsumerStep
  PROVE  OnTheWay'
<1>0. UNCHANGED <<registry, op, server>> /\ Stored' = Stored
  BY DEF ConsumerStep, AddListener, Snapshot, Poll, Hearken, LoseConnection, Process,
         Unsubscribe, serverVars, Stored
<1>1. ASSUME NEW l \in Listener, AddListener(l) PROVE OnTheWay'
  <2>1. UNCHANGED <<known, told, pending>> /\ told[l] = {}
    BY <1>1 DEF AddListener, OnTheWay
  <2>2. /\ sub'[l] \in {"on", "added"} /\ (registry = "nacos" => sub'[l] = "on")
        /\ \A m \in Listener \ {l} : sub'[m] = sub[m]
    BY <1>1 DEF AddListener, RegistryTypeOK
  <2>3. \A m \in Listeners' : m = l \/ m \in Listeners
    BY <2>2 DEF Listeners
  <2> QED
    BY <1>0, <2>1, <2>2, <2>3 DEF OnTheWay, Unheard
<1>2. ASSUME NEW l \in Listener, Snapshot(l) PROVE OnTheWay'
  <2>1. l \in Listeners /\ registry # "nacos" /\ pending' = pending
    BY <1>2 DEF Snapshot, Listeners, OnTheWay
  <2>2. Listeners' = Listeners
    BY <1>2 DEF Snapshot, Listeners, RegistryTypeOK
  <2>3. \A m \in Listeners : known'[m] = known[m] \cup Stored
    BY <1>2 DEF Snapshot, Learn, Listeners
  <2>4. \A m \in Listener : told'[m] = told[m] \/ (m = l /\ told'[m] = told[m] \cup Stored)
    BY <1>2 DEF Snapshot, RegistryTypeOK
  <2>5. \A m \in Listeners, p \in Provider : Unheard(m, p)' => Unheard(m, p)
    BY <2>3, <2>4 DEF Unheard, Listeners
  <2>6. \A m \in Listener : sub'[m] = "off" => sub[m] = "off" /\ m # l
    BY <1>2 DEF Snapshot, RegistryTypeOK
  <2> QED
    BY <1>0, <2>1, <2>2, <2>4, <2>5, <2>6 DEF OnTheWay
<1>3. ASSUME NEW l \in Listener, Poll(l) PROVE OnTheWay'
  <2>1. registry = "nacos" /\ UNCHANGED <<sub, told>>
    BY <1>3 DEF Poll
  <2> QED
    BY <1>0, <2>1 DEF OnTheWay, Unheard, Listeners
<1>4. CASE Hearken \/ LoseConnection
  <2>1. UNCHANGED <<sub, pending, known, told>>
    BY <1>4 DEF Hearken, LoseConnection
  <2> QED
    BY <1>0, <2>1 DEF OnTheWay, Unheard, Listeners
<1>5. CASE Process
  <2>1. UNCHANGED <<sub, told>> /\ pending # <<>> /\ pending' = Tail(pending)
    BY <1>5 DEF Process
  <2>2. Listeners' = Listeners
    BY <2>1 DEF Listeners
  <2>3. \A m \in Listeners : known'[m] =
          known[m] \cup (IF registry = "redis" THEN Stored ELSE {Head(pending)})
    BY <1>5 DEF Process, Learn, Listeners
  <2>4. \A p \in ToSet(pending) : p = Head(pending) \/ p \in ToSet(pending')
    BY <2>1, TailElements DEF RegistryTypeOK
  <2>5. \A m \in Listeners, p \in Provider : Unheard(m, p)' => Unheard(m, p)
    BY <2>1, <2>3 DEF Unheard
  <2>6. \A m \in Listeners, p \in Provider : Unheard(m, p)' /\ p \in Stored =>
          /\ registry # "redis"
          /\ registry = "etcd" => p \in ToSet(pending')
    BY <2>1, <2>3, <2>4, <2>5 DEF Unheard, OnTheWay
  <2> QED
    BY <1>0, <2>1, <2>2, <2>5, <2>6 DEF OnTheWay
<1>6. CASE Unsubscribe
  <2>1. /\ UNCHANGED <<told, known, pending>>
        /\ \A l \in Listener : sub'[l] = sub[l] \/ sub'[l] = "removed"
    BY <1>6 DEF Unsubscribe
  <2>2. Listeners' \subseteq Listeners
    BY <2>1 DEF Listeners
  <2> QED
    BY <1>0, <2>1, <2>2 DEF OnTheWay, Unheard
<1> QED
  BY <1>1, <1>2, <1>3, <1>4, <1>5, <1>6 DEF ConsumerStep

LEMMA NotifierStaysOff ==
  ASSUME NotifierOff, [RegistryNext]_registryVars
  PROVE  NotifierOff'
<1>1. ASSUME NEW p \in Provider, RegistrationStep(p) PROVE UNCHANGED <<registry, notifier>>
  BY <1>1 DEF RegistrationStep, Hset, Publish, Insert, Hdel, RemoveEntry, Put, Delete, Register,
              Deregister, consumerVars
<1>2. TimeStep => UNCHANGED <<registry, notifier>>
  BY DEF TimeStep, Heartbeat, Tick, Destroy, consumerVars
<1>3. ConsumerStep => registry' = registry /\ (notifier' = notifier \/ registry # "nacos")
  BY DEF ConsumerStep, AddListener, Snapshot, Poll, Hearken, LoseConnection, Process,
         Unsubscribe, NotifierOff
<1>4. UNCHANGED registryVars => UNCHANGED <<registry, notifier>>
  BY DEF registryVars, consumerVars
<1> QED
  BY <1>1, <1>2, <1>3, <1>4, RegistrySteps DEF NotifierOff

LEMMA NextRegistryInv == RegistryInv /\ [RegistryNext]_registryVars => RegistryInv'
<1> SUFFICES ASSUME RegistryInv, [RegistryNext]_registryVars PROVE RegistryInv'
  OBVIOUS
<1> USE DEF RegistryInv
<1>1. ASSUME NEW p \in Provider, RegistrationStep(p) PROVE RegistryInv'
  BY <1>1, NotifierStaysOff, RegistrationKeepsType, RegistrationKeepsAhead,
     RegistrationKeepsOnTheWay
<1>2. CASE TimeStep
  BY <1>2, NotifierStaysOff, TimeKeepsType, TimeKeepsAhead, TimeKeepsOnTheWay
<1>3. CASE ConsumerStep
  BY <1>3, NotifierStaysOff, ConsumerKeepsType, ConsumerKeepsAhead, ConsumerKeepsOnTheWay
<1>4. CASE UNCHANGED registryVars
  BY <1>4 DEF registryVars, serverVars, consumerVars, RegistryTypeOK, Sent, NotifierOff, Ahead,
              OnTheWay, Unheard, Listeners, Stored
<1> QED
  BY <1>1, <1>2, <1>3, <1>4, RegistrySteps

LEMMA RegistryInvSuffices == RegistryInv => KeptAlive /\ HeardIsKnown
<1> SUFFICES ASSUME RegistryInv PROVE KeptAlive /\ HeardIsKnown
  OBVIOUS
<1> USE DEF RegistryInv, RegistryTypeOK
<1>1. KeptAlive
  BY DEF KeptAlive, Ahead
<1>2. ASSUME pending = <<>>, NEW l \in Listeners, NEW p \in told[l] \cap Stored
      PROVE  p \in known[l]
  <2>1. ToSet(pending) = {}
    BY <1>2 DEF ToSet
  <2>2. registry = "nacos" => told[l] = {}
    BY DEF OnTheWay, Listeners
  <2>3. p \in Provider
    BY DEF Stored
  <2> QED
    BY <1>2, <2>1, <2>2, <2>3 DEF OnTheWay, Unheard
<1> QED
  BY <1>1, <1>2 DEF HeardIsKnown

-----------------------------------------------------------------------------
(* InMemoryServiceDiscovery.                                               *)

Pending == [kind : {"add", "remove"}, of : Instance, told : Seq(Watcher),
            at : {"stored", "telling"}]

DiscoveryTypeOK ==
  /\ instances \in Seq(Instance)
  /\ watchers \in Seq(Watcher)
  /\ doing \in [Caller -> Pending \cup {Idle}]
  /\ listening \in [Watcher -> {"before", "on", "after"}]
  /\ seenBy \in [Watcher -> SUBSET Instance]
  /\ owed \in [Watcher -> SUBSET Instance]

\* Nobody is told before its subscription.
Subscribed ==
  /\ \A l \in Watcher : listening[l] = "before" => seenBy[l] = {} /\ owed[l] = {}
  /\ \A l \in ToSet(watchers) : listening[l] = "on"
  /\ \A c \in Caller : \A l \in ToSet(doing[c].told) : listening[l] # "before"
  /\ \A c \in Caller : doing[c].at = "telling" => doing[c].told # <<>>

AtRest(i) ==
  \A l \in ToSet(watchers) :
    /\ i \in owed[l] => i \in seenBy[l]
    /\ i \in seenBy[l] => i \in ToSet(instances)

\* What a directory lacks, or has too many, while a call of the instance is on its way.
OnItsWay(i, c) ==
  /\ doing[c].kind = "add" =>
       /\ i \in ToSet(instances)
       /\ doing[c].at = "telling" => \A l \in ToSet(watchers) :
            i \in owed[l] => i \in seenBy[l] \/ l \in ToSet(doing[c].told)
  /\ doing[c].kind = "remove" =>
       /\ \A l \in Watcher : i \notin owed[l]
       /\ doing[c].at = "telling" => \A l \in ToSet(watchers) :
            i \in seenBy[l] => l \in ToSet(doing[c].told)

InstanceInv(i) ==
  /\ \A c, d \in Caller : doing[c].of = i /\ doing[d].of = i => c = d
  /\ (\A c \in Caller : doing[c].of # i) => AtRest(i)
  /\ \A c \in Caller : doing[c].of = i => OnItsWay(i, c)

DiscoveryInv ==
  DiscoveryTypeOK /\ Subscribed /\ \A i \in Instance \ clashed : InstanceInv(i)

LEMMA NoneIsNoInstance == None \notin Instance
BY DiscoveryAssumption DEF Instance

\* The URL of an instance gives back the instance.
LEMMA UrlRoundTrip ==
  ASSUME NEW i \in Instance
  PROVE  FromUrl(ToUrl(i)) = i
BY DEF Instance, FromUrl, ToUrl

LEMMA CallFacts ==
  ASSUME DiscoveryTypeOK, NEW c \in Caller
  PROVE  /\ doing[c] \in Pending \/ doing[c] = Idle
         /\ doing[c].told \in Seq(Watcher)
         /\ doing[c].of \in Instance => doing[c] \in Pending
         /\ doing[c].at # "idle" => doing[c] \in Pending
<1>1. doing[c] \in Pending \/ doing[c] = Idle
  BY DEF DiscoveryTypeOK
<1>2. CASE doing[c] \in Pending
  BY <1>2 DEF Pending
<1>3. CASE doing[c] = Idle
  BY <1>3, NoneIsNoInstance DEF Idle
<1> QED
  BY <1>1, <1>2, <1>3

LEMMA InitDiscoveryInv == DiscoveryInit => DiscoveryInv
<1> SUFFICES ASSUME DiscoveryInit PROVE DiscoveryInv
  OBVIOUS
<1>1. DiscoveryTypeOK
  BY DEF DiscoveryInit, DiscoveryTypeOK
<1>2. ToSet(watchers) = {} /\ \A c \in Caller : doing[c] = Idle /\ ToSet(Idle.told) = {}
  BY DEF DiscoveryInit, ToSet, Idle
<1>3. Subscribed
  BY <1>2 DEF DiscoveryInit, Subscribed, Idle
<1>4. \A i \in Instance : InstanceInv(i)
  BY <1>2, NoneIsNoInstance DEF InstanceInv, AtRest, Idle
<1> QED
  BY <1>1, <1>3, <1>4 DEF DiscoveryInv

\* An instance that a step is not about.
LEMMA InstanceStays ==
  ASSUME NEW i, InstanceInv(i),
         \A c \in Caller : doing[c].of = i => doing'[c] = doing[c],
         \A c \in Caller : doing'[c].of = i => doing[c].of = i,
         i \in ToSet(instances) <=> i \in ToSet(instances'),
         \A l \in Watcher : /\ i \in owed[l] <=> i \in owed'[l]
                            /\ i \in seenBy[l] <=> i \in seenBy'[l],
         \A l \in ToSet(watchers') :
           l \in Watcher /\ (l \in ToSet(watchers) \/ (i \notin owed[l] /\ i \notin seenBy[l]))
  PROVE  InstanceInv(i)'
<1>1. \A c, d \in Caller : doing'[c].of = i /\ doing'[d].of = i => c = d
  BY DEF InstanceInv
<1>2. ASSUME \A c \in Caller : doing'[c].of # i PROVE AtRest(i)'
  <2>1. AtRest(i)
    BY <1>2 DEF InstanceInv
  <2> QED
    BY <2>1 DEF AtRest
<1>3. ASSUME NEW c \in Caller, doing'[c].of = i PROVE OnItsWay(i, c)'
  <2>1. OnItsWay(i, c) /\ doing'[c] = doing[c]
    BY <1>3 DEF InstanceInv
  <2> QED
    BY <2>1 DEF OnItsWay
<1> QED
  BY <1>1, <1>2, <1>3 DEF InstanceInv

LEMMA AlterKeeps ==
  ASSUME DiscoveryInv, NEW c \in Caller, NEW i \in Instance,
         RegisterInstance(c, i) \/ UnregisterInstance(c, i)
  PROVE  DiscoveryInv'
<1> DEFINE new(k) == [kind |-> k, of |-> i, told |-> <<>>, at |-> "stored"]
<1>1. /\ doing[c] = Idle
      /\ UNCHANGED <<watchers, listening, seenBy>>
      /\ clashed' = IF \E d \in Caller : doing[d].of = i THEN clashed \cup {i} ELSE clashed
  BY DEF RegisterInstance, UnregisterInstance, Alter
<1>2. PICK k \in {"add", "remove"} :
        /\ doing' = [doing EXCEPT ![c] = new(k)]
        /\ k = "add" => RegisterInstance(c, i)
        /\ k = "remove" => UnregisterInstance(c, i)
  BY DEF RegisterInstance, UnregisterInstance, Alter
<1>3. doing'[c] = new(k) /\ \A d \in Caller \ {c} : doing'[d] = doing[d]
  BY <1>2 DEF DiscoveryInv, DiscoveryTypeOK
<1>4. /\ new(k) \in Pending /\ ToSet(new(k).told) = {}
  BY DEF Pending, ToSet
<1>5. /\ instances' \in Seq(Instance)
      /\ k = "add" => ToSet(instances') = ToSet(instances) \cup {i}
      /\ k = "remove" => ToSet(instances') = ToSet(instances) \cap (Instance \ {i})
  <2>1. CASE k = "add"
    <3>1. instances' = Append(instances, i) /\ instances \in Seq(Instance)
      BY <1>2, <2>1 DEF RegisterInstance, DiscoveryInv, DiscoveryTypeOK
    <3>2. /\ Append(instances, i) \in Seq(Instance)
          /\ ToSet(Append(instances, i)) = ToSet(instances) \cup {i}
      BY <3>1, AppendFacts
    <3> QED
      BY <2>1, <3>1, <3>2
  <2>2. CASE k = "remove"
    BY <1>2, <2>2, KeepElements DEF UnregisterInstance, DiscoveryInv, DiscoveryTypeOK
  <2> QED
    BY <2>1, <2>2
<1>6. /\ owed' \in [Watcher -> SUBSET Instance]
      /\ \A l \in Watcher :
           /\ \A j \in Instance \ {i} : j \in owed'[l] <=> j \in owed[l]
           /\ l \notin ToSet(watchers) => owed'[l] \subseteq owed[l]
           /\ k = "remove" => i \notin owed'[l]
  <2>1. CASE k = "add"
    <3>1. owed' = [l \in Watcher |->
                     IF l \in ToSet(watchers) THEN owed[l] \cup {i} ELSE owed[l]]
      BY <1>2, <2>1 DEF RegisterInstance
    <3> QED
      BY <2>1, <3>1 DEF DiscoveryInv, DiscoveryTypeOK
  <2>2. CASE k = "remove"
    <3>1. owed' = [l \in Watcher |-> owed[l] \ {i}]
      BY <1>2, <2>2 DEF UnregisterInstance
    <3> QED
      BY <2>2, <3>1 DEF DiscoveryInv, DiscoveryTypeOK
  <2> QED
    BY <2>1, <2>2
<1>7. DiscoveryTypeOK'
  BY <1>1, <1>2, <1>4, <1>5, <1>6 DEF DiscoveryInv, DiscoveryTypeOK
<1>8. Subscribed'
  <2>1. \A l \in Watcher : listening[l] = "before" => l \notin ToSet(watchers)
    BY DEF DiscoveryInv, Subscribed
  <2>2. \A l \in Watcher : listening'[l] = "before" => seenBy'[l] = {} /\ owed'[l] = {}
    BY <1>1, <1>6, <2>1 DEF DiscoveryInv, Subscribed
  <2>3. ASSUME NEW d \in Caller
        PROVE  /\ \A l \in ToSet(doing'[d].told) : listening'[l] # "before"
               /\ doing'[d].at = "telling" => doing'[d].told # <<>>
    <3>1. CASE d = c
      BY <1>3, <1>4, <3>1
    <3>2. CASE d # c
      BY <1>1, <1>3, <3>2 DEF DiscoveryInv, Subscribed
    <3> QED
      BY <3>1, <3>2
  <2> QED
    BY <1>1, <2>2, <2>3 DEF DiscoveryInv, Subscribed
<1>9. ASSUME NEW j \in Instance \ clashed' PROVE InstanceInv(j)'
  <2>1. InstanceInv(j)
    BY <1>1, <1>9 DEF DiscoveryInv
  <2>2. doing[c].of \notin Instance
    BY <1>1, NoneIsNoInstance DEF Idle
  <2>3. CASE j # i
    <3>1. \A d \in Caller : doing[d].of = j => doing'[d] = doing[d]
      BY <1>3, <2>2
    <3>2. \A d \in Caller : doing'[d].of = j => doing[d].of = j
      BY <1>3, <2>3
    <3>3. j \in ToSet(instances) <=> j \in ToSet(instances')
      BY <1>5, <2>3
    <3>4. \A l \in ToSet(watchers') : l \in Watcher /\ l \in ToSet(watchers)
      BY <1>1 DEF DiscoveryInv, DiscoveryTypeOK, ToSet
    <3> QED
      BY <1>1, <1>6, <2>1, <2>3, <3>1, <3>2, <3>3, <3>4, InstanceStays
  <2>4. CASE j = i
    <3>1. \A d \in Caller : doing[d].of # i
      BY <1>1, <1>9, <2>4
    <3>2. \A d \in Caller : doing'[d].of = i => d = c
      BY <1>3, <3>1
    <3>3. OnItsWay(i, c)'
      BY <1>3, <1>5, <1>6 DEF OnItsWay
    <3>4. doing'[c].of = i
      BY <1>3
    <3> QED
      BY <2>4, <3>2, <3>3, <3>4 DEF InstanceInv
  <2> QED
    BY <2>3, <2>4
<1> QED
  BY <1>7, <1>8, <1>9 DEF DiscoveryInv

LEMMA ReadWatchersKeeps ==
  ASSUME DiscoveryInv, NEW c \in Caller, ReadWatchers(c)
  PROVE  DiscoveryInv'
<1> DEFINE read == [doing[c] EXCEPT !.at = "telling", !.told = watchers]
<1>1. /\ doing[c].at = "stored"
      /\ UNCHANGED <<instances, watchers, listening, seenBy, owed, clashed>>
      /\ doing' = [doing EXCEPT ![c] = IF watchers = <<>> THEN Idle ELSE read]
  BY DEF ReadWatchers
<1>2. doing'[c] = (IF watchers = <<>> THEN Idle ELSE read)
      /\ \A d \in Caller \ {c} : doing'[d] = doing[d]
  BY <1>1 DEF DiscoveryInv, DiscoveryTypeOK
<1>3. doing[c] \in Pending
  BY <1>1, CallFacts DEF DiscoveryInv
<1>4. /\ read \in Pending /\ read.told = watchers /\ read.at = "telling"
      /\ read.of = doing[c].of /\ read.kind = doing[c].kind
  BY <1>3 DEF Pending, DiscoveryInv, DiscoveryTypeOK
<1>5. DiscoveryTypeOK'
  BY <1>1, <1>4 DEF DiscoveryInv, DiscoveryTypeOK
<1>6. Subscribed'
  <2>1. ASSUME NEW d \in Caller
        PROVE  /\ \A l \in ToSet(doing'[d].told) : listening'[l] # "before"
               /\ doing'[d].at = "telling" => doing'[d].told # <<>>
    <3>1. CASE d = c /\ watchers = <<>>
      BY <1>2, <3>1 DEF Idle, ToSet
    <3>2. CASE d = c /\ watchers # <<>>
      BY <1>1, <1>2, <1>4, <3>2 DEF DiscoveryInv, Subscribed
    <3>3. CASE d # c
      BY <1>1, <1>2, <3>3 DEF DiscoveryInv, Subscribed
    <3> QED
      BY <3>1, <3>2, <3>3
  <2> QED
    BY <1>1, <2>1 DEF DiscoveryInv, Subscribed
<1>7. ASSUME NEW i \in Instance \ clashed' PROVE InstanceInv(i)'
  <2>1. InstanceInv(i)
    BY <1>1, <1>7 DEF DiscoveryInv
  <2>2. CASE doing[c].of # i
    <3>1. doing'[c].of # i
      BY <1>2, <1>4, <2>2, NoneIsNoInstance DEF Idle
    <3>2. \A l \in ToSet(watchers') : l \in Watcher /\ l \in ToSet(watchers)
      BY <1>1 DEF DiscoveryInv, DiscoveryTypeOK, ToSet
    <3> QED
      BY <1>1, <1>2, <2>1, <2>2, <3>1, <3>2, InstanceStays
  <2>3. CASE doing[c].of = i
    <3>1. \A d \in Caller \ {c} : doing'[d].of # i
      BY <1>2, <2>1, <2>3 DEF InstanceInv
    <3>2. OnItsWay(i, c)
      BY <2>1, <2>3 DEF InstanceInv
    <3>3. CASE watchers = <<>>
      <4>1. ToSet(watchers') = {}
        BY <1>1, <3>3 DEF ToSet
      <4>2. doing'[c].of # i
        BY <1>2, <3>3, NoneIsNoInstance DEF Idle
      <4> QED
        BY <3>1, <4>1, <4>2 DEF InstanceInv, AtRest
    <3>4. CASE watchers # <<>>
      <4>1. doing'[c] = read
        BY <1>2, <3>4
      <4>2. OnItsWay(i, c)'
        BY <1>1, <1>4, <3>2, <4>1 DEF OnItsWay
      <4>3. doing'[c].of = i
        BY <1>4, <2>3, <4>1
      <4> QED
        BY <3>1, <4>2, <4>3 DEF InstanceInv
    <3> QED
      BY <3>3, <3>4
  <2> QED
    BY <2>2, <2>3
<1> QED
  BY <1>5, <1>6, <1>7 DEF DiscoveryInv

LEMMA TellKeeps ==
  ASSUME DiscoveryInv, NEW c \in Caller, Tell(c)
  PROVE  DiscoveryInv'
<1> DEFINE of == doing[c].of
           l == Head(doing[c].told)
           rest == Tail(doing[c].told)
           more == [doing[c] EXCEPT !.told = rest]
<1>1. /\ doing[c].at = "telling"
      /\ UNCHANGED <<instances, watchers, listening, owed, clashed>>
      /\ doing' = [doing EXCEPT ![c] = IF rest = <<>> THEN Idle ELSE more]
  BY DEF Tell
<1>2. doing'[c] = (IF rest = <<>> THEN Idle ELSE more)
      /\ \A d \in Caller \ {c} : doing'[d] = doing[d]
  BY <1>1 DEF DiscoveryInv, DiscoveryTypeOK
<1>3. doing[c] \in Pending /\ of \in Instance /\ doing[c].told # <<>>
      /\ doing[c].told \in Seq(Watcher) /\ doing[c].kind \in {"add", "remove"}
  <2>1. doing[c] \in Pending
    BY <1>1, CallFacts DEF DiscoveryInv
  <2> QED
    BY <1>1, <2>1 DEF Pending, DiscoveryInv, Subscribed
<1>4. /\ rest \in Seq(Watcher) /\ l \in Watcher
      /\ ToSet(doing[c].told) = {l} \cup ToSet(rest)
      /\ rest = <<>> => ToSet(rest) = {}
  <2>1. /\ rest \in Seq(Watcher) /\ l \in Watcher
        /\ ToSet(doing[c].told) = {l} \cup ToSet(rest)
    BY <1>3, TailElements
  <2>2. ToSet(<<>>) = {}
    BY DEF ToSet
  <2> QED
    BY <2>1, <2>2
<1>5. /\ more \in Pending /\ more.told = rest /\ more.at = "telling"
      /\ more.of = of /\ more.kind = doing[c].kind
  BY <1>1, <1>3, <1>4 DEF Pending
<1>6. seenBy' = [seenBy EXCEPT ![l] =
                   IF doing[c].kind = "add" THEN @ \cup {of} ELSE @ \ {of}]
  BY <1>3, UrlRoundTrip DEF Tell
<1>7. /\ seenBy'[l] = IF doing[c].kind = "add" THEN seenBy[l] \cup {of} ELSE seenBy[l] \ {of}
      /\ \A m \in Watcher \ {l} : seenBy'[m] = seenBy[m]
      /\ seenBy' \in [Watcher -> SUBSET Instance]
  BY <1>3, <1>4, <1>6 DEF DiscoveryInv, DiscoveryTypeOK
<1>8. DiscoveryTypeOK'
  BY <1>1, <1>5, <1>7 DEF DiscoveryInv, DiscoveryTypeOK
<1>9. Subscribed'
  <2>1. ASSUME NEW d \in Caller
        PROVE  /\ \A m \in ToSet(doing'[d].told) : listening'[m] # "before"
               /\ doing'[d].at = "telling" => doing'[d].told # <<>>
    <3>1. CASE d = c /\ rest = <<>>
      BY <1>2, <3>1 DEF Idle, ToSet
    <3>2. CASE d = c /\ rest # <<>>
      <4>1. doing'[d] = more /\ doing'[d].told = rest /\ rest # <<>>
        BY <1>2, <1>5, <3>2
      <4>2. \A m \in ToSet(doing[c].told) : listening[m] # "before"
        BY DEF DiscoveryInv, Subscribed
      <4> QED
        BY <1>1, <1>4, <4>1, <4>2
    <3>3. CASE d # c
      BY <1>1, <1>2, <3>3 DEF DiscoveryInv, Subscribed
    <3> QED
      BY <3>1, <3>2, <3>3
  <2>2. listening[l] # "before"
    BY <1>4 DEF DiscoveryInv, Subscribed
  <2>3. \A m \in Watcher : listening'[m] = "before" => seenBy'[m] = {} /\ owed'[m] = {}
    BY <1>1, <1>7, <2>2 DEF DiscoveryInv, Subscribed
  <2> QED
    BY <1>1, <2>1, <2>3 DEF DiscoveryInv, Subscribed
<1>10. \A m \in ToSet(watchers) : m \in Watcher
  BY DEF DiscoveryInv, DiscoveryTypeOK, ToSet
<1>11. ASSUME NEW i \in Instance \ clashed' PROVE InstanceInv(i)'
  <2>1. InstanceInv(i)
    BY <1>1, <1>11 DEF DiscoveryInv
  <2>2. CASE of # i
    <3>1. doing'[c].of # i
      BY <1>2, <1>5, <2>2, NoneIsNoInstance DEF Idle
    <3>2. \A m \in Watcher : i \in seenBy[m] <=> i \in seenBy'[m]
      BY <1>7, <2>2
    <3> QED
      BY <1>1, <1>2, <1>10, <2>1, <2>2, <3>1, <3>2, InstanceStays
  <2>3. CASE of = i
    <3>1. \A d \in Caller \ {c} : doing'[d].of # i
      BY <1>2, <2>1, <2>3 DEF InstanceInv
    <3>2. OnItsWay(i, c)
      BY <2>1, <2>3 DEF InstanceInv
    <3>3. doing[c].kind = "add" =>
            /\ i \in ToSet(instances)
            /\ \A m \in ToSet(watchers) :
                 i \in owed[m] => i \in seenBy'[m] \/ m \in ToSet(rest)
      BY <1>1, <1>4, <1>7, <1>10, <2>3, <3>2 DEF OnItsWay
    <3>4. doing[c].kind = "remove" =>
            /\ \A m \in Watcher : i \notin owed[m]
            /\ \A m \in ToSet(watchers) :
                 i \in seenBy'[m] => m \in ToSet(rest)
      BY <1>1, <1>4, <1>7, <1>10, <2>3, <3>2 DEF OnItsWay
    <3>5. CASE rest = <<>>
      <4>1. doing'[c].of # i
        BY <1>2, <3>5, NoneIsNoInstance DEF Idle
      <4>2. AtRest(i)'
        BY <1>1, <1>3, <1>4, <1>10, <3>3, <3>4, <3>5 DEF AtRest
      <4> QED
        BY <3>1, <4>1, <4>2 DEF InstanceInv
    <3>6. CASE rest # <<>>
      <4>1. doing'[c] = more
        BY <1>2, <3>6
      <4>2. OnItsWay(i, c)'
        BY <1>1, <1>5, <3>3, <3>4, <4>1 DEF OnItsWay
      <4>3. doing'[c].of = i
        BY <1>5, <2>3, <4>1
      <4> QED
        BY <3>1, <4>2, <4>3 DEF InstanceInv
    <3> QED
      BY <3>5, <3>6
  <2> QED
    BY <2>2, <2>3
<1> QED
  BY <1>8, <1>9, <1>11 DEF DiscoveryInv

LEMMA SubscribeKeeps ==
  ASSUME DiscoveryInv, NEW l \in Watcher, SubscribeService(l) \/ UnsubscribeService(l)
  PROVE  DiscoveryInv'
<1>1. UNCHANGED <<instances, doing, seenBy, owed, clashed>>
  BY DEF SubscribeService, UnsubscribeService
<1>2. /\ listening' \in [Watcher -> {"before", "on", "after"}] /\ listening'[l] # "before"
      /\ \A m \in Watcher \ {l} : listening'[m] = listening[m]
  BY DEF SubscribeService, UnsubscribeService, DiscoveryInv, DiscoveryTypeOK
<1>3. /\ watchers' \in Seq(Watcher)
      /\ \A m \in ToSet(watchers') :
           /\ m \in Watcher
           /\ listening'[m] = "on"
           /\ m \in ToSet(watchers) \/ listening[m] = "before"
  <2>0. watchers \in Seq(Watcher) /\ \A m \in ToSet(watchers) : m \in Watcher /\ listening[m] = "on"
    BY DEF DiscoveryInv, DiscoveryTypeOK, Subscribed, ToSet
  <2>1. CASE SubscribeService(l)
    <3>1. watchers' = Append(watchers, l) /\ listening[l] = "before" /\ listening'[l] = "on"
      BY <2>1 DEF SubscribeService, DiscoveryInv, DiscoveryTypeOK
    <3>2. /\ Append(watchers, l) \in Seq(Watcher)
          /\ ToSet(Append(watchers, l)) = ToSet(watchers) \cup {l}
      BY <2>0, AppendFacts
    <3> QED
      BY <1>2, <2>0, <3>1, <3>2
  <2>2. CASE UnsubscribeService(l)
    <3>1. watchers' = Keep(watchers, Watcher \ {l})
      BY <2>2 DEF UnsubscribeService
    <3>2. /\ Keep(watchers, Watcher \ {l}) \in Seq(Watcher)
          /\ ToSet(Keep(watchers, Watcher \ {l})) = ToSet(watchers) \cap (Watcher \ {l})
      BY <2>0, KeepElements
    <3> QED
      BY <1>2, <2>0, <3>1, <3>2
  <2> QED
    BY <2>1, <2>2
<1>4. DiscoveryTypeOK'
  BY <1>1, <1>2, <1>3 DEF DiscoveryInv, DiscoveryTypeOK
<1>5. Subscribed'
  <2>1. \A m \in Watcher : listening'[m] = "before" => listening[m] = "before"
    BY <1>2
  <2>2. \A c \in Caller : \A m \in ToSet(doing[c].told) : m \in Watcher
    BY CallFacts DEF DiscoveryInv, ToSet
  <2> QED
    BY <1>1, <1>3, <2>1, <2>2 DEF DiscoveryInv, Subscribed
<1>6. ASSUME NEW i \in Instance \ clashed' PROVE InstanceInv(i)'
  <2>1. InstanceInv(i)
    BY <1>1, <1>6 DEF DiscoveryInv
  <2>2. \A m \in ToSet(watchers') :
          m \in Watcher /\ (m \in ToSet(watchers) \/ (i \notin owed[m] /\ i \notin seenBy[m]))
    BY <1>3 DEF DiscoveryInv, Subscribed
  <2> QED
    BY <1>1, <2>1, <2>2, InstanceStays
<1> QED
  BY <1>4, <1>5, <1>6 DEF DiscoveryInv

LEMMA SameDiscovery ==
  ASSUME DiscoveryInv, UNCHANGED discoveryVars
  PROVE  DiscoveryInv'
BY DEF discoveryVars, DiscoveryInv, DiscoveryTypeOK, Subscribed, InstanceInv, AtRest, OnItsWay

LEMMA NextDiscoveryInv ==
  DiscoveryInv /\ [DiscoveryNext \/ MultipleNext]_<<discoveryVars, multipleVars>> => DiscoveryInv'
<1> SUFFICES ASSUME DiscoveryInv, [DiscoveryNext \/ MultipleNext]_<<discoveryVars, multipleVars>>
             PROVE  DiscoveryInv'
  OBVIOUS
<1>1. ASSUME NEW c \in Caller, NEW i \in Instance,
             RegisterInstance(c, i) \/ UnregisterInstance(c, i)
      PROVE  DiscoveryInv'
  BY <1>1, AlterKeeps
<1>2. ASSUME NEW c \in Caller, ReadWatchers(c) \/ Tell(c) PROVE DiscoveryInv'
  BY <1>2, ReadWatchersKeeps, TellKeeps
<1>3. ASSUME NEW l \in Watcher, SubscribeService(l) \/ UnsubscribeService(l)
      PROVE  DiscoveryInv'
  BY <1>3, SubscribeKeeps
<1>4. CASE MultipleNext
  <2>1. UNCHANGED discoveryVars
    BY <1>4 DEF MultipleNext, Delegate, Ask, DestroyAll
  <2> QED
    BY <2>1, SameDiscovery
<1>5. CASE UNCHANGED <<discoveryVars, multipleVars>>
  BY <1>5, SameDiscovery
<1> QED
  BY <1>1, <1>2, <1>3, <1>4, <1>5 DEF DiscoveryNext

LEMMA DiscoveryInvSuffices == DiscoveryInv => WatchersAgree
BY DEF DiscoveryInv, InstanceInv, AtRest, WatchersAgree

-----------------------------------------------------------------------------
(* MultipleRegistry.                                                       *)

MultipleInv ==
  /\ backend \in [1 .. Backends -> SUBSET {"provider", "listener"}]
  /\ multiple \in [operation : Operation \cup {"none", "destroy"}, next : Nat,
                   result : {"ok", "err", "pending"}]
  /\ multiple.result = "pending" =>
       multiple.operation \in Operation /\ multiple.next \in 1 .. Backends
  /\ DelegatedInOrder

LEMMA InitMultipleInv == MultipleInit => MultipleInv
<1> SUFFICES ASSUME MultipleInit PROVE MultipleInv
  OBVIOUS
<1>1. backend \in [1 .. Backends -> SUBSET {"provider", "listener"}]
  BY DEF MultipleInit
<1> QED
  BY <1>1 DEF MultipleInit, MultipleInv, DelegatedInOrder, Operation

LEMMA AskKeeps ==
  ASSUME MultipleInv, Ask
  PROVE  MultipleInv'
<1> USE DiscoveryAssumption
<1> DEFINE r == multiple.next
           operation == multiple.operation
           what == What(operation)
<1>0. /\ multiple.result = "pending" /\ operation \in Operation /\ r \in 1 .. Backends
      /\ what \in {"provider", "listener"}
  BY DEF Ask, MultipleInv, What
<1>1. CASE /\ backend' = [backend EXCEPT ![r] =
                            IF Adds(operation) THEN @ \cup {what} ELSE @ \ {what}]
           /\ multiple' = [multiple EXCEPT !.next = r + 1,
                             !.result = IF r = Backends THEN "ok" ELSE @]
  <2>1. /\ multiple' \in [operation : Operation \cup {"none", "destroy"}, next : Nat,
                          result : {"ok", "err", "pending"}]
        /\ multiple'.operation = operation /\ multiple'.next = r + 1
        /\ multiple'.result = IF r = Backends THEN "ok" ELSE "pending"
    <3>1. multiple \in [operation : Operation \cup {"none", "destroy"}, next : Nat,
                        result : {"ok", "err", "pending"}] /\ r + 1 \in Nat
      BY <1>0 DEF MultipleInv
    <3>2. CASE r = Backends
      <4>1. multiple' = [multiple EXCEPT !.next = r + 1, !.result = "ok"]
        BY <1>1, <3>2
      <4> QED
        BY <3>1, <3>2, <4>1
    <3>3. CASE r # Backends
      <4>1. multiple' = [multiple EXCEPT !.next = r + 1, !.result = @]
        BY <1>1, <3>3
      <4> QED
        BY <1>0, <3>1, <3>3, <4>1
    <3> QED
      BY <3>2, <3>3
  <2>2. r # Backends => r + 1 \in 1 .. Backends
    BY <1>0
  <2>3. backend' \in [1 .. Backends -> SUBSET {"provider", "listener"}]
    BY <1>0, <1>1 DEF MultipleInv
  <2>4. /\ backend'[r] = IF Adds(operation) THEN backend[r] \cup {what} ELSE backend[r] \ {what}
        /\ \A s \in 1 .. Backends : s # r => backend'[s] = backend[s]
    BY <1>0, <1>1 DEF MultipleInv
  <2>5. ASSUME NEW s \in 1 .. Backends, s < r + 1
        PROVE  what \in backend'[s] <=> Adds(operation)
    <3>1. CASE s = r
      BY <2>4, <3>1 DEF Adds
    <3>2. CASE s # r
      <4>1. s < r
        BY <1>0, <2>5, <3>2
      <4> QED
        BY <1>0, <2>4, <3>2, <4>1 DEF MultipleInv, DelegatedInOrder
    <3> QED
      BY <3>1, <3>2
  <2>6. DelegatedInOrder'
    BY <2>1, <2>5 DEF DelegatedInOrder
  <2> QED
    BY <1>0, <2>1, <2>2, <2>3, <2>6 DEF MultipleInv
<1>2. CASE multiple' = [multiple EXCEPT !.result = "err"] /\ UNCHANGED backend
  BY <1>2 DEF MultipleInv, DelegatedInOrder
<1> QED
  BY <1>1, <1>2 DEF Ask

LEMMA NextMultipleInv ==
  MultipleInv /\ [DiscoveryNext \/ MultipleNext]_<<discoveryVars, multipleVars>> => MultipleInv'
<1> SUFFICES ASSUME MultipleInv, [DiscoveryNext \/ MultipleNext]_<<discoveryVars, multipleVars>>
             PROVE  MultipleInv'
  OBVIOUS
<1> USE DiscoveryAssumption
<1>1. ASSUME NEW operation \in Operation, Delegate(operation) PROVE MultipleInv'
  BY <1>1 DEF Delegate, MultipleInv, DelegatedInOrder
<1>2. CASE Ask
  BY <1>2, AskKeeps
<1>3. CASE DestroyAll
  <2>1. backend' \in [1 .. Backends -> SUBSET {"provider", "listener"}]
    BY <1>3 DEF DestroyAll
  <2> QED
    BY <1>3, <2>1 DEF DestroyAll, MultipleInv, DelegatedInOrder, Operation
<1>4. CASE UNCHANGED multipleVars
  BY <1>4 DEF multipleVars, MultipleInv, DelegatedInOrder
<1>5. DiscoveryNext => UNCHANGED multipleVars
  BY DEF DiscoveryNext, RegisterInstance, UnregisterInstance, Alter, ReadWatchers, Tell,
         SubscribeService, UnsubscribeService
<1> QED
  BY <1>1, <1>2, <1>3, <1>4, <1>5 DEF MultipleNext

-----------------------------------------------------------------------------
(* ConfigCenters.                                                          *)

Value == Content \cup {NoContent}
Setter == [at : {"rest", "stored", "telling"}, new : Value, left : Seq(ConfigListener)]
Poller == [at : {"none", "rest", "fetched", "telling", "aborted"}, new : Value,
           left : Seq(ConfigListener), previous : Value]

ConfigTypeOK ==
  /\ center \in {"memory", "polled", "zookeeper"}
  /\ value \in Value
  /\ changes \in Nat
  /\ listeners \in Seq(ConfigListener)
  /\ watching \in [ConfigListener -> {"off", "added", "spawning", "on"}]
  /\ setter \in [Client -> Setter]
  /\ overlapped \in BOOLEAN
  /\ poller \in [Task -> Poller]
  /\ handle \in Task \cup {NoContent}
  /\ armed \in Nat
  /\ fired \in Seq({"deleted", "changed"})
  /\ \A s \in spawned : s.to \in ConfigListener /\ s.new \in Value
  /\ heard \in [ConfigListener -> Seq(Value)]
  /\ since \in [ConfigListener -> Nat]

\* What belongs to one kind of centre is not touched at another.
OneCenter ==
  /\ center # "memory" => \A c \in Client : setter[c] = Rest
  /\ center # "polled" =>
       /\ handle = NoContent
       /\ \A t \in Task : poller[t] = NoTask
       /\ \A l \in ConfigListener : watching[l] \in {"off", "on"}
  /\ center # "zookeeper" => armed = 0 /\ fired = <<>> /\ spawned = {}

\* In memory.  A set() or remove() that overlaps no other has stored what is there, and a
\* listener that has not heard of it is on its list, or will be.
Alone == center = "memory" /\ ~overlapped
MemoryInv ==
  /\ \A c \in Client : \/ setter[c] = Rest
                       \/ setter[c].at = "stored"
                       \/ setter[c].at = "telling" /\ setter[c].left # <<>>
  /\ Alone => \A c \in Client : setter[c] # Rest =>
       /\ setter[c].new = value
       /\ \A d \in Client \ {c} : setter[d] = Rest
  /\ Alone => \A l \in ToSet(listeners) : since[l] < changes =>
       \/ heard[l] # <<>> /\ Last(heard[l]) = value
       \/ \E c \in Client : setter[c].at = "stored"
       \/ \E c \in Client : setter[c].at = "telling" /\ l \in ToSet(setter[c].left)

\* Polled.
IsTask(t) == poller[t].at # "none"
IsOnly(t) == IsTask(t) /\ \A u \in Task : IsTask(u) => u = t
HasToldOf(t, l) ==
  \/ poller[t].at \in {"rest", "fetched"} /\ Last(heard[l]) = poller[t].previous
  \/ poller[t].at = "telling" /\ (l \in ToSet(poller[t].left) \/ Last(heard[l]) = poller[t].new)

PolledInv ==
  /\ handle # NoContent => poller[handle].at \notin {"none", "aborted"}
  /\ \A t \in Task : IsTask(t) \/ poller[t] = NoTask
  /\ center = "polled" => \A l \in ConfigListener :
       /\ watching[l] = "off" => heard[l] = <<>> /\ l \notin ToSet(listeners)
       /\ \A t \in Task : watching[l] = "off" => l \notin ToSet(poller[t].left)
       /\ heard[l] # <<>> => \E t \in Task : IsTask(t)
  /\ center = "polled" => \A l \in ToSet(listeners), t \in Task :
       heard[l] # <<>> /\ IsOnly(t) => HasToldOf(t, l)

\* ZooKeeper.
NodeInv ==
  armed > 0 =>
    /\ value # NoContent
    /\ \A l \in ToSet(listeners) :
         value \in ToSet(heard[l]) \/ \E s \in spawned : s.to = l /\ s.new = value

ConfigInv == ConfigTypeOK /\ OneCenter /\ MemoryInv /\ PolledInv /\ NodeInv

-----------------------------------------------------------------------------

LEMMA LastAppend ==
  ASSUME NEW E, NEW seq \in Seq(E), NEW e \in E
  PROVE  Append(seq, e) # <<>> /\ Last(Append(seq, e)) = e
BY AppendFacts DEF Last

LEMMA HearFacts ==
  ASSUME ConfigTypeOK, NEW l \in ConfigListener, NEW new \in Value, Hear(l, new)
  PROVE  /\ heard' \in [ConfigListener -> Seq(Value)]
         /\ heard'[l] # <<>> /\ Last(heard'[l]) = new
         /\ ToSet(heard'[l]) = ToSet(heard[l]) \cup {new}
         /\ \A m \in ConfigListener \ {l} : heard'[m] = heard[m]
<1>1. heard[l] \in Seq(Value)
  BY DEF ConfigTypeOK
<1>2. heard' = [heard EXCEPT ![l] = Append(heard[l], new)]
  BY DEF Hear
<1>3. Append(heard[l], new) \in Seq(Value)
  BY <1>1, AppendFacts
<1>4. heard'[l] = Append(heard[l], new)
  BY <1>2 DEF ConfigTypeOK
<1>5. heard'[l] # <<>> /\ Last(heard'[l]) = new
  BY <1>1, <1>4, LastAppend
<1>6. ToSet(heard'[l]) = ToSet(heard[l]) \cup {new}
  BY <1>1, <1>4, AppendFacts
<1> QED
  BY <1>2, <1>3, <1>5, <1>6 DEF ConfigTypeOK

LEMMA JoinFacts ==
  ASSUME ConfigTypeOK, NEW l \in ConfigListener, Join(l)
  PROVE  /\ listeners' \in Seq(ConfigListener)
         /\ ToSet(listeners') = ToSet(listeners) \cup {l}
         /\ since' \in [ConfigListener -> Nat]
         /\ since'[l] = changes
         /\ \A m \in ConfigListener \ {l} : since'[m] = since[m]
<1>1. listeners \in Seq(ConfigListener) /\ listeners' = Append(listeners, l)
  BY DEF ConfigTypeOK, Join
<1>2. listeners' \in Seq(ConfigListener) /\ ToSet(listeners') = ToSet(listeners) \cup {l}
  BY <1>1, AppendFacts
<1>3. since' = [since EXCEPT ![l] = changes]
  BY DEF Join
<1> QED
  BY <1>2, <1>3 DEF ConfigTypeOK

LEMMA ListenersFacts ==
  ASSUME NEW seq \in Seq(ConfigListener)
  PROVE  ToSet(seq) \subseteq ConfigListener /\ (seq = <<>> => ToSet(seq) = {})
BY DEF ToSet

MemoryStep ==
  \/ \E l \in ConfigListener : WatchMemory(l)
  \/ \E c \in Client : (\E v \in Value : Set(c, v)) \/ Notify(c) \/ TellNext(c)
PolledStep ==
  \/ \E l \in ConfigListener : WatchPolled(l) \/ LookForTask(l)
  \/ \E l \in ConfigListener, t \in Task : StartPollTask(l, t)
  \/ \E t \in Task : PollServer(t) \/ PollSnapshot(t) \/ PollTell(t) \/ PollDone(t)
  \/ \E v \in Value : PublishValue(v)
  \/ DestroyCenter
NodeStep ==
  \/ \E l \in ConfigListener : WatchZookeeper(l)
  \/ \E v \in Value : WriteNode(v)
  \/ \E i \in DOMAIN fired : Handle(i)
  \/ \E s \in spawned : RunSpawned(s)

LEMMA ConfigSteps ==
  ASSUME [ConfigNext]_configVars
  PROVE  MemoryStep \/ PolledStep \/ NodeStep \/ UNCHANGED configVars
BY DEF ConfigNext, MemoryStep, PolledStep, NodeStep, Value

LEMMA InitConfigInv == ConfigInit => ConfigInv
<1> SUFFICES ASSUME ConfigInit PROVE ConfigInv
  OBVIOUS
<1>1. ConfigTypeOK
  <2>1. Rest \in Setter
    BY DEF Rest, Setter, Value
  <2>2. NoTask \in Poller
    BY DEF NoTask, Poller, Value
  <2>3. <<>> \in Seq(Value) /\ <<>> \in Seq(ConfigListener) /\ <<>> \in Seq({"deleted", "changed"})
    OBVIOUS
  <2> QED
    BY <2>1, <2>2, <2>3 DEF ConfigInit, ConfigTypeOK, Value
<1>2. OneCenter
  BY DEF ConfigInit, OneCenter
<1>3. ToSet(listeners) = {}
  BY ListenersFacts, <1>1 DEF ConfigInit, ConfigTypeOK
<1>4. MemoryInv
  BY <1>3 DEF ConfigInit, MemoryInv
<1>5. PolledInv
  BY <1>3, ListenersFacts, <1>1 DEF ConfigInit, PolledInv, NoTask, IsTask, ConfigTypeOK
<1>6. NodeInv
  BY DEF ConfigInit, NodeInv
<1> QED
  BY <1>1, <1>2, <1>4, <1>5, <1>6 DEF ConfigInv

LEMMA MemoryKeepsType ==
  ASSUME ConfigTypeOK, MemoryInv, MemoryStep
  PROVE  ConfigTypeOK'
<1> USE DEF ConfigTypeOK, Setter
<1>1. ASSUME NEW l \in ConfigListener, WatchMemory(l) PROVE ConfigTypeOK'
  <2>1. listeners' \in Seq(ConfigListener) /\ since' \in [ConfigListener -> Nat]
    BY <1>1, JoinFacts DEF WatchMemory
  <2> QED
    BY <1>1, <2>1 DEF WatchMemory, keyVars, memoryVars, polledVars, zookeeperVars
<1>2. ASSUME NEW c \in Client, NEW v \in Value, Set(c, v) PROVE ConfigTypeOK'
  BY <1>2 DEF Set, Change, polledVars, zookeeperVars
<1>3. ASSUME NEW c \in Client, Notify(c) PROVE ConfigTypeOK'
  BY <1>3 DEF Notify, ReadListeners, Rest, Value, keyVars, polledVars, zookeeperVars
<1>4. ASSUME NEW c \in Client, TellNext(c) PROVE ConfigTypeOK'
  <2>0. setter[c].left \in Seq(ConfigListener) /\ setter[c].left # <<>>
    <3>1. setter[c].at = "telling" /\ Rest.at = "rest"
      BY <1>4 DEF TellNext, Rest
    <3>2. setter[c] # Rest
      BY <3>1
    <3> QED
      BY <3>1, <3>2 DEF MemoryInv
  <2>1. /\ Tail(setter[c].left) \in Seq(ConfigListener) /\ Head(setter[c].left) \in ConfigListener
    BY <2>0, TailElements
  <2>2. heard' \in [ConfigListener -> Seq(Value)]
    BY <1>4, <2>1, HearFacts DEF TellNext
  <2>3. setter' \in [Client -> Setter]
    <3>1. Rest \in Setter
      BY DEF Rest, Value
    <3>2. [setter[c] EXCEPT !.left = Tail(setter[c].left)] \in Setter
      BY <2>1
    <3>3. \/ setter' = [setter EXCEPT ![c] = Rest]
          \/ setter' = [setter EXCEPT ![c].left = Tail(setter[c].left)]
      BY <1>4 DEF TellNext
    <3> HIDE DEF Setter
    <3> QED
      BY <3>1, <3>2, <3>3
  <2> QED
    BY <1>4, <2>2, <2>3 DEF TellNext, keyVars, polledVars, zookeeperVars
<1> QED
  BY <1>1, <1>2, <1>3, <1>4 DEF MemoryStep

LEMMA PolledKeepsType ==
  ASSUME ConfigTypeOK, PolledStep
  PROVE  ConfigTypeOK'
<1> USE DEF ConfigTypeOK, Poller
<1>1. ASSUME NEW l \in ConfigListener, WatchPolled(l) PROVE ConfigTypeOK'
  <2>1. listeners' \in Seq(ConfigListener) /\ since' \in [ConfigListener -> Nat]
    BY <1>1, JoinFacts DEF WatchPolled
  <2> QED
    BY <1>1, <2>1 DEF WatchPolled, keyVars, memoryVars, polledVars, zookeeperVars
<1>2. ASSUME NEW l \in ConfigListener, LookForTask(l) PROVE ConfigTypeOK'
  BY <1>2 DEF LookForTask, keyVars, memoryVars, polledVars, zookeeperVars
<1>3. ASSUME NEW l \in ConfigListener, NEW t \in Task, StartPollTask(l, t) PROVE ConfigTypeOK'
  BY <1>3 DEF StartPollTask, keyVars, memoryVars, zookeeperVars
<1>4. ASSUME NEW t \in Task, PollServer(t) PROVE ConfigTypeOK'
  <2>1. [poller[t] EXCEPT !.at = "fetched", !.new = value] \in Poller
    OBVIOUS
  <2>2. poller' = [poller EXCEPT ![t] = [poller[t] EXCEPT !.at = "fetched", !.new = value]]
    BY <1>4 DEF PollServer
  <2> HIDE DEF Poller
  <2>3. poller' \in [Task -> Poller]
    BY <2>1, <2>2
  <2> QED
    BY <1>4, <2>3 DEF PollServer, keyVars, memoryVars, zookeeperVars
<1>5. ASSUME NEW t \in Task, PollSnapshot(t) PROVE ConfigTypeOK'
  BY <1>5 DEF PollSnapshot, keyVars, memoryVars, zookeeperVars
<1>6. ASSUME NEW t \in Task, PollTell(t) PROVE ConfigTypeOK'
  <2>1. /\ poller[t].left \in Seq(ConfigListener) /\ poller[t].left # <<>>
        /\ poller[t].new \in Value
    BY <1>6 DEF PollTell
  <2>2. Tail(poller[t].left) \in Seq(ConfigListener) /\ Head(poller[t].left) \in ConfigListener
    BY <2>1, TailElements
  <2>3. heard' \in [ConfigListener -> Seq(Value)]
    BY <1>6, <2>1, <2>2, HearFacts DEF PollTell
  <2> QED
    BY <1>6, <2>2, <2>3 DEF PollTell, keyVars, memoryVars, zookeeperVars
<1>7. ASSUME NEW t \in Task, PollDone(t) PROVE ConfigTypeOK'
  BY <1>7 DEF PollDone, keyVars, memoryVars, zookeeperVars
<1>8. ASSUME NEW v \in Value, PublishValue(v) PROVE ConfigTypeOK'
  BY <1>8 DEF PublishValue, Change, memoryVars, polledVars, zookeeperVars
<1>9. CASE DestroyCenter
  <2>1. <<>> \in Seq(ConfigListener)
    OBVIOUS
  <2> QED
    BY <1>9, <2>1 DEF DestroyCenter, keyVars, memoryVars, zookeeperVars
<1> QED
  BY <1>1, <1>2, <1>3, <1>4, <1>5, <1>6, <1>7, <1>8, <1>9 DEF PolledStep

\* The calls of on_change() that notify_listeners() spawns.
LEMMA SpawnFacts ==
  ASSUME ConfigTypeOK, NEW to \in Seq(ConfigListener), NEW new \in Value, Spawn(to, new)
  PROVE  /\ \A s \in spawned' : s.to \in ConfigListener /\ s.new \in Value
         /\ spawned \subseteq spawned'
         /\ \A l \in ToSet(to) : \E s \in spawned' : s.to = l /\ s.new = new
<1> DEFINE Task1(i) == [to |-> to[i], new |-> new, nr |-> <<changes, Len(listeners), i>>]
<1>1. spawned' = spawned \cup {Task1(i) : i \in DOMAIN to}
  BY DEF Spawn
<1>2. \A i \in DOMAIN to : Task1(i).to = to[i] /\ Task1(i).new = new /\ to[i] \in ConfigListener
  OBVIOUS
<1>3. \A s \in spawned' : s.to \in ConfigListener /\ s.new \in Value
  BY <1>1, <1>2 DEF ConfigTypeOK
<1>4. ASSUME NEW l \in ToSet(to) PROVE \E s \in spawned' : s.to = l /\ s.new = new
  <2>1. PICK i \in DOMAIN to : l = to[i]
    BY <1>4 DEF ToSet
  <2>2. Task1(i) \in spawned'
    BY <1>1
  <2> QED
    BY <1>2, <2>1, <2>2
<1> QED
  BY <1>1, <1>3, <1>4

LEMMA NodeKeepsType ==
  ASSUME ConfigTypeOK, NodeStep
  PROVE  ConfigTypeOK'
<1>1. ASSUME NEW l \in ConfigListener, WatchZookeeper(l) PROVE ConfigTypeOK'
  <2>1. listeners' \in Seq(ConfigListener) /\ since' \in [ConfigListener -> Nat]
    BY <1>1, JoinFacts DEF WatchZookeeper
  <2>2. Append(listeners, l) \in Seq(ConfigListener) /\ value \in Value
    BY AppendFacts DEF ConfigTypeOK
  <2>3. armed' \in Nat /\ \A s \in spawned' : s.to \in ConfigListener /\ s.new \in Value
    <3>1. CASE value = NoContent
      BY <1>1, <3>1 DEF WatchZookeeper, ConfigTypeOK
    <3>2. CASE value # NoContent
      <4>1. armed' = armed + 1 /\ Spawn(Append(listeners, l), value)
        BY <1>1, <3>2 DEF WatchZookeeper
      <4>2. armed' \in Nat
        BY <4>1 DEF ConfigTypeOK
      <4>3. \A s \in spawned' : s.to \in ConfigListener /\ s.new \in Value
        BY <2>2, <4>1, SpawnFacts
      <4> QED
        BY <4>2, <4>3
    <3> QED
      BY <3>1, <3>2
  <2> QED
    BY <1>1, <2>1, <2>3 DEF WatchZookeeper, keyVars, memoryVars, polledVars, ConfigTypeOK
<1>2. ASSUME NEW v \in Value, WriteNode(v) PROVE ConfigTypeOK'
  <2>1. [i \in 1 .. armed |-> IF v = NoContent THEN "deleted" ELSE "changed"]
          \in Seq({"deleted", "changed"})
    BY DEF ConfigTypeOK
  <2>2. fired' \in Seq({"deleted", "changed"})
    BY <1>2, <2>1 DEF WriteNode, ConfigTypeOK
  <2> QED
    BY <1>2, <2>2 DEF WriteNode, Change, memoryVars, polledVars, ConfigTypeOK
<1>3. ASSUME NEW i \in DOMAIN fired, Handle(i) PROVE ConfigTypeOK'
  <2>1. SubSeq(fired, 1, i - 1) \in Seq({"deleted", "changed"})
    BY DEF ConfigTypeOK
  <2>2. SubSeq(fired, i + 1, Len(fired)) \in Seq({"deleted", "changed"})
    BY DEF ConfigTypeOK
  <2>3. fired' \in Seq({"deleted", "changed"})
    BY <1>3, <2>1, <2>2 DEF Handle, RemoveAt
  <2>4. /\ listeners' \in Seq(ConfigListener)
        /\ \A s \in spawned' : s.to \in ConfigListener /\ s.new \in Value
    <3>1. NoContent \in Value /\ value \in Value /\ listeners \in Seq(ConfigListener)
      BY DEF Value, ConfigTypeOK
    <3>2. \/ listeners' = <<>> /\ Spawn(listeners, NoContent)
          \/ listeners' = listeners /\ Spawn(listeners, value)
      BY <1>3 DEF Handle
    <3>3. <<>> \in Seq(ConfigListener)
      OBVIOUS
    <3> QED
      BY <3>1, <3>2, <3>3, SpawnFacts
  <2> QED
    BY <1>3, <2>3, <2>4 DEF Handle, keyVars, memoryVars, polledVars, ConfigTypeOK
<1>4. ASSUME NEW s \in spawned, RunSpawned(s) PROVE ConfigTypeOK'
  <2>1. s.to \in ConfigListener /\ s.new \in Value
    BY DEF ConfigTypeOK
  <2>2. heard' \in [ConfigListener -> Seq(Value)]
    BY <1>4, <2>1, HearFacts DEF RunSpawned
  <2> QED
    BY <1>4, <2>2 DEF RunSpawned, keyVars, memoryVars, polledVars, ConfigTypeOK
<1> QED
  BY <1>1, <1>2, <1>3, <1>4 DEF NodeStep

LEMMA ConfigStepKeepsCenter ==
  ASSUME ConfigTypeOK, OneCenter, MemoryStep \/ PolledStep \/ NodeStep
  PROVE  OneCenter'
<1> USE DEF OneCenter
<1>0. Rest.at = "rest" /\ NoTask.at = "none"
  BY DEF Rest, NoTask
<1>1. CASE MemoryStep
  <2>1. UNCHANGED <<center, polledVars, zookeeperVars>> /\ center = "memory"
    BY <1>0, <1>1 DEF MemoryStep, WatchMemory, Set, Notify, TellNext, keyVars, memoryVars
  <2>2. \A l \in ConfigListener : watching'[l] \in {"on", watching[l]}
    BY <1>1 DEF MemoryStep, WatchMemory, Set, Notify, TellNext, ConfigTypeOK
  <2> QED
    BY <2>1, <2>2 DEF polledVars, zookeeperVars
<1>2. CASE PolledStep
  <2>1. UNCHANGED <<center, memoryVars, zookeeperVars>>
    BY <1>2 DEF PolledStep, WatchPolled, LookForTask, StartPollTask, PollServer, PollSnapshot, PollTell,
                PollDone, PublishValue, DestroyCenter, keyVars
  <2>2. center = "polled"
    <3>1. ASSUME NEW l \in ConfigListener, LookForTask(l) PROVE center = "polled"
      BY <3>1 DEF LookForTask
    <3>2. ASSUME NEW l \in ConfigListener, NEW t \in Task, StartPollTask(l, t) PROVE center = "polled"
      BY <3>2 DEF StartPollTask
    <3>3. ASSUME NEW t \in Task, PollServer(t) \/ PollSnapshot(t) \/ PollTell(t) \/ PollDone(t)
          PROVE  center = "polled"
      BY <1>0, <3>3 DEF PollServer, PollSnapshot, PollTell, PollDone
    <3> QED
      BY <1>2, <3>1, <3>2, <3>3 DEF PolledStep, WatchPolled, PublishValue, DestroyCenter
  <2> QED
    BY <2>1, <2>2 DEF memoryVars, zookeeperVars
<1>3. CASE NodeStep
  <2>1. UNCHANGED <<center, memoryVars, polledVars>> /\ center = "zookeeper"
    BY <1>3 DEF NodeStep, WatchZookeeper, WriteNode, Handle, RunSpawned, keyVars
  <2>2. \A l \in ConfigListener : watching'[l] \in {"on", watching[l]}
    BY <1>3 DEF NodeStep, WatchZookeeper, WriteNode, Handle, RunSpawned, ConfigTypeOK
  <2> QED
    BY <2>1, <2>2 DEF polledVars, memoryVars
<1> QED
  BY <1>1, <1>2, <1>3

LEMMA TailLength ==
  ASSUME NEW E, NEW seq \in Seq(E), seq # <<>>
  PROVE  Len(seq) = 1 <=> Tail(seq) = <<>>
<1>1. Len(Tail(seq)) = Len(seq) - 1 /\ Tail(seq) \in Seq(E) /\ Len(seq) \in Nat
  OBVIOUS
<1>2. \A rest \in Seq(E) : Len(rest) = 0 <=> rest = <<>>
  OBVIOUS
<1> DEFINE rest == Tail(seq)
<1>3. rest \in Seq(E) /\ Len(rest) = Len(seq) - 1
  BY <1>1
<1> HIDE DEF rest
<1>4. Len(rest) = 0 <=> rest = <<>>
  BY <1>2, <1>3
<1> QED
  BY <1>1, <1>3, <1>4 DEF rest

LEMMA MemoryKeepsMemory ==
  ASSUME ConfigTypeOK, OneCenter, MemoryInv, ConfigTypeOK', MemoryStep
  PROVE  MemoryInv'
<1>0. /\ Rest.at = "rest" /\ center = "memory" /\ center' = center
      /\ ToSet(listeners) \subseteq ConfigListener
  <2>1. Rest.at = "rest"
    BY DEF Rest
  <2>2. center = "memory" /\ center' = center
    BY <2>1 DEF OneCenter, MemoryStep, WatchMemory, Set, Notify, TellNext, keyVars
  <2>3. ToSet(listeners) \subseteq ConfigListener
    BY ListenersFacts DEF ConfigTypeOK
  <2> QED
    BY <2>1, <2>2, <2>3
<1>1. ASSUME NEW l \in ConfigListener, WatchMemory(l) PROVE MemoryInv'
  <2>1. UNCHANGED <<value, changes, setter, overlapped, heard>>
    BY <1>1 DEF WatchMemory, keyVars, memoryVars
  <2>2. /\ ToSet(listeners') = ToSet(listeners) \cup {l}
        /\ since'[l] = changes /\ changes \in Nat
        /\ \A m \in ConfigListener \ {l} : since'[m] = since[m]
    BY <1>1, JoinFacts DEF WatchMemory, ConfigTypeOK
  <2> QED
    BY <1>0, <2>1, <2>2 DEF MemoryInv, Alone
<1>2. ASSUME NEW c \in Client, NEW v \in Value, Set(c, v) PROVE MemoryInv'
  <2>1. /\ setter[c] = Rest
        /\ value' = v /\ UNCHANGED <<listeners, heard, since>>
        /\ overlapped' = (overlapped \/ \E d \in Client : setter[d] # Rest)
        /\ setter' = [setter EXCEPT ![c] = [at |-> "stored", new |-> v, left |-> <<>>]]
    BY <1>2 DEF Set, Change
  <2>2. setter'[c].at = "stored" /\ setter'[c].new = v /\ \A d \in Client \ {c} : setter'[d] = setter[d]
    BY <2>1 DEF ConfigTypeOK
  <2>3. ~overlapped' => \A d \in Client \ {c} : setter'[d] = Rest
    BY <2>1, <2>2
  <2> QED
    BY <1>0, <2>1, <2>2, <2>3 DEF MemoryInv, Alone
<1>3. ASSUME NEW c \in Client, Notify(c) PROVE MemoryInv'
  <2>1. /\ setter[c].at = "stored" /\ setter[c] # Rest
        /\ UNCHANGED <<value, changes, listeners, overlapped, heard, since>>
    BY <1>0, <1>3 DEF Notify, keyVars
  <2>2. \A d \in Client \ {c} : setter'[d] = setter[d]
    BY <1>3 DEF Notify, ConfigTypeOK
  <2>3. CASE listeners = <<>>
    <3>1. setter'[c] = Rest
      BY <1>3, <2>3 DEF Notify, ConfigTypeOK
    <3>2. ToSet(listeners) = {}
      BY <2>3, ListenersFacts DEF ConfigTypeOK
    <3> QED
      BY <1>0, <2>1, <2>2, <3>1, <3>2 DEF MemoryInv, Alone
  <2>4. CASE listeners # <<>>
    <3>1. setter'[c] = [setter[c] EXCEPT !.at = "telling", !.left = listeners]
      BY <1>3, <2>4 DEF Notify, ReadListeners, ConfigTypeOK
    <3>2. setter[c] \in Setter
      BY DEF ConfigTypeOK
    <3>3. /\ setter'[c].at = "telling" /\ setter'[c].left = listeners
          /\ setter'[c].new = setter[c].new
      BY <3>1, <3>2 DEF Setter
    <3> QED
      BY <1>0, <2>1, <2>2, <2>4, <3>3 DEF MemoryInv, Alone
  <2> QED
    BY <2>3, <2>4
<1>4. ASSUME NEW c \in Client, TellNext(c) PROVE MemoryInv'
  <2>1. /\ setter[c].at = "telling" /\ setter[c] # Rest
        /\ UNCHANGED <<value, changes, listeners, overlapped, since>>
    BY <1>0, <1>4 DEF TellNext, keyVars
  <2>2. \A d \in Client \ {c} : setter'[d] = setter[d]
    <3>1. \/ setter' = [setter EXCEPT ![c] = Rest]
          \/ setter' = [setter EXCEPT ![c].left = Tail(setter[c].left)]
      BY <1>4 DEF TellNext
    <3> QED
      BY <3>1 DEF ConfigTypeOK
  <2> DEFINE left == setter[c].left  l == Head(left)
  <2>3. left \in Seq(ConfigListener) /\ left # <<>> /\ setter[c].new \in Value
    BY <2>1 DEF MemoryInv, ConfigTypeOK, Setter
  <2>4. /\ Tail(left) \in Seq(ConfigListener) /\ l \in ConfigListener
        /\ ToSet(left) = {l} \cup ToSet(Tail(left))
    BY <2>3, TailElements
  <2>5. /\ heard'[l] # <<>> /\ Last(heard'[l]) = setter[c].new
        /\ \A m \in ConfigListener \ {l} : heard'[m] = heard[m]
    BY <1>4, <2>3, <2>4, HearFacts DEF TellNext
  <2>6. \/ /\ setter'[c] = Rest /\ ToSet(Tail(left)) = {}
        \/ /\ setter'[c].at = "telling" /\ setter'[c].left = Tail(left) /\ Tail(left) # <<>>
           /\ setter'[c].new = setter[c].new
    <3>1. CASE Len(left) = 1
      <4>1. Tail(left) = <<>>
        BY <2>3, <3>1, TailLength
      <4>2. setter'[c] = Rest
        BY <1>4, <3>1 DEF TellNext, ConfigTypeOK
      <4> QED
        BY <2>4, <4>1, <4>2, ListenersFacts
    <3>2. CASE Len(left) # 1
      <4>1. Tail(left) # <<>>
        BY <2>3, <3>2, TailLength
      <4>2. setter'[c] = [setter[c] EXCEPT !.left = Tail(left)]
        BY <1>4, <3>2 DEF TellNext, ConfigTypeOK
      <4>3. setter[c] \in Setter
        BY DEF ConfigTypeOK
      <4> QED
        BY <2>1, <4>1, <4>2, <4>3 DEF Setter
    <3> QED
      BY <3>1, <3>2
  <2> HIDE DEF left, l
  <2>7. \A d \in Client : \/ setter'[d] = Rest
                          \/ setter'[d].at = "stored"
                          \/ setter'[d].at = "telling" /\ setter'[d].left # <<>>
    BY <2>2, <2>6 DEF MemoryInv
  <2>8. ~overlapped => /\ setter[c].new = value /\ \A d \in Client \ {c} : setter[d] = Rest
    BY <1>0, <2>1 DEF MemoryInv, Alone
  <2>9. ASSUME ~overlapped, NEW d \in Client, setter'[d] # Rest
        PROVE  setter'[d].new = value /\ \A e \in Client \ {d} : setter'[e] = Rest
    BY <2>2, <2>6, <2>8, <2>9
  <2>10. ASSUME ~overlapped, NEW m \in ToSet(listeners), since[m] < changes
         PROVE  \/ heard'[m] # <<>> /\ Last(heard'[m]) = value
                \/ \E d \in Client : setter'[d].at = "telling" /\ m \in ToSet(setter'[d].left)
    <3>1. m \in ConfigListener
      BY <1>0
    <3>2. CASE m = l
      BY <2>5, <2>8, <2>10, <3>2
    <3>3. CASE m # l
      <4>1. \A d \in Client : setter[d].at # "stored"
        BY <1>0, <2>1, <2>8, <2>10
      <4>2. \/ heard[m] # <<>> /\ Last(heard[m]) = value
            \/ \E d \in Client : setter[d].at = "telling" /\ m \in ToSet(setter[d].left)
        BY <1>0, <2>10, <4>1 DEF MemoryInv, Alone
      <4>3. CASE heard[m] # <<>> /\ Last(heard[m]) = value
        BY <2>5, <3>1, <3>3, <4>3
      <4>4. CASE \E d \in Client : setter[d].at = "telling" /\ m \in ToSet(setter[d].left)
        <5>1. m \in ToSet(left)
          BY <1>0, <2>8, <2>10, <4>4 DEF left
        <5>2. m \in ToSet(Tail(left))
          BY <2>4, <3>3, <5>1
        <5> QED
          BY <2>6, <5>2
      <4> QED
        BY <4>2, <4>3, <4>4
    <3> QED
      BY <3>2, <3>3
  <2> QED
    BY <1>0, <2>1, <2>7, <2>9, <2>10 DEF MemoryInv, Alone
<1> QED
  BY <1>1, <1>2, <1>3, <1>4 DEF MemoryStep

LEMMA OthersKeepMemory ==
  ASSUME ConfigTypeOK, OneCenter, MemoryInv, PolledStep \/ NodeStep
  PROVE  MemoryInv'
<1>1. UNCHANGED <<center, setter, overlapped>>
  BY DEF PolledStep, WatchPolled, LookForTask, StartPollTask, PollServer, PollSnapshot, PollTell,
         PollDone, PublishValue, DestroyCenter, NodeStep, WatchZookeeper, WriteNode, Handle, RunSpawned,
         keyVars, memoryVars
<1>2. center # "memory"
  <2>0. Rest.at = "rest" /\ NoTask.at = "none"
    BY DEF Rest, NoTask
  <2>1. CASE NodeStep
    BY <2>1 DEF NodeStep, WatchZookeeper, WriteNode, Handle, RunSpawned, OneCenter
  <2>2. CASE PolledStep
    <3>1. ASSUME NEW l \in ConfigListener, LookForTask(l) PROVE center # "memory"
      BY <3>1 DEF LookForTask, OneCenter
    <3>2. ASSUME NEW l \in ConfigListener, NEW t \in Task, StartPollTask(l, t) PROVE center # "memory"
      BY <3>2 DEF StartPollTask, OneCenter
    <3>3. ASSUME NEW t \in Task, PollServer(t) \/ PollSnapshot(t) \/ PollTell(t) \/ PollDone(t)
          PROVE  center # "memory"
      BY <2>0, <3>3 DEF PollServer, PollSnapshot, PollTell, PollDone, OneCenter
    <3> QED
      BY <2>2, <3>1, <3>2, <3>3 DEF PolledStep, WatchPolled, PublishValue, DestroyCenter
  <2> QED
    BY <2>1, <2>2
<1> QED
  BY <1>1, <1>2 DEF MemoryInv, Alone

LEMMA PolledKeepsPolled ==
  ASSUME ConfigTypeOK, OneCenter, PolledInv, PolledStep
  PROVE  PolledInv'
<1>0. NoTask.at = "none" /\ ToSet(listeners) \subseteq ConfigListener
  BY ListenersFacts DEF NoTask, ConfigTypeOK
<1>1. center' = center
  BY DEF PolledStep, WatchPolled, LookForTask, StartPollTask, PollServer, PollSnapshot, PollTell,
         PollDone, PublishValue, DestroyCenter, keyVars
<1>2. ASSUME NEW l \in ConfigListener, WatchPolled(l) PROVE PolledInv'
  <2>1. UNCHANGED <<poller, handle, heard>> /\ watching[l] = "off" /\ center = "polled"
        /\ watching' = [watching EXCEPT ![l] = "added"]
    BY <1>2 DEF WatchPolled, polledVars
  <2>2. ToSet(listeners') = ToSet(listeners) \cup {l}
    BY <1>2, JoinFacts DEF WatchPolled
  <2>3. watching'[l] = "added" /\ \A m \in ConfigListener \ {l} : watching'[m] = watching[m]
    BY <2>1 DEF ConfigTypeOK
  <2>4. heard[l] = <<>>
    BY <2>1 DEF PolledInv
  <2> QED
    BY <1>0, <1>1, <2>1, <2>2, <2>3, <2>4 DEF PolledInv, IsTask, IsOnly, HasToldOf
<1>3. ASSUME NEW l \in ConfigListener, LookForTask(l) PROVE PolledInv'
  <2>1. UNCHANGED <<poller, handle, heard, listeners>> /\ watching[l] = "added"
    BY <1>3 DEF LookForTask, polledVars
  <2>2. \A m \in ConfigListener : watching'[m] = "off" => watching[m] = "off"
    BY <1>3 DEF LookForTask, ConfigTypeOK
  <2> QED
    BY <1>0, <1>1, <2>1, <2>2 DEF PolledInv, IsTask, IsOnly, HasToldOf
<1>4. ASSUME NEW l \in ConfigListener, NEW t \in Task, StartPollTask(l, t) PROVE PolledInv'
  <2>1. UNCHANGED <<heard, listeners>> /\ handle' = t /\ poller[t] = NoTask
    BY <1>4 DEF StartPollTask
  <2>2. \A m \in ConfigListener : watching'[m] = "off" => watching[m] = "off"
    BY <1>4 DEF StartPollTask, ConfigTypeOK
  <2>3. /\ poller'[t].at = "rest" /\ poller'[t].left = poller[t].left
        /\ \A u \in Task \ {t} : poller'[u] = poller[u]
    BY <1>4 DEF StartPollTask, ConfigTypeOK, Poller
  <2>4. ASSUME NEW m \in ToSet(listeners), NEW u \in Task, center = "polled", heard[m] # <<>>,
               IsOnly(u)'
        PROVE  FALSE
    <3>1. u = t
      BY <2>3, <2>4 DEF IsOnly, IsTask
    <3>2. \A v \in Task : ~IsTask(v)
      BY <1>0, <2>1, <2>3, <2>4, <3>1 DEF IsOnly, IsTask
    <3> QED
      BY <1>0, <2>4, <3>2 DEF PolledInv
  <2>5. \A u \in Task : IsTask(u) => IsTask(u)'
    BY <2>3 DEF IsTask
  <2>6. handle' # NoContent => poller'[handle'].at \notin {"none", "aborted"}
    BY <2>1, <2>3
  <2>7. \A u \in Task : IsTask(u)' \/ poller'[u] = NoTask
    BY <2>3 DEF PolledInv, IsTask
  <2>8. \A u \in Task : poller'[u].left = poller[u].left
    BY <2>3
  <2> QED
    BY <1>0, <1>1, <2>1, <2>2, <2>4, <2>5, <2>6, <2>7, <2>8 DEF PolledInv
<1>5. ASSUME NEW t \in Task, PollServer(t) PROVE PolledInv'
  <2>1. UNCHANGED <<heard, listeners, watching, handle>> /\ poller[t].at = "rest"
    BY <1>5 DEF PollServer
  <2>2. /\ poller'[t].at = "fetched" /\ poller'[t].left = poller[t].left
        /\ poller'[t].previous = poller[t].previous
        /\ \A u \in Task \ {t} : poller'[u] = poller[u]
    BY <1>5 DEF PollServer, ConfigTypeOK, Poller
  <2>3. \A u \in Task : IsTask(u)' = IsTask(u) /\ (poller'[u] = NoTask => poller[u] = NoTask)
    BY <1>0, <2>1, <2>2 DEF IsTask
  <2>4. \A u \in Task, m \in ConfigListener : HasToldOf(u, m) => HasToldOf(u, m)'
    BY <2>1, <2>2 DEF HasToldOf
  <2>5. \A u \in Task : IsOnly(u)' => IsOnly(u)
    BY <2>3 DEF IsOnly
  <2>6. \A u \in Task : poller'[u].left = poller[u].left
                        /\ (poller[u] = NoTask => poller'[u] = NoTask)
                        /\ (poller[u].at \notin {"none", "aborted"} => poller'[u].at \notin {"none", "aborted"})
    BY <1>0, <2>1, <2>2
  <2> QED
    BY <1>0, <1>1, <2>1, <2>3, <2>4, <2>5, <2>6 DEF PolledInv, ConfigTypeOK
<1>6. ASSUME NEW t \in Task, PollSnapshot(t) PROVE PolledInv'
  <2>1. UNCHANGED <<heard, listeners, watching, handle>> /\ poller[t].at = "fetched"
    BY <1>6 DEF PollSnapshot
  <2>2. /\ poller'[t].at = "telling" /\ poller'[t].left = listeners
        /\ \A u \in Task \ {t} : poller'[u] = poller[u]
    BY <1>6 DEF PollSnapshot, ConfigTypeOK, Poller
  <2>3. \A u \in Task : IsTask(u)' = IsTask(u)
    BY <1>0, <2>1, <2>2 DEF IsTask
  <2>4. \A u \in Task, m \in ToSet(listeners) : HasToldOf(u, m) => HasToldOf(u, m)'
    BY <2>1, <2>2 DEF HasToldOf
  <2>5. \A u \in Task : IsOnly(u)' => IsOnly(u)
    BY <2>3 DEF IsOnly
  <2>6. \A u \in Task : (poller[u] = NoTask => poller'[u] = NoTask)
                        /\ (poller[u].at \notin {"none", "aborted"} => poller'[u].at \notin {"none", "aborted"})
    BY <1>0, <2>1, <2>2
  <2>7. \A u \in Task : poller'[u].left = poller[u].left \/ poller'[u].left = listeners
    BY <2>2
  <2> QED
    BY <1>0, <1>1, <2>1, <2>3, <2>4, <2>5, <2>6, <2>7 DEF PolledInv, ConfigTypeOK
<1>7. ASSUME NEW t \in Task, PollTell(t) PROVE PolledInv'
  <2>1. UNCHANGED <<listeners, watching, handle>> /\ poller[t].at = "telling"
    BY <1>7 DEF PollTell
  <2> DEFINE left == poller[t].left  l == Head(left)
  <2>2. left \in Seq(ConfigListener) /\ left # <<>> /\ poller[t].new \in Value
    BY <1>7 DEF PollTell, ConfigTypeOK, Poller
  <2>3. /\ Tail(left) \in Seq(ConfigListener) /\ l \in ConfigListener
        /\ ToSet(left) = {l} \cup ToSet(Tail(left))
    BY <2>2, TailElements
  <2>4. /\ heard'[l] # <<>> /\ Last(heard'[l]) = poller[t].new
        /\ \A m \in ConfigListener \ {l} : heard'[m] = heard[m]
    BY <1>7, <2>2, <2>3, HearFacts DEF PollTell
  <2>5. /\ poller'[t].at = "telling" /\ poller'[t].left = Tail(left) /\ poller'[t].new = poller[t].new
        /\ \A u \in Task \ {t} : poller'[u] = poller[u]
    BY <1>7 DEF PollTell, ConfigTypeOK, Poller
  <2> HIDE DEF l
  <2>6. \A u \in Task : IsTask(u)' = IsTask(u)
    BY <2>1, <2>5 DEF IsTask
  <2>7. center = "polled" => watching[l] # "off"
    BY <2>3 DEF PolledInv
  <2>8. \A u \in Task : IsOnly(u)' => u = t
    BY <2>1, <2>6 DEF IsOnly, IsTask
  <2>9. \A u \in Task : (poller[u] = NoTask => poller'[u] = NoTask)
                        /\ (poller[u].at \notin {"none", "aborted"} => poller'[u].at \notin {"none", "aborted"})
    BY <1>0, <2>1, <2>5
  <2>10. \A u \in Task : ToSet(poller'[u].left) \subseteq ToSet(poller[u].left)
    BY <2>3, <2>5
  <2>11. IsTask(t)
    BY <2>1 DEF IsTask
  <2>12. ASSUME NEW m \in ToSet(listeners), center = "polled", heard'[m] # <<>>, IsOnly(t)'
         PROVE  HasToldOf(t, m)'
    <3>1. CASE m = l
      BY <2>4, <2>5, <3>1 DEF HasToldOf
    <3>2. CASE m # l
      <4>1. heard'[m] = heard[m]
        BY <1>0, <2>4, <3>2
      <4>2. HasToldOf(t, m)
        BY <2>6, <2>12, <4>1 DEF PolledInv, IsOnly
      <4> QED
        BY <2>1, <2>3, <2>5, <3>2, <4>1, <4>2 DEF HasToldOf
    <3> QED
      BY <3>1, <3>2
  <2>13. ASSUME center = "polled", NEW m \in ConfigListener, watching[m] = "off"
         PROVE  heard'[m] = <<>> /\ m \notin ToSet(listeners)
    BY <2>4, <2>7, <2>13 DEF PolledInv
  <2> HIDE DEF left
  <2>14. \A u \in Task : IsTask(u)' \/ poller'[u] = NoTask
    BY <2>6, <2>9 DEF PolledInv
  <2>15. handle' # NoContent => poller'[handle'].at \notin {"none", "aborted"}
    BY <2>1, <2>9 DEF PolledInv, ConfigTypeOK
  <2>16. IsTask(t)'
    BY <2>6, <2>11
  <2>17. center = "polled" => \A m \in ConfigListener, u \in Task :
           watching[m] = "off" => m \notin ToSet(poller'[u].left)
    BY <2>10 DEF PolledInv
  <2>18. center = "polled" => \A m \in ToSet(listeners), u \in Task :
           heard'[m] # <<>> /\ IsOnly(u)' => HasToldOf(u, m)'
    BY <2>8, <2>12
  <2> QED
    BY <1>1, <2>1, <2>13, <2>14, <2>15, <2>16, <2>17, <2>18 DEF PolledInv
<1>8. ASSUME NEW t \in Task, PollDone(t) PROVE PolledInv'
  <2>1. UNCHANGED <<heard, listeners, watching, handle>> /\ poller[t].at = "telling"
        /\ poller[t].left = <<>>
    BY <1>8 DEF PollDone
  <2>2. /\ poller'[t].at = "rest" /\ poller'[t].left = poller[t].left
        /\ poller'[t].previous = poller[t].new
        /\ \A u \in Task \ {t} : poller'[u] = poller[u]
    BY <1>8 DEF PollDone, ConfigTypeOK, Poller
  <2>3. \A u \in Task : IsTask(u)' = IsTask(u)
    BY <1>0, <2>1, <2>2 DEF IsTask
  <2>4. ToSet(poller[t].left) = {}
    BY <2>1, ListenersFacts DEF ConfigTypeOK, Poller
  <2>5. \A u \in Task, m \in ConfigListener : HasToldOf(u, m) => HasToldOf(u, m)'
    BY <2>1, <2>2, <2>4 DEF HasToldOf
  <2>6. \A u \in Task : IsOnly(u)' => IsOnly(u)
    BY <2>3 DEF IsOnly
  <2>7. \A u \in Task : poller'[u].left = poller[u].left
                        /\ (poller[u] = NoTask => poller'[u] = NoTask)
                        /\ (poller[u].at \notin {"none", "aborted"} => poller'[u].at \notin {"none", "aborted"})
    BY <1>0, <2>1, <2>2
  <2> QED
    BY <1>0, <1>1, <2>1, <2>3, <2>5, <2>6, <2>7 DEF PolledInv, ConfigTypeOK
<1>9. ASSUME NEW v \in Value, PublishValue(v) PROVE PolledInv'
  BY <1>1, <1>9 DEF PublishValue, polledVars, PolledInv, IsTask, IsOnly, HasToldOf
<1>10. CASE DestroyCenter
  <2>1. UNCHANGED <<heard, watching>> /\ handle \in Task /\ handle' = NoContent /\ listeners' = <<>>
    BY <1>10 DEF DestroyCenter, ConfigTypeOK
  <2>2. /\ poller'[handle].at = "aborted" /\ poller'[handle].left = poller[handle].left
        /\ \A u \in Task \ {handle} : poller'[u] = poller[u]
    BY <1>10, <2>1 DEF DestroyCenter, ConfigTypeOK, Poller
  <2>3. IsTask(handle)
    BY <1>10, <2>1 DEF DestroyCenter, PolledInv, IsTask
  <2>4. \A u \in Task : IsTask(u)' = IsTask(u) /\ poller'[u].left = poller[u].left
    BY <2>2, <2>3 DEF IsTask
  <2>5. ToSet(listeners') = {}
    <3>1. <<>> \in Seq(ConfigListener)
      OBVIOUS
    <3> QED
      BY <2>1, <3>1, ListenersFacts
  <2>6. \A u \in Task : IsTask(u)' \/ poller'[u] = NoTask
    BY <2>2, <2>3, <2>4 DEF PolledInv
  <2> QED
    BY <1>1, <2>1, <2>4, <2>5, <2>6 DEF PolledInv
<1> QED
  BY <1>2, <1>3, <1>4, <1>5, <1>6, <1>7, <1>8, <1>9, <1>10 DEF PolledStep

LEMMA OthersKeepPolled ==
  ASSUME OneCenter, PolledInv, MemoryStep \/ NodeStep
  PROVE  PolledInv'
<1>1. UNCHANGED <<center, poller, handle>>
  BY DEF MemoryStep, WatchMemory, Set, Notify, TellNext, NodeStep, WatchZookeeper, WriteNode, Handle,
         RunSpawned, keyVars, polledVars
<1>2. center # "polled"
  <2>1. Rest.at = "rest"
    BY DEF Rest
  <2> QED
    <3>1. CASE MemoryStep
      BY <2>1, <3>1 DEF MemoryStep, WatchMemory, Set, Notify, TellNext, OneCenter
    <3>2. CASE NodeStep
      BY <3>2 DEF NodeStep, WatchZookeeper, WriteNode, Handle, RunSpawned, OneCenter
    <3> QED
      BY <3>1, <3>2
<1> QED
  BY <1>1, <1>2 DEF PolledInv, IsTask

\* A listener of a node that is watched has heard the value, or will.
LEMMA NodeKeepsNode ==
  ASSUME ConfigTypeOK, OneCenter, NodeInv, NodeStep
  PROVE  NodeInv'
<1>0. ToSet(listeners) \subseteq ConfigListener /\ listeners \in Seq(ConfigListener) /\ value \in Value
  BY ListenersFacts DEF ConfigTypeOK
<1>1. ASSUME NEW l \in ConfigListener, WatchZookeeper(l) PROVE NodeInv'
  <2>1. UNCHANGED <<value, heard>>
    BY <1>1 DEF WatchZookeeper, keyVars
  <2>2. CASE value = NoContent
    <3>1. ~(armed > 0) /\ armed' = armed
      BY <1>1, <2>2 DEF WatchZookeeper, NodeInv
    <3> QED
      BY <3>1 DEF NodeInv
  <2>3. CASE value # NoContent
    <3>1. Spawn(Append(listeners, l), value) /\ listeners' = Append(listeners, l)
      BY <1>1, <2>3 DEF WatchZookeeper, Join
    <3>2. Append(listeners, l) \in Seq(ConfigListener)
      BY <1>0, AppendFacts
    <3>3. \A m \in ToSet(listeners') : \E s \in spawned' : s.to = m /\ s.new = value
      BY <1>0, <3>1, <3>2, SpawnFacts
    <3> QED
      BY <2>1, <2>3, <3>3 DEF NodeInv
  <2> QED
    BY <2>2, <2>3
<1>2. ASSUME NEW v \in Value, WriteNode(v) PROVE NodeInv'
  BY <1>2 DEF WriteNode, NodeInv
<1>3. ASSUME NEW i \in DOMAIN fired, Handle(i) PROVE NodeInv'
  <2>1. UNCHANGED <<value, heard, armed>>
    BY <1>3 DEF Handle, keyVars
  <2>2. CASE listeners' = <<>>
    <3>1. ToSet(listeners') = {}
      BY <2>2 DEF ToSet
    <3>2. armed > 0 => value # NoContent
      BY DEF NodeInv
    <3> QED
      BY <2>1, <3>1, <3>2 DEF NodeInv
  <2>3. CASE listeners' # <<>>
    <3>1. Spawn(listeners, value) /\ listeners' = listeners
      BY <1>3, <2>3 DEF Handle
    <3>2. \A m \in ToSet(listeners) : \E s \in spawned' : s.to = m /\ s.new = value
      BY <1>0, <3>1, SpawnFacts
    <3> QED
      BY <2>1, <3>1, <3>2 DEF NodeInv
  <2> QED
    BY <2>2, <2>3
<1>4. ASSUME NEW s \in spawned, RunSpawned(s) PROVE NodeInv'
  <2>1. UNCHANGED <<value, listeners, armed>> /\ spawned' = spawned \ {s}
    BY <1>4 DEF RunSpawned, keyVars
  <2>2. s.to \in ConfigListener /\ s.new \in Value
    BY DEF ConfigTypeOK
  <2>3. /\ ToSet(heard'[s.to]) = ToSet(heard[s.to]) \cup {s.new}
        /\ \A m \in ConfigListener \ {s.to} : heard'[m] = heard[m]
    BY <1>4, <2>2, HearFacts DEF RunSpawned
  <2> QED
    BY <1>0, <2>1, <2>2, <2>3 DEF NodeInv
<1> QED
  BY <1>1, <1>2, <1>3, <1>4 DEF NodeStep

LEMMA OthersKeepNode ==
  ASSUME OneCenter, NodeInv, OneCenter', MemoryStep \/ PolledStep
  PROVE  NodeInv'
<1>1. armed' = armed /\ center' = center
  BY DEF MemoryStep, WatchMemory, Set, Notify, TellNext, PolledStep, WatchPolled, LookForTask,
         StartPollTask, PollServer, PollSnapshot, PollTell, PollDone, PublishValue, DestroyCenter,
         keyVars, zookeeperVars
<1>2. center # "zookeeper"
  <2>0. Rest.at = "rest" /\ NoTask.at = "none"
    BY DEF Rest, NoTask
  <2>1. CASE MemoryStep
    BY <2>0, <2>1 DEF MemoryStep, WatchMemory, Set, Notify, TellNext, OneCenter
  <2>2. CASE PolledStep
    <3>1. ASSUME NEW l \in ConfigListener, LookForTask(l) PROVE center # "zookeeper"
      BY <3>1 DEF LookForTask, OneCenter
    <3>2. ASSUME NEW l \in ConfigListener, NEW t \in Task, StartPollTask(l, t)
          PROVE  center # "zookeeper"
      BY <3>2 DEF StartPollTask, OneCenter
    <3>3. ASSUME NEW t \in Task, PollServer(t) \/ PollSnapshot(t) \/ PollTell(t) \/ PollDone(t)
          PROVE  center # "zookeeper"
      BY <2>0, <3>3 DEF PollServer, PollSnapshot, PollTell, PollDone, OneCenter
    <3> QED
      BY <2>2, <3>1, <3>2, <3>3 DEF PolledStep, WatchPolled, PublishValue, DestroyCenter
  <2> QED
    BY <2>1, <2>2
<1>3. ~(armed > 0)
  BY <1>2 DEF OneCenter
<1> QED
  BY <1>1, <1>3 DEF NodeInv

LEMMA NextConfigInv ==
  ASSUME ConfigInv, [ConfigNext]_configVars
  PROVE  ConfigInv'
<1> USE DEF ConfigInv
<1>1. CASE MemoryStep
  <2>1. ConfigTypeOK'
    BY <1>1, MemoryKeepsType
  <2>2. OneCenter'
    BY <1>1, ConfigStepKeepsCenter
  <2> QED
    BY <1>1, <2>1, <2>2, MemoryKeepsMemory, OthersKeepPolled, OthersKeepNode
<1>2. CASE PolledStep
  <2>1. ConfigTypeOK' /\ OneCenter'
    BY <1>2, PolledKeepsType, ConfigStepKeepsCenter
  <2> QED
    BY <1>2, <2>1, OthersKeepMemory, PolledKeepsPolled, OthersKeepNode
<1>3. CASE NodeStep
  <2>1. ConfigTypeOK' /\ OneCenter'
    BY <1>3, NodeKeepsType, ConfigStepKeepsCenter
  <2> QED
    BY <1>3, <2>1, OthersKeepMemory, OthersKeepPolled, NodeKeepsNode
<1>4. CASE UNCHANGED configVars
  <2> USE <1>4 DEF configVars
  <2>1. ConfigTypeOK' /\ OneCenter'
    BY DEF ConfigTypeOK, OneCenter
  <2>2. MemoryInv'
    BY DEF MemoryInv, Alone
  <2>3. PolledInv'
    BY DEF PolledInv, IsTask, IsOnly, HasToldOf
  <2>4. NodeInv'
    BY DEF NodeInv
  <2> QED
    BY <2>1, <2>2, <2>3, <2>4
<1> QED
  BY <1>1, <1>2, <1>3, <1>4, ConfigSteps

LEMMA ConfigInvSuffices == ConfigInv => QuietListenersAgree
<1> SUFFICES ASSUME ConfigInv, Quiet, NEW l \in ToSet(listeners)
             PROVE  /\ center = "memory" /\ ~overlapped /\ since[l] < changes =>
                         heard[l] # <<>> /\ Last(heard[l]) = value
                    /\ center = "polled" /\ heard[l] # <<>>
                         /\ Cardinality({t \in Task : poller[t] # NoTask}) = 1 =>
                         \E t \in Tasks : Last(heard[l]) = poller[t].previous
                    /\ center = "zookeeper" /\ armed > 0 => value \in ToSet(heard[l])
  BY DEF QuietListenersAgree
<1> USE DEF ConfigInv
<1>0. Rest.at = "rest" /\ NoTask.at = "none"
  BY DEF Rest, NoTask
<1>1. ASSUME center = "memory", ~overlapped, since[l] < changes
      PROVE  heard[l] # <<>> /\ Last(heard[l]) = value
  <2>1. \A c \in Client : setter[c].at = "rest"
    BY <1>0 DEF Quiet
  <2> QED
    BY <1>1, <2>1 DEF MemoryInv, Alone
<1>2. ASSUME center = "polled", heard[l] # <<>>,
             Cardinality({t \in Task : poller[t] # NoTask}) = 1
      PROVE  \E t \in Tasks : Last(heard[l]) = poller[t].previous
  <2> DEFINE Spawned == {t \in Task : poller[t] # NoTask}
  <2>1. IsFiniteSet(Spawned)
    BY ConfigAssumption, FS_Subset
  <2>2. PICK t : Spawned = {t}
    BY <1>2, <2>1, FS_Singleton
  <2>3. t \in Task /\ IsOnly(t)
    BY <1>0, <2>2 DEF IsOnly, IsTask, PolledInv
  <2>4. HasToldOf(t, l)
    BY <1>2, <2>3 DEF PolledInv
  <2>5. t \in Tasks
    BY <2>3, <2>4 DEF Tasks, HasToldOf
  <2>6. poller[t].at = "rest"
    BY <2>5 DEF Quiet
  <2> QED
    BY <2>4, <2>5, <2>6 DEF HasToldOf
<1>3. ASSUME center = "zookeeper", armed > 0 PROVE value \in ToSet(heard[l])
  BY <1>3 DEF NodeInv, Quiet
<1> QED
  BY <1>1, <1>2, <1>3

-----------------------------------------------------------------------------
(* Metadata.                                                               *)

StoreCall == [op : {"store"}, app : App, info : Info,
              pc : {"begun", "missing", "present", "set", "create", "posted"}]
RemoveCall == [op : {"remove"}, app : App, pc : {"begun", "deleted"}]
LookupCall == [op : {"lookup"}, wanted : Interface, left : SUBSET App, pc : {"reading", "found"},
               hoped : SUBSET App]

MetadataTypeOK ==
  /\ storage \in {"memory", "zookeeper", "nacos"}
  /\ stored \in [App -> Info \cup {Nothing, Blank}]
  /\ knownApps \in [Storer -> SUBSET App]
  /\ call \in [Storer -> {NoCall} \cup StoreCall \cup RemoveCall \cup LookupCall]
  /\ revision \in 0 .. MaxRevision
  /\ latest \in [App -> Info \cup {Nothing}]
  /\ untroubled \in SUBSET App

\* How far the only call that changes an application has come.
Undertakes(p, a) ==
  /\ call[p].op = "store" =>
       /\ latest[a] = call[p].info
       /\ call[p].pc \in {"missing", "create"} => stored[a] = Nothing
       /\ call[p].pc = "set" => stored[a] # Nothing
       /\ call[p].pc = "posted" => stored[a] = call[p].info
  /\ call[p].op = "remove" =>
       /\ latest[a] = Nothing
       /\ call[p].pc = "deleted" => stored[a] = Nothing

Undisturbed ==
  \A a \in untroubled :
    /\ \A p, q \in Changing(a) : p = q
    /\ \A p \in Changing(a) : Undertakes(p, a)
    /\ Changing(a) = {} => Found(a) = latest[a]

HopesAreLeft == \A p \in Storer : call[p].op = "lookup" /\ call[p].pc = "reading" => call[p].hoped \subseteq call[p].left

MetadataInv == MetadataTypeOK /\ Undisturbed /\ HopesAreLeft

-----------------------------------------------------------------------------

LEMMA InitMetadataInv == MetadataInit => MetadataInv
<1> SUFFICES ASSUME MetadataInit PROVE MetadataInv
  OBVIOUS
<1>1. MetadataTypeOK
  BY MetadataAssumption DEF MetadataInit, MetadataTypeOK
<1>2. \A a \in App : Changing(a) = {} /\ Found(a) = latest[a]
  BY DEF MetadataInit, Changing, NoCall, Found
<1>3. Undisturbed
  BY <1>2 DEF Undisturbed, MetadataInit
<1>4. HopesAreLeft
  BY DEF MetadataInit, HopesAreLeft, NoCall
<1> QED
  BY <1>1, <1>3, <1>4 DEF MetadataInv

LEMMA CallShape ==
  ASSUME MetadataTypeOK, NEW p \in Storer
  PROVE  /\ call[p].op \in {"idle", "store", "remove", "lookup"}
         /\ call[p].op = "idle" => call[p] = NoCall
         /\ call[p].op = "store" => call[p] \in StoreCall
         /\ call[p].op = "remove" => call[p] \in RemoveCall
         /\ call[p].op = "lookup" => call[p] \in LookupCall
         /\ NoCall.op = "idle"
<1>1. \/ call[p] = NoCall
      \/ call[p] \in StoreCall
      \/ call[p] \in RemoveCall
      \/ call[p] \in LookupCall
  BY DEF MetadataTypeOK
<1> QED
  BY <1>1 DEF NoCall, StoreCall, RemoveCall, LookupCall

\* A step of one process, on one application.
LEMMA OneStepUndisturbed ==
  ASSUME MetadataTypeOK, Undisturbed, NEW p \in Storer, NEW a \in App, NEW c,
         Goes(p, c),
         \A b \in App \ {a} : stored'[b] = stored[b] /\ latest'[b] = latest[b],
         untroubled' \subseteq untroubled,
         call[p].op \in {"store", "remove"} => call[p].app = a,
         c.op \in {"store", "remove"} => c.app = a,
         a \in untroubled' => \A q \in Changing(a) : q = p,
         a \in untroubled' /\ c.op \in {"store", "remove"} => Undertakes(p, a)',
         a \in untroubled' /\ c.op \notin {"store", "remove"} => Found(a)' = latest'[a]
  PROVE  Undisturbed'
<1>1. call'[p] = c /\ \A q \in Storer \ {p} : call'[q] = call[q]
  BY DEF Goes, MetadataTypeOK
<1>2. ASSUME NEW b \in untroubled', b # a
      PROVE  /\ Changing(b)' = Changing(b)
             /\ \A q \in Changing(b) : Undertakes(q, b)' = Undertakes(q, b)
             /\ Found(b)' = Found(b) /\ latest'[b] = latest[b]
  <2>1. b \in App \ {a}
    BY <1>2 DEF MetadataTypeOK
  <2>2. p \notin Changing(b) /\ p \notin Changing(b)'
    BY <1>1, <2>1 DEF Changing
  <2>3. Changing(b)' = Changing(b)
    BY <1>1, <2>2 DEF Changing
  <2>4. \A q \in Changing(b) : call'[q] = call[q]
    BY <1>1, <2>2 DEF Changing
  <2> QED
    BY <2>1, <2>3, <2>4 DEF Undertakes, Found
<1>3. ASSUME a \in untroubled' PROVE Changing(a)' = IF c.op \in {"store", "remove"} THEN {p} ELSE {}
  BY <1>1, <1>3 DEF Changing
<1> QED
  BY <1>2, <1>3 DEF Undisturbed

\* A step that goes on with the call of a process leaves the process as it was.
LEMMA NextStepUndisturbed ==
  ASSUME MetadataTypeOK, Undisturbed, NEW p \in Storer, NEW a \in App, NEW c,
         Goes(p, c), call[p].op \in {"store", "remove"}, call[p].app = a,
         \A b \in App \ {a} : stored'[b] = stored[b],
         UNCHANGED <<latest, untroubled>>,
         c.op \in {"store", "remove"} => c.app = a,
         a \in untroubled /\ Undertakes(p, a) =>
           IF c.op \in {"store", "remove"} THEN Undertakes(p, a)' ELSE Found(a)' = latest[a]
  PROVE  Undisturbed'
<1>1. p \in Changing(a)
  BY DEF Changing
<1>2. a \in untroubled => Undertakes(p, a) /\ \A q \in Changing(a) : q = p
  BY <1>1 DEF Undisturbed
<1> QED
  BY <1>2, OneStepUndisturbed

LEMMA FoundInfo ==
  ASSUME NEW a \in App, stored[a] \in Info
  PROVE  Found(a) = stored[a]
BY MetadataAssumption DEF Found

LEMMA BeginsUndisturbed ==
  ASSUME MetadataTypeOK, Undisturbed, NEW p \in Storer, NEW a \in App, NEW c, NEW leaves,
         Begins(p, a, leaves), Goes(p, c),
         \A b \in App \ {a} : stored'[b] = stored[b],
         c.op \in {"store", "remove"} => c.app = a,
         c.op \in {"store", "remove"} => Undertakes(p, a)',
         c.op \notin {"store", "remove"} => Found(a)' = latest'[a]
  PROVE  Undisturbed'
<1>1. call[p].op = "idle"
  BY DEF Begins, NoCall
<1>2. a \in untroubled' => Changing(a) = {}
  BY DEF Begins
<1>3. untroubled' \subseteq untroubled /\ \A b \in App \ {a} : latest'[b] = latest[b]
  BY DEF Begins, MetadataTypeOK
<1> QED
  BY <1>1, <1>2, <1>3, OneStepUndisturbed

LEMMA StoreKeepsMetadata ==
  ASSUME MetadataInv, NEW p \in Storer, NEW a \in App, NEW s \in SUBSET Interface, StoreInfo(p, a, s)
  PROVE  MetadataInv'
<1> DEFINE info == [revision |-> revision + 1, services |-> s]
           c == [op |-> "store", app |-> a, info |-> info, pc |-> "begun"]
<1>1. MetadataTypeOK /\ Undisturbed /\ HopesAreLeft
  BY DEF MetadataInv
<1>2. info \in Info /\ revision' \in 0 .. MaxRevision
  BY <1>1, MetadataAssumption DEF StoreInfo, MetadataTypeOK, Info
<1>3. c \in StoreCall /\ c.op = "store" /\ c.app = a /\ c.info = info /\ c.pc = "begun"
  BY <1>2 DEF StoreCall
<1>4. Begins(p, a, info) /\ call[p] = NoCall /\ latest'[a] = info /\ UNCHANGED <<storage, knownApps>>
  BY <1>1 DEF StoreInfo, Begins, MetadataTypeOK
<1>5. /\ latest' \in [App -> Info \cup {Nothing}] /\ untroubled' \in SUBSET App
  BY <1>1, <1>2, <1>4 DEF Begins, MetadataTypeOK
<1>6. CASE storage = "memory"
  <2>1. PutInfo(a, info) /\ call' = call
    BY <1>6 DEF StoreInfo
  <2>2. stored'[a] = info /\ \A b \in App \ {a} : stored'[b] = stored[b]
    BY <1>1, <2>1 DEF PutInfo, MetadataTypeOK
  <2>3. Goes(p, NoCall)
    BY <1>1, <1>4, <2>1 DEF Goes, MetadataTypeOK
  <2>4. Found(a)' = latest'[a]
    BY <1>2, <1>4, <2>2, MetadataAssumption DEF Found
  <2>5. NoCall.op = "idle"
    BY DEF NoCall
  <2> HIDE DEF info
  <2>6. Undisturbed'
    BY <1>1, <1>4, <2>2, <2>3, <2>4, <2>5, BeginsUndisturbed
  <2>7. MetadataTypeOK'
    BY <1>1, <1>2, <1>4, <1>5, <2>1 DEF MetadataTypeOK, PutInfo
  <2> QED
    BY <1>1, <2>1, <2>6, <2>7 DEF MetadataInv, HopesAreLeft
<1>7. CASE storage # "memory"
  <2>1. Goes(p, c) /\ stored' = stored
    BY <1>7 DEF StoreInfo
  <2>2. call'[p] = c /\ \A q \in Storer \ {p} : call'[q] = call[q]
    BY <1>1, <2>1 DEF Goes, MetadataTypeOK
  <2>3. Undertakes(p, a)'
    BY <1>3, <1>4, <2>2 DEF Undertakes
  <2> HIDE DEF c, info
  <2>4. Undisturbed'
    BY <1>1, <1>3, <1>4, <2>1, <2>3, BeginsUndisturbed
  <2>5. MetadataTypeOK'
    BY <1>1, <1>2, <1>3, <1>4, <1>5, <2>1 DEF MetadataTypeOK, Goes
  <2>6. HopesAreLeft'
    BY <1>1, <1>3, <2>2 DEF HopesAreLeft
  <2> QED
    BY <2>4, <2>5, <2>6 DEF MetadataInv
<1> QED
  BY <1>6, <1>7

\* What the rest of store() and remove() goes on from.
LEMMA StoreShape ==
  ASSUME MetadataTypeOK, NEW p \in Storer, call[p].op = "store"
  PROVE  /\ call[p].app \in App /\ call[p].info \in Info
         /\ \A pc \in {"begun", "missing", "present", "set", "create", "posted"} :
              LET c == [call[p] EXCEPT !.pc = pc]
              IN /\ c \in StoreCall /\ c.pc = pc
                 /\ c.op = "store" /\ c.app = call[p].app /\ c.info = call[p].info
<1>1. call[p] \in StoreCall
  BY CallShape
<1> QED
  BY <1>1 DEF StoreCall

LEMMA RemoveShape ==
  ASSUME MetadataTypeOK, NEW p \in Storer, call[p].op = "remove"
  PROVE  /\ call[p].app \in App
         /\ LET c == [call[p] EXCEPT !.pc = "deleted"]
            IN c \in RemoveCall /\ c.pc = "deleted" /\ c.op = "remove" /\ c.app = call[p].app
<1>1. call[p] \in RemoveCall
  BY CallShape
<1> QED
  BY <1>1 DEF RemoveCall

\* What a step of store() or remove() leaves alone.
LEMMA GoesFacts ==
  ASSUME MetadataTypeOK, HopesAreLeft, NEW p \in Storer, NEW c, Goes(p, c),
         c \in {NoCall} \cup StoreCall \cup RemoveCall
  PROVE  /\ call'[p] = c /\ \A q \in Storer \ {p} : call'[q] = call[q]
         /\ call' \in [Storer -> {NoCall} \cup StoreCall \cup RemoveCall \cup LookupCall]
         /\ HopesAreLeft'
<1>1. call'[p] = c /\ \A q \in Storer \ {p} : call'[q] = call[q]
  BY DEF Goes, MetadataTypeOK
<1>2. call' \in [Storer -> {NoCall} \cup StoreCall \cup RemoveCall \cup LookupCall]
  BY DEF Goes, MetadataTypeOK
<1>3. c.op # "lookup"
  BY DEF NoCall, StoreCall, RemoveCall
<1> QED
  BY <1>1, <1>2, <1>3 DEF HopesAreLeft

LEMMA PutFacts ==
  ASSUME MetadataTypeOK, NEW a \in App, NEW new \in Info \cup {Nothing, Blank}, PutInfo(a, new)
  PROVE  /\ stored' \in [App -> Info \cup {Nothing, Blank}]
         /\ stored'[a] = new /\ \A b \in App \ {a} : stored'[b] = stored[b]
BY DEF PutInfo, MetadataTypeOK

\* A step of store() or remove(), once it is known what it does to the call and the storage.
LEMMA StorageStep ==
  ASSUME MetadataInv, NEW p \in Storer, NEW a \in App, NEW c, Goes(p, c),
         call[p].op \in {"store", "remove"}, call[p].app = a,
         c \in {NoCall} \cup StoreCall \cup RemoveCall,
         stored' \in [App -> Info \cup {Nothing, Blank}],
         \A b \in App \ {a} : stored'[b] = stored[b],
         knownApps' \in [Storer -> SUBSET App],
         UNCHANGED <<storage, revision, latest, untroubled>>,
         c.op \in {"store", "remove"} => c.app = a,
         a \in untroubled /\ Undertakes(p, a) =>
           IF c.op \in {"store", "remove"} THEN Undertakes(p, a)' ELSE Found(a)' = latest[a]
  PROVE  MetadataInv'
<1>1. MetadataTypeOK /\ Undisturbed /\ HopesAreLeft
  BY DEF MetadataInv
<1>2. Undisturbed'
  BY <1>1, NextStepUndisturbed
<1>3. HopesAreLeft' /\ call' \in [Storer -> {NoCall} \cup StoreCall \cup RemoveCall \cup LookupCall]
  BY <1>1, GoesFacts
<1> QED
  BY <1>1, <1>2, <1>3 DEF MetadataInv, MetadataTypeOK

LEMMA PathKeepsMetadata ==
  ASSUME MetadataInv, NEW p \in Storer, LookForPath(p) \/ CreatePath(p) \/ LookAgain(p)
  PROVE  MetadataInv'
<1>1. MetadataTypeOK /\ UNCHANGED <<storage, knownApps, revision, latest, untroubled>>
  BY DEF MetadataInv, LookForPath, CreatePath, LookAgain
<1>2. /\ stored \in [App -> Info \cup {Nothing, Blank}]
      /\ knownApps' \in [Storer -> SUBSET App] /\ call[p].op = "store" /\ NoCall.op = "idle"
  BY <1>1 DEF MetadataTypeOK, LookForPath, CreatePath, LookAgain, At, NoCall
<1> DEFINE a == call[p].app  c(pc) == [call[p] EXCEPT !.pc = pc]
<1>3. a \in App /\ \A pc \in {"missing", "present", "set", "create"} :
        /\ c(pc) \in StoreCall /\ c(pc).pc = pc
        /\ c(pc).op = "store" /\ c(pc).app = a /\ c(pc).info = call[p].info
  <2>1. call[p] \in StoreCall
    BY <1>1, <1>2, CallShape
  <2> QED
    BY <2>1 DEF StoreCall
<1>4. PICK b \in App : b = a
  BY <1>3
<1>5. \A d \in {NoCall} \cup StoreCall \cup RemoveCall : Goes(p, d) => call'[p] = d
  BY <1>1, GoesFacts DEF MetadataInv
<1>6. CASE LookForPath(p)
  <2> DEFINE d == c(IF stored[b] = Nothing THEN "missing" ELSE "present")
  <2>1. Goes(p, d) /\ stored' = stored
    BY <1>4, <1>6 DEF LookForPath, Moves
  <2>2. d \in StoreCall /\ d.op = "store" /\ d.app = b /\ d.info = call[p].info
        /\ d.pc \in {"missing", "present"} /\ (d.pc = "missing" => stored[b] = Nothing)
    BY <1>3, <1>4
  <2> HIDE DEF d, c, a
  <2>3. Undertakes(p, b) => Undertakes(p, b)'
    BY <1>1, <1>2, <1>5, <2>1, <2>2 DEF Undertakes
  <2> QED
    BY <1>1, <1>2, <1>4, <2>1, <2>2, <2>3, StorageStep DEF a
<1>7. CASE CreatePath(p) /\ stored[b] = Nothing
  <2> DEFINE d == c("present")
  <2>1. Goes(p, d) /\ PutInfo(b, Blank)
    BY <1>4, <1>7 DEF CreatePath, Moves
  <2>2. d \in StoreCall /\ d.op = "store" /\ d.app = b /\ d.info = call[p].info /\ d.pc = "present"
    BY <1>3, <1>4
  <2> HIDE DEF d, c, a
  <2>3. Undertakes(p, b) => Undertakes(p, b)'
    BY <1>1, <1>2, <1>5, <2>1, <2>2 DEF Undertakes
  <2>4. /\ stored' \in [App -> Info \cup {Nothing, Blank}]
        /\ \A e \in App \ {b} : stored'[e] = stored[e]
    BY <1>1, <2>1, PutFacts
  <2> QED
    BY <1>1, <1>2, <1>4, <2>1, <2>2, <2>3, <2>4, StorageStep DEF a
<1>8. CASE CreatePath(p) /\ stored[b] # Nothing
  <2>1. Goes(p, NoCall) /\ stored' = stored
    BY <1>4, <1>8 DEF CreatePath
  <2>2. ~Undertakes(p, b)
    BY <1>2, <1>8 DEF Undertakes, CreatePath, At
  <2> QED
    BY <1>1, <1>2, <1>4, <2>1, <2>2, StorageStep
<1>9. CASE LookAgain(p)
  <2> DEFINE d == c(IF stored[b] = Nothing THEN "create" ELSE "set")
  <2>1. Goes(p, d) /\ stored' = stored
    BY <1>4, <1>9 DEF LookAgain, Moves
  <2>2. d \in StoreCall /\ d.op = "store" /\ d.app = b /\ d.info = call[p].info
        /\ d.pc = IF stored[b] = Nothing THEN "create" ELSE "set"
    BY <1>3, <1>4
  <2> HIDE DEF d, c, a
  <2>3. Undertakes(p, b) => Undertakes(p, b)'
    BY <1>1, <1>2, <1>5, <2>1, <2>2 DEF Undertakes
  <2> QED
    BY <1>1, <1>2, <1>4, <2>1, <2>2, <2>3, StorageStep DEF a
<1> QED
  BY <1>6, <1>7, <1>8, <1>9

LEMMA WriteKeepsMetadata ==
  ASSUME MetadataInv, NEW p \in Storer, WriteInfo(p) \/ Post(p) \/ NoteKnown(p)
  PROVE  MetadataInv'
<1>1. MetadataTypeOK /\ UNCHANGED <<storage, revision, latest, untroubled>>
  BY DEF MetadataInv, WriteInfo, Post, NoteKnown
<1>2. call[p].op = "store" /\ NoCall.op = "idle" /\ stored \in [App -> Info \cup {Nothing, Blank}]
      /\ knownApps \in [Storer -> SUBSET App]
  BY <1>1 DEF MetadataTypeOK, WriteInfo, Post, NoteKnown, At, NoCall
<1>3. call[p].app \in App /\ call[p].info \in Info
  BY <1>1, <1>2, StoreShape
<1>4. PICK a \in App : a = call[p].app
  BY <1>3
<1>5. CASE WriteInfo(p)
  <2>1. Goes(p, NoCall) /\ knownApps' = knownApps /\ call[p].pc \in {"set", "create"}
        /\ (PutInfo(a, call[p].info) \/ (~MayWrite(stored[a] # Nothing, call[p].pc) /\ stored' = stored))
    <3>1. Goes(p, NoCall) /\ knownApps' = knownApps /\ call[p].pc \in {"set", "create"}
      BY <1>5 DEF WriteInfo
    <3>2. IF MayWrite(stored[a] # Nothing, call[p].pc) THEN PutInfo(a, call[p].info)
          ELSE UNCHANGED stored
      BY <1>4, <1>5 DEF WriteInfo
    <3>3. PutInfo(a, call[p].info) \/ (~MayWrite(stored[a] # Nothing, call[p].pc) /\ stored' = stored)
      BY <3>2, Zenon
    <3> QED
      BY <3>1, <3>3
  <2>2. /\ stored' \in [App -> Info \cup {Nothing, Blank}]
        /\ \A e \in App \ {a} : stored'[e] = stored[e]
        /\ PutInfo(a, call[p].info) => stored'[a] = call[p].info
    BY <1>1, <1>2, <1>3, <2>1, PutFacts
  <2>3. Undertakes(p, a) => MayWrite(stored[a] # Nothing, call[p].pc) /\ latest[a] = call[p].info
    BY <1>2, <2>1 DEF Undertakes, MayWrite
  <2>4. Undertakes(p, a) => stored'[a] = call[p].info /\ latest[a] = call[p].info
    BY <2>1, <2>2, <2>3
  <2>5. Undertakes(p, a) => Found(a)' = latest[a]
    BY <1>3, <2>4, MetadataAssumption DEF Found
  <2> QED
    BY <1>1, <1>2, <1>4, <2>1, <2>2, <2>5, StorageStep
<1>6. CASE Post(p)
  <2> DEFINE d == [call[p] EXCEPT !.pc = "posted"]
  <2>1. Goes(p, d) /\ knownApps' = knownApps /\ PutInfo(a, call[p].info)
    BY <1>4, <1>6 DEF Post, Moves
  <2>2. /\ stored' \in [App -> Info \cup {Nothing, Blank}] /\ stored'[a] = call[p].info
        /\ \A e \in App \ {a} : stored'[e] = stored[e]
    BY <1>1, <1>3, <2>1, PutFacts
  <2>3. d \in StoreCall /\ d.op = "store" /\ d.app = a /\ d.info = call[p].info /\ d.pc = "posted"
    BY <1>1, <1>2, <1>4, StoreShape
  <2> HIDE DEF d
  <2>4. call'[p] = d
    BY <1>1, <2>1, <2>3, GoesFacts DEF MetadataInv
  <2>5. Undertakes(p, a) => Undertakes(p, a)'
    BY <1>1, <1>2, <2>2, <2>3, <2>4 DEF Undertakes
  <2> QED
    BY <1>1, <1>2, <1>4, <2>1, <2>2, <2>3, <2>5, StorageStep
<1>7. CASE NoteKnown(p)
  <2>1. Goes(p, NoCall) /\ stored' = stored /\ call[p].pc = "posted"
        /\ Knows(p, knownApps[p] \cup {a})
    BY <1>4, <1>7 DEF NoteKnown, At
  <2>2. knownApps' \in [Storer -> SUBSET App]
    BY <1>2, <2>1 DEF Knows
  <2>3. Undertakes(p, a) => stored[a] = call[p].info /\ latest[a] = call[p].info
    BY <1>2, <2>1 DEF Undertakes
  <2>4. Undertakes(p, a) => Found(a)' = latest[a]
    BY <1>3, <2>1, <2>3, MetadataAssumption DEF Found
  <2> QED
    BY <1>1, <1>2, <1>4, <2>1, <2>2, <2>4, StorageStep
<1> QED
  BY <1>5, <1>6, <1>7

LEMMA RemoveKeepsMetadata ==
  ASSUME MetadataInv, NEW p \in Storer, NEW a \in App, RemoveInfo(p, a)
  PROVE  MetadataInv'
<1> DEFINE c == [op |-> "remove", app |-> a, pc |-> "begun"]
<1>1. MetadataTypeOK /\ Undisturbed /\ HopesAreLeft
  BY DEF MetadataInv
<1>2. c \in RemoveCall /\ c.op = "remove" /\ c.app = a /\ c.pc = "begun" /\ NoCall.op = "idle"
  BY DEF RemoveCall, NoCall
<1>3. Begins(p, a, Nothing) /\ call[p] = NoCall /\ latest'[a] = Nothing
      /\ UNCHANGED <<storage, knownApps, revision>>
  BY <1>1 DEF RemoveInfo, Begins, MetadataTypeOK
<1>4. latest' \in [App -> Info \cup {Nothing}] /\ untroubled' \in SUBSET App
  BY <1>1, <1>3 DEF Begins, MetadataTypeOK
<1>5. CASE PutInfo(a, Nothing) /\ call' = call
  <2>1. /\ stored' \in [App -> Info \cup {Nothing, Blank}]
        /\ stored'[a] = Nothing /\ \A b \in App \ {a} : stored'[b] = stored[b]
    BY <1>1, <1>5, PutFacts
  <2>2. Goes(p, NoCall)
    BY <1>1, <1>3, <1>5 DEF Goes, MetadataTypeOK
  <2>3. Found(a)' = latest'[a]
    BY <1>3, <2>1 DEF Found
  <2>4. Undisturbed'
    BY <1>1, <1>2, <1>3, <2>1, <2>2, <2>3, BeginsUndisturbed
  <2> QED
    BY <1>1, <1>3, <1>4, <1>5, <2>1, <2>4 DEF MetadataInv, MetadataTypeOK, HopesAreLeft
<1>6. CASE stored' = stored /\ Goes(p, NoCall) /\ Found(a) = Nothing
  <2>1. Found(a)' = latest'[a]
    BY <1>3, <1>6 DEF Found
  <2>2. Undisturbed'
    BY <1>1, <1>2, <1>3, <1>6, <2>1, BeginsUndisturbed
  <2>3. HopesAreLeft' /\ call' \in [Storer -> {NoCall} \cup StoreCall \cup RemoveCall \cup LookupCall]
    BY <1>1, <1>6, GoesFacts
  <2> QED
    BY <1>1, <1>3, <1>4, <1>6, <2>2, <2>3 DEF MetadataInv, MetadataTypeOK
<1>7. CASE stored' = stored /\ Goes(p, c)
  <2> HIDE DEF c
  <2>1. call'[p] = c /\ HopesAreLeft'
        /\ call' \in [Storer -> {NoCall} \cup StoreCall \cup RemoveCall \cup LookupCall]
    BY <1>1, <1>2, <1>7, GoesFacts
  <2>2. Undertakes(p, a)'
    BY <1>2, <1>3, <2>1 DEF Undertakes
  <2>3. Undisturbed'
    BY <1>1, <1>2, <1>3, <1>7, <2>2, BeginsUndisturbed
  <2> QED
    BY <1>1, <1>3, <1>4, <1>7, <2>1, <2>3 DEF MetadataInv, MetadataTypeOK
<1> QED
  BY <1>5, <1>6, <1>7 DEF RemoveInfo

LEMMA DeleteKeepsMetadata ==
  ASSUME MetadataInv, NEW p \in Storer, DeleteInfo(p) \/ NoteUnknown(p)
  PROVE  MetadataInv'
<1>1. MetadataTypeOK /\ UNCHANGED <<storage, revision, latest, untroubled>>
  BY DEF MetadataInv, DeleteInfo, NoteUnknown
<1>2. call[p].op = "remove" /\ NoCall.op = "idle" /\ stored \in [App -> Info \cup {Nothing, Blank}]
      /\ knownApps \in [Storer -> SUBSET App]
  BY <1>1 DEF MetadataTypeOK, DeleteInfo, NoteUnknown, At, NoCall
<1>3. call[p].app \in App
  BY <1>1, <1>2, RemoveShape
<1>4. PICK a \in App : a = call[p].app
  BY <1>3
<1>5. Undertakes(p, a) => latest[a] = Nothing
  BY <1>2 DEF Undertakes
<1>6. CASE DeleteInfo(p)
  <2> DEFINE d == [call[p] EXCEPT !.pc = "deleted"]
  <2>1. PutInfo(a, Nothing) /\ (Goes(p, d) \/ Goes(p, NoCall)) /\ knownApps' = knownApps
    BY <1>4, <1>6 DEF DeleteInfo, Moves
  <2>2. /\ stored' \in [App -> Info \cup {Nothing, Blank}] /\ stored'[a] = Nothing
        /\ \A b \in App \ {a} : stored'[b] = stored[b]
    BY <1>1, <2>1, PutFacts
  <2>3. d \in RemoveCall /\ d.op = "remove" /\ d.app = a /\ d.pc = "deleted"
    BY <1>1, <1>2, <1>4, RemoveShape
  <2> HIDE DEF d
  <2>4. CASE Goes(p, d)
    <3>1. call'[p] = d
      BY <1>1, <2>3, <2>4, GoesFacts DEF MetadataInv
    <3>2. Undertakes(p, a) => Undertakes(p, a)'
      BY <1>1, <1>5, <2>2, <2>3, <3>1 DEF Undertakes
    <3> QED
      BY <1>1, <1>2, <1>4, <2>1, <2>2, <2>3, <2>4, <3>2, StorageStep
  <2>5. CASE Goes(p, NoCall)
    <3>1. Undertakes(p, a) => Found(a)' = latest[a]
      BY <1>5, <2>2 DEF Found
    <3> QED
      BY <1>1, <1>2, <1>4, <2>1, <2>2, <2>5, <3>1, StorageStep
  <2> QED
    BY <2>1, <2>4, <2>5
<1>7. CASE NoteUnknown(p)
  <2>1. Goes(p, NoCall) /\ stored' = stored /\ call[p].pc = "deleted" /\ Knows(p, knownApps[p] \ {a})
    BY <1>4, <1>7 DEF NoteUnknown, At
  <2>2. knownApps' \in [Storer -> SUBSET App]
    BY <1>2, <2>1 DEF Knows
  <2>3. Undertakes(p, a) => Found(a)' = latest[a]
    BY <1>2, <1>5, <2>1 DEF Undertakes, Found
  <2> QED
    BY <1>1, <1>2, <1>4, <2>1, <2>2, <2>3, StorageStep
<1> QED
  BY <1>6, <1>7

LEMMA FailKeepsMetadata ==
  ASSUME MetadataInv, NEW p \in Storer, Fail(p)
  PROVE  MetadataInv'
<1>1. MetadataTypeOK /\ Undisturbed /\ HopesAreLeft
  BY DEF MetadataInv
<1>2. /\ call[p].op \in {"store", "remove"} /\ Goes(p, NoCall)
      /\ untroubled' = untroubled \ {call[p].app}
      /\ UNCHANGED <<storage, stored, knownApps, revision, latest>>
  BY DEF Fail
<1>3. PICK a \in App : a = call[p].app
  BY <1>1, <1>2, StoreShape, RemoveShape
<1>4. NoCall.op = "idle" /\ a \notin untroubled' /\ untroubled' \subseteq untroubled
  BY <1>2, <1>3 DEF NoCall
<1>5. Undisturbed'
  BY <1>1, <1>2, <1>3, <1>4, OneStepUndisturbed
<1>6. HopesAreLeft' /\ call' \in [Storer -> {NoCall} \cup StoreCall \cup RemoveCall \cup LookupCall]
  BY <1>1, <1>2, GoesFacts
<1> QED
  BY <1>1, <1>2, <1>5, <1>6 DEF MetadataInv, MetadataTypeOK

\* A lookup changes nothing but the call it is.
LEMMA LookupKeepsMetadata ==
  ASSUME MetadataInv, NEW p \in Storer,
         \/ \E i \in Interface : Lookup(p, i)
         \/ \E a \in App : LookAt(p, a)
         \/ LookupEnds(p)
  PROVE  MetadataInv'
<1>1. MetadataTypeOK /\ Undisturbed /\ HopesAreLeft
  BY DEF MetadataInv
<1>2. UNCHANGED <<storage, stored, knownApps, revision, latest, untroubled>>
  BY DEF Lookup, LookAt, LookupEnds
<1>3. call[p].op \in {"idle", "lookup"} /\ NoCall.op = "idle"
  <2>1. NoCall.op = "idle"
    BY DEF NoCall
  <2> QED
    BY <2>1 DEF Lookup, LookAt, LookupEnds, At
<1>4. PICK c \in {NoCall} \cup LookupCall :
        Goes(p, c) /\ (c.op = "lookup" /\ c.pc = "reading" => c.hoped \subseteq c.left)
  <2>1. ASSUME NEW i \in Interface, Lookup(p, i)
        PROVE  \E c \in LookupCall : Goes(p, c) /\ (c.pc = "reading" => c.hoped \subseteq c.left)
    <3> DEFINE listed == Applications(p)
               c == [op |-> "lookup", wanted |-> i, left |-> listed, pc |-> "reading",
                     hoped |-> {a \in listed : Offers(a, i)}]
    <3>1. listed \in SUBSET App
      BY <1>1 DEF Applications, MetadataTypeOK
    <3>2. c \in LookupCall /\ c.hoped \subseteq c.left
      BY <3>1 DEF LookupCall
    <3> QED
      BY <2>1, <3>2 DEF Lookup
  <2>2. ASSUME NEW a \in App, LookAt(p, a)
        PROVE  \E c \in LookupCall : Goes(p, c) /\ (c.pc = "reading" => c.hoped \subseteq c.left)
    <3> DEFINE wanted == call[p].wanted
               hoped == {b \in call[p].hoped : Offers(b, wanted)}
               c == IF Offers(a, wanted)
                    THEN [call[p] EXCEPT !.pc = "found", !.left = {}, !.hoped = hoped]
                    ELSE [call[p] EXCEPT !.left = call[p].left \ {a}, !.hoped = hoped]
    <3>1. call[p].op = "lookup" /\ call[p].pc = "reading"
      BY <2>2 DEF LookAt, At
    <3>2. call[p] \in LookupCall /\ call[p].hoped \subseteq call[p].left
      BY <1>1, <3>1, CallShape DEF HopesAreLeft
    <3>3. hoped \in SUBSET App /\ hoped \subseteq call[p].hoped
      BY <3>2 DEF LookupCall
    <3>4. ~Offers(a, wanted) => a \notin hoped
      OBVIOUS
    <3>5. Goes(p, c)
      BY <2>2 DEF LookAt
    <3> HIDE DEF hoped
    <3>6. c \in LookupCall /\ (c.pc = "reading" => c.hoped \subseteq c.left)
      BY <3>2, <3>3, <3>4 DEF LookupCall
    <3> QED
      BY <3>5, <3>6
  <2>3. ASSUME LookupEnds(p) PROVE Goes(p, NoCall)
    BY <2>3 DEF LookupEnds
  <2> QED
    BY <1>3, <2>1, <2>2, <2>3
<1>5. call'[p] = c /\ \A q \in Storer \ {p} : call'[q] = call[q]
  BY <1>1, <1>4 DEF Goes, MetadataTypeOK
<1>6. c.op \in {"idle", "lookup"}
  BY <1>3 DEF LookupCall
<1>7. \A a \in App : Changing(a)' = Changing(a) /\ \A q \in Changing(a) : call'[q] = call[q]
  BY <1>3, <1>5, <1>6 DEF Changing
<1>8. Undisturbed'
  BY <1>1, <1>2, <1>7 DEF Undisturbed, Undertakes, Found, MetadataTypeOK
<1>9. HopesAreLeft'
  BY <1>1, <1>4, <1>5 DEF HopesAreLeft
<1>10. MetadataTypeOK'
  BY <1>1, <1>2, <1>4 DEF MetadataTypeOK, Goes
<1> QED
  BY <1>8, <1>9, <1>10 DEF MetadataInv

LEMMA NextMetadataInv ==
  ASSUME MetadataInv, [MetadataNext]_metadataVars
  PROVE  MetadataInv'
<1>1. CASE MetadataNext
  BY <1>1, StoreKeepsMetadata, PathKeepsMetadata, WriteKeepsMetadata, RemoveKeepsMetadata,
     DeleteKeepsMetadata, FailKeepsMetadata, LookupKeepsMetadata DEF MetadataNext
<1>2. CASE UNCHANGED metadataVars
  BY <1>2 DEF metadataVars, MetadataInv, MetadataTypeOK, Undisturbed, Undertakes, HopesAreLeft, Found,
              Changing
<1> QED
  BY <1>1, <1>2

LEMMA MetadataInvSuffices == MetadataInv => MetadataIsFound
<1> SUFFICES ASSUME MetadataInv PROVE MetadataIsFound
  OBVIOUS
<1>1. LastCallCounts
  BY DEF MetadataInv, Undisturbed, LastCallCounts
<1>2. LookupsFind
  BY DEF MetadataInv, HopesAreLeft, LookupsFind
<1> QED
  BY <1>1, <1>2 DEF MetadataIsFound

-----------------------------------------------------------------------------
(* Metrics.                                                                *)

\* What a call has still to record: a request, an error, a duration.
OwingRequest == {<<"success">>, <<"error_status", "error">>}
OwingError == {<<"error">>, <<"duration", "error">>}
OwingDuration == {<<"duration", "error">>}
Unfinished == OwingRequest \cup OwingError
Begun == {<<"duration", "success">>, <<"duration", "error_status", "error">>,
          <<"error_status", "duration", "error">>}
Owing(steps) == {c \in Invocation : recording[c] \in steps}

Gathered == UNION {[D -> Nat] : D \in SUBSET (Sample \cup Event)}

CollectorTypeOK ==
  /\ families \in {Metric, {}}
  /\ recording \in [Invocation -> {<<>>, <<"start">>, <<"call">>} \cup Begun \cup Unfinished]
  /\ total \in [Sample \cup Event -> Nat]
  /\ scrape \in [Scraper -> [left : SUBSET Metric, got : Gathered, disturbed : BOOLEAN]]

\* What was recorded differs by what the calls still owe.
Balanced ==
  /\ total["error"] + Cardinality(Owing(OwingError)) = total["error_status"]
  /\ total["success"] + total["error_status"] + Cardinality(Owing(OwingRequest))
       = total["duration"] + Cardinality(Owing(OwingDuration))

\* A scrape that met no call being recorded sees totals that add up and that stay.
Even == /\ total["error"] = total["error_status"]
        /\ total["duration"] = total["success"] + total["error_status"]
SeesTotals(s) ==
  LET got == scrape[s].got
  IN ~scrape[s].disturbed /\ (scrape[s].left # {} \/ got # <<>>) =>
       /\ Even
       /\ \A metric \in Metric \ scrape[s].left : SamplesOf(metric) \subseteq DOMAIN got
       /\ \A x \in Sample \cap DOMAIN got : got[x] = total[x]

CollectorInv == CollectorTypeOK /\ Balanced /\ \A s \in Scraper : SeesTotals(s)

Asked(r) ==
  /\ DOMAIN r = {"path", "body", "left", "ran", "code", "pc", "up", "good", "well"}
  /\ r.path \in {"/health", "/health/ready", "/health/live"}
  /\ r.body \in {"none"} \cup HealthStatus
  /\ r.left \in SUBSET Check /\ r.ran \in SUBSET Check /\ r.code \in {200, 503}
  /\ r.pc \in {"body", "status", "checks", "answer"}
  /\ r.up \in BOOLEAN /\ r.good \in SUBSET Check /\ r.well \in BOOLEAN
HealthTypeOK ==
  /\ health \in [status : HealthStatus, checks : SUBSET Check, good : SUBSET Check]
  /\ moves \in Nat
  /\ DOMAIN probe = Prober

\* What a request has seen was so, and is so still if it was well all the time.
HasSeen(r) ==
  /\ r.well => Well(health) /\ r.body \in {"none", "Up"}
  /\ health.status = "Up" => r.up
  /\ health.good \subseteq r.good
  /\ r.pc \in {"body", "status"} => r.code = 200
  /\ r.pc \in {"body", "checks"} => r.path = "/health"
  /\ r.path = "/health/live" => r.pc = "answer" /\ r.code = 200
  /\ r.pc = "answer" =>
       /\ r.path = "/health" => r.code = 503
       /\ r.path = "/health/ready" /\ r.code = 200 => r.up
       /\ r.code = 503 => ~r.well
  /\ r.pc = "checks" =>
       /\ r.up
       /\ r.left \subseteq r.ran /\ r.ran \subseteq health.checks
       /\ r.code = 200 => r.ran \subseteq r.left \cup r.good
       /\ r.code = 503 => ~r.well /\ r.left = {}

HealthInv == HealthTypeOK /\ \A p \in Prober :
  probe[p].pc = "idle" \/ (Asked(probe[p]) /\ HasSeen(probe[p]))

-----------------------------------------------------------------------------

\* A number for a truth value, to count with.
One(b) == IF b THEN 1 ELSE 0

\* The cardinality of the calls with given steps, when one call gets other steps.
LEMMA OwingStep ==
  ASSUME CollectorTypeOK, NEW c \in Invocation, NEW steps, Recording(c, steps), NEW S
  PROVE  /\ Cardinality(Owing(S)) \in Nat /\ Cardinality(Owing(S)') \in Nat
         /\ Cardinality(Owing(S)') + One(recording[c] \in S) = Cardinality(Owing(S)) + One(steps \in S)
<1>1. recording'[c] = steps /\ \A d \in Invocation \ {c} : recording'[d] = recording[d]
  BY DEF Recording, CollectorTypeOK
<1>2. IsFiniteSet(Owing(S)) /\ IsFiniteSet(Owing(S)')
  <2>1. Owing(S) \in SUBSET Invocation /\ Owing(S)' \in SUBSET Invocation
    BY DEF Owing
  <2> QED
    BY <2>1, MetricsAssumption, FS_Subset
<1>3. Cardinality(Owing(S)) \in Nat /\ Cardinality(Owing(S)') \in Nat
  BY <1>2, FS_CardinalityType
<1>4. CASE recording[c] \in S /\ steps \in S
  <2>1. Owing(S)' = Owing(S)
    BY <1>1, <1>4 DEF Owing
  <2> QED
    BY <1>3, <1>4, <2>1 DEF One
<1>5. CASE recording[c] \notin S /\ steps \notin S
  <2>1. Owing(S)' = Owing(S)
    BY <1>1, <1>5 DEF Owing
  <2> QED
    BY <1>3, <1>5, <2>1 DEF One
<1>6. CASE recording[c] \notin S /\ steps \in S
  <2>1. Owing(S)' = Owing(S) \cup {c} /\ c \notin Owing(S)
    BY <1>1, <1>6 DEF Owing
  <2>2. Cardinality(Owing(S)') = Cardinality(Owing(S)) + 1
    BY <1>2, <2>1, FS_AddElement
  <2> QED
    BY <1>3, <1>6, <2>2 DEF One
<1>7. CASE recording[c] \in S /\ steps \notin S
  <2>1. Owing(S)' = Owing(S) \ {c} /\ c \in Owing(S)
    BY <1>1, <1>7 DEF Owing
  <2>2. Cardinality(Owing(S)') = Cardinality(Owing(S)) - 1
    BY <1>2, <2>1, FS_RemoveElement
  <2> QED
    BY <1>3, <1>7, <2>2 DEF One
<1> QED
  BY <1>4, <1>5, <1>6, <1>7

\* What one step records, and what is owed before and after it.
LEMMA StepOwes ==
  ASSUME NEW steps \in Begun \cup Unfinished
  PROVE  /\ steps # <<>> /\ Head(steps) \in Sample /\ Tail(steps) \in {<<>>} \cup Unfinished
         /\ One(Head(steps) = "error") + One(Tail(steps) \in OwingError)
              = One(Head(steps) = "error_status") + One(steps \in OwingError)
         /\ One(Head(steps) \in {"success", "error_status"}) + One(Tail(steps) \in OwingRequest)
                + One(steps \in OwingDuration)
              = One(Head(steps) = "duration") + One(steps \in OwingRequest)
                + One(Tail(steps) \in OwingDuration)
<1> USE DEF Begun, Steps, Unfinished, OwingRequest, OwingError, OwingDuration, Sample, One
<1>1. \/ steps = <<"duration", "success">>
      \/ steps = <<"success">>
      \/ steps = <<"duration", "error_status", "error">>
      \/ steps = <<"error_status", "error">>
      \/ steps = <<"error">>
      \/ steps = <<"error_status", "duration", "error">>
      \/ steps = <<"duration", "error">>
  OBVIOUS
<1>2. CASE steps = <<"duration", "success">>
  <2>1. Head(steps) = "duration" /\ Tail(steps) = <<"success">>
    BY <1>2
  <2> QED
    BY <1>2, <2>1
<1>3. CASE steps = <<"success">>
  <2>1. Head(steps) = "success" /\ Tail(steps) = <<>>
    BY <1>3
  <2> QED
    BY <1>3, <2>1
<1>4. CASE steps = <<"duration", "error_status", "error">>
  <2>1. Head(steps) = "duration" /\ Tail(steps) = <<"error_status", "error">>
    BY <1>4
  <2> QED
    BY <1>4, <2>1
<1>5. CASE steps = <<"error_status", "error">>
  <2>1. Head(steps) = "error_status" /\ Tail(steps) = <<"error">>
    BY <1>5
  <2> QED
    BY <1>5, <2>1
<1>6. CASE steps = <<"error">>
  <2>1. Head(steps) = "error" /\ Tail(steps) = <<>>
    BY <1>6
  <2> QED
    BY <1>6, <2>1
<1>7. CASE steps = <<"error_status", "duration", "error">>
  <2>1. Head(steps) = "error_status" /\ Tail(steps) = <<"duration", "error">>
    BY <1>7
  <2> QED
    BY <1>7, <2>1
<1>8. CASE steps = <<"duration", "error">>
  <2>1. Head(steps) = "duration" /\ Tail(steps) = <<"error">>
    BY <1>8
  <2> QED
    BY <1>8, <2>1
<1> QED
  BY <1>1, <1>2, <1>3, <1>4, <1>5, <1>6, <1>7, <1>8

\* Nothing is owed by a call that has not begun to be recorded.
LEMMA NothingOwed ==
  ASSUME NEW steps \in {<<>>, <<"start">>, <<"call">>} \cup Begun
  PROVE  steps \notin OwingError /\ steps \notin OwingRequest /\ steps \notin OwingDuration
<1> USE DEF Begun, Steps, OwingRequest, OwingError, OwingDuration
<1>1. \/ steps = <<>>
      \/ steps = <<"start">>
      \/ steps = <<"call">>
      \/ steps = <<"duration", "success">>
      \/ steps = <<"duration", "error_status", "error">>
      \/ steps = <<"error_status", "duration", "error">>
  OBVIOUS
<1> QED
  BY <1>1

LEMMA IsBeingRecorded ==
  ASSUME CollectorTypeOK, NEW c \in Invocation
  PROVE  BeingRecorded(c) <=> recording[c] \in Begun \cup Unfinished
<1>1. recording[c] \in {<<>>, <<"start">>, <<"call">>} \cup Begun \cup Unfinished
  BY DEF CollectorTypeOK
<1>2. CASE recording[c] \in Begun \cup Unfinished
  BY <1>2, StepOwes DEF BeingRecorded
<1>3. CASE recording[c] \in {<<>>, <<"start">>, <<"call">>}
  <2>1. ~BeingRecorded(c)
    BY <1>3 DEF BeingRecorded, Sample
  <2> QED
    BY <1>2, <2>1
<1> QED
  BY <1>1, <1>2, <1>3

\* What a call records, and what it then owes.
LEMMA RecordingKeeps ==
  ASSUME CollectorTypeOK, Balanced, NEW c \in Invocation, NEW steps, Recording(c, steps),
         NEW n \in [Sample -> {0, 1}],
         \A x \in Sample : total'[x] = total[x] + n[x],
         n["error"] + One(steps \in OwingError)
           = n["error_status"] + One(recording[c] \in OwingError),
         n["success"] + n["error_status"] + One(steps \in OwingRequest)
             + One(recording[c] \in OwingDuration)
           = n["duration"] + One(recording[c] \in OwingRequest) + One(steps \in OwingDuration)
  PROVE  Balanced'
<1>1. \A b : One(b) \in {0, 1}
  BY DEF One
<1>2. \A x \in Sample : total[x] \in Nat
  BY DEF CollectorTypeOK
<1>3. /\ {"error", "error_status", "success", "duration"} \subseteq Sample
      /\ OwingError' = OwingError /\ OwingRequest' = OwingRequest /\ OwingDuration' = OwingDuration
  BY DEF Sample, OwingError, OwingRequest, OwingDuration
<1> DEFINE Owes(S) == /\ Cardinality(Owing(S)) \in Nat /\ Cardinality(Owing(S)') \in Nat
                      /\ Cardinality(Owing(S)') + One(recording[c] \in S)
                           = Cardinality(Owing(S)) + One(steps \in S)
<1>4. Owes(OwingError) /\ Owes(OwingRequest) /\ Owes(OwingDuration)
  BY OwingStep
<1>5. total'["error"] + Cardinality(Owing(OwingError)') = total'["error_status"]
  <2>1. total["error"] + Cardinality(Owing(OwingError)) = total["error_status"]
    BY DEF Balanced
  <2>2. /\ total'["error"] = total["error"] + n["error"]
        /\ total'["error_status"] = total["error_status"] + n["error_status"]
        /\ total["error"] \in Nat /\ n["error"] \in Nat /\ n["error_status"] \in Nat
    BY <1>2, <1>3
  <2> QED
    BY <1>1, <1>4, <2>1, <2>2
<1>6. total'["success"] + total'["error_status"] + Cardinality(Owing(OwingRequest)')
        = total'["duration"] + Cardinality(Owing(OwingDuration)')
  <2>1. total["success"] + total["error_status"] + Cardinality(Owing(OwingRequest))
          = total["duration"] + Cardinality(Owing(OwingDuration))
    BY DEF Balanced
  <2>2. \A x \in {"success", "error_status", "duration"} :
          total'[x] = total[x] + n[x] /\ total[x] \in Nat /\ n[x] \in Nat
    BY <1>2, <1>3
  <2> QED
    BY <1>1, <1>4, <2>1, <2>2
<1> QED
  BY <1>3, <1>5, <1>6 DEF Balanced

LEMMA InitCollectorInv == MetricsInit => CollectorInv
<1> SUFFICES ASSUME MetricsInit PROVE CollectorInv
  OBVIOUS
<1>1. <<>> \in Gathered
  <2>1. <<>> = [x \in {} |-> 0]
    OBVIOUS
  <2> QED
    BY <2>1 DEF Gathered
<1>2. CollectorTypeOK
  BY <1>1 DEF CollectorTypeOK, MetricsInit, Build, Metric
<1>3. Owing(OwingError) = {} /\ Owing(OwingRequest) = {} /\ Owing(OwingDuration) = {}
  BY NothingOwed DEF MetricsInit, Owing
<1>4. Balanced
  BY <1>3, FS_EmptySet DEF Balanced, MetricsInit, Sample
<1>5. \A s \in Scraper : SeesTotals(s)
  BY DEF MetricsInit, SeesTotals
<1> QED
  BY <1>2, <1>4, <1>5 DEF CollectorInv

\* A step that only changes what a call has to record, and records nothing.
LEMMA OnlyRecording ==
  ASSUME CollectorInv, NEW c \in Invocation,
         NEW steps \in {<<>>, <<"start">>, <<"call">>} \cup Begun, Recording(c, steps),
         recording[c] \in {<<>>, <<"start">>, <<"call">>} \cup Begun,
         UNCHANGED <<families, total, scrape>>
  PROVE  CollectorInv'
<1> USE DEF CollectorInv
<1>1. CollectorTypeOK'
  BY DEF CollectorTypeOK, Recording
<1>2. Balanced'
  <2> DEFINE n == [x \in Sample |-> 0]
  <2>1. n \in [Sample -> {0, 1}] /\ \A x \in Sample : total'[x] = total[x] + n[x]
    BY DEF CollectorTypeOK
  <2>2. /\ steps \notin OwingError /\ steps \notin OwingRequest /\ steps \notin OwingDuration
        /\ recording[c] \notin OwingError /\ recording[c] \notin OwingRequest
        /\ recording[c] \notin OwingDuration
    BY NothingOwed
  <2>3. /\ n["error"] + One(steps \in OwingError)
             = n["error_status"] + One(recording[c] \in OwingError)
        /\ n["success"] + n["error_status"] + One(steps \in OwingRequest)
               + One(recording[c] \in OwingDuration)
             = n["duration"] + One(recording[c] \in OwingRequest) + One(steps \in OwingDuration)
    BY <2>2 DEF One, Sample
  <2> HIDE DEF n
  <2> QED
    BY <2>1, <2>3, RecordingKeeps
<1>3. \A s \in Scraper : SeesTotals(s)'
  BY DEF SeesTotals, Even
<1> QED
  BY <1>1, <1>2, <1>3

LEMMA RecordKeeps == ASSUME CollectorInv, NEW c \in Invocation, Record(c) PROVE CollectorInv'
<1> USE DEF CollectorInv
<1> DEFINE steps == recording[c]
           n == [x \in Sample |-> One(Head(steps) = x)]
<1>1. steps \in Begun \cup Unfinished
  BY IsBeingRecorded DEF Record, BeingRecorded
<1>2. /\ Head(steps) \in Sample /\ Tail(steps) \in {<<>>} \cup Unfinished
      /\ Recording(c, Tail(steps)) /\ Inc(Head(steps))
  BY <1>1, StepOwes DEF Record
<1>3. \A x \in Sample : total'[x] = total[x] + n[x]
  BY <1>2 DEF Inc, One, CollectorTypeOK
<1>4. CollectorTypeOK'
  <2>1. recording' \in [Invocation -> {<<>>, <<"start">>, <<"call">>} \cup Begun \cup Unfinished]
    BY <1>2 DEF Recording, CollectorTypeOK
  <2>2. total' \in [Sample \cup Event -> Nat]
    BY <1>2 DEF Inc, CollectorTypeOK
  <2>3. scrape' \in [Scraper -> [left : SUBSET Metric, got : Gathered, disturbed : BOOLEAN]]
    BY DEF CollectorTypeOK, Record
  <2> QED
    BY <2>1, <2>2, <2>3 DEF CollectorTypeOK, Record
<1>5. Balanced'
  <2>1. /\ n["error"] = One(Head(steps) = "error")
        /\ n["error_status"] = One(Head(steps) = "error_status")
        /\ n["duration"] = One(Head(steps) = "duration")
        /\ n["success"] + n["error_status"] = One(Head(steps) \in {"success", "error_status"})
        /\ n \in [Sample -> {0, 1}]
    BY DEF One, Sample
  <2>2. /\ n["error"] + One(Tail(steps) \in OwingError)
             = n["error_status"] + One(steps \in OwingError)
        /\ n["success"] + n["error_status"] + One(Tail(steps) \in OwingRequest)
               + One(steps \in OwingDuration)
             = n["duration"] + One(steps \in OwingRequest) + One(Tail(steps) \in OwingDuration)
    BY <1>1, <2>1, StepOwes
  <2> HIDE DEF n
  <2> QED
    BY <1>2, <1>3, <2>1, <2>2, RecordingKeeps
<1>6. \A s \in Scraper : SeesTotals(s)'
  BY DEF SeesTotals, Record, CollectorTypeOK
<1> QED
  BY <1>4, <1>5, <1>6

LEMMA EventKeeps == ASSUME CollectorInv, NEW o \in Event, RecordEvent(o) PROVE CollectorInv'
<1> USE DEF CollectorInv
<1>1. CollectorTypeOK'
  BY DEF CollectorTypeOK, RecordEvent, Inc
<1>2. o \notin Sample
  BY MetricsAssumption
<1>3. \A x \in Sample : total'[x] = total[x]
  BY <1>2 DEF RecordEvent, Inc, CollectorTypeOK
<1>5. Balanced'
  BY <1>3 DEF Balanced, RecordEvent, Owing, Sample, OwingError, OwingRequest, OwingDuration
<1>6. \A s \in Scraper : SeesTotals(s)'
  BY <1>3 DEF SeesTotals, Even, RecordEvent, Sample
<1> QED
  BY <1>1, <1>5, <1>6

\* A scrape that begins while nothing is being recorded begins with totals that add up.
LEMMA ScrapeKeeps == ASSUME CollectorInv, NEW s \in Scraper, Scrape(s) PROVE CollectorInv'
<1> USE DEF CollectorInv
<1>1. <<>> \in Gathered
  <2>1. <<>> = [x \in {} |-> 0]
    OBVIOUS
  <2> QED
    BY <2>1 DEF Gathered
<1>2. CollectorTypeOK'
  BY <1>1 DEF CollectorTypeOK, Scrape
<1>3. Balanced'
  BY DEF Balanced, Scrape, Owing, OwingError, OwingRequest, OwingDuration
<1>4. ASSUME NEW t \in Scraper PROVE SeesTotals(t)'
  <2>1. CASE t # s
    BY <2>1 DEF SeesTotals, Even, Scrape, CollectorTypeOK
  <2>2. CASE t = s /\ \A c \in Invocation : ~BeingRecorded(c)
    <3>1. \A c \in Invocation : recording[c] \notin Unfinished
      BY <2>2, IsBeingRecorded
    <3>2. Owing(OwingError) = {} /\ Owing(OwingRequest) = {} /\ Owing(OwingDuration) = {}
      BY <3>1 DEF Owing, Unfinished, OwingRequest, OwingError, OwingDuration
    <3>3. \A x \in Sample : total[x] \in Nat
      BY DEF CollectorTypeOK
    <3>4. Even
      BY <3>2, <3>3, FS_EmptySet DEF Even, Balanced, Sample
    <3>5. Even' /\ scrape'[t].left = Metric /\ scrape'[t].got = <<>>
      BY <2>2, <3>4 DEF Even, Scrape, CollectorTypeOK
    <3> QED
      BY <3>5 DEF SeesTotals
  <2>3. CASE t = s /\ \E c \in Invocation : BeingRecorded(c)
    BY <2>3 DEF SeesTotals, Scrape, CollectorTypeOK
  <2> QED
    BY <2>1, <2>2, <2>3
<1> QED
  BY <1>2, <1>3, <1>4

LEMMA GatherKeeps ==
  ASSUME CollectorInv, NEW s \in Scraper, NEW metric \in Metric, Gather(s, metric)
  PROVE  CollectorInv'
<1> USE DEF CollectorInv
<1> DEFINE got == scrape[s].got
           new == [x \in DOMAIN got \cup SamplesOf(metric) |->
                     IF x \in SamplesOf(metric) THEN total[x] ELSE got[x]]
<1>1. SamplesOf(metric) \subseteq Sample \cup Event
  BY DEF SamplesOf, Metric, Sample
<1>2. /\ scrape[s].left \in SUBSET Metric /\ got \in Gathered /\ scrape[s].disturbed \in BOOLEAN
      /\ scrape[s] \in [left : SUBSET Metric, got : Gathered, disturbed : BOOLEAN]
  BY DEF CollectorTypeOK
<1>3. PICK D \in SUBSET (Sample \cup Event) : got \in [D -> Nat]
  BY <1>2 DEF Gathered
<1>4. new \in [D \cup SamplesOf(metric) -> Nat]
  BY <1>1, <1>3 DEF CollectorTypeOK
<1>5. new \in Gathered
  BY <1>1, <1>4 DEF Gathered
<1>6. scrape' = [scrape EXCEPT ![s].left = @ \ {metric}, ![s].got = new]
  BY DEF Gather
<1> HIDE DEF new
<1>7. CollectorTypeOK'
  <2>1. scrape'[s] \in [left : SUBSET Metric, got : Gathered, disturbed : BOOLEAN]
    BY <1>2, <1>5, <1>6 DEF CollectorTypeOK
  <2>2. scrape' \in [Scraper -> [left : SUBSET Metric, got : Gathered, disturbed : BOOLEAN]]
    <3>1. /\ DOMAIN scrape' = Scraper /\ scrape' = [t \in Scraper |-> scrape'[t]]
          /\ \A t \in Scraper \ {s} : scrape'[t] = scrape[t]
      BY <1>6 DEF CollectorTypeOK
    <3> QED
      BY <2>1, <3>1 DEF CollectorTypeOK
  <2> QED
    BY <2>2 DEF CollectorTypeOK, Gather
<1>8. Balanced'
  BY DEF Balanced, Gather, Owing, OwingError, OwingRequest, OwingDuration
<1>9. ASSUME NEW t \in Scraper PROVE SeesTotals(t)'
  <2>1. CASE t # s
    BY <1>6, <2>1 DEF SeesTotals, Even, Gather, CollectorTypeOK
  <2>2. CASE t = s
    <3>1. /\ scrape'[t].left = scrape[s].left \ {metric} /\ scrape'[t].got = new
          /\ scrape'[t].disturbed = scrape[s].disturbed /\ metric \in scrape[s].left
      BY <1>6, <2>2 DEF Gather, CollectorTypeOK
    <3>2. SUFFICES ASSUME ~scrape[s].disturbed
                   PROVE  /\ Even'
                          /\ \A m \in Metric \ scrape'[s].left : SamplesOf(m) \subseteq DOMAIN new
                          /\ \A x \in Sample \cap DOMAIN new : new[x] = total[x]
      BY <2>2, <3>1 DEF SeesTotals, Gather
    <3>3. /\ Even
          /\ \A m \in Metric \ scrape[s].left : SamplesOf(m) \subseteq DOMAIN got
          /\ \A x \in Sample \cap DOMAIN got : got[x] = total[x]
      BY <3>1, <3>2 DEF SeesTotals
    <3>4. Even'
      BY <3>3 DEF Even, Gather
    <3>5. DOMAIN new = DOMAIN got \cup SamplesOf(metric)
      BY DEF new
    <3>6. \A m \in Metric \ scrape'[s].left : SamplesOf(m) \subseteq DOMAIN new
      BY <2>2, <3>1, <3>3, <3>5
    <3>7. \A x \in Sample \cap DOMAIN new : new[x] = total[x]
      BY <3>3, <3>5 DEF new
    <3> QED
      BY <3>4, <3>6, <3>7
  <2> QED
    BY <2>1, <2>2
<1> QED
  BY <1>7, <1>8, <1>9

LEMMA CollectorStep ==
  CollectorInv /\ (CollectorNext \/ UNCHANGED collectorVars) => CollectorInv'
<1> SUFFICES ASSUME CollectorInv, CollectorNext \/ UNCHANGED collectorVars PROVE CollectorInv'
  OBVIOUS
<1>1. ASSUME NEW c \in Invocation, Invoke(c) PROVE CollectorInv'
  BY <1>1, OnlyRecording DEF Invoke
<1>2. ASSUME NEW c \in Invocation, Return(c) PROVE CollectorInv'
  <2>1. PICK outcome \in {"ok", "rpc_error", "err"} : Recording(c, Steps(outcome))
    BY <1>2 DEF Return
  <2>2. Steps(outcome) \in Begun
    BY DEF Steps, Begun
  <2> QED
    BY <1>2, <2>1, <2>2, OnlyRecording DEF Return
<1>3. ASSUME NEW c \in Invocation, Cancel(c) PROVE CollectorInv'
  BY <1>3, OnlyRecording DEF Cancel
<1>4. CASE UNCHANGED collectorVars
  <2>1. CollectorTypeOK'
    BY <1>4 DEF CollectorInv, CollectorTypeOK, collectorVars
  <2>2. Balanced'
    BY <1>4 DEF CollectorInv, Balanced, collectorVars, Owing, OwingError, OwingRequest, OwingDuration
  <2>3. \A s \in Scraper : SeesTotals(s)'
    BY <1>4 DEF CollectorInv, SeesTotals, Even, collectorVars
  <2> QED
    BY <2>1, <2>2, <2>3 DEF CollectorInv
<1> QED
  BY <1>1, <1>2, <1>3, <1>4, RecordKeeps, EventKeeps, ScrapeKeeps, GatherKeeps DEF CollectorNext

LEMMA CollectorInvSuffices == CollectorInv => MetricsAddUp
<1> SUFFICES ASSUME CollectorInv PROVE MetricsAddUp
  OBVIOUS
<1> USE DEF CollectorInv
<1> DEFINE open == {c \in Invocation : BeingRecorded(c)}
<1>1. IsFiniteSet(open) /\ Owing(OwingError) \subseteq open /\ Owing(OwingRequest) \subseteq open
        /\ Owing(OwingDuration) \subseteq open
  <2>1. open \in SUBSET Invocation
    OBVIOUS
  <2>2. \A c \in Invocation : recording[c] \in Unfinished => c \in open
    BY IsBeingRecorded
  <2>3. OwingDuration \subseteq Unfinished /\ OwingError \subseteq Unfinished
          /\ OwingRequest \subseteq Unfinished
    BY DEF OwingDuration, Unfinished, OwingError
  <2> QED
    BY <2>1, <2>2, <2>3, MetricsAssumption, FS_Subset DEF Owing
<1> HIDE DEF open
<1>2. /\ Cardinality(open) \in Nat
      /\ Cardinality(Owing(OwingError)) \in Nat
      /\ Cardinality(Owing(OwingRequest)) \in Nat /\ Cardinality(Owing(OwingDuration)) \in Nat
      /\ Cardinality(Owing(OwingRequest)) <= Cardinality(open)
      /\ Cardinality(Owing(OwingDuration)) <= Cardinality(open)
  BY <1>1, FS_Subset, FS_CardinalityType
<1>3. \A x \in Sample : total[x] \in Nat
  BY DEF CollectorTypeOK
<1>4. CountersAgree
  <2> DEFINE requests == total["success"] + total["error_status"]
  <2>1. /\ total["error"] <= total["error_status"]
        /\ requests <= total["duration"] + Cardinality(open)
        /\ total["duration"] <= requests + Cardinality(open)
    BY <1>2, <1>3 DEF Balanced, Sample
  <2> QED
    BY <2>1 DEF CountersAgree, open
<1>5. ScrapesAddUp
  <2> SUFFICES ASSUME NEW s \in Scraper, scrape[s].left = {}, scrape[s].got # <<>>,
                      ~scrape[s].disturbed
               PROVE  /\ scrape[s].got["error"] = scrape[s].got["error_status"]
                      /\ scrape[s].got["duration"]
                           = scrape[s].got["success"] + scrape[s].got["error_status"]
    BY DEF ScrapesAddUp
  <2>1. SamplesOf("requests") \cup SamplesOf("durations") \cup SamplesOf("errors") = Sample
    BY DEF SamplesOf, Sample
  <2>2. Sample \subseteq DOMAIN scrape[s].got
    BY <2>1 DEF SeesTotals, Metric
  <2> QED
    BY <2>2 DEF SeesTotals, Even, Sample
<1> QED
  BY <1>4, <1>5 DEF MetricsAddUp

-----------------------------------------------------------------------------

LEMMA InitHealthInv == MetricsInit => HealthInv
  BY DEF MetricsInit, HealthInv, HealthTypeOK, NewHealth, HealthStatus

\* Only a request that is being answered has a path, and its fields have their types.
LEMMA BeingAnswered ==
  ASSUME HealthInv, NEW p \in Prober, probe[p].pc # "idle"
  PROVE  Asked(probe[p]) /\ HasSeen(probe[p])
  BY DEF HealthInv, HealthTypeOK

\* A step that changes one request.
LEMMA OneProbe ==
  ASSUME HealthInv, NEW p \in Prober, NEW r, probe' = [probe EXCEPT ![p] = r],
         UNCHANGED <<health, moves>>,
         r.pc = "idle" \/ (Asked(r) /\ HasSeen(r))
  PROVE  HealthInv'
<1>1. HealthTypeOK'
  BY DEF HealthInv, HealthTypeOK
<1>2. ASSUME NEW q \in Prober
      PROVE  probe'[q].pc = "idle" \/ (Asked(probe[q]) /\ HasSeen(probe[q]))'
  <2>1. probe'[q] = probe[q] \/ probe'[q] = r
    BY DEF HealthInv, HealthTypeOK
  <2>2. probe'[q].pc = "idle" \/ (Asked(probe'[q]) /\ HasSeen(probe'[q]))
    BY <2>1 DEF HealthInv
  <2> QED
    BY <2>2 DEF Asked, HasSeen, Well
<1> QED
  BY <1>1, <1>2 DEF HealthInv

LEMMA ProbeKeeps ==
  ASSUME HealthInv, NEW p \in Prober,
         NEW path \in {"/health", "/health/ready", "/health/live"}, Probe(p, path)
  PROVE  HealthInv'
<1> DEFINE r == [path |-> path, body |-> "none", left |-> {}, ran |-> {}, code |-> 200,
                 pc |-> CASE path = "/health" -> "body" [] path = "/health/ready" -> "status"
                          [] OTHER -> "answer",
                 up |-> health.status = "Up", good |-> health.good, well |-> Well(health)]
<1>1. r.pc = IF path = "/health" THEN "body"
             ELSE IF path = "/health/ready" THEN "status" ELSE "answer"
  OBVIOUS
<1>2. Well(health) \in BOOLEAN /\ health.good \in SUBSET Check
  BY DEF HealthInv, HealthTypeOK, Well
<1>3. Asked(r)
  BY <1>1, <1>2 DEF Asked
<1>4. HasSeen(r)
  <2>1. (r.well <=> Well(health)) /\ (r.up <=> health.status = "Up")
    OBVIOUS
  <2>2. r.path = path /\ r.body = "none" /\ r.good = health.good /\ r.code = 200
    OBVIOUS
  <2> HIDE DEF r
  <2> QED
    BY <1>1, <2>1, <2>2 DEF HasSeen
<1>5. probe' = [probe EXCEPT ![p] = r] /\ UNCHANGED <<health, moves>>
  BY DEF Probe
<1> HIDE DEF r
<1> QED
  BY <1>3, <1>4, <1>5, OneProbe

LEMMA WriteBodyKeeps ==
  ASSUME HealthInv, NEW p \in Prober, WriteBody(p) PROVE HealthInv'
<1> DEFINE r == [probe[p] EXCEPT !.pc = "status", !.body = health.status]
<1>1. Asked(probe[p]) /\ HasSeen(probe[p])
  BY BeingAnswered DEF WriteBody
<1>2. Asked(r)
  BY <1>1 DEF Asked, HealthInv, HealthTypeOK
<1>3. HasSeen(r)
  BY <1>1 DEF Asked, HasSeen, Well, WriteBody
<1>4. probe' = [probe EXCEPT ![p] = r] /\ UNCHANGED <<health, moves>>
  BY DEF WriteBody
<1> HIDE DEF r
<1> QED
  BY <1>2, <1>3, <1>4, OneProbe

LEMMA ReadStatusKeeps ==
  ASSUME HealthInv, NEW p \in Prober, ReadStatus(p) PROVE HealthInv'
<1> DEFINE next == IF probe[p].path = "/health" /\ health.status = "Up"
                   THEN "checks" ELSE "answer"
           verdict == IF health.status = "Up" THEN 200 ELSE 503
           r == [probe[p] EXCEPT !.pc = next, !.left = health.checks, !.ran = health.checks,
                                 !.code = verdict]
<1>1. Asked(probe[p]) /\ HasSeen(probe[p])
  BY BeingAnswered DEF ReadStatus
<1>2. Asked(r)
  <2>1. next \in {"checks", "answer"} /\ verdict \in {200, 503}
          /\ health.checks \in SUBSET Check
    BY DEF HealthInv, HealthTypeOK
  <2> HIDE DEF next, verdict
  <2> QED
    BY <1>1, <2>1 DEF Asked
<1>3. HasSeen(r)
  BY <1>1 DEF Asked, HasSeen, Well, ReadStatus
<1>4. probe' = [probe EXCEPT ![p] = r] /\ UNCHANGED <<health, moves>>
  <2>1. /\ probe' = [probe EXCEPT ![p].pc = next, ![p].left = health.checks,
                                  ![p].ran = health.checks, ![p].code = verdict]
        /\ UNCHANGED <<health, moves>>
    BY DEF ReadStatus
  <2> HIDE DEF next, verdict
  <2> QED
    BY <2>1
<1> HIDE DEF r
<1> QED
  BY <1>2, <1>3, <1>4, OneProbe

LEMMA RunCheckKeeps ==
  ASSUME HealthInv, NEW p \in Prober, NEW c \in Check, RunCheck(p, c) PROVE HealthInv'
<1> DEFINE left == IF Verdict(c) = 200 THEN probe[p].left \ {c} ELSE {}
           r == [probe[p] EXCEPT !.code = Verdict(c), !.left = left]
<1>1. Asked(probe[p]) /\ HasSeen(probe[p]) /\ c \in probe[p].left /\ probe[p].pc = "checks"
  BY BeingAnswered DEF RunCheck
<1>2. Asked(r)
  <2>1. Verdict(c) \in {200, 503} /\ left \in SUBSET Check
    BY <1>1 DEF Asked, Verdict
  <2> HIDE DEF left
  <2> QED
    BY <1>1, <2>1 DEF Asked
<1>3. HasSeen(r)
  <2>1. CASE c \in health.good /\ probe[p].code = 200
    BY <1>1, <2>1 DEF Asked, HasSeen, Verdict
  <2>2. CASE c \notin health.good
    BY <1>1, <2>2 DEF Asked, HasSeen, Verdict, Well
  <2>3. CASE c \in health.good /\ probe[p].code = 503
    BY <1>1, <2>3 DEF Asked, HasSeen, Verdict, Well
  <2> QED
    BY <1>1, <2>1, <2>2, <2>3 DEF Asked
<1>4. probe' = [probe EXCEPT ![p] = r] /\ UNCHANGED <<health, moves>>
  BY DEF RunCheck
<1> HIDE DEF r
<1> QED
  BY <1>2, <1>3, <1>4, OneProbe

\* What the status was, and which checks were good, is added to what each request has seen.
LEMMA HealthChangesKeeps == HealthInv /\ HealthChanges => HealthInv'
<1> SUFFICES ASSUME HealthInv, HealthChanges PROVE HealthInv'
  OBVIOUS
<1>1. health' \in [status : HealthStatus, checks : SUBSET Check, good : SUBSET Check]
        /\ health.checks \subseteq health'.checks
  BY DEF HealthInv, HealthTypeOK, HealthChanges
<1>2. moves' \in Nat
  <2>1. moves' = moves + 1
    BY DEF HealthChanges
  <2> QED
    BY <2>1 DEF HealthInv, HealthTypeOK
<1>3. ASSUME NEW p \in Prober
      PROVE  probe'[p].pc = "idle" \/ (Asked(probe[p]) /\ HasSeen(probe[p]))'
  <2>1. CASE probe[p].pc = "idle"
    BY <2>1 DEF HealthInv, HealthTypeOK, HealthChanges
  <2>2. CASE probe[p].pc # "idle"
    <3>1. Asked(probe[p]) /\ HasSeen(probe[p])
      BY <2>2, BeingAnswered
    <3>2. probe'[p] = [probe[p] EXCEPT !.up = @ \/ health'.status = "Up",
                                       !.good = @ \cup health'.good,
                                       !.well = @ /\ Well(health')]
      BY <2>2 DEF HealthChanges
    <3> DEFINE up == probe[p].up \/ health'.status = "Up"
               good == probe[p].good \cup health'.good
               well == probe[p].well /\ Well(health')
    <3>3. up \in BOOLEAN /\ well \in BOOLEAN /\ good \in SUBSET Check
      BY <1>1, <3>1 DEF Asked
    <3>4. /\ probe'[p] = [probe[p] EXCEPT !.up = up, !.good = good, !.well = well]
          /\ up <=> probe[p].up \/ health'.status = "Up"
          /\ well <=> probe[p].well /\ Well(health')
      BY <3>2
    <3> HIDE DEF up, well
    <3>5. Asked(probe[p])'
      BY <3>1, <3>3, <3>4 DEF Asked
    <3>6. /\ probe'[p].up = up /\ probe'[p].good = good /\ probe'[p].well = well
          /\ \A f \in {"path", "body", "left", "ran", "code", "pc"} :
               probe'[p][f] = probe[p][f]
      BY <3>1, <3>4 DEF Asked
    <3>7. HasSeen(probe[p])'
      BY <1>1, <3>1, <3>4, <3>6 DEF HasSeen, Well
    <3> QED
      BY <3>5, <3>7
  <2> QED
    BY <2>1, <2>2
<1>4. DOMAIN probe' = Prober
  BY DEF HealthChanges
<1>5. HealthTypeOK'
  BY <1>1, <1>2, <1>3, <1>4 DEF HealthTypeOK
<1> QED
  BY <1>3, <1>5 DEF HealthInv

LEMMA HealthStep == HealthInv /\ (HealthNext \/ UNCHANGED healthVars) => HealthInv'
<1> SUFFICES ASSUME HealthInv, HealthNext \/ UNCHANGED healthVars PROVE HealthInv'
  OBVIOUS
<1>1. ASSUME NEW p \in Prober, Answer(p) PROVE HealthInv'
  BY <1>1, OneProbe DEF Answer
<1>2. CASE UNCHANGED healthVars
  BY <1>2 DEF HealthInv, HealthTypeOK, HasSeen, Well, healthVars
<1> QED
  BY <1>1, <1>2, ProbeKeeps, WriteBodyKeeps, ReadStatusKeeps, RunCheckKeeps, HealthChangesKeeps
     DEF HealthNext

LEMMA HealthInvSuffices == HealthInv => ProbesAreEarned
<1> SUFFICES ASSUME HealthInv, NEW p \in Prober, Decided(p)
             PROVE  LET r == probe[p]
                    IN /\ r.code = 200 /\ r.path # "/health/live"
                            => r.up /\ (r.path = "/health" => r.ran \subseteq r.good)
                       /\ r.well => r.code = 200 /\ r.body \in {"none", "Up"}
  BY DEF ProbesAreEarned
<1>1. Asked(probe[p]) /\ HasSeen(probe[p])
  BY BeingAnswered DEF Decided
<1> QED
  BY <1>1 DEF Decided, HasSeen, Asked

LEMMA NextMetricsInv ==
  CollectorInv /\ HealthInv /\ [CollectorNext \/ HealthNext]_metricsVars
    => CollectorInv' /\ HealthInv'
<1>1. CollectorNext => UNCHANGED healthVars
  BY DEF CollectorNext, Invoke, Return, Cancel, Record, RecordEvent, Scrape, Gather
<1>2. HealthNext => UNCHANGED collectorVars
  BY DEF HealthNext, HealthChanges, Probe, WriteBody, ReadStatus, RunCheck, Answer
<1> QED
  BY <1>1, <1>2, CollectorStep, HealthStep DEF metricsVars

-----------------------------------------------------------------------------
(* Tracing.                                                                *)

SpanOf(e) == [end |-> e, trace |-> running[e].trace, span |-> running[e].span,
              parent |-> running[e].parent]
Open == {e \in End : running[e].at \in {"calling", "sent"}}
Spans == exported \cup {SpanOf(e) : e \in Open}
SpanIds == {s.span : s \in Spans}

\* The origin of the call, and its trace: the first id that is drawn, unless the caller gave one.
Origin == ParseTraceparent(first)
Trace == IF Origin = Absent THEN 2 ELSE first.trace

AllExported == \A e \in End : setup[e].rate = "all" /\ HasExporter(e)

TracingTypeOK ==
  /\ setup \in [End -> Setups]
  /\ first \in Given
  /\ DOMAIN carried = End
  /\ running \in [End -> [at : {"rest", "arrived", "calling", "sent"}, trace : Nat \cup {Absent},
                          parent : Nat \cup {Absent}, span : Nat \cup {Absent}, sampled : BOOLEAN]]
  /\ attempt \in Nat /\ ids \in Nat /\ ids >= 2
  /\ Spans \in SUBSET [end : End, trace : {Trace}, span : 2 .. ids - 1,
                       parent : (1 .. ids - 1) \cup {Absent}]

\* What an end carries names a span of the trace.
Carries(e) ==
  \E span \in 2 .. ids - 1, sampled \in BOOLEAN :
    /\ carried[e] = Traceparent("00", Trace, span, sampled)
    /\ AllExported => span \in SpanIds

Positions ==
  /\ attempt = 0 => /\ ids = 2 /\ Spans = {} /\ carried["consumer"] = first
                    /\ \A e \in End : running[e] = Resting
  /\ attempt > 0 => Carries("consumer")
  /\ running["provider"].at = "arrived" => Carries("provider")
  /\ running["consumer"].at # "arrived" /\ running["provider"].at # "sent"
  /\ AllExported => \A e \in Open : running[e].sampled

OneTrace ==
  /\ \A s, t \in Spans : s.span = t.span => s = t
  /\ \A s \in Spans : s.parent = Absent => s.span = 2 /\ Origin = Absent
  /\ \A s, t \in Spans :
       s.end = "consumer" /\ t.end = "consumer" /\ s.parent = t.parent => s = t
  /\ \A s \in Spans : s.end = "consumer" =>
       /\ s.parent # Absent => s.parent < s.span
       /\ s.span <= carried["consumer"].span
  /\ AllExported => \A s \in Spans : s.parent \in SpanIds \/ s.parent = ParentOf(Origin)

TracingInv == TracingTypeOK /\ Positions /\ OneTrace

-----------------------------------------------------------------------------

\* What is read of a context that carries a span.
LEMMA ParseCarried ==
  ASSUME NEW trace \in Nat, NEW span \in Nat, NEW sampled \in BOOLEAN
  PROVE  /\ ParseTraceparent(Traceparent("00", trace, span, sampled))
              = [trace |-> trace, span |-> span]
         /\ ParentOf(ParseTraceparent(Traceparent("00", trace, span, sampled))) = span
         /\ ParseTraceparent(Traceparent("00", trace, span, sampled)) # Absent
<1> DEFINE t == Traceparent("00", trace, span, sampled)
<1>1. t # Absent /\ [trace |-> trace, span |-> span] # Absent
  BY TracingAssumption DEF Traceparent
<1>2. t.version = "00" /\ t.trace = trace /\ t.span = span /\ Bad \notin {trace, span}
  BY TracingAssumption DEF Traceparent
<1>3. ParseTraceparent(t) = [trace |-> trace, span |-> span]
  BY <1>1, <1>2 DEF ParseTraceparent
<1> QED
  BY <1>1, <1>3 DEF ParentOf

\* What is read of what the caller gave.
LEMMA ParseGiven ==
  ASSUME first \in Given
  PROVE  /\ Origin = Absent => ParentOf(Origin) = Absent
         /\ Origin # Absent => /\ first.trace = 0 /\ Origin = [trace |-> 0, span |-> 1]
                               /\ ParentOf(Origin) = 1
         /\ Trace \in Nat
<1>1. ASSUME NEW sampled \in {TRUE, Absent}
      PROVE  /\ ParseTraceparent(Traceparent("00", 0, 1, sampled)) = [trace |-> 0, span |-> 1]
             /\ Traceparent("00", 0, 1, sampled).trace = 0
  <2> DEFINE t == Traceparent("00", 0, 1, sampled)
  <2>1. t \in [version : {"00", "01"}, trace : Nat \cup {Bad}, span : Nat \cup {Bad},
               sampled : BOOLEAN \cup {Absent}]
    <3>1. TRUE \in BOOLEAN \cup {Absent} /\ Absent \in BOOLEAN \cup {Absent}
      OBVIOUS
    <3>2. sampled \in BOOLEAN \cup {Absent}
      BY <3>1
    <3> QED
      BY <3>2 DEF Traceparent
  <2>2. t # Absent
    BY <2>1, TracingAssumption
  <2>3. t.version = "00" /\ t.trace = 0 /\ t.span = 1 /\ Bad \notin {0, 1}
    BY TracingAssumption DEF Traceparent
  <2> HIDE DEF t
  <2>4. ParseTraceparent(t) = [trace |-> 0, span |-> 1] /\ t.trace = 0
    BY <2>2, <2>3 DEF ParseTraceparent
  <2> QED
    BY <2>4 DEF t
<1>2. ParseTraceparent(Absent) = Absent
  BY DEF ParseTraceparent
<1>3. /\ ParseTraceparent(Traceparent("01", 0, 1, TRUE)) = Absent
      /\ ParseTraceparent(Traceparent("00", Bad, 1, TRUE)) = Absent
      /\ ParseTraceparent(Traceparent("00", 0, Bad, TRUE)) = Absent
  BY DEF ParseTraceparent, Traceparent
<1>4. \/ Origin = Absent
      \/ Origin = [trace |-> 0, span |-> 1] /\ first.trace = 0
  BY <1>1, <1>2, <1>3, Zenon DEF Given, Origin
<1>5. Origin # Absent => ParentOf(Origin) = 1
  BY <1>4 DEF ParentOf
<1> QED
  BY <1>4, <1>5 DEF ParentOf, Trace

LEMMA InitTracingInv == TracingInit => TracingInv
<1> SUFFICES ASSUME TracingInit PROVE TracingInv
  OBVIOUS
<1>1. Spans = {}
  BY DEF TracingInit, Spans, Open, Resting
<1>2. TracingTypeOK
  BY <1>1 DEF TracingInit, TracingTypeOK, Resting
<1>3. Positions
  BY <1>1 DEF TracingInit, Positions, Resting, End, Open
<1>4. OneTrace
  BY <1>1 DEF OneTrace
<1> QED
  BY <1>2, <1>3, <1>4 DEF TracingInv

\* A filter that goes on with a span of its own.
LEMMA EnterKeeps ==
  ASSUME TracingInv, NEW e \in End, running[e].at \in {"rest", "arrived"},
         NEW sampled \in BOOLEAN, AllExported => sampled,
         NEW parent \in (1 .. ids - 1) \cup {Absent},
         parent = Absent => Origin = Absent /\ ids = 2,
         e = "consumer" => \A s \in Spans : s.end = "consumer" => s.parent # parent,
         AllExported => parent \in SpanIds \/ parent = ParentOf(Origin),
         carried' = [carried EXCEPT ![e] = Traceparent("00", Trace, ids, sampled)],
         running' = [running EXCEPT ![e] = [at |-> "calling", trace |-> Trace, parent |-> parent,
                                            span |-> ids, sampled |-> sampled]],
         ids' = ids + 1, UNCHANGED <<setup, exported, first>>,
         attempt' \in Nat \ {0}, e = "provider" => UNCHANGED attempt
  PROVE  TracingInv'
<1> USE DEF TracingInv
<1> DEFINE new == [end |-> e, trace |-> Trace, span |-> ids, parent |-> parent]
<1>1. /\ Trace' = Trace /\ Origin' = Origin /\ AllExported' = AllExported /\ Trace \in Nat
      /\ ParentOf(Origin)' = ParentOf(Origin)
  BY ParseGiven DEF Trace, Origin, AllExported, TracingTypeOK, HasExporter, ParseTraceparent, ParentOf
<1>2. Spans' = Spans \cup {new}
  <2>1. Open' = Open \cup {e} /\ e \notin Open
    BY DEF Open, TracingTypeOK
  <2>2. \A f \in Open : SpanOf(f)' = SpanOf(f)
    BY <2>1 DEF SpanOf, Open, TracingTypeOK
  <2>3. SpanOf(e)' = new
    BY DEF SpanOf, TracingTypeOK
  <2> QED
    BY <2>1, <2>2, <2>3 DEF Spans
<1>3. SpanIds' = SpanIds \cup {ids}
  <2>1. SpanIds' = {s.span : s \in Spans \cup {new}} /\ new.span = ids
    BY <1>2, Zenon DEF SpanIds
  <2> HIDE DEF new
  <2> QED
    BY <2>1 DEF SpanIds
<1>4. \A s \in Spans : /\ s.span \in 2 .. ids - 1 /\ s.parent \in (1 .. ids - 1) \cup {Absent}
                       /\ s \in [end : End, trace : {Trace}, span : 2 .. ids - 1,
                                 parent : (1 .. ids - 1) \cup {Absent}]
  BY DEF TracingTypeOK
<1>5. ids \in Nat /\ ids >= 2 /\ Absent \notin Nat
  BY TracingAssumption DEF TracingTypeOK
<1>6. TracingTypeOK'
  <2>1. running' \in [End -> [at : {"rest", "arrived", "calling", "sent"},
                              trace : Nat \cup {Absent}, parent : Nat \cup {Absent},
                              span : Nat \cup {Absent}, sampled : BOOLEAN]]
    BY <1>1, <1>5 DEF TracingTypeOK
  <2>2. Spans' \in SUBSET [end : End, trace : {Trace}, span : 2 .. ids,
                           parent : (1 .. ids) \cup {Absent}]
    <3>1. \A s \in Spans : s \in [end : End, trace : {Trace}, span : 2 .. ids,
                                  parent : (1 .. ids) \cup {Absent}]
      BY <1>4, <1>5
    <3>2. new \in [end : End, trace : {Trace}, span : 2 .. ids, parent : (1 .. ids) \cup {Absent}]
      BY <1>5
    <3> QED
      BY <1>2, <3>1, <3>2
  <2>3. ids' \in Nat /\ ids' >= 2 /\ ids' - 1 = ids
    BY <1>5
  <2> QED
    BY <1>1, <2>1, <2>2, <2>3 DEF TracingTypeOK
<1>7. Carries(e)'
  BY <1>1, <1>3, <1>5, TracingAssumption DEF Carries, TracingTypeOK
<1>8. ASSUME NEW f \in End \ {e}, Carries(f) PROVE Carries(f)'
  <2>1. PICK span \in 2 .. ids - 1, b \in BOOLEAN :
          /\ carried[f] = Traceparent("00", Trace, span, b)
          /\ AllExported => span \in SpanIds
    BY <1>8 DEF Carries
  <2>2. carried'[f] = carried[f] /\ span \in 2 .. ids' - 1
    BY <1>5 DEF TracingTypeOK
  <2> QED
    BY <1>1, <1>3, <2>1, <2>2 DEF Carries
<1>9. Positions'
  <2>1. Carries("consumer")'
    BY <1>7, <1>8 DEF Positions, End, TracingTypeOK
  <2>2. running'["provider"].at = "arrived" => Carries("provider")'
    BY <1>7, <1>8 DEF Positions, End, TracingTypeOK
  <2>3. running'["consumer"].at # "arrived" /\ running'["provider"].at # "sent"
    BY DEF Positions, End, TracingTypeOK
  <2>4. AllExported' => \A f \in Open' : running'[f].sampled
    BY <1>1 DEF Positions, Open, TracingTypeOK
  <2> QED
    BY <2>1, <2>2, <2>3, <2>4 DEF Positions
<1>10. OneTrace'
  <2>1. \A s, t \in Spans' : s.span = t.span => s = t
    BY <1>2, <1>4, <1>5 DEF OneTrace
  <2>2. \A s \in Spans' : s.parent = Absent => s.span = 2 /\ Origin = Absent
    BY <1>2 DEF OneTrace
  <2>3. \A s, t \in Spans' :
          s.end = "consumer" /\ t.end = "consumer" /\ s.parent = t.parent => s = t
    BY <1>2 DEF OneTrace
  <2>4. \A s \in Spans' : s.end = "consumer" =>
          /\ s.parent # Absent => s.parent < s.span
          /\ s.span <= carried'["consumer"].span
    <3>1. CASE e = "consumer"
      <4>1. carried'["consumer"].span = ids
        BY <3>1 DEF TracingTypeOK, Traceparent
      <4> QED
        BY <1>2, <1>4, <1>5, <4>1 DEF OneTrace
    <3>2. CASE e = "provider"
      <4>1. carried'["consumer"] = carried["consumer"]
        BY <3>2 DEF TracingTypeOK, End
      <4> QED
        BY <1>2, <3>2, <4>1 DEF OneTrace
    <3> QED
      BY <3>1, <3>2 DEF End
  <2>5. AllExported => \A s \in Spans' : s.parent \in SpanIds' \/ s.parent = ParentOf(Origin)
    BY <1>2, <1>3 DEF OneTrace
  <2> QED
    BY <1>1, <2>1, <2>2, <2>3, <2>4, <2>5 DEF OneTrace
<1> QED
  BY <1>6, <1>9, <1>10

\* A step that enters no filter: a span may be lost with its filter, unless all are exported.
LEMMA LeavingKeeps ==
  ASSUME TracingInv, Spans' \in SUBSET Spans, AllExported => Spans' = Spans,
         carried'["consumer"] = carried["consumer"], DOMAIN carried' = End,
         UNCHANGED <<setup, first, ids, attempt>>
  PROVE  /\ OneTrace'
         /\ Spans' \in SUBSET [end : End, trace : {Trace'}, span : 2 .. ids' - 1,
                               parent : (1 .. ids' - 1) \cup {Absent}]
         /\ \A e, f \in End : Carries(e) /\ carried'[f] = carried[e] => Carries(f)'
<1> USE DEF TracingInv
<1>1. /\ Trace' = Trace /\ Origin' = Origin /\ AllExported' = AllExported
      /\ ParentOf(Origin)' = ParentOf(Origin)
  BY DEF Trace, Origin, AllExported, HasExporter, ParseTraceparent, ParentOf
<1>2. AllExported => SpanIds' = SpanIds
  BY Zenon DEF SpanIds
<1>3. OneTrace'
  BY <1>1, <1>2 DEF OneTrace
<1>4. Spans' \in SUBSET [end : End, trace : {Trace'}, span : 2 .. ids' - 1,
                         parent : (1 .. ids' - 1) \cup {Absent}]
  BY <1>1 DEF TracingTypeOK
<1>5. ASSUME NEW e \in End, NEW f \in End, Carries(e), carried'[f] = carried[e] PROVE Carries(f)'
  <2>1. PICK span \in 2 .. ids - 1, b \in BOOLEAN :
          /\ carried[e] = Traceparent("00", Trace, span, b)
          /\ AllExported => span \in SpanIds
    BY <1>5 DEF Carries
  <2> QED
    BY <1>1, <1>2, <1>5, <2>1 DEF Carries
<1> QED
  BY <1>3, <1>4, <1>5

LEMMA AttemptKeeps == TracingInv /\ Attempt => TracingInv'
<1> SUFFICES ASSUME TracingInv, Attempt PROVE TracingInv'
  OBVIOUS
<1> USE DEF TracingInv
<1> DEFINE incoming == ParseTraceparent(carried["consumer"])
           trace == IF incoming = Absent THEN ids ELSE incoming.trace
<1>1. PICK sampled \in ShouldSample("consumer") :
        /\ carried' = [carried EXCEPT !["consumer"] = Traceparent("00", trace, ids, sampled)]
        /\ running' = [running EXCEPT !["consumer"] =
             [at |-> "calling", trace |-> trace, parent |-> ParentOf(incoming),
              span |-> ids, sampled |-> sampled]]
        /\ ids' = ids + 1
  BY DEF Attempt, Enter
<1>2. sampled \in BOOLEAN /\ (AllExported => sampled)
  BY DEF ShouldSample, AllExported, End
<1>3. running["consumer"].at = "rest" /\ "consumer" \in End /\ attempt' = attempt + 1
        /\ attempt \in Nat /\ ids \in Nat /\ ids >= 2 /\ first \in Given /\ Absent \notin Nat
  BY TracingAssumption DEF Attempt, Resting, End, TracingTypeOK
<1>4. /\ trace = Trace
      /\ ParentOf(incoming) \in (1 .. ids - 1) \cup {Absent}
      /\ ParentOf(incoming) = Absent => Origin = Absent /\ ids = 2
      /\ \A s \in Spans : s.end = "consumer" => s.parent # ParentOf(incoming)
      /\ AllExported => ParentOf(incoming) \in SpanIds \/ ParentOf(incoming) = ParentOf(Origin)
  <2>1. CASE attempt = 0
    <3>1. incoming = Origin /\ ids = 2 /\ Spans = {}
      BY <2>1 DEF Positions, Origin
    <3>2. trace = Trace
      BY <1>3, <3>1, ParseGiven DEF Trace
    <3> HIDE DEF incoming, trace
    <3> QED
      BY <1>3, <3>1, <3>2, ParseGiven
  <2>2. CASE attempt > 0
    <3>1. PICK span \in 2 .. ids - 1, b \in BOOLEAN :
            /\ carried["consumer"] = Traceparent("00", Trace, span, b)
            /\ AllExported => span \in SpanIds
      BY <2>2 DEF Positions, Carries
    <3>2. Trace \in Nat /\ span \in Nat
      BY <1>3, ParseGiven
    <3>3. incoming = [trace |-> Trace, span |-> span] /\ incoming # Absent
            /\ ParentOf(incoming) = span
      BY <3>1, <3>2, ParseCarried
    <3>4. trace = Trace
      BY <3>3
    <3>5. carried["consumer"].span = span
      BY <3>1 DEF Traceparent
    <3>6. \A s \in Spans : s.end = "consumer" => s.parent # span
      BY <1>3, <3>2, <3>5 DEF OneTrace, TracingTypeOK
    <3> HIDE DEF incoming, trace
    <3> QED
      BY <1>3, <3>1, <3>2, <3>3, <3>4, <3>6
  <2> QED
    BY <1>3, <2>1, <2>2
<1> HIDE DEF incoming, trace
<1>5. UNCHANGED <<setup, exported, first>> /\ attempt' \in Nat \ {0}
  BY <1>3 DEF Attempt
<1> QED
  BY <1>1, <1>2, <1>3, <1>4, <1>5, EnterKeeps

LEMMA ServeKeeps == TracingInv /\ Serve => TracingInv'
<1> SUFFICES ASSUME TracingInv, Serve PROVE TracingInv'
  OBVIOUS
<1> USE DEF TracingInv
<1> DEFINE incoming == ParseTraceparent(carried["provider"])
           trace == IF incoming = Absent THEN ids ELSE incoming.trace
<1>1. PICK sampled \in ShouldSample("provider") :
        /\ carried' = [carried EXCEPT !["provider"] = Traceparent("00", trace, ids, sampled)]
        /\ running' = [running EXCEPT !["provider"] =
             [at |-> "calling", trace |-> trace, parent |-> ParentOf(incoming),
              span |-> ids, sampled |-> sampled]]
        /\ ids' = ids + 1
  BY DEF Serve, Enter
<1>2. sampled \in BOOLEAN /\ (AllExported => sampled)
  BY DEF ShouldSample, AllExported, End
<1>3. running["provider"].at = "arrived" /\ "provider" \in End
        /\ attempt \in Nat /\ ids \in Nat /\ ids >= 2 /\ first \in Given /\ Absent \notin Nat
  BY TracingAssumption DEF Serve, End, TracingTypeOK
<1>4. PICK span \in 2 .. ids - 1, b \in BOOLEAN :
        /\ carried["provider"] = Traceparent("00", Trace, span, b)
        /\ AllExported => span \in SpanIds
  BY <1>3 DEF Positions, Carries
<1>5. Trace \in Nat /\ span \in Nat
  BY <1>3, ParseGiven
<1>6. incoming = [trace |-> Trace, span |-> span] /\ incoming # Absent /\ ParentOf(incoming) = span
  BY <1>4, <1>5, ParseCarried
<1>7. trace = Trace
  BY <1>6
<1> HIDE DEF incoming, trace
<1>8. UNCHANGED <<setup, exported, first, attempt>> /\ attempt' \in Nat \ {0}
  BY <1>3 DEF Serve, Positions, Resting
<1>9. /\ span \in (1 .. ids - 1) \cup {Absent} /\ span # Absent
      /\ AllExported => span \in SpanIds \/ span = ParentOf(Origin)
  BY <1>3, <1>4
<1>10. /\ carried' = [carried EXCEPT !["provider"] = Traceparent("00", Trace, ids, sampled)]
       /\ running' = [running EXCEPT !["provider"] =
            [at |-> "calling", trace |-> Trace, parent |-> span, span |-> ids,
             sampled |-> sampled]]
       /\ ids' = ids + 1
  BY <1>1, <1>6, <1>7
<1>11. running["provider"].at \in {"rest", "arrived"} /\ "provider" # "consumer"
  BY <1>3
<1> QED
  BY <1>2, <1>3, <1>8, <1>9, <1>10, <1>11, EnterKeeps

LEMMA ArriveKeeps == TracingInv /\ Arrive => TracingInv'
<1> SUFFICES ASSUME TracingInv, Arrive PROVE TracingInv'
  OBVIOUS
<1> USE DEF TracingInv
<1>1. /\ running["consumer"].at = "calling" /\ running["provider"].at = "rest"
      /\ running \in [End -> [at : {"rest", "arrived", "calling", "sent"},
                              trace : Nat \cup {Absent}, parent : Nat \cup {Absent},
                              span : Nat \cup {Absent}, sampled : BOOLEAN]]
  BY DEF Arrive, Resting, TracingTypeOK
<1>2. /\ running' \in [End -> [at : {"rest", "arrived", "calling", "sent"},
                              trace : Nat \cup {Absent}, parent : Nat \cup {Absent},
                              span : Nat \cup {Absent}, sampled : BOOLEAN]]
      /\ running'["consumer"] = [running["consumer"] EXCEPT !.at = "sent"]
      /\ running'["provider"] = [running["provider"] EXCEPT !.at = "arrived"]
  BY <1>1 DEF Arrive, End
<1>3. Spans' = Spans /\ Open' = Open
  <2>1. Open = {"consumer"} /\ Open' = {"consumer"}
    BY <1>1, <1>2 DEF Open, End
  <2>2. SpanOf("consumer")' = SpanOf("consumer")
    BY <1>1, <1>2 DEF SpanOf, End
  <2> QED
    BY <2>1, <2>2 DEF Spans, Arrive
<1>4. /\ carried'["consumer"] = carried["consumer"] /\ carried'["provider"] = carried["consumer"]
      /\ DOMAIN carried' = End /\ UNCHANGED <<setup, first, ids, attempt>>
  BY DEF Arrive, TracingTypeOK, End
<1>5. /\ OneTrace'
      /\ Spans' \in SUBSET [end : End, trace : {Trace'}, span : 2 .. ids' - 1,
                            parent : (1 .. ids' - 1) \cup {Absent}]
      /\ Carries("consumer") => Carries("consumer")' /\ Carries("provider")'
  BY <1>3, <1>4, LeavingKeeps DEF End
<1>6. TracingTypeOK'
  BY <1>2, <1>4, <1>5 DEF TracingTypeOK
<1>7. attempt > 0
  BY <1>1 DEF Positions, Resting, TracingTypeOK, End
<1>8. AllExported' => \A e \in Open' : running'[e].sampled
  <2>1. AllExported' = AllExported
    BY <1>4 DEF AllExported, HasExporter
  <2> QED
    BY <1>1, <1>2, <1>3, <2>1 DEF Positions, Open, End
<1>9. Positions'
  BY <1>1, <1>2, <1>4, <1>5, <1>7, <1>8 DEF Positions, TracingTypeOK
<1> QED
  BY <1>5, <1>6, <1>9

LEMMA FinishKeeps == ASSUME TracingInv, NEW e \in End, Finish(e) PROVE TracingInv'
<1> USE DEF TracingInv
<1>1. /\ e \in Open
      /\ running \in [End -> [at : {"rest", "arrived", "calling", "sent"},
                              trace : Nat \cup {Absent}, parent : Nat \cup {Absent},
                              span : Nat \cup {Absent}, sampled : BOOLEAN]]
  BY DEF Finish, Open, TracingTypeOK
<1>2. running' \in [End -> [at : {"rest", "arrived", "calling", "sent"},
                              trace : Nat \cup {Absent}, parent : Nat \cup {Absent},
                              span : Nat \cup {Absent}, sampled : BOOLEAN]]
        /\ running'[e] = Resting /\ \A f \in End \ {e} : running'[f] = running[f]
  BY <1>1 DEF Finish, Resting
<1>3. Open' = Open \ {e}
  BY <1>1, <1>2 DEF Open, Resting
<1>4. \A f \in Open \ {e} : SpanOf(f)' = SpanOf(f)
  BY <1>2 DEF SpanOf, Open
<1>5. Spans' = exported' \cup {SpanOf(f) : f \in Open \ {e}}
  BY <1>3, <1>4 DEF Spans
<1>6. exported' = IF HasExporter(e) /\ running[e].sampled
                  THEN exported \cup {SpanOf(e)} ELSE exported
  BY DEF Finish, SpanOf
<1>7. Spans' \in SUBSET Spans
  BY <1>1, <1>5, <1>6 DEF Spans
<1>8. AllExported => Spans' = Spans
  <2>1. AllExported => HasExporter(e) /\ running[e].sampled
    BY <1>1 DEF AllExported, Positions
  <2>2. AllExported => exported' = exported \cup {SpanOf(e)}
    BY <1>6, <2>1
  <2> QED
    BY <1>1, <1>5, <2>2 DEF Spans
<1>9. UNCHANGED <<setup, carried, attempt, ids, first>>
  BY DEF Finish
<1>10. /\ OneTrace'
       /\ Spans' \in SUBSET [end : End, trace : {Trace'}, span : 2 .. ids' - 1,
                             parent : (1 .. ids' - 1) \cup {Absent}]
       /\ \A f \in End : Carries(f) => Carries(f)'
  BY <1>7, <1>8, <1>9, LeavingKeeps DEF TracingTypeOK
<1>11. TracingTypeOK'
  BY <1>2, <1>9, <1>10 DEF TracingTypeOK
<1>12. attempt > 0
  BY <1>1 DEF Positions, Resting, TracingTypeOK, Open
<1>13. AllExported' => \A f \in Open' : running'[f].sampled
  <2>1. AllExported' = AllExported
    BY <1>9 DEF AllExported, HasExporter
  <2> QED
    BY <1>2, <1>3, <2>1 DEF Positions, Open
<1>14. /\ running'["provider"].at = "arrived" => running["provider"].at = "arrived"
       /\ running'["consumer"].at # "arrived" /\ running'["provider"].at # "sent"
  BY <1>2 DEF Positions, Resting, End
<1>15. Positions'
  BY <1>9, <1>10, <1>12, <1>13, <1>14 DEF Positions, End, TracingTypeOK
<1> QED
  BY <1>10, <1>11, <1>15

LEMMA NextTracingInv == TracingInv /\ [TracingNext]_tracingVars => TracingInv'
<1>1. TracingInv /\ UNCHANGED tracingVars => TracingInv'
  <2> SUFFICES ASSUME TracingInv, UNCHANGED tracingVars PROVE TracingInv'
    OBVIOUS
  <2>1. Spans' = Spans /\ SpanIds' = SpanIds /\ Open' = Open /\ AllExported' = AllExported
    BY DEF Spans, SpanIds, Open, SpanOf, AllExported, HasExporter, tracingVars
  <2>2. /\ OneTrace'
        /\ Spans' \in SUBSET [end : End, trace : {Trace'}, span : 2 .. ids' - 1,
                              parent : (1 .. ids' - 1) \cup {Absent}]
        /\ \A e \in End : Carries(e) => Carries(e)'
    BY <2>1, LeavingKeeps DEF tracingVars, TracingInv, TracingTypeOK
  <2>3. TracingTypeOK'
    BY <2>2 DEF TracingInv, TracingTypeOK, tracingVars
  <2>4. Positions'
    BY <2>1, <2>2 DEF TracingInv, Positions, tracingVars, End
  <2> QED
    BY <2>2, <2>3, <2>4 DEF TracingInv
<1> QED
  BY <1>1, AttemptKeeps, ServeKeeps, ArriveKeeps, FinishKeeps DEF TracingNext

LEMMA TracingInvSuffices == TracingInv => SpansFormATrace
<1> SUFFICES ASSUME TracingInv PROVE SpansFormATrace
  OBVIOUS
<1> USE DEF TracingInv
<1>1. exported \subseteq Spans /\ \A s \in exported : s.trace = Trace
  BY DEF Spans, TracingTypeOK
<1>2. \A s, t \in exported : s.trace = t.trace /\ (s.span = t.span => s = t)
  BY <1>1 DEF OneTrace
<1>3. ParseTraceparent(first) # Absent => \A s \in exported : s.trace = first.trace
  BY <1>1 DEF Trace, Origin
<1>4. \A s, t \in exported :
        s # t /\ s.end = "consumer" /\ t.end = "consumer" => s.parent # t.parent
  BY <1>1 DEF OneTrace
<1>5. Cardinality({s \in exported : s.parent = Absent}) <= 1
  <2> DEFINE roots == {s \in exported : s.parent = Absent}
  <2>1. \A s, t \in roots : s = t
    BY <1>1 DEF OneTrace
  <2>2. CASE roots = {}
    BY <2>2, FS_EmptySet
  <2>3. CASE roots # {}
    <3> HIDE DEF roots
    <3>1. PICK s \in roots : roots = {s}
      BY <2>1, <2>3
    <3>2. Cardinality(roots) = 1
      BY <3>1, FS_Singleton
    <3> QED
      BY <3>2 DEF roots
  <2> QED
    BY <2>2, <2>3
<1>6. ASSUME \A e \in End : setup[e].rate = "all" /\ HasExporter(e),
             \A e \in End : running[e] = Resting, NEW s \in exported
      PROVE  \/ s.parent \in {t.span : t \in exported}
             \/ s.parent = ParentOf(ParseTraceparent(first))
  <2>1. Spans = exported
    BY <1>6 DEF Spans, Open, Resting
  <2> QED
    BY <1>6, <2>1 DEF OneTrace, AllExported, SpanIds, Origin
<1> QED
  BY <1>2, <1>3, <1>4, <1>5, <1>6 DEF SpansFormATrace

-----------------------------------------------------------------------------

\* A provider whose heartbeat is kept stays at the server of Redis and of Nacos, a directory
\* knows what it was told of by Redis or etcd and what was registered in memory while it was
\* subscribed, and MultipleRegistry asks its registries in order, up to one that fails.
THEOREM ProvidersFound == RegistrySpec /\ DiscoverySpec => []ProvidersAreFound
<1>1. RegistryInit => RegistryInv
  BY InitRegistryInv
<1>2. RegistryInv /\ [RegistryNext]_registryVars => RegistryInv'
  BY NextRegistryInv
<1>3. DiscoveryInit /\ MultipleInit => DiscoveryInv /\ MultipleInv
  BY InitDiscoveryInv, InitMultipleInv
<1>4. DiscoveryInv /\ MultipleInv
        /\ [DiscoveryNext \/ MultipleNext]_<<discoveryVars, multipleVars>>
      => (DiscoveryInv /\ MultipleInv)'
  BY NextDiscoveryInv, NextMultipleInv
<1>5. RegistryInv /\ DiscoveryInv /\ MultipleInv => ProvidersAreFound
  BY RegistryInvSuffices, DiscoveryInvSuffices DEF ProvidersAreFound, MultipleInv
<1> QED
  BY <1>1, <1>2, <1>3, <1>4, <1>5, PTL DEF RegistrySpec, DiscoverySpec

\* When nothing is on its way every listener of a configuration centre has heard the value
\* that is there (in memory if no two calls overlapped, at ZooKeeper while its watch is
\* armed, polled if there is one task), and metadata is found as the last call left it.
THEOREM CentersAgreeAtRest == ConfigSpec /\ MetadataSpec => []CentersAgree
<1>1. ConfigInit => ConfigInv
  BY InitConfigInv
<1>2. ConfigInv /\ [ConfigNext]_configVars => ConfigInv'
  BY NextConfigInv
<1>3. MetadataInit => MetadataInv
  BY InitMetadataInv
<1>4. MetadataInv /\ [MetadataNext]_metadataVars => MetadataInv'
  BY NextMetadataInv
<1>5. ConfigInv /\ MetadataInv => CentersAgree
  BY ConfigInvSuffices, MetadataInvSuffices DEF CentersAgree
<1> QED
  BY <1>1, <1>2, <1>3, <1>4, <1>5, PTL DEF ConfigSpec, MetadataSpec

\* Errors are never counted before their requests, a scrape that no recording disturbs adds
\* up, a health probe answers for what held while it was answered, and the spans of a call
\* form one trace.
THEOREM MeasuredTruly == MetricsSpec /\ TracingSpec => []MetricsAreTrue
<1>1. MetricsInit => CollectorInv /\ HealthInv
  BY InitCollectorInv, InitHealthInv
<1>2. CollectorInv /\ HealthInv /\ [CollectorNext \/ HealthNext]_metricsVars
        => (CollectorInv /\ HealthInv)'
  BY NextMetricsInv
<1>3. TracingInit => TracingInv
  BY InitTracingInv
<1>4. TracingInv /\ [TracingNext]_tracingVars => TracingInv'
  BY NextTracingInv
<1>5. CollectorInv /\ HealthInv /\ TracingInv => MetricsAreTrue
  BY CollectorInvSuffices, HealthInvSuffices, TracingInvSuffices DEF MetricsAreTrue
<1> QED
  BY <1>1, <1>2, <1>3, <1>4, <1>5, PTL DEF MetricsSpec, TracingSpec
=============================================================================
