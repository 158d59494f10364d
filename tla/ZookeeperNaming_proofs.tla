----------------------- MODULE ZookeeperNaming_proofs -----------------------
(***************************************************************************)
(* Proofs about ZookeeperNaming, for any providers and subscribers, any    *)
(* number of changes and of failed requests.                               *)
(*                                                                         *)
(* That the directory of a lone subscriber agrees with its task is not in- *)
(* ductive: between two waits the task has announced only a part of what   *)
(* it remembers as announced.  What holds at every step is that the        *)
(* directory would agree once the calls of notify() still queued had been  *)
(* made, whatever they are: After() is the list they would leave.          *)
(*                                                                         *)
(* When several tasks tell the same directories, the word of any of them   *)
(* may be the last.  What holds then is said of each task and directory:   *)
(* what a task has fetched is what there is until its watch fires (Known), *)
(* what it still has to tell agrees with what it remembers (Telling), and  *)
(* whatever a directory lists or lacks is accounted for by what some task  *)
(* remembers or has still to tell (Listed).  Which tasks have fetched      *)
(* again since their snapshot cannot be read off the state, so that the    *)
(* invariant says that there is such a set of them.                        *)
(***************************************************************************)
EXTENDS ZookeeperNaming, TLAPS

Note == [to : Sub, kind : {"add", "remove"}, urls : SUBSET Provider]

Place ==
  {"absent", "out", "ensure", "create", "register", "up", "snapshot", "announce", "read",
   "refresh", "watch", "wait", "rewatch", "plain", "failed", "gone"}

\* The type of every variable; a call of notify() in progress is one of the queue.
TypeOK ==
  /\ plain \in SUBSET Sub
  /\ dir \in BOOLEAN /\ nodes \in SUBSET Provider
  /\ pc \in [Provider \cup Sub -> Place]
  /\ listeners \in Seq(Sub)
  /\ children \in [Sub -> SUBSET Provider]
  /\ prev \in [Sub -> SUBSET Provider]
  /\ watch \in [Sub -> {"none", "set", "fired", "dead"}]
  /\ queue \in [Sub -> Seq(Note)]
  /\ \A s \in Sub : pc[s] \in {"read", "refresh"} => queue[s] # <<>>
  /\ computed \in [Sub -> SUBSET Provider]
  /\ urls \in [Sub -> SUBSET Provider]
  /\ snapshot \in [Sub -> SUBSET Provider]
  /\ missed \in SUBSET Sub /\ raced \in SUBSET Sub
  /\ changes \in Nat /\ errors \in Nat

\* What a call of notify() makes of a list, and what all those of a queue do.
Apply(note, list) == IF note.kind = "add" THEN list \cup note.urls ELSE list \ note.urls

After(notes, list) ==
  IF notes = <<>> THEN list
  ELSE IF Len(notes) = 1 THEN Apply(notes[1], list)
  ELSE Apply(notes[2], Apply(notes[1], list))

Early == {"absent", "out", "ensure", "create", "snapshot"}

\* Nobody but s has ever subscribed.
Quiet(s) == \A other \in Sub \ {s} : pc[other] \in {"absent", "out"}

\* The task of s will leave the directory in agreement with what it remembers.
WillAgree(s) ==
  /\ pc[s] = "announce" /\ watch[s] = "none" => children[s] \subseteq snapshot[s]
  /\ Len(queue[s]) <= 2
  /\ \A i \in DOMAIN queue[s] : queue[s][i].to = s
  /\ pc[s] \notin {"read", "refresh"} => queue[s] = <<>>
  /\ pc[s] = "refresh" => computed[s] = Apply(Head(queue[s]), urls[s])
  /\ prev[s] \subseteq After(queue[s], urls[s])
  /\ After(queue[s], urls[s]) \subseteq prev[s] \cup snapshot[s]

Blank(s) ==
  /\ urls[s] = {} /\ prev[s] = {}
  /\ watch[s] = "none" /\ queue[s] = <<>>

Loop(s) == Quiet(s) =>
  /\ listeners \in {<<>>, <<s>>}
  /\ pc[s] \in {"absent", "out"} => listeners = <<>>
  /\ pc[s] \in Early => Blank(s)
  /\ pc[s] \notin Early /\ listeners = <<s>> => WillAgree(s)

LoopInv == \A s \in Sub : Loop(s)

-----------------------------------------------------------------------------
(* The calls of notify() that an announcement makes.                       *)

LEMMA Disjoint == \A s \in Sub : s \in Provider \cup Sub /\ s \notin Provider
BY NamingAssumption

LEMMA NotesAre ==
  ASSUME TypeOK, NEW kind \in {"add", "remove"}, NEW set \in SUBSET Provider
  PROVE  /\ Notes(kind, set) \in Seq(Note)
         /\ NotesUnlessEmpty(kind, set) \in Seq(Note)
<1>1. listeners \in Seq(Sub) /\ Len(listeners) \in Nat /\ DOMAIN listeners = 1 .. Len(listeners)
  BY DEF TypeOK
<1>2. \A i \in DOMAIN listeners : [to |-> listeners[i], kind |-> kind, urls |-> set] \in Note
  BY <1>1 DEF Note
<1>3. Notes(kind, set) \in [1 .. Len(listeners) -> Note]
  BY <1>1, <1>2 DEF Notes
<1>4. Notes(kind, set) \in Seq(Note)
  BY <1>1, <1>3
<1> QED
  BY <1>4 DEF NotesUnlessEmpty

LEMMA DifferenceIs ==
  ASSUME TypeOK, NEW s \in Sub
  PROVE  Difference(s) \in Seq(Note)
<1>1. /\ children[s] \ prev[s] \in SUBSET Provider
      /\ prev[s] \ children[s] \in SUBSET Provider
  BY DEF TypeOK
<1>2. /\ NotesUnlessEmpty("add", children[s] \ prev[s]) \in Seq(Note)
      /\ NotesUnlessEmpty("remove", prev[s] \ children[s]) \in Seq(Note)
  BY <1>1, NotesAre
<1> QED
  BY <1>2 DEF Difference

LEMMA TailIs ==
  ASSUME NEW notes \in Seq(Note), notes # <<>>
  PROVE  /\ Len(notes) \in Nat \ {0}
         /\ Len(notes) # 1 => Tail(notes) # <<>>
         /\ Len(notes) = 1 => Tail(notes) = <<>>
<1>1. Len(notes) \in Nat \ {0}
  OBVIOUS
<1>2. Len(Tail(notes)) = Len(notes) - 1 /\ Tail(notes) \in Seq(Note)
  OBVIOUS
<1>3. \A t \in Seq(Note) : Len(t) = 0 <=> t = <<>>
  OBVIOUS
<1>4. Tail(notes) = <<>> <=> Len(Tail(notes)) = 0
  BY <1>2, <1>3
<1>5. Len(Tail(notes)) = 0 <=> Len(notes) = 1
  BY <1>1, <1>2
<1> QED
  BY <1>1, <1>4, <1>5

LEMMA OneOrTwo ==
  ASSUME NEW notes \in Seq(Note), notes # <<>>, Len(notes) <= 2
  PROVE  Len(notes) = 1 \/ Len(notes) = 2
<1> DEFINE len == Len(notes)
<1>1. len \in Nat /\ len # 0 /\ len <= 2
  OBVIOUS
<1> HIDE DEF len
<1>2. len = 1 \/ len = 2
  BY ONLY <1>1
<1> QED
  BY ONLY <1>2 DEF len

LEMMA TailItems ==
  ASSUME NEW notes \in Seq(Note), Len(notes) \in Nat
  PROVE  \A i \in 1 .. Len(notes) - 1, j \in Nat : j = i + 1 => Tail(notes)[i] = notes[j]
OBVIOUS

LEMMA TailOfTwo ==
  ASSUME NEW notes \in Seq(Note), Len(notes) = 2
  PROVE  Len(Tail(notes)) = 1 /\ Tail(notes)[1] = notes[2]
<1>1. Len(notes) \in Nat /\ Len(Tail(notes)) = Len(notes) - 1
  OBVIOUS
<1>2. \A i \in 1 .. Len(notes) - 1, j \in Nat : j = i + 1 => Tail(notes)[i] = notes[j]
  BY <1>1, TailItems
<1>3. 1 \in 1 .. Len(notes) - 1 /\ 2 \in Nat /\ 2 = 1 + 1
  OBVIOUS
<1>4. Tail(notes)[1] = notes[2]
  BY ONLY <1>2, <1>3
<1> QED
  BY <1>1, <1>4

LEMMA Single ==
  ASSUME NEW a, NEW notes, notes = <<a>>
  PROVE  Len(notes) = 1 /\ notes[1] = a /\ DOMAIN notes = {1} /\ notes # <<>>
OBVIOUS

LEMMA Pair ==
  ASSUME NEW a, NEW b
  PROVE  LET both == <<a>> \o <<b>>
         IN  /\ Len(both) = 2 /\ both[1] = a /\ both[2] = b
             /\ DOMAIN both = {1, 2} /\ both # <<>>
<1> DEFINE both == <<a>> \o <<b>>
<1>1. <<a>> \in Seq({a, b}) /\ <<b>> \in Seq({a, b}) /\ Len(<<a>>) = 1 /\ Len(<<b>>) = 1
  OBVIOUS
<1>2. <<a>>[1] = a /\ <<b>>[1] = b
  OBVIOUS
<1>3. Len(both) = 2 /\ both \in Seq({a, b})
  BY <1>1
<1>4. both[1] = a
  BY <1>1, <1>2
<1>5. both[2] = b
  BY <1>1, <1>2
<1> HIDE DEF both
<1>6. DOMAIN both = {1, 2} /\ both # <<>>
  BY <1>3
<1> QED
  BY <1>3, <1>4, <1>5, <1>6 DEF both

LEMMA Without ==
  ASSUME NEW a
  PROVE  <<a>> \o <<>> = <<a>> /\ <<>> \o <<a>> = <<a>> /\ <<>> \o <<>> = <<>>
OBVIOUS

\* The notes of one listener.
LEMMA OneListener ==
  ASSUME NEW s \in Sub, listeners = <<s>>, NEW kind, NEW set
  PROVE  Notes(kind, set) = <<[to |-> s, kind |-> kind, urls |-> set]>>
<1>1. DOMAIN listeners = 1 .. 1 /\ listeners[1] = s
  OBVIOUS
<1> QED
  BY <1>1 DEF Notes

LEMMA StageIs ==
  ASSUME NEW s \in Sub, TypeOK
  PROVE  Stage(s) \in {"plain", "watch", "gone", "wait"}
BY DEF Stage, TypeOK

-----------------------------------------------------------------------------
(* Types.                                                                  *)

LEMMA EnsureTypes ==
  ASSUME TypeOK, NEW a \in Provider \cup Sub, EnsureExists(a) \/ EnsureCreate(a)
  PROVE  TypeOK'
<1>1. Ensured(a) \in {"register", "snapshot"} /\ Rejected(a) \in {"out", "failed"}
  BY DEF Ensured, Rejected
<1>2. PICK to \in {"register", "snapshot", "out", "failed", "create"} : pc' = [pc EXCEPT ![a] = to]
  BY <1>1 DEF EnsureExists, EnsureCreate, Goto
<1>3. UNCHANGED <<plain, nodes, changes, listeners, loop, notifying, history, errors>>
      /\ dir' \in BOOLEAN
  BY DEF EnsureExists, EnsureCreate, zk, TypeOK
<1>4. pc' \in [Provider \cup Sub -> Place]
      /\ \A s \in Sub : pc'[s] \in {"read", "refresh"} => pc[s] \in {"read", "refresh"}
  BY <1>2 DEF TypeOK, Place
<1> QED
  BY <1>3, <1>4 DEF TypeOK, loop, notifying, history

LEMMA ProviderTypes ==
  ASSUME TypeOK, NEW p \in Provider, Register(p) \/ Join(p) \/ Leave(p)
  PROVE  TypeOK'
<1>1. PICK to \in {"ensure", "up", "out"} : pc' = [pc EXCEPT ![p] = to]
  BY DEF Register, Join, Leave, Goto
<1>2. pc' \in [Provider \cup Sub -> Place]
      /\ \A s \in Sub : pc'[s] \in {"read", "refresh"} => pc[s] \in {"read", "refresh"}
  BY <1>1 DEF TypeOK, Place
<1>3. CASE Register(p)
  BY <1>2, <1>3 DEF Register, TypeOK, zk, loop, notifying, history
<1>4. CASE Join(p) \/ Leave(p)
  <2>1. PICK new \in SUBSET Provider : ChildrenChange(new)
    BY <1>4 DEF Join, Leave, TypeOK
  <2>2. watch' \in [Sub -> {"none", "set", "fired", "dead"}]
    BY <2>1 DEF ChildrenChange, TypeOK
  <2>3. changes' \in Nat /\ nodes' \in SUBSET Provider /\ missed' \in SUBSET Sub
    BY <2>1 DEF ChildrenChange, TypeOK
  <2> QED
    BY <1>2, <2>1, <2>2, <2>3 DEF ChildrenChange, TypeOK, notifying
<1> QED
  BY <1>3, <1>4

LEMMA ListenTypes ==
  ASSUME TypeOK, NEW s \in Sub, Listen(s) \/ Unsubscribe
  PROVE  TypeOK'
<1>1. listeners' \in Seq(Sub)
  <2>1. listeners \in Seq(Sub)
    BY DEF TypeOK
  <2>2. Append(listeners, s) \in Seq(Sub) /\ <<>> \in Seq(Sub)
    BY <2>1
  <2> QED
    BY <2>2 DEF Listen, Unsubscribe
<1>2. pc' \in [Provider \cup Sub -> Place]
      /\ \A d \in Sub : pc'[d] \in {"read", "refresh"} => pc[d] \in {"read", "refresh"}
  BY DEF Listen, Unsubscribe, Goto, TypeOK, Place
<1> QED
  BY <1>1, <1>2 DEF Listen, Unsubscribe, TypeOK, zk, loop, notifying, history

LEMMA FetchTypes ==
  ASSUME TypeOK, NEW s \in Sub, Snapshot(s) \/ Watch(s) \/ Fetch(s) \/ Rewatch(s)
  PROVE  TypeOK'
<1>1. PICK to \in {"announce", "plain", "failed", "wait", "gone", "rewatch"} :
        pc' = [pc EXCEPT ![s] = to]
  BY DEF Snapshot, Watch, Fetch, Rewatch, Goto
<1>2. pc' \in [Provider \cup Sub -> Place]
      /\ \A d \in Sub : pc'[d] \in {"read", "refresh"} => pc[d] \in {"read", "refresh"}
  BY <1>1 DEF TypeOK, Place
<1>3. watch' \in [Sub -> {"none", "set", "fired", "dead"}]
  BY DEF Snapshot, Watch, Fetch, Rewatch, TypeOK
<1>4. errors' \in Nat
  BY DEF Snapshot, Watch, Fetch, Rewatch, Fail, TypeOK
<1>5. children' \in [Sub -> SUBSET Provider] /\ snapshot' \in [Sub -> SUBSET Provider]
  BY DEF Snapshot, Watch, Fetch, Rewatch, TypeOK, loop, history
<1>6. missed' \in SUBSET Sub /\ raced' = raced
  BY DEF Snapshot, Watch, Fetch, Rewatch, TypeOK, history
<1>7. UNCHANGED <<plain, zk, listeners, prev, notifying>>
  BY DEF Snapshot, Watch, Fetch, Rewatch, loop
<1> QED
  BY <1>2, <1>3, <1>4, <1>5, <1>6, <1>7 DEF TypeOK, zk, notifying

LEMMA AnnounceTypes ==
  ASSUME TypeOK, NEW s \in Sub, Announce(s)
  PROVE  TypeOK'
<1> DEFINE notes == IF watch[s] = "none" THEN Notes("add", children[s]) ELSE Difference(s)
           to == IF notes = <<>> THEN Stage(s) ELSE "read"
<1>1. notes \in Seq(Note)
  BY NotesAre, DifferenceIs DEF TypeOK
<1>2. queue' = [queue EXCEPT ![s] = notes] /\ pc' = [pc EXCEPT ![s] = to]
      /\ UNCHANGED <<plain, zk, listeners, watch, computed, urls, history, errors>>
  BY DEF Announce, Goto
<1>3. to \in Place /\ (notes = <<>> => to \notin {"read", "refresh"})
  BY StageIs DEF Place
<1>4. prev' \in [Sub -> SUBSET Provider] /\ children' \in [Sub -> SUBSET Provider]
  BY DEF Announce, TypeOK
<1> HIDE DEF notes, to
<1>5. queue' \in [Sub -> Seq(Note)] /\ pc' \in [Provider \cup Sub -> Place]
  BY <1>1, <1>2, <1>3 DEF TypeOK
<1>6. \A d \in Sub : pc'[d] \in {"read", "refresh"} => queue'[d] # <<>>
  BY <1>1, <1>2, <1>3 DEF TypeOK
<1> QED
  BY <1>2, <1>4, <1>5, <1>6 DEF TypeOK, zk, history

LEMMA NotifyTypes ==
  ASSUME TypeOK, NEW s \in Sub, ReadUrls(s) \/ RefreshInvokers(s)
  PROVE  TypeOK'
<1>1. queue[s] \in Seq(Note) /\ queue[s] # <<>>
  BY DEF ReadUrls, RefreshInvokers, Goto, TypeOK
<1>2. /\ Head(queue[s]) \in Note /\ Tail(queue[s]) \in Seq(Note)
      /\ Head(queue[s]).to \in Sub /\ Head(queue[s]).urls \in SUBSET Provider
      /\ Len(queue[s]) # 1 => Tail(queue[s]) # <<>>
  <2>1. Head(queue[s]) \in Note /\ Tail(queue[s]) \in Seq(Note)
    BY <1>1
  <2>2. Len(queue[s]) # 1 => Tail(queue[s]) # <<>>
    BY <1>1, TailIs
  <2>3. \A note \in Note : note.to \in Sub /\ note.urls \in SUBSET Provider
    BY DEF Note
  <2> QED
    BY <2>1, <2>2, <2>3
<1>3. CASE ReadUrls(s)
  <2>1. Applied(Head(queue[s])) \in SUBSET Provider
    BY <1>2 DEF Applied, TypeOK
  <2>2. computed' \in [Sub -> SUBSET Provider]
    BY <1>3, <2>1 DEF ReadUrls, TypeOK
  <2>3. pc' = [pc EXCEPT ![s] = "refresh"] /\ queue' = queue
        /\ UNCHANGED <<plain, zk, listeners, loop, urls, history, errors>>
    BY <1>3 DEF ReadUrls, Goto
  <2>4. pc' \in [Provider \cup Sub -> Place]
        /\ \A d \in Sub : pc'[d] \in {"read", "refresh"} => queue'[d] # <<>>
    BY <1>1, <2>3 DEF TypeOK, Place
  <2> QED
    BY <2>2, <2>3, <2>4 DEF TypeOK, zk, loop, history
<1>4. CASE RefreshInvokers(s)
  <2> DEFINE to == IF Len(queue[s]) = 1 THEN Stage(s) ELSE "read"
  <2>1. to \in Place /\ (Len(queue[s]) = 1 => to \notin {"read", "refresh"})
    BY StageIs DEF Place
  <2>2. pc' = [pc EXCEPT ![s] = to] /\ queue' = [queue EXCEPT ![s] = Tail(@)]
        /\ UNCHANGED <<plain, zk, listeners, loop, snapshot, missed, errors>>
    BY <1>4 DEF RefreshInvokers, Goto
  <2>3. urls' \in [Sub -> SUBSET Provider] /\ computed' \in [Sub -> SUBSET Provider]
        /\ raced' \in SUBSET Sub
    BY <1>2, <1>4 DEF RefreshInvokers, TypeOK
  <2> HIDE DEF to
  <2>4. pc' \in [Provider \cup Sub -> Place] /\ queue' \in [Sub -> Seq(Note)]
    BY <1>2, <2>1, <2>2 DEF TypeOK
  <2>5. \A d \in Sub : pc'[d] \in {"read", "refresh"} => queue'[d] # <<>>
    BY <1>2, <2>1, <2>2 DEF TypeOK
  <2> QED
    BY <2>2, <2>3, <2>4, <2>5 DEF TypeOK, zk, loop
<1> QED
  BY <1>3, <1>4

LEMMA TypesInit == Init => TypeOK
<1> SUFFICES ASSUME Init PROVE TypeOK
  OBVIOUS
<1>1. pc \in [Provider \cup Sub -> {"absent", "out"}] /\ changes \in Nat /\ errors \in Nat
  BY NamingAssumption DEF Init
<1>2. pc \in [Provider \cup Sub -> Place]
      /\ \A s \in Sub : pc[s] \notin {"read", "refresh"}
  BY <1>1 DEF Place
<1>3. <<>> \in Seq(Sub) /\ <<>> \in Seq(Note) /\ {} \in SUBSET Provider /\ {} \in SUBSET Sub
  OBVIOUS
<1>4. listeners \in Seq(Sub) /\ queue \in [Sub -> Seq(Note)]
  BY <1>3 DEF Init
<1>5. /\ children \in [Sub -> SUBSET Provider] /\ prev \in [Sub -> SUBSET Provider]
      /\ computed \in [Sub -> SUBSET Provider] /\ urls \in [Sub -> SUBSET Provider]
      /\ snapshot \in [Sub -> SUBSET Provider]
      /\ watch \in [Sub -> {"none", "set", "fired", "dead"}]
  BY <1>3 DEF Init
<1> QED
  BY <1>1, <1>2, <1>4, <1>5 DEF Init, TypeOK

LEMMA TypesStep == TypeOK /\ [Next]_vars => TypeOK'
<1> SUFFICES ASSUME TypeOK, [Next]_vars PROVE TypeOK'
  OBVIOUS
<1>1. CASE UNCHANGED vars
  BY <1>1 DEF vars, zk, loop, notifying, history, TypeOK
<1>2. ASSUME NEW p \in Provider,
             Register(p) \/ EnsureExists(p) \/ EnsureCreate(p) \/ Join(p) \/ Leave(p)
      PROVE  TypeOK'
  BY <1>2, EnsureTypes, ProviderTypes
<1>3. ASSUME NEW s \in Sub, Listen(s) \/ SubStep(s) PROVE TypeOK'
  BY <1>3, EnsureTypes, ListenTypes, FetchTypes, AnnounceTypes, NotifyTypes DEF SubStep
<1>4. CASE Unsubscribe
  BY <1>4 DEF Unsubscribe, TypeOK, zk, loop, notifying, history
<1> QED
  BY <1>1, <1>2, <1>3, <1>4 DEF Next

\* Every variable keeps its type, and a task that notifies has something left to say.
THEOREM NamingTypeCorrect == Spec => []TypeOK
BY TypesInit, TypesStep, PTL DEF Spec

-----------------------------------------------------------------------------
(* A lone subscriber stays what it was, or is joined by another.           *)

\* Whoever has not subscribed yet has taken no step.
LEMMA Forward ==
  ASSUME TypeOK, [Next]_vars, NEW d \in Sub, pc'[d] \in {"absent", "out"}
  PROVE  pc'[d] = pc[d] /\ ~Listen(d) /\ ~SubStep(d)
<1>1. d \in Provider \cup Sub /\ d \notin Provider
  BY Disjoint
<1>2. ASSUME NEW a \in Provider \cup Sub, NEW from, NEW to, Goto(a, from, to),
             a = d => to \notin {"absent", "out"}
      PROVE  a # d /\ pc'[d] = pc[d]
  BY <1>1, <1>2 DEF Goto, TypeOK
<1>3. Ensured(d) = "snapshot" /\ Rejected(d) = "failed"
  BY <1>1 DEF Ensured, Rejected
<1>4. ~Listen(d)
  BY <1>1, <1>2 DEF Listen
<1>5. ~SubStep(d)
  <2>1. ~EnsureExists(d) /\ ~EnsureCreate(d)
    BY <1>1, <1>2, <1>3 DEF EnsureExists, EnsureCreate
  <2>2. ~Snapshot(d) /\ ~Watch(d) /\ ~Fetch(d) /\ ~Rewatch(d)
    BY <1>1, <1>2 DEF Snapshot, Watch, Fetch, Rewatch
  <2>3. ~Announce(d) /\ ~ReadUrls(d) /\ ~RefreshInvokers(d)
    BY <1>1, <1>2, StageIs DEF Announce, ReadUrls, RefreshInvokers
  <2> QED
    BY <2>1, <2>2, <2>3 DEF SubStep
<1>6. ASSUME NEW a \in Provider \cup Sub, a # d, NEW from, NEW to, Goto(a, from, to)
      PROVE  pc'[d] = pc[d]
  BY <1>2, <1>6
<1>7. pc'[d] = pc[d]
  <2>1. CASE UNCHANGED vars \/ Unsubscribe
    BY <2>1 DEF vars, Unsubscribe
  <2>2. ASSUME NEW p \in Provider,
               Register(p) \/ EnsureExists(p) \/ EnsureCreate(p) \/ Join(p) \/ Leave(p)
        PROVE  pc'[d] = pc[d]
    BY <1>1, <1>6, <2>2 DEF Register, EnsureExists, EnsureCreate, Join, Leave
  <2>3. ASSUME NEW s \in Sub, Listen(s) \/ SubStep(s) PROVE pc'[d] = pc[d]
    <3>1. s # d /\ s \in Provider \cup Sub
      BY <1>4, <1>5, <2>3
    <3>2. \E from, to : Goto(s, from, to)
      BY <2>3 DEF Listen, SubStep, EnsureExists, EnsureCreate, Snapshot, Watch, Fetch,
                  Rewatch, Announce, ReadUrls, RefreshInvokers
    <3> QED
      BY <1>6, <3>1, <3>2
  <2> QED
    BY <2>1, <2>2, <2>3 DEF Next
<1> QED
  BY <1>4, <1>5, <1>7

LEMMA QuietSteps ==
  ASSUME TypeOK, [Next]_vars, NEW s \in Sub, Quiet(s)'
  PROVE  /\ Quiet(s)
         /\ \A other \in Sub \ {s} : ~Listen(other) /\ ~SubStep(other)
BY Forward DEF Quiet

-----------------------------------------------------------------------------
(* Steps of others: providers come and go, and somebody unsubscribes all.  *)

LEMMA SameView ==
  ASSUME NEW s \in Sub, Quiet(s), Loop(s), listeners' \in {listeners, <<>>},
         pc'[s] = pc[s], queue'[s] = queue[s], computed'[s] = computed[s],
         urls'[s] = urls[s], prev'[s] = prev[s], children'[s] = children[s],
         snapshot'[s] = snapshot[s], watch'[s] = "none" <=> watch[s] = "none"
  PROVE  Loop(s)'
<1>1. CASE listeners' = listeners
  <2>1. Blank(s)' = Blank(s)
    BY DEF Blank
  <2>2. WillAgree(s)' = WillAgree(s)
    BY DEF WillAgree
  <2> QED
    BY <1>1, <2>1, <2>2 DEF Loop
<1>2. CASE listeners' = <<>>
  <2>1. listeners' # <<s>>
    BY <1>2
  <2>2. Blank(s)' = Blank(s)
    BY DEF Blank
  <2> QED
    BY <1>2, <2>1, <2>2 DEF Loop
<1> QED
  BY <1>1, <1>2

LEMMA ProviderLoop ==
  ASSUME TypeOK, NEW s \in Sub, Quiet(s), Loop(s), NEW p \in Provider,
         Register(p) \/ EnsureExists(p) \/ EnsureCreate(p) \/ Join(p) \/ Leave(p)
  PROVE  Loop(s)'
<1>1. p # s /\ s \in Provider \cup Sub
  BY Disjoint
<1>2. pc'[s] = pc[s]
  BY <1>1 DEF Register, EnsureExists, EnsureCreate, Join, Leave, Goto, TypeOK
<1>3. /\ listeners' = listeners
      /\ UNCHANGED <<children, prev, queue, computed, urls, snapshot>>
  BY DEF Register, EnsureExists, EnsureCreate, Join, Leave, ChildrenChange,
         loop, notifying, history
<1>4. watch'[s] = "none" <=> watch[s] = "none"
  BY DEF Register, EnsureExists, EnsureCreate, Join, Leave, ChildrenChange, loop, TypeOK
<1> QED
  BY <1>2, <1>3, <1>4, SameView

-----------------------------------------------------------------------------
(* The steps of the subscriber itself.                                     *)

LEMMA EarlySteps ==
  ASSUME TypeOK, NEW s \in Sub, Quiet(s), Loop(s), Listen(s) \/ EnsureExists(s) \/ EnsureCreate(s)
  PROVE  Loop(s)'
<1>1. s \in Provider \cup Sub /\ Ensured(s) = "snapshot" /\ Rejected(s) = "failed"
  BY Disjoint DEF Ensured, Rejected
<1>2. /\ pc[s] \in {"out", "ensure", "create"}
      /\ pc'[s] \in {"ensure", "create", "snapshot", "failed"}
  BY <1>1 DEF Listen, EnsureExists, EnsureCreate, Goto, TypeOK
<1>3. Blank(s)
  BY <1>2 DEF Loop, Early
<1>4. UNCHANGED <<loop, notifying, history>>
  BY DEF Listen, EnsureExists, EnsureCreate
<1>5. Blank(s)'
  BY <1>3, <1>4 DEF Blank, loop, notifying
<1>6. listeners' \in {<<>>, <<s>>}
  <2>1. CASE Listen(s)
    <3>1. listeners = <<>>
      BY <2>1 DEF Listen, Goto, Loop
    <3>2. Append(<<>>, s) = <<s>>
      OBVIOUS
    <3> QED
      BY <2>1, <3>1, <3>2 DEF Listen
  <2>2. CASE EnsureExists(s) \/ EnsureCreate(s)
    BY <2>2 DEF EnsureExists, EnsureCreate, Loop
  <2> QED
    BY <2>1, <2>2
<1>7. pc'[s] = "failed" => WillAgree(s)'
  <2>1. urls'[s] = {} /\ prev'[s] = {} /\ queue'[s] = <<>>
    BY <1>5 DEF Blank
  <2>2. Len(queue'[s]) <= 2 /\ DOMAIN queue'[s] = {}
    BY <2>1
  <2>3. After(queue[s], urls[s])' = {}
    BY <2>1 DEF After
  <2> QED
    BY <2>1, <2>2, <2>3 DEF WillAgree
<1> QED
  BY <1>2, <1>5, <1>6, <1>7 DEF Loop, Early

LEMMA SnapshotLoop ==
  ASSUME TypeOK, NEW s \in Sub, Quiet(s), Loop(s), Snapshot(s)
  PROVE  Loop(s)'
<1>1. s \in Provider \cup Sub
  OBVIOUS
<1>2. /\ pc[s] = "snapshot" /\ pc'[s] \in {"announce", "plain", "failed"}
      /\ pc'[s] = "announce" => children'[s] = snapshot'[s]
      /\ UNCHANGED <<listeners, prev, watch, notifying>>
  BY <1>1 DEF Snapshot, Goto, TypeOK
<1>3. Blank(s)'
  BY <1>2 DEF Loop, Early, Blank, notifying
<1>4. WillAgree(s)'
  <2>1. urls'[s] = {} /\ prev'[s] = {} /\ queue'[s] = <<>>
    BY <1>3 DEF Blank
  <2>2. Len(queue'[s]) <= 2 /\ DOMAIN queue'[s] = {}
    BY <2>1
  <2>3. After(queue[s], urls[s])' = {}
    BY <2>1 DEF After
  <2> QED
    BY <1>2, <2>1, <2>2, <2>3 DEF WillAgree
<1> QED
  BY <1>2, <1>4 DEF Loop, Early

LEMMA WatchLoop ==
  ASSUME TypeOK, NEW s \in Sub, Quiet(s), Loop(s), Watch(s) \/ Fetch(s) \/ Rewatch(s)
  PROVE  Loop(s)'
<1>1. s \in Provider \cup Sub
  OBVIOUS
<1>2. /\ pc[s] \in {"watch", "wait", "rewatch"}
      /\ pc'[s] \in {"wait", "gone", "rewatch", "announce"}
      /\ pc'[s] = "announce" => watch'[s] # "none"
      /\ UNCHANGED <<listeners, prev, notifying, snapshot>>
  BY <1>1 DEF Watch, Fetch, Rewatch, Goto, TypeOK, history
<1>3. WillAgree(s) => WillAgree(s)'
  <2> SUFFICES ASSUME WillAgree(s) PROVE WillAgree(s)'
    OBVIOUS
  <2>1. queue[s] = <<>>
    BY <1>2 DEF WillAgree
  <2>2. UNCHANGED <<queue, urls, prev, snapshot>>
    BY <1>2 DEF notifying
  <2>3. After(queue[s], urls[s])' = After(queue[s], urls[s])
    BY <2>2
  <2> QED
    BY <1>2, <2>1, <2>2, <2>3 DEF WillAgree
<1> QED
  BY <1>2, <1>3 DEF Loop, Early

\* An announcement to s alone leaves the list in agreement with what s announces.
LEMMA AnnouncementAgrees ==
  ASSUME NEW s \in Sub, listeners = <<s>>, prev[s] \subseteq urls[s],
         urls[s] \subseteq prev[s] \cup snapshot[s]
  PROVE  /\ Len(Difference(s)) <= 2
         /\ \A i \in DOMAIN Difference(s) : Difference(s)[i].to = s
         /\ children[s] \subseteq After(Difference(s), urls[s])
         /\ After(Difference(s), urls[s]) \subseteq children[s] \cup snapshot[s]
<1> DEFINE added == children[s] \ prev[s]
           gone == prev[s] \ children[s]
           add == [to |-> s, kind |-> "add", urls |-> added]
           remove == [to |-> s, kind |-> "remove", urls |-> gone]
<1>0. Difference(s) = NotesUnlessEmpty("add", added) \o NotesUnlessEmpty("remove", gone)
  BY DEF Difference
<1>1. NotesUnlessEmpty("add", added) = IF added = {} THEN <<>> ELSE <<add>>
  BY OneListener DEF NotesUnlessEmpty
<1>2. NotesUnlessEmpty("remove", gone) = IF gone = {} THEN <<>> ELSE <<remove>>
  BY OneListener DEF NotesUnlessEmpty
<1>3. add.to = s /\ remove.to = s
  OBVIOUS
<1>4. Apply(add, urls[s]) = urls[s] \cup added
  BY DEF Apply
<1>5. \A l : Apply(remove, l) = l \ gone
  BY DEF Apply
<1> HIDE DEF add, remove
<1>6. CASE added = {} /\ gone = {}
  <2>1. Difference(s) = <<>>
    BY <1>0, <1>1, <1>2, <1>6, Without
  <2>2. After(Difference(s), urls[s]) = urls[s]
    BY <2>1 DEF After
  <2>3. Len(Difference(s)) <= 2 /\ DOMAIN Difference(s) = {}
    BY ONLY <2>1
  <2> QED
    BY <1>6, <2>2, <2>3
<1>7. CASE added # {} /\ gone = {}
  <2>1. Difference(s) = <<add>>
    BY <1>0, <1>1, <1>2, <1>7, Without
  <2>2. /\ Len(Difference(s)) = 1 /\ Difference(s)[1] = add
        /\ Difference(s) # <<>> /\ DOMAIN Difference(s) = {1}
    BY ONLY <2>1, Single
  <2>3. After(Difference(s), urls[s]) = urls[s] \cup added
    BY <1>4, <2>2 DEF After
  <2>4. Len(Difference(s)) <= 2 /\ \A i \in DOMAIN Difference(s) : Difference(s)[i].to = s
    BY ONLY <1>3, <2>2
  <2>5. /\ children[s] \subseteq urls[s] \cup added
        /\ urls[s] \cup added \subseteq children[s] \cup snapshot[s]
    BY <1>7
  <2> QED
    BY <2>3, <2>4, <2>5
<1>8. CASE added = {} /\ gone # {}
  <2>1. Difference(s) = <<remove>>
    BY <1>0, <1>1, <1>2, <1>8, Without
  <2>2. /\ Len(Difference(s)) = 1 /\ Difference(s)[1] = remove
        /\ Difference(s) # <<>> /\ DOMAIN Difference(s) = {1}
    BY ONLY <2>1, Single
  <2>3. After(Difference(s), urls[s]) = urls[s] \ gone
    BY <1>5, <2>2 DEF After
  <2>4. Len(Difference(s)) <= 2 /\ \A i \in DOMAIN Difference(s) : Difference(s)[i].to = s
    BY ONLY <1>3, <2>2
  <2>5. /\ children[s] \subseteq urls[s] \ gone
        /\ urls[s] \ gone \subseteq children[s] \cup snapshot[s]
    BY <1>8
  <2> QED
    BY <2>3, <2>4, <2>5
<1>9. CASE added # {} /\ gone # {}
  <2>1. Difference(s) = <<add>> \o <<remove>>
    BY <1>0, <1>1, <1>2, <1>9
  <2>2. /\ Len(Difference(s)) = 2 /\ Difference(s)[1] = add /\ Difference(s)[2] = remove
        /\ Difference(s) # <<>> /\ DOMAIN Difference(s) = {1, 2}
    BY ONLY <2>1, Pair
  <2>3. After(Difference(s), urls[s]) = (urls[s] \cup added) \ gone
    BY <1>4, <1>5, <2>2 DEF After
  <2>4. Len(Difference(s)) <= 2 /\ \A i \in DOMAIN Difference(s) : Difference(s)[i].to = s
    BY ONLY <1>3, <2>2
  <2>5. /\ children[s] \subseteq (urls[s] \cup added) \ gone
        /\ (urls[s] \cup added) \ gone \subseteq children[s] \cup snapshot[s]
    OBVIOUS
  <2> QED
    BY <2>3, <2>4, <2>5
<1> QED
  BY <1>6, <1>7, <1>8, <1>9

LEMMA AnnounceLoop ==
  ASSUME TypeOK, NEW s \in Sub, Quiet(s), Loop(s), Announce(s)
  PROVE  Loop(s)'
<1> DEFINE first == Notes("add", children[s])
           notes == IF watch[s] = "none" THEN first ELSE Difference(s)
<1>0. s \in Provider \cup Sub
  OBVIOUS
<1>1. /\ pc[s] = "announce"
      /\ pc'[s] = IF notes = <<>> THEN Stage(s) ELSE "read"
      /\ queue'[s] = notes
      /\ prev'[s] = IF watch[s] = "none" THEN prev[s] ELSE children[s]
      /\ UNCHANGED <<listeners, watch, urls, snapshot>>
  BY <1>0 DEF Announce, Goto, TypeOK, history
<1>2. pc'[s] \notin Early \cup {"announce", "refresh"} /\ (notes # <<>> => pc'[s] = "read")
      /\ (pc'[s] \in {"read", "refresh"} => notes # <<>>)
  BY <1>1, StageIs DEF Early
<1>3. ASSUME listeners = <<s>> PROVE WillAgree(s)'
  <2>1. /\ WillAgree(s) /\ queue[s] = <<>>
        /\ prev[s] \subseteq urls[s] /\ urls[s] \subseteq prev[s] \cup snapshot[s]
        /\ watch[s] = "none" => children[s] \subseteq snapshot[s]
    BY <1>1, <1>3 DEF Loop, Early, WillAgree, After
  <2>2. /\ prev[s] \in SUBSET Provider /\ children[s] \in SUBSET Provider
        /\ urls[s] \in SUBSET Provider /\ snapshot[s] \in SUBSET Provider
    BY DEF TypeOK
  <2>3. /\ Len(notes) <= 2
        /\ \A i \in DOMAIN notes : notes[i].to = s
        /\ prev'[s] \subseteq After(notes, urls[s])
        /\ After(notes, urls[s]) \subseteq prev'[s] \cup snapshot[s]
    <3>1. CASE watch[s] = "none"
      <4> DEFINE note == [to |-> s, kind |-> "add", urls |-> children[s]]
      <4>1. notes = <<note>>
        BY <1>3, <3>1, OneListener
      <4>2. note.to = s /\ Apply(note, urls[s]) = urls[s] \cup children[s]
        BY DEF Apply
      <4> HIDE DEF note, notes
      <4>3. Len(notes) = 1 /\ notes[1] = note /\ notes # <<>> /\ DOMAIN notes = {1}
        BY <4>1, Single
      <4>4. After(notes, urls[s]) = urls[s] \cup children[s]
        BY <4>2, <4>3 DEF After
      <4>5. prev'[s] = prev[s]
        BY <1>1, <3>1
      <4> QED
        BY <2>1, <3>1, <4>2, <4>3, <4>4, <4>5
    <3>2. CASE watch[s] # "none"
      <4>1. notes = Difference(s) /\ prev'[s] = children[s]
        BY <1>1, <3>2
      <4> HIDE DEF notes
      <4> QED
        BY <1>3, <2>1, <4>1, AnnouncementAgrees
    <3> QED
      BY <3>1, <3>2
  <2> HIDE DEF notes
  <2>4. After(queue[s], urls[s])' = After(notes, urls[s])
    BY <1>1
  <2> QED
    BY <1>1, <1>2, <2>3, <2>4 DEF WillAgree
<1> HIDE DEF notes
<1> QED
  BY <1>1, <1>2, <1>3 DEF Loop, Early

\* A call of notify() takes the list a step nearer to what they will leave.
LEMMA AfterHead ==
  ASSUME NEW notes \in Seq(Note), notes # <<>>, Len(notes) <= 2, NEW list
  PROVE  After(notes, list) = After(Tail(notes), Apply(Head(notes), list))
<1>1. Len(notes) = 1 \/ Len(notes) = 2
  BY OneOrTwo
<1>2. Head(notes) = notes[1]
  OBVIOUS
<1>3. CASE Len(notes) = 1
  <2>1. Tail(notes) = <<>>
    BY <1>3, TailIs
  <2> QED
    BY <1>2, <1>3, <2>1 DEF After
<1>4. CASE Len(notes) = 2
  <2>0. Len(notes) # 1
    BY ONLY <1>4
  <2>1. Tail(notes) # <<>>
    BY ONLY <2>0, TailIs, notes \in Seq(Note), notes # <<>>
  <2>2. Len(Tail(notes)) = 1 /\ Tail(notes)[1] = notes[2]
    BY <1>4, TailOfTwo
  <2> QED
    BY <1>2, <1>4, <2>1, <2>2 DEF After
<1> QED
  BY <1>1, <1>3, <1>4

LEMMA NotifyLoop ==
  ASSUME TypeOK, NEW s \in Sub, Quiet(s), Loop(s), ReadUrls(s) \/ RefreshInvokers(s)
  PROVE  Loop(s)'
<1>0. s \in Provider \cup Sub
  OBVIOUS
<1>1. queue[s] \in Seq(Note) /\ queue[s] # <<>> /\ pc[s] \in {"read", "refresh"}
  BY DEF ReadUrls, RefreshInvokers, Goto, TypeOK
<1>2. WillAgree(s) => Head(queue[s]).to = s
  <2>1. 1 \in DOMAIN queue[s] /\ Head(queue[s]) = queue[s][1]
    BY <1>1
  <2> QED
    BY <2>1 DEF WillAgree
<1>3. CASE ReadUrls(s)
  <2>1. /\ pc'[s] = "refresh" /\ computed'[s] = Applied(Head(queue[s]))
        /\ UNCHANGED <<listeners, watch, prev, children, queue, urls, snapshot>>
    BY <1>0, <1>3 DEF ReadUrls, Goto, TypeOK, loop, history
  <2>2. WillAgree(s) => WillAgree(s)'
    <3> SUFFICES ASSUME WillAgree(s) PROVE WillAgree(s)'
      OBVIOUS
    <3>1. computed'[s] = Apply(Head(queue[s]), urls[s])'
      BY <1>2, <2>1 DEF Applied, Apply
    <3>2. After(queue[s], urls[s])' = After(queue[s], urls[s])
      BY <2>1
    <3> QED
      BY <2>1, <3>1, <3>2 DEF WillAgree
  <2> QED
    BY <1>1, <2>1, <2>2 DEF Loop, Early
<1>4. CASE RefreshInvokers(s)
  <2>1. /\ pc[s] = "refresh" /\ pc'[s] = IF Len(queue[s]) = 1 THEN Stage(s) ELSE "read"
        /\ urls' = [urls EXCEPT ![Head(queue[s]).to] = computed[s]]
        /\ queue'[s] = Tail(queue[s])
        /\ UNCHANGED <<listeners, watch, prev, children, snapshot>>
    BY <1>0, <1>4 DEF RefreshInvokers, Goto, TypeOK, loop
  <2>2. pc'[s] \notin Early \cup {"refresh", "announce"} /\ (Len(queue[s]) # 1 <=> pc'[s] = "read")
    BY <2>1, StageIs DEF Early
  <2>3. WillAgree(s) => WillAgree(s)'
    <3> SUFFICES ASSUME WillAgree(s) PROVE WillAgree(s)'
      OBVIOUS
    <3>1. urls'[s] = Apply(Head(queue[s]), urls[s])
      BY <1>2, <2>1 DEF WillAgree, TypeOK
    <3>2. After(queue[s], urls[s])' = After(queue[s], urls[s])
      <4>1. After(queue[s], urls[s])' = After(Tail(queue[s]), Apply(Head(queue[s]), urls[s]))
        BY <2>1, <3>1
      <4> QED
        BY <1>1, <4>1, AfterHead DEF WillAgree
    <3>3. pc'[s] \notin {"read", "refresh"} => queue'[s] = <<>>
      BY <1>1, <2>1, <2>2, TailIs
    <3>4. Len(queue'[s]) <= 2 /\ \A i \in DOMAIN queue'[s] : queue'[s][i].to = s
      <4>1. \A i \in DOMAIN Tail(queue[s]) : i + 1 \in DOMAIN queue[s]
                                            /\ Tail(queue[s])[i] = queue[s][i + 1]
        BY <1>1
      <4>2. Len(Tail(queue[s])) = Len(queue[s]) - 1 /\ Len(queue[s]) \in Nat
        BY <1>1
      <4> QED
        BY <2>1, <4>1, <4>2 DEF WillAgree
    <3> QED
      BY <2>1, <2>2, <3>2, <3>3, <3>4 DEF WillAgree
  <2> QED
    BY <1>1, <2>1, <2>2, <2>3 DEF Loop, Early
<1> QED
  BY <1>3, <1>4

-----------------------------------------------------------------------------

LEMMA LoopInit == Init => LoopInv
<1> SUFFICES ASSUME Init, NEW s \in Sub PROVE Loop(s)
  BY DEF LoopInv
<1>1. pc[s] \in {"absent", "out"} /\ listeners = <<>> /\ Blank(s)
  BY DEF Init, Blank
<1> QED
  BY <1>1 DEF Loop, Early

LEMMA LoopStep == TypeOK /\ LoopInv /\ [Next]_vars => LoopInv'
<1> SUFFICES ASSUME TypeOK, LoopInv, [Next]_vars, NEW s \in Sub, Quiet(s)' PROVE Loop(s)'
  BY DEF LoopInv, Loop
<1>1. /\ Loop(s) /\ Quiet(s)
      /\ \A other \in Sub \ {s} : ~Listen(other) /\ ~SubStep(other)
  BY QuietSteps DEF LoopInv
<1>2. CASE UNCHANGED vars
  BY <1>1, <1>2, SameView DEF vars, loop, notifying, history
<1>3. CASE Unsubscribe
  BY <1>1, <1>3, SameView DEF Unsubscribe, loop, notifying, history
<1>4. ASSUME NEW p \in Provider,
             Register(p) \/ EnsureExists(p) \/ EnsureCreate(p) \/ Join(p) \/ Leave(p)
      PROVE  Loop(s)'
  BY <1>1, <1>4, ProviderLoop
<1>5. CASE Listen(s) \/ SubStep(s)
  BY <1>1, <1>5, EarlySteps, SnapshotLoop, WatchLoop, AnnounceLoop, NotifyLoop DEF SubStep
<1> QED
  BY <1>1, <1>2, <1>3, <1>4, <1>5 DEF Next

\* For any providers and subscribers, whatever is missed or fails: the directory of a
\* lone subscriber holds what its task remembers, and besides that only what was in
\* its snapshot.
THEOREM DirectoryAgrees == Spec => []LoopAgrees
<1>1. LoopInv => LoopAgrees
  <2> SUFFICES ASSUME LoopInv, NEW s \in Sub, Alone(s), pc[s] = "wait"
               PROVE  prev[s] \subseteq urls[s] /\ urls[s] \subseteq prev[s] \cup snapshot[s]
    BY DEF LoopAgrees
  <2>1. Loop(s) /\ Quiet(s)
    BY DEF LoopInv, Alone, Quiet
  <2>2. listeners = <<s>>
    BY <2>1 DEF Loop, Alone, Listening
  <2>3. WillAgree(s) /\ queue[s] = <<>>
    BY <2>1, <2>2 DEF Loop, Early, WillAgree
  <2> QED
    BY <2>3 DEF WillAgree, After
<1> QED
  BY <1>1, LoopInit, LoopStep, NamingTypeCorrect, PTL DEF Spec

-----------------------------------------------------------------------------
(* What all the tasks together leave in a directory.                       *)

\* The calls of notify() that s has still to make.
Members(notes) == {notes[i] : i \in DOMAIN notes}
Pending(s) == Members(queue[s])
ToAdd(s, d, p) == \E note \in Pending(s) : note.kind = "add" /\ note.to = d /\ p \in note.urls
ToRemove(s, d, p) ==
  \E note \in Pending(s) : note.kind = "remove" /\ note.to = d /\ p \in note.urls

\* Where a task is that has fetched the children again since its snapshot, one of later,
\* and where one that has not.
Phase(later, s) ==
  /\ s \in later =>
       /\ pc[s] \in {"rewatch", "announce", "read", "refresh", "wait", "gone"}
       /\ pc[s] \in {"announce", "read", "refresh"} => watch[s] # "none"
       /\ pc[s] = "rewatch" => watch[s] = "none"
  /\ s \notin later =>
       /\ prev[s] = {} /\ pc[s] # "rewatch"
       /\ pc[s] \notin {"wait", "gone"} => watch[s] = "none"
       /\ pc[s] = "announce" => children[s] = snapshot[s]
  /\ pc[s] \notin {"read", "refresh"} => queue[s] = <<>>
  /\ pc[s] \in Early => snapshot[s] = {}

\* What a task has fetched last is what there is, until its watch has fired.
Known(later, s) == s \notin missed =>
  /\ s \notin later /\ pc[s] \in {"announce", "read", "refresh", "watch"} => snapshot[s] = nodes
  /\ s \notin later /\ pc[s] = "wait" /\ watch[s] = "set" => snapshot[s] = nodes
  /\ s \in later /\ pc[s] = "rewatch" => children[s] = nodes
  /\ s \in later /\ pc[s] = "announce" /\ watch[s] = "set" => children[s] = nodes
  /\ s \in later /\ pc[s] \in {"read", "refresh", "wait"} /\ watch[s] = "set" => prev[s] = nodes

\* What a task still has to tell is what it remembers as told.
Telling(later, s) == \A note \in Pending(s) :
  /\ note.kind = "add" => note.urls \subseteq prev[s] \cup snapshot[s]
  /\ note.kind = "remove" => s \in later /\ note.urls \cap prev[s] = {}
  /\ pc[note.to] \notin {"absent", "out"}

\* A list that was read is still the list unless it has been overwritten.
Computing(s) ==
  pc[s] = "refresh" /\ Head(queue[s]).to \notin raced => computed[s] = Applied(Head(queue[s]))

\* What the task of d has told its own directory, or has still to tell.
Told(later, d) ==
  IF d \in later THEN prev[d]
  ELSE IF pc[d] \in {"read", "refresh", "watch", "wait"} THEN snapshot[d] ELSE {}

\* A provider is listed because a task remembers it or had it in its snapshot, unless its
\* removal is still to come; one that the own task has told of is not listed only because
\* another task no longer has it, unless it is still to be added.
Listed(later, d) ==
  /\ d \in Listening => pc[d] \notin {"absent", "out"}
  /\ pc[d] \in {"absent", "out"} => urls[d] = {}
  /\ d \in Listening \ raced =>
       /\ \A p \in urls[d] :
            p \in Leftover \/ \E s \in Sub : p \in prev[s] \/ ToRemove(s, d, p)
       /\ \A p \in Told(later, d) \ urls[d] :
            \E s \in Sub : (s \in later /\ p \notin prev[s]) \/ ToAdd(s, d, p)

Follower(later, s) ==
  Phase(later, s) /\ Known(later, s) /\ Telling(later, s) /\ Computing(s) /\ Listed(later, s)

FollowInv == \E later \in SUBSET Sub : \A s \in Sub : Follower(later, s)

Followers(later) == \A s \in Sub : Follower(later, s)

-----------------------------------------------------------------------------
(* Steps that tell nobody anything.                                        *)

LEMMA EmptyMembers == Members(<<>>) = {}
BY DEF Members

LEMMA TailMembers ==
  ASSUME NEW notes \in Seq(Note), notes # <<>>
  PROVE  Head(notes) \in Note /\ Members(notes) = {Head(notes)} \cup Members(Tail(notes))
<1>1. /\ Len(notes) \in Nat /\ DOMAIN notes = 1 .. Len(notes) /\ 1 \in DOMAIN notes
      /\ Head(notes) = notes[1] /\ Head(notes) \in Note
      /\ DOMAIN Tail(notes) = 1 .. Len(notes) - 1
      /\ \A i \in 1 .. Len(notes) - 1 : Tail(notes)[i] = notes[i + 1]
  OBVIOUS
<1>2. ASSUME NEW note \in Members(notes), note # Head(notes) PROVE note \in Members(Tail(notes))
  <2>1. PICK i \in 1 .. Len(notes) : note = notes[i]
    BY <1>1 DEF Members
  <2>2. i - 1 \in 1 .. Len(notes) - 1 /\ i - 1 + 1 = i
    BY <1>1, <1>2, <2>1
  <2>3. Tail(notes)[i - 1] = notes[i]
    BY <1>1, <2>2
  <2> QED
    BY <1>1, <2>1, <2>2, <2>3 DEF Members
<1>3. ASSUME NEW note \in Members(Tail(notes)) PROVE note \in Members(notes)
  <2>1. PICK i \in 1 .. Len(notes) - 1 : note = Tail(notes)[i]
    BY <1>1 DEF Members
  <2>2. i + 1 \in DOMAIN notes /\ Tail(notes)[i] = notes[i + 1]
    BY <1>1
  <2> QED
    BY <2>1, <2>2 DEF Members
<1>4. Head(notes) \in Members(notes)
  BY <1>1 DEF Members
<1> QED
  BY <1>1, <1>2, <1>3, <1>4

LEMMA PcMoves ==
  ASSUME TypeOK, NEW a \in Provider \cup Sub, NEW from, NEW to, Goto(a, from, to)
  PROVE  pc[a] = from /\ pc'[a] = to /\ \A b \in Provider \cup Sub : b # a => pc'[b] = pc[b]
BY DEF Goto, TypeOK

LEMMA PhaseKept ==
  ASSUME NEW later, NEW more, NEW t \in Sub, Phase(later, t), Known(later, t),
         pc'[t] = pc[t], watch'[t] = watch[t], queue'[t] = queue[t], prev'[t] = prev[t],
         children'[t] = children[t], snapshot'[t] = snapshot[t], nodes' = nodes,
         t \in missed' <=> t \in missed, t \in more <=> t \in later
  PROVE  Phase(more, t)' /\ Known(more, t)'
<1>1. Phase(more, t)'
  BY DEF Phase
<1>2. Known(more, t)'
  BY DEF Known
<1> QED
  BY <1>1, <1>2

LEMMA TellingKept ==
  ASSUME TypeOK, [Next]_vars, NEW later, NEW more, later \subseteq more, NEW t \in Sub,
         Telling(later, t), queue'[t] = queue[t], prev'[t] = prev[t],
         snapshot[t] \subseteq snapshot'[t]
  PROVE  Telling(more, t)'
<1>1. Pending(t)' = Pending(t)
  BY DEF Pending
<1>2. ASSUME NEW note \in Pending(t) PROVE note.to \in Sub
  <2>1. queue[t] \in Seq(Note)
    BY DEF TypeOK
  <2>2. note \in Note
    BY <2>1 DEF Pending, Members
  <2> QED
    BY <2>2 DEF Note
<1>3. ASSUME NEW note \in Pending(t)
      PROVE  /\ note.kind = "add" => note.urls \subseteq prev'[t] \cup snapshot'[t]
             /\ note.kind = "remove" => t \in more /\ note.urls \cap prev'[t] = {}
             /\ pc'[note.to] \notin {"absent", "out"}
  <2>1. /\ note.kind = "add" => note.urls \subseteq prev[t] \cup snapshot[t]
        /\ note.kind = "remove" => t \in later /\ note.urls \cap prev[t] = {}
        /\ pc[note.to] \notin {"absent", "out"}
    BY DEF Telling
  <2>2. pc'[note.to] \notin {"absent", "out"}
    BY <1>2, <2>1, Forward
  <2> QED
    BY <2>1, <2>2
<1> QED
  BY <1>1, <1>3 DEF Telling

LEMMA ComputingKept ==
  ASSUME NEW t \in Sub, Computing(t), pc'[t] = "refresh" => pc[t] = "refresh",
         queue'[t] = queue[t], computed'[t] = computed[t], urls' = urls, raced' = raced
  PROVE  Computing(t)'
BY DEF Computing, Applied

\* What is listed does not change, and nobody is told more than was told before.
LEMMA ListedKept ==
  ASSUME TypeOK, [Next]_vars, NEW later, NEW more, later \subseteq more, NEW d \in Sub,
         Listed(later, d), UNCHANGED <<prev, queue, urls, raced>>,
         \A t \in Sub : snapshot[t] \subseteq snapshot'[t],
         d \in Listening' => \/ d \in Listening
                             \/ urls[d] = {} /\ pc'[d] \notin {"absent", "out"},
         Told(more, d)' \subseteq Told(later, d) \cup urls[d],
         d \notin Listening => Told(more, d)' = {}
  PROVE  Listed(more, d)'
<1>1. \A s \in Sub : \A p : /\ ToAdd(s, d, p)' <=> ToAdd(s, d, p)
                            /\ ToRemove(s, d, p)' <=> ToRemove(s, d, p)
  BY DEF ToAdd, ToRemove, Pending
<1>2. \A p \in Leftover : p \in Leftover'
  BY DEF Leftover
<1>3. pc'[d] \in {"absent", "out"} => pc[d] \in {"absent", "out"}
  BY Forward
<1>4. /\ d \in Listening' => pc'[d] \notin {"absent", "out"}
      /\ pc'[d] \in {"absent", "out"} => urls'[d] = {}
  BY <1>3 DEF Listed
<1>5. ASSUME d \in Listening' \ raced', d \notin Listening
      PROVE  urls'[d] = {} /\ Told(more, d)' = {}
  BY <1>5
<1>6. ASSUME d \in Listening' \ raced', d \in Listening, NEW p \in urls'[d]
      PROVE  p \in Leftover' \/ \E s \in Sub : p \in prev'[s] \/ ToRemove(s, d, p)'
  <2>1. p \in Leftover \/ \E s \in Sub : p \in prev[s] \/ ToRemove(s, d, p)
    BY <1>6 DEF Listed
  <2> QED
    BY <1>1, <1>2, <2>1
<1>7. ASSUME d \in Listening' \ raced', d \in Listening, NEW p \in Told(more, d)' \ urls'[d]
      PROVE  \E s \in Sub : (s \in more /\ p \notin prev'[s]) \/ ToAdd(s, d, p)'
  <2>1. \E s \in Sub : (s \in later /\ p \notin prev[s]) \/ ToAdd(s, d, p)
    BY <1>7 DEF Listed
  <2> QED
    BY <1>1, <2>1
<1> QED
  BY <1>4, <1>5, <1>6, <1>7, Zenon DEF Listed

\* A step in which nobody is told anything, and at most one of who gets on.
Silent(later, more, who) ==
  /\ more \in SUBSET Sub /\ later \subseteq more /\ more \subseteq later \cup who
  /\ UNCHANGED <<prev, queue, computed, urls, raced>>
  /\ listeners' \in {listeners, <<>>}
  /\ \A t \in Sub : snapshot[t] \subseteq snapshot'[t]
  /\ \A t \in Sub \ who : pc'[t] = pc[t] /\ snapshot'[t] = snapshot[t]

LEMMA SilentStep ==
  ASSUME TypeOK, [Next]_vars, NEW later, NEW more, NEW who, Followers(later),
         Silent(later, more, who),
         \A t \in Sub : Phase(more, t)' /\ Known(more, t)',
         \A s \in who : pc'[s] # "refresh" /\ Told(more, s)' \subseteq Told(later, s)
  PROVE  Followers(more)'
<1> SUFFICES ASSUME NEW t \in Sub PROVE Follower(more, t)'
  BY DEF Followers
<1>1. /\ Phase(later, t) /\ Known(later, t) /\ Telling(later, t) /\ Computing(t)
      /\ Listed(later, t)
  BY DEF Followers, Follower
<1>2. Telling(more, t)'
  BY <1>1, TellingKept DEF Silent
<1>3. pc'[t] = "refresh" => pc[t] = "refresh"
  BY DEF Silent
<1>4. Computing(t)'
  BY <1>1, <1>3, ComputingKept DEF Silent
<1>5. Told(more, t)' \subseteq Told(later, t)
  <2>1. CASE t \in who
    BY <2>1
  <2>2. CASE t \notin who
    BY <2>2 DEF Silent, Told
  <2> QED
    BY <2>1, <2>2
<1>6. t \in Listening' => t \in Listening
  BY DEF Silent, Listening
<1>7. Listed(more, t)'
  <2>1. CASE t \in Listening
    <3>1. Told(more, t)' \subseteq Told(later, t) \cup urls[t]
      BY <1>5
    <3> QED
      BY <1>1, <1>6, <2>1, <3>1, ListedKept DEF Silent
  <2>2. CASE t \notin Listening
    <3>1. pc'[t] \in {"absent", "out"} => pc[t] \in {"absent", "out"}
      BY Forward
    <3> QED
      BY <1>1, <1>6, <2>2, <3>1 DEF Listed, Silent
  <2> QED
    BY <2>1, <2>2
<1> QED
  BY <1>1, <1>2, <1>4, <1>7 DEF Follower

\* A step in which no task gets on.
LEMMA IdleStep ==
  ASSUME TypeOK, [Next]_vars, NEW later \in SUBSET Sub, Followers(later),
         UNCHANGED <<nodes, loop, notifying, history>>, listeners' \in {listeners, <<>>},
         \A t \in Sub : pc'[t] = pc[t]
  PROVE  Followers(later)'
<1>1. Silent(later, later, {})
  BY DEF Silent, loop, notifying, history
<1>2. ASSUME NEW t \in Sub PROVE Phase(later, t)' /\ Known(later, t)'
  <2>1. Phase(later, t) /\ Known(later, t)
    BY DEF Followers, Follower
  <2> QED
    BY <2>1, PhaseKept DEF loop, notifying, history
<1> QED
  BY <1>1, <1>2, SilentStep

LEMMA ProviderStep ==
  ASSUME TypeOK, [Next]_vars, NEW later \in SUBSET Sub, Followers(later), NEW p \in Provider,
         Register(p) \/ EnsureExists(p) \/ EnsureCreate(p) \/ Join(p) \/ Leave(p)
  PROVE  Followers(later)'
<1>1. p \in Provider \cup Sub /\ p \notin Sub
  BY Disjoint
<1>2. \A t \in Sub : pc'[t] = pc[t]
  BY <1>1, PcMoves DEF Register, EnsureExists, EnsureCreate, Join, Leave
<1>3. CASE Register(p) \/ EnsureExists(p) \/ EnsureCreate(p)
  <2>1. UNCHANGED <<nodes, loop, notifying, history>> /\ listeners' = listeners
    BY <1>3 DEF Register, EnsureExists, EnsureCreate, zk
  <2> QED
    BY <1>2, <2>1, IdleStep
<1>4. CASE Join(p) \/ Leave(p)
  <2>1. PICK new : ChildrenChange(new)
    BY <1>4 DEF Join, Leave
  <2>2. /\ UNCHANGED <<listeners, children, prev, queue, computed, urls, snapshot, raced>>
        /\ \A t \in Sub : watch'[t] = IF watch[t] = "set" THEN "fired" ELSE watch[t]
        /\ \A t \in Sub : t \notin missed' => t \notin missed /\ ~Exposed(t)
    BY <2>1 DEF ChildrenChange, notifying
  <2>3. Silent(later, later, {})
    BY <1>2, <2>2 DEF Silent
  <2>4. ASSUME NEW t \in Sub PROVE Phase(later, t)' /\ Known(later, t)'
    <3>1. Phase(later, t) /\ Known(later, t)
      BY DEF Followers, Follower
    <3>2. watch'[t] # "set" /\ (watch'[t] = "none" <=> watch[t] = "none")
      BY <2>2
    <3>3. Phase(later, t)'
      BY <1>2, <2>2, <3>1, <3>2 DEF Phase
    <3>4. ASSUME t \notin missed' PROVE Known(later, t)'
      <4>1. watch[t] = "none" => pc[t] \notin {"announce", "read", "refresh", "watch", "rewatch"}
        BY <2>2, <3>4 DEF Exposed
      <4>2. t \in later /\ pc[t] = "rewatch" => watch[t] = "none"
        BY <3>1 DEF Phase
      <4> QED
        BY <1>2, <3>1, <3>2, <3>3, <4>1, <4>2 DEF Known, Phase
    <3>5. Known(later, t)'
      BY <3>4 DEF Known
    <3> QED
      BY <3>3, <3>5
  <2> QED
    BY <2>3, <2>4, SilentStep
<1> QED
  BY <1>3, <1>4

\* Of a step of s, what is left as it was for every other subscriber.
LEMMA OtherTasks ==
  ASSUME TypeOK, NEW s \in Sub, SubStep(s) \/ Listen(s), NEW t \in Sub, t # s
  PROVE  /\ pc'[t] = pc[t] /\ watch'[t] = watch[t] /\ queue'[t] = queue[t]
         /\ prev'[t] = prev[t] /\ children'[t] = children[t] /\ snapshot'[t] = snapshot[t]
         /\ computed'[t] = computed[t] /\ nodes' = nodes
         /\ t \in missed' <=> t \in missed
<1>1. s \in Provider \cup Sub /\ t \in Provider \cup Sub
  OBVIOUS
<1>2. CASE Listen(s) \/ EnsureExists(s) \/ EnsureCreate(s)
  BY <1>1, <1>2, PcMoves DEF Listen, EnsureExists, EnsureCreate, zk, loop, notifying, history
<1>3. CASE Snapshot(s)
  BY <1>1, <1>3, PcMoves DEF Snapshot, TypeOK, zk, notifying
<1>4. CASE Watch(s)
  BY <1>1, <1>4, PcMoves DEF Watch, TypeOK, zk, notifying, history
<1>5. CASE Fetch(s)
  BY <1>1, <1>5, PcMoves DEF Fetch, TypeOK, zk, notifying
<1>6. CASE Rewatch(s)
  BY <1>1, <1>6, PcMoves DEF Rewatch, TypeOK, zk, notifying, history
<1>7. CASE Announce(s)
  BY <1>1, <1>7, PcMoves DEF Announce, TypeOK, zk, history
<1>8. CASE ReadUrls(s)
  BY <1>1, <1>8, PcMoves DEF ReadUrls, TypeOK, zk, loop, history
<1>9. CASE RefreshInvokers(s)
  BY <1>1, <1>9, PcMoves DEF RefreshInvokers, TypeOK, zk, loop
<1> QED
  BY <1>2, <1>3, <1>4, <1>5, <1>6, <1>7, <1>8, <1>9 DEF SubStep

LEMMA OtherPhases ==
  ASSUME TypeOK, NEW s \in Sub, SubStep(s) \/ Listen(s), NEW later, NEW more,
         \A t \in Sub \ {s} : t \in more <=> t \in later, Followers(later),
         Phase(more, s)', Known(more, s)', NEW t \in Sub
  PROVE  Phase(more, t)' /\ Known(more, t)'
<1>1. Phase(later, t) /\ Known(later, t)
  BY DEF Followers, Follower
<1>2. CASE t # s
  BY <1>1, <1>2, OtherTasks, PhaseKept
<1> QED
  BY <1>2

\* A step of a task that tells nobody anything.
LEMMA OwnStep ==
  ASSUME TypeOK, [Next]_vars, NEW later \in SUBSET Sub, NEW more \in SUBSET Sub, NEW s \in Sub,
         Followers(later), SubStep(s), later \subseteq more, more \subseteq later \cup {s},
         UNCHANGED <<prev, queue, computed, urls, raced, listeners>>,
         snapshot[s] \subseteq snapshot'[s],
         Phase(more, s)', Known(more, s)',
         pc'[s] # "refresh", Told(more, s)' \subseteq Told(later, s)
  PROVE  Followers(more)'
<1>1. \A t \in Sub \ {s} : pc'[t] = pc[t] /\ snapshot'[t] = snapshot[t]
  BY OtherTasks
<1>2. Silent(later, more, {s})
  BY <1>1 DEF Silent
<1>3. \A t \in Sub : Phase(more, t)' /\ Known(more, t)'
  BY OtherPhases
<1> QED
  BY <1>2, <1>3, SilentStep

LEMMA EnsureStep ==
  ASSUME TypeOK, [Next]_vars, NEW later \in SUBSET Sub, Followers(later), NEW s \in Sub,
         EnsureExists(s) \/ EnsureCreate(s)
  PROVE  Followers(later)'
<1>1. s \in Provider \cup Sub /\ Ensured(s) = "snapshot" /\ Rejected(s) = "failed"
  BY Disjoint DEF Ensured, Rejected
<1>2. /\ pc[s] \in {"ensure", "create"}
      /\ pc'[s] \in {"create", "snapshot", "failed"}
  BY <1>1, PcMoves DEF EnsureExists, EnsureCreate
<1>3. UNCHANGED <<listeners, nodes, loop, notifying, history>>
  BY DEF EnsureExists, EnsureCreate, zk
<1>4. Phase(later, s) /\ Known(later, s)
  BY DEF Followers, Follower
<1>5. Phase(later, s)' /\ Known(later, s)'
  <2>1. Phase(later, s)'
    BY <1>2, <1>3, <1>4 DEF Phase, Early, loop, notifying, history
  <2>2. s \notin later
    BY <1>2, <1>4 DEF Phase, Early
  <2>3. Known(later, s)'
    BY <1>2, <2>2 DEF Known
  <2> QED
    BY <2>1, <2>3
<1>6. Told(later, s)' \subseteq Told(later, s)
  BY <1>2, <1>3 DEF Told, loop
<1> QED
  BY <1>2, <1>3, <1>5, <1>6, OwnStep DEF SubStep, loop, notifying, history

LEMMA ListenStep ==
  ASSUME TypeOK, [Next]_vars, NEW later \in SUBSET Sub, Followers(later), NEW s \in Sub, Listen(s)
  PROVE  Followers(later)'
<1>1. s \in Provider \cup Sub /\ pc[s] = "out" /\ pc'[s] = "ensure"
  BY PcMoves DEF Listen
<1>2. UNCHANGED <<nodes, loop, notifying, history>> /\ listeners' = Append(listeners, s)
  BY DEF Listen, zk
<1>3. \A t \in Sub : Phase(later, t) /\ Known(later, t) /\ Telling(later, t) /\ Computing(t)
                     /\ Listed(later, t)
  BY DEF Followers, Follower
<1>4. s \notin later /\ Phase(later, s)' /\ Known(later, s)'
  <2>1. s \notin later
    BY <1>1, <1>3 DEF Phase, Early
  <2>2. Phase(later, s)
    BY <1>3
  <2>3. Phase(later, s)'
    BY <1>1, <1>2, <2>1, <2>2 DEF Phase, Early, loop, notifying, history
  <2>4. Known(later, s)'
    BY <1>1, <2>1 DEF Known
  <2> QED
    BY <2>1, <2>3, <2>4
<1> SUFFICES ASSUME NEW t \in Sub PROVE Follower(later, t)'
  BY DEF Followers
<1>5. Phase(later, t)' /\ Known(later, t)'
  BY <1>4, OtherPhases
<1>6. Telling(later, t)'
  BY <1>2, <1>3, TellingKept DEF loop, notifying, history
<1>7. t # s => pc'[t] = pc[t]
  BY OtherTasks
<1>8. Computing(t)'
  <2>1. pc'[t] = "refresh" => pc[t] = "refresh"
    BY <1>1, <1>7
  <2> QED
    BY <1>2, <1>3, <2>1, ComputingKept DEF notifying, history
<1>9. Listed(later, t)'
  <2>1. Listening' = Listening \cup {s}
    <3>1. /\ listeners \in Seq(Sub) /\ DOMAIN listeners = 1 .. Len(listeners)
          /\ DOMAIN listeners' = 1 .. Len(listeners) + 1 /\ listeners'[Len(listeners) + 1] = s
          /\ \A i \in 1 .. Len(listeners) : listeners'[i] = listeners[i]
          /\ Len(listeners) \in Nat
      BY <1>2 DEF TypeOK
    <3> QED
      BY <3>1 DEF Listening
  <2>2. Told(later, t)' = IF t = s THEN {} ELSE Told(later, t)
    BY <1>1, <1>2, <1>4, <1>7 DEF Told, loop, history
  <2>3. urls[s] = {} /\ s \notin Listening
    BY <1>1, <1>3 DEF Listed
  <2>4. CASE t = s
    BY <1>1, <1>2, <1>3, <2>2, <2>3, <2>4, ListedKept DEF loop, notifying, history
  <2>5. CASE t # s /\ t \in Listening
    BY <1>1, <1>2, <1>3, <2>2, <2>5, ListedKept DEF loop, notifying, history
  <2>6. CASE t # s /\ t \notin Listening
    BY <1>2, <1>3, <1>7, <2>1, <2>6 DEF Listed, notifying
  <2> QED
    BY <2>4, <2>5, <2>6
<1> QED
  BY <1>5, <1>6, <1>8, <1>9 DEF Follower

LEMMA SnapshotStep ==
  ASSUME TypeOK, [Next]_vars, NEW later \in SUBSET Sub, Followers(later), NEW s \in Sub, Snapshot(s)
  PROVE  Followers(later)'
<1>1. Phase(later, s) /\ Known(later, s)
  BY DEF Followers, Follower
<1>2. s \in Provider \cup Sub /\ pc[s] = "snapshot" /\ pc'[s] \in {"announce", "plain", "failed"}
  BY PcMoves DEF Snapshot
<1>3. s \notin later /\ prev[s] = {} /\ watch[s] = "none" /\ queue[s] = <<>>
  BY <1>1, <1>2 DEF Phase, Early
<1>4. UNCHANGED <<nodes, listeners, prev, watch, queue, computed, urls, missed, raced>>
  BY DEF Snapshot, zk, notifying
<1>5. pc'[s] = "announce" => children'[s] = nodes /\ snapshot'[s] = nodes
  BY <1>2, PcMoves DEF Snapshot, TypeOK
<1>6. Phase(later, s)' /\ Known(later, s)'
  <2>1. Phase(later, s)'
    BY <1>2, <1>3, <1>4, <1>5 DEF Phase, Early
  <2>2. Known(later, s)'
    BY <1>2, <1>3, <1>4, <1>5 DEF Known
  <2> QED
    BY <2>1, <2>2
<1>7. Told(later, s)' \subseteq Told(later, s)
  BY <1>2, <1>3 DEF Told
<1>8. snapshot[s] \subseteq snapshot'[s]
  BY <1>1, <1>2 DEF Phase, Early
<1> QED
  BY <1>2, <1>4, <1>6, <1>7, <1>8, OwnStep DEF SubStep

LEMMA WatchStep ==
  ASSUME TypeOK, [Next]_vars, NEW later \in SUBSET Sub, Followers(later), NEW s \in Sub,
         Watch(s) \/ Rewatch(s)
  PROVE  Followers(later)'
<1>1. Phase(later, s) /\ Known(later, s)
  BY DEF Followers, Follower
<1>2. UNCHANGED <<nodes, listeners, prev, children, queue, computed, urls, snapshot, missed, raced>>
  BY DEF Watch, Rewatch, zk, notifying, history
<1>3. CASE Watch(s)
  <2>1. /\ pc[s] = "watch"
        /\ \/ pc'[s] = "wait" /\ watch'[s] = "set"
           \/ pc'[s] = "gone" /\ watch'[s] = "dead"
    BY <1>3, PcMoves DEF Watch, TypeOK
  <2>2. s \notin later
    BY <1>1, <2>1 DEF Phase, Early
  <2>3. Phase(later, s)'
    BY <1>1, <1>2, <2>1, <2>2 DEF Phase, Early
  <2>4. Known(later, s)'
    BY <1>1, <1>2, <2>1, <2>2 DEF Known
  <2>5. Told(later, s)' \subseteq Told(later, s)
    BY <1>2, <2>1, <2>2 DEF Told
  <2> QED
    BY <1>2, <1>3, <2>1, <2>3, <2>4, <2>5, OwnStep DEF SubStep
<1>4. CASE Rewatch(s)
  <2>1. pc[s] = "rewatch" /\ pc'[s] = "announce" /\ watch'[s] \in {"set", "dead"}
    BY <1>4, PcMoves DEF Rewatch, TypeOK
  <2>2. s \in later
    BY <1>1, <2>1 DEF Phase, Early
  <2>3. Phase(later, s)'
    BY <1>1, <1>2, <2>1, <2>2 DEF Phase, Early
  <2>4. Known(later, s)'
    BY <1>1, <1>2, <2>1, <2>2 DEF Known
  <2>5. Told(later, s)' \subseteq Told(later, s)
    BY <1>2, <2>2 DEF Told
  <2> QED
    BY <1>2, <1>4, <2>1, <2>3, <2>4, <2>5, OwnStep DEF SubStep
<1> QED
  BY <1>3, <1>4

\* From its first fetch after the snapshot on, a task is one of later.
LEMMA FetchStep ==
  ASSUME TypeOK, [Next]_vars, NEW later \in SUBSET Sub, Followers(later), NEW s \in Sub, Fetch(s)
  PROVE  Followers(later \cup {s})'
<1> DEFINE more == later \cup {s}
<1>1. Phase(later, s) /\ Known(later, s)
  BY DEF Followers, Follower
<1>2. /\ pc[s] = "wait" /\ pc'[s] = "rewatch" /\ watch'[s] = "none"
      /\ s \notin missed' => children'[s] = nodes
  BY PcMoves DEF Fetch, TypeOK
<1>3. UNCHANGED <<nodes, listeners, prev, queue, computed, urls, snapshot, raced>>
  BY DEF Fetch, zk, notifying
<1>4. s \in more /\ later \subseteq more /\ more \in SUBSET Sub
  OBVIOUS
<1> HIDE DEF more
<1>5. Phase(more, s)'
  BY <1>1, <1>2, <1>3, <1>4 DEF Phase, Early
<1>6. Known(more, s)'
  BY <1>2, <1>3, <1>4 DEF Known
<1>7. Told(more, s)' \subseteq Told(later, s)
  <2>1. s \notin later => prev[s] = {}
    BY <1>1 DEF Phase, Early
  <2> QED
    BY <1>3, <1>4, <2>1 DEF Told
<1>8. Followers(more)'
  BY <1>2, <1>3, <1>4, <1>5, <1>6, <1>7, OwnStep DEF SubStep, more
<1> QED
  BY <1>8 DEF more

-----------------------------------------------------------------------------
(* Steps that tell the listeners.                                          *)

\* The calls of notify() that tell every listener of a set.
Calls(kind, set) == {[to |-> d, kind |-> kind, urls |-> set] : d \in Listening}

LEMMA NotesMembers ==
  ASSUME TypeOK, NEW kind, NEW set
  PROVE  /\ Members(Notes(kind, set)) = Calls(kind, set)
         /\ Members(NotesUnlessEmpty(kind, set)) = IF set = {} THEN {} ELSE Calls(kind, set)
<1>1. DOMAIN Notes(kind, set) = DOMAIN listeners
      /\ \A i \in DOMAIN listeners :
           Notes(kind, set)[i] = [to |-> listeners[i], kind |-> kind, urls |-> set]
  BY DEF Notes
<1>2. Members(Notes(kind, set)) = Calls(kind, set)
  BY <1>1 DEF Members, Calls, Listening
<1> QED
  BY <1>2, EmptyMembers DEF NotesUnlessEmpty

LEMMA BothMembers ==
  ASSUME NEW left \in Seq(Note), NEW right \in Seq(Note)
  PROVE  Members(left \o right) = Members(left) \cup Members(right)
<1> DEFINE both == left \o right
<1>1. /\ Len(left) \in Nat /\ Len(right) \in Nat
      /\ DOMAIN left = 1 .. Len(left) /\ DOMAIN right = 1 .. Len(right)
      /\ DOMAIN both = 1 .. Len(left) + Len(right)
      /\ \A i \in 1 .. Len(left) : both[i] = left[i]
      /\ \A i \in 1 .. Len(right) : both[Len(left) + i] = right[i]
  OBVIOUS
<1> HIDE DEF both
<1>2. ASSUME NEW note \in Members(both) PROVE note \in Members(left) \cup Members(right)
  <2>1. PICK i \in 1 .. Len(left) + Len(right) : note = both[i]
    BY <1>1 DEF Members
  <2>2. CASE i <= Len(left)
    <3>1. i \in 1 .. Len(left)
      BY <1>1, <2>1, <2>2
    <3> QED
      BY <1>1, <2>1, <3>1 DEF Members
  <2>3. CASE i > Len(left)
    <3>1. i - Len(left) \in 1 .. Len(right) /\ Len(left) + (i - Len(left)) = i
      BY <1>1, <2>1, <2>3
    <3>2. both[i] = right[i - Len(left)]
      BY <1>1, <3>1
    <3> QED
      BY <1>1, <2>1, <3>1, <3>2 DEF Members
  <2> QED
    BY <1>1, <2>1, <2>2, <2>3
<1>3. ASSUME NEW note \in Members(left) PROVE note \in Members(both)
  <2>1. PICK i \in 1 .. Len(left) : note = left[i]
    BY <1>1 DEF Members
  <2>2. i \in 1 .. Len(left) + Len(right)
    BY <1>1
  <2> QED
    BY <1>1, <2>1, <2>2 DEF Members
<1>4. ASSUME NEW note \in Members(right) PROVE note \in Members(both)
  <2>1. PICK i \in 1 .. Len(right) : note = right[i]
    BY <1>1 DEF Members
  <2>2. Len(left) + i \in 1 .. Len(left) + Len(right)
    BY <1>1
  <2> QED
    BY <1>1, <2>1, <2>2 DEF Members
<1> QED
  BY <1>2, <1>3, <1>4 DEF both

LEMMA DifferenceMembers ==
  ASSUME TypeOK, NEW s \in Sub
  PROVE  Members(Difference(s)) =
           (IF children[s] \ prev[s] = {} THEN {} ELSE Calls("add", children[s] \ prev[s]))
             \cup (IF prev[s] \ children[s] = {} THEN {} ELSE Calls("remove", prev[s] \ children[s]))
<1>1. /\ children[s] \ prev[s] \in SUBSET Provider
      /\ prev[s] \ children[s] \in SUBSET Provider
  BY DEF TypeOK
<1>2. /\ NotesUnlessEmpty("add", children[s] \ prev[s]) \in Seq(Note)
      /\ NotesUnlessEmpty("remove", prev[s] \ children[s]) \in Seq(Note)
  BY <1>1, NotesAre
<1> DEFINE coming == NotesUnlessEmpty("add", children[s] \ prev[s])
           going == NotesUnlessEmpty("remove", prev[s] \ children[s])
<1>3. Members(coming) = IF children[s] \ prev[s] = {} THEN {}
                        ELSE Calls("add", children[s] \ prev[s])
  BY NotesMembers
<1>4. Members(going) = IF prev[s] \ children[s] = {} THEN {}
                       ELSE Calls("remove", prev[s] \ children[s])
  BY NotesMembers
<1>5. Difference(s) = coming \o going
  BY DEF Difference
<1> HIDE DEF coming, going
<1>6. Members(Difference(s)) = Members(coming) \cup Members(going)
  BY <1>2, <1>5, BothMembers DEF coming, going
<1> QED
  BY <1>3, <1>4, <1>6

LEMMA AnnounceStep ==
  ASSUME TypeOK, [Next]_vars, NEW later \in SUBSET Sub, Followers(later), NEW s \in Sub, Announce(s)
  PROVE  Followers(later)'
<1> DEFINE notes == IF watch[s] = "none" THEN Notes("add", children[s]) ELSE Difference(s)
<1>1. \A t \in Sub : Phase(later, t) /\ Known(later, t) /\ Telling(later, t) /\ Computing(t)
                     /\ Listed(later, t)
  BY DEF Followers, Follower
<1>2. /\ pc[s] = "announce" /\ pc'[s] = IF notes = <<>> THEN Stage(s) ELSE "read"
      /\ queue'[s] = notes
      /\ prev'[s] = IF watch[s] = "none" THEN prev[s] ELSE children[s]
      /\ UNCHANGED <<nodes, listeners, watch, computed, urls, snapshot, missed, raced>>
  <2>1. s \in Provider \cup Sub
    OBVIOUS
  <2> QED
    BY <2>1, PcMoves DEF Announce, TypeOK, zk, history
<1>3. /\ s \in later <=> watch[s] # "none"
      /\ s \notin later => prev[s] = {} /\ children[s] = snapshot[s]
      /\ queue[s] = <<>>
  BY <1>1, <1>2 DEF Phase
<1>4. Members(notes) =
        IF s \notin later THEN Calls("add", children[s])
        ELSE (IF children[s] \ prev[s] = {} THEN {} ELSE Calls("add", children[s] \ prev[s]))
          \cup (IF prev[s] \ children[s] = {} THEN {} ELSE Calls("remove", prev[s] \ children[s]))
  BY <1>3, NotesMembers, DifferenceMembers, Zenon
<1> HIDE DEF notes
<1>5. Pending(s)' = Members(notes) /\ Pending(s) = {}
  BY <1>2, <1>3, EmptyMembers DEF Pending
<1>6. pc'[s] \in (IF s \in later THEN {"read", "gone", "wait"} ELSE {"read", "plain", "watch"})
  <2>1. Stage(s) \in IF s \in later THEN {"gone", "wait"} ELSE {"plain", "watch"}
    BY <1>3 DEF Stage
  <2> QED
    BY <1>2, <2>1
<1>7. Phase(later, s)'
  <2>1. pc'[s] \notin {"read", "refresh"} => queue'[s] = <<>>
    BY <1>2
  <2> QED
    BY <1>2, <1>3, <1>6, <2>1 DEF Phase, Early
<1>8. Known(later, s)'
  BY <1>1, <1>2, <1>3, <1>6 DEF Known
<1>9. Telling(later, s)'
  <2>1. \A d \in Listening : pc'[d] \notin {"absent", "out"}
    <3>1. \A d \in Listening : d \in Sub
      BY DEF Listening, TypeOK
    <3> QED
      BY <1>1, <3>1, Forward DEF Listed
  <2>2. ASSUME NEW note \in Members(notes)
        PROVE  /\ note.kind = "add" => note.urls \subseteq prev'[s] \cup snapshot'[s]
               /\ note.kind = "remove" => s \in later /\ note.urls \cap prev'[s] = {}
               /\ note.to \in Listening
    <3>1. CASE s \notin later
      BY <1>2, <1>3, <1>4, <2>2, <3>1 DEF Calls
    <3>2. CASE s \in later
      BY <1>2, <1>3, <1>4, <2>2, <3>2 DEF Calls
    <3> QED
      BY <3>1, <3>2
  <2> QED
    BY <1>5, <2>1, <2>2 DEF Telling
<1>10. \A d \in Listening, p \in Provider :
         /\ p \in prev[s] => p \in prev'[s] \/ ToRemove(s, d, p)'
         /\ s \in later /\ p \notin prev[s] => p \notin prev'[s] \/ ToAdd(s, d, p)'
         /\ p \in Told(later, s)' => p \in Told(later, s) \/ ToAdd(s, d, p)'
  <2> SUFFICES ASSUME NEW d \in Listening, NEW p \in Provider
               PROVE  /\ p \in prev[s] => p \in prev'[s] \/ ToRemove(s, d, p)'
                      /\ s \in later /\ p \notin prev[s] => p \notin prev'[s] \/ ToAdd(s, d, p)'
                      /\ p \in Told(later, s)' => p \in Told(later, s) \/ ToAdd(s, d, p)'
    OBVIOUS
  <2> DEFINE call(kind, set) == [to |-> d, kind |-> kind, urls |-> set]
  <2>1. \A kind, set : /\ call(kind, set) \in Calls(kind, set)
                       /\ call(kind, set).to = d /\ call(kind, set).kind = kind
                       /\ call(kind, set).urls = set
    BY DEF Calls
  <2> HIDE DEF call
  <2>2. CASE s \notin later
    <3>1. call("add", children[s]) \in Pending(s)'
      BY <1>4, <1>5, <2>1, <2>2
    <3>2. Told(later, s)' \subseteq children[s]
      BY <1>2, <1>3, <1>6, <2>2 DEF Told
    <3>3. p \in children[s] => ToAdd(s, d, p)'
      BY <2>1, <3>1 DEF ToAdd
    <3> QED
      BY <1>3, <2>2, <3>2, <3>3
  <2>3. CASE s \in later
    <3>1. prev'[s] = children[s] /\ Told(later, s)' = children[s] /\ Told(later, s) = prev[s]
      BY <1>2, <1>3, <2>3 DEF Told
    <3>2. p \in children[s] \ prev[s] => ToAdd(s, d, p)'
      <4> SUFFICES ASSUME p \in children[s] \ prev[s] PROVE ToAdd(s, d, p)'
        OBVIOUS
      <4>1. call("add", children[s] \ prev[s]) \in Pending(s)'
        BY <1>4, <1>5, <2>1, <2>3
      <4> QED
        BY <2>1, <4>1 DEF ToAdd
    <3>3. p \in prev[s] \ children[s] => ToRemove(s, d, p)'
      <4> SUFFICES ASSUME p \in prev[s] \ children[s] PROVE ToRemove(s, d, p)'
        OBVIOUS
      <4>1. call("remove", prev[s] \ children[s]) \in Pending(s)'
        BY <1>4, <1>5, <2>1, <2>3
      <4> QED
        BY <2>1, <4>1 DEF ToRemove
    <3> QED
      BY <3>1, <3>2, <3>3
  <2> QED
    BY <2>2, <2>3
<1> SUFFICES ASSUME NEW d \in Sub PROVE Follower(later, d)'
  BY DEF Followers
<1>11. Phase(later, d)' /\ Known(later, d)'
  BY <1>7, <1>8, OtherPhases DEF SubStep
<1>12. d # s => /\ pc'[d] = pc[d] /\ queue'[d] = queue[d] /\ prev'[d] = prev[d]
                /\ snapshot'[d] = snapshot[d]
  BY OtherTasks DEF SubStep
<1>13. Telling(later, d)'
  <2>1. CASE d = s
    BY <1>9, <2>1
  <2>2. CASE d # s
    BY <1>1, <1>12, <2>2, TellingKept
  <2> QED
    BY <2>1, <2>2
<1>14. Computing(d)'
  <2>1. CASE d = s
    BY <1>6, <2>1 DEF Computing
  <2>2. CASE d # s
    BY <1>1, <1>2, <1>12, <2>2, ComputingKept
  <2> QED
    BY <2>1, <2>2
<1>15. Listed(later, d)'
  <2>1. /\ d \in Listening => pc'[d] \notin {"absent", "out"}
        /\ pc'[d] \in {"absent", "out"} => urls[d] = {}
    BY <1>1, Forward DEF Listed
  <2>2. ASSUME NEW t \in Sub, t # s, NEW p
        PROVE  /\ prev'[t] = prev[t]
               /\ ToAdd(t, d, p)' <=> ToAdd(t, d, p)
               /\ ToRemove(t, d, p)' <=> ToRemove(t, d, p)
    <3>1. prev'[t] = prev[t] /\ queue'[t] = queue[t]
      BY <2>2, OtherTasks DEF SubStep
    <3> QED
      BY <3>1 DEF ToAdd, ToRemove, Pending
  <2>3. \A p : ~ToAdd(s, d, p) /\ ~ToRemove(s, d, p)
    BY <1>5 DEF ToAdd, ToRemove
  <2>4. Leftover' = Leftover /\ Listening' = Listening
    BY <1>2 DEF Leftover, Listening
  <2>5. ASSUME d \in Listening \ raced, NEW p \in urls[d]
        PROVE  p \in Leftover \/ \E t \in Sub : p \in prev'[t] \/ ToRemove(t, d, p)'
    <3>1. p \in Provider
      BY DEF TypeOK
    <3>2. p \in Leftover \/ \E t \in Sub : p \in prev[t] \/ ToRemove(t, d, p)
      BY <1>1, <2>5 DEF Listed
    <3> QED
      BY <1>10, <2>2, <2>3, <2>5, <3>1, <3>2
  <2>6. ASSUME d \in Listening \ raced, NEW p \in Told(later, d)' \ urls[d]
        PROVE  \E t \in Sub : (t \in later /\ p \notin prev'[t]) \/ ToAdd(t, d, p)'
    <3>1. p \in Provider
      BY TypesStep DEF Told, TypeOK
    <3>2. CASE p \in Told(later, d)
      <4>1. \E t \in Sub : (t \in later /\ p \notin prev[t]) \/ ToAdd(t, d, p)
        BY <1>1, <2>6, <3>2 DEF Listed
      <4> QED
        BY <1>10, <2>2, <2>3, <2>6, <3>1, <4>1
    <3>3. CASE p \notin Told(later, d)
      <4>1. d = s
        BY <1>12, <2>6, <3>3 DEF Told
      <4> QED
        BY <1>10, <2>6, <3>1, <3>3, <4>1
    <3> QED
      BY <3>2, <3>3
  <2> QED
    BY <1>2, <2>1, <2>4, <2>5, <2>6, Zenon DEF Listed
<1> QED
  BY <1>11, <1>13, <1>14, <1>15 DEF Follower

LEMMA ReadStep ==
  ASSUME TypeOK, [Next]_vars, NEW later \in SUBSET Sub, Followers(later), NEW s \in Sub, ReadUrls(s)
  PROVE  Followers(later)'
<1>1. \A t \in Sub : Phase(later, t) /\ Known(later, t) /\ Telling(later, t) /\ Computing(t)
                     /\ Listed(later, t)
  BY DEF Followers, Follower
<1>2. /\ pc[s] = "read" /\ pc'[s] = "refresh" /\ computed'[s] = Applied(Head(queue[s]))
      /\ UNCHANGED <<nodes, listeners, loop, queue, urls, history>>
  <2>1. s \in Provider \cup Sub
    OBVIOUS
  <2> QED
    BY <2>1, PcMoves DEF ReadUrls, TypeOK, zk
<1>3. Phase(later, s)' /\ Known(later, s)'
  <2>1. Phase(later, s) /\ Known(later, s)
    BY <1>1
  <2>2. Phase(later, s)'
    BY <1>2, <2>1 DEF Phase, Early, loop, history
  <2>3. Known(later, s)'
    BY <1>2, <2>1 DEF Known, loop, history
  <2> QED
    BY <2>2, <2>3
<1> SUFFICES ASSUME NEW t \in Sub PROVE Follower(later, t)'
  BY DEF Followers
<1>4. Phase(later, t)' /\ Known(later, t)'
  BY <1>3, OtherPhases DEF SubStep
<1>5. Telling(later, t)'
  BY <1>1, <1>2, TellingKept DEF loop, history
<1>6. Computing(t)'
  <2>1. CASE t = s
    BY <1>2, <2>1 DEF Computing, Applied
  <2>2. CASE t # s
    <3>1. pc'[t] = pc[t] /\ computed'[t] = computed[t]
      BY <2>2, OtherTasks DEF SubStep
    <3> QED
      BY <1>1, <1>2, <3>1, ComputingKept DEF history
  <2> QED
    BY <2>1, <2>2
<1>7. Listed(later, t)'
  <2>1. Told(later, t)' = Told(later, t)
    <3>1. t # s => pc'[t] = pc[t]
      BY OtherTasks DEF SubStep
    <3> QED
      BY <1>2, <3>1 DEF Told, loop, history
  <2>2. Listening' = Listening
    BY <1>2 DEF Listening
  <2>3. CASE t \in Listening
    BY <1>1, <1>2, <2>1, <2>2, <2>3, ListedKept DEF loop, history
  <2>4. CASE t \notin Listening
    <3>1. pc'[t] \in {"absent", "out"} => pc[t] \in {"absent", "out"}
      BY Forward
    <3> QED
      BY <1>1, <1>2, <2>2, <2>4, <3>1 DEF Listed
  <2> QED
    BY <2>3, <2>4
<1> QED
  BY <1>4, <1>5, <1>6, <1>7 DEF Follower

LEMMA RefreshStep ==
  ASSUME TypeOK, [Next]_vars, NEW later \in SUBSET Sub, Followers(later), NEW s \in Sub,
         RefreshInvokers(s)
  PROVE  Followers(later)'
<1> DEFINE head == Head(queue[s])
           d == head.to
<1>1. \A t \in Sub : Phase(later, t) /\ Known(later, t) /\ Telling(later, t) /\ Computing(t)
                     /\ Listed(later, t)
  BY DEF Followers, Follower
<1>2. /\ pc[s] = "refresh" /\ pc'[s] = IF Len(queue[s]) = 1 THEN Stage(s) ELSE "read"
      /\ urls' = [urls EXCEPT ![d] = computed[s]]
      /\ raced' = IF Unread(s, d) THEN raced \cup {d} ELSE raced
      /\ queue'[s] = Tail(queue[s])
      /\ UNCHANGED <<nodes, listeners, loop, snapshot, missed>>
  <2>1. s \in Provider \cup Sub
    OBVIOUS
  <2> QED
    BY <2>1, PcMoves DEF RefreshInvokers, TypeOK, zk
<1>3. /\ queue[s] \in Seq(Note) /\ queue[s] # <<>>
      /\ head \in Note /\ Pending(s) = {head} \cup Pending(s)'
  <2>1. queue[s] \in Seq(Note) /\ queue[s] # <<>>
    BY <1>2 DEF TypeOK
  <2> QED
    BY <1>2, <2>1, TailMembers DEF Pending
<1>4. d \in Sub /\ head.kind \in {"add", "remove"} /\ head.urls \subseteq Provider
  BY <1>3 DEF Note
<1>5. /\ head.kind = "add" => head.urls \subseteq prev[s] \cup snapshot[s]
      /\ head.kind = "remove" => s \in later /\ head.urls \cap prev[s] = {}
  BY <1>1, <1>3 DEF Telling
<1>6. d \notin raced' =>
        urls'[d] = IF head.kind = "add" THEN urls[d] \cup head.urls ELSE urls[d] \ head.urls
  <2>1. d \notin raced' => computed[s] = Applied(head)
    BY <1>1, <1>2 DEF Computing
  <2> QED
    BY <1>2, <1>4, <2>1 DEF Applied, TypeOK
<1>7. \A t \in Sub : t # d => urls'[t] = urls[t]
  BY <1>2, <1>4 DEF TypeOK
<1> HIDE DEF head, d
<1>8. watch[s] = "none" <=> s \notin later
  BY <1>1, <1>2 DEF Phase
<1>9. pc'[s] \in (IF s \in later THEN {"read", "gone", "wait"} ELSE {"read", "plain", "watch"})
  <2>1. Stage(s) \in IF s \in later THEN {"gone", "wait"} ELSE {"plain", "watch"}
    BY <1>8 DEF Stage
  <2> QED
    BY <1>2, <2>1
<1>10. Phase(later, s)' /\ Known(later, s)'
  <2>1. pc'[s] \notin {"read", "refresh"} => queue'[s] = <<>>
    BY <1>2, <1>3, TailIs
  <2>2. Phase(later, s) /\ Known(later, s)
    BY <1>1
  <2>3. Phase(later, s)'
    BY <1>2, <1>8, <1>9, <2>1, <2>2 DEF Phase, Early, loop
  <2>4. Known(later, s)'
    BY <1>2, <1>9, <2>2 DEF Known, loop
  <2> QED
    BY <2>3, <2>4
<1>11. ASSUME NEW t \in Sub, t # s
       PROVE  pc'[t] = pc[t] /\ queue'[t] = queue[t] /\ computed'[t] = computed[t]
              /\ Pending(t)' = Pending(t)
  BY <1>11, OtherTasks DEF SubStep, Pending
<1>12. ASSUME NEW t \in Sub PROVE Telling(later, t)'
  <2>1. CASE t # s
    BY <1>1, <1>2, <1>11, <2>1, TellingKept DEF loop
  <2>2. CASE t = s
    <3>1. ASSUME NEW note \in Pending(s)' PROVE pc'[note.to] \notin {"absent", "out"}
      <4>1. note \in Pending(s)
        BY <1>3, <3>1
      <4>2. note \in Note
        BY <1>3, <4>1 DEF Pending, Members
      <4>3. note.to \in Sub
        BY <4>2 DEF Note
      <4>4. pc[note.to] \notin {"absent", "out"}
        BY <1>1, <4>1 DEF Telling
      <4> QED
        BY <4>3, <4>4, Forward
    <3>2. \A note \in Pending(s)' :
            /\ note.kind = "add" => note.urls \subseteq prev'[s] \cup snapshot'[s]
            /\ note.kind = "remove" => s \in later /\ note.urls \cap prev'[s] = {}
      BY <1>1, <1>2, <1>3 DEF Telling, loop
    <3> QED
      BY <2>2, <3>1, <3>2 DEF Telling
  <2> QED
    BY <2>1, <2>2
<1>13. ASSUME NEW t \in Sub PROVE Computing(t)'
  <2>1. CASE t = s
    BY <1>9, <2>1 DEF Computing
  <2>2. CASE t # s
    <3> SUFFICES ASSUME pc[t] = "refresh", Head(queue[t]).to \notin raced'
                 PROVE  computed'[t] = Applied(Head(queue[t]))'
      BY <1>11, <2>2 DEF Computing
    <3>1. Head(queue[t]).to # d
      BY <1>2, <2>2 DEF Unread
    <3>2. computed[t] = Applied(Head(queue[t]))
      BY <1>1, <1>2 DEF Computing
    <3>3. Head(queue[t]).to \in Sub
      <4>1. queue[t] \in Seq(Note) /\ queue[t] # <<>>
        BY DEF TypeOK
      <4>2. Head(queue[t]) \in Note
        BY <4>1
      <4> QED
        BY <4>2 DEF Note
    <3>4. Applied(Head(queue[t]))' = Applied(Head(queue[t]))
      BY <1>7, <1>11, <2>2, <3>1, <3>3 DEF Applied
    <3> QED
      BY <1>11, <2>2, <3>2, <3>4
  <2> QED
    BY <2>1, <2>2
<1>14. ASSUME NEW e \in Sub PROVE Listed(later, e)'
  <2>1. /\ e \in Listening => pc'[e] \notin {"absent", "out"}
        /\ pc'[e] \in {"absent", "out"} => pc[e] \in {"absent", "out"}
    BY <1>1, Forward DEF Listed
  <2>2. Leftover' = Leftover /\ Listening' = Listening
    BY <1>2 DEF Leftover, Listening
  <2>3. Told(later, e)' \subseteq Told(later, e)
    <3>1. CASE e = s
      BY <1>2, <1>9, <3>1 DEF Told, loop
    <3>2. CASE e # s
      BY <1>2, <1>11, <3>2 DEF Told, loop
    <3> QED
      BY <3>1, <3>2
  <2>4. pc'[e] \in {"absent", "out"} => urls'[e] = {}
    <3>1. pc[d] \notin {"absent", "out"}
      BY <1>1, <1>3 DEF Telling, d
    <3> QED
      BY <1>1, <1>7, <2>1, <3>1 DEF Listed
  <2>5. ASSUME NEW t \in Sub, NEW p
        PROVE  /\ ToAdd(t, e, p) => ToAdd(t, e, p)' \/ (t = s /\ e = d /\ head.kind = "add"
                                                        /\ p \in head.urls)
               /\ ToRemove(t, e, p) => ToRemove(t, e, p)' \/ (t = s /\ e = d
                                                              /\ head.kind = "remove"
                                                              /\ p \in head.urls)
    <3>1. CASE t # s
      BY <1>11, <3>1 DEF ToAdd, ToRemove
    <3>2. CASE t = s
      BY <1>3, <3>2 DEF ToAdd, ToRemove, d
    <3> QED
      BY <3>1, <3>2
  <2>6. ASSUME e \in Listening, e \notin raced', NEW p \in urls'[e]
        PROVE  p \in Leftover \/ \E t \in Sub : p \in prev[t] \/ ToRemove(t, e, p)'
    <3>1. e \in Listening \ raced
      BY <1>2, <2>6
    <3>2. CASE p \in urls[e]
      <4>1. p \in Leftover \/ \E t \in Sub : p \in prev[t] \/ ToRemove(t, e, p)
        BY <1>1, <3>1, <3>2 DEF Listed
      <4>2. ~(e = d /\ head.kind = "remove" /\ p \in head.urls)
        BY <1>6, <2>6
      <4> QED
        BY <2>5, <4>1, <4>2
    <3>3. CASE p \notin urls[e]
      <4>1. e = d /\ head.kind = "add" /\ p \in head.urls
        BY <1>6, <1>7, <2>6, <3>3
      <4> QED
        BY <1>5, <4>1 DEF Leftover
    <3> QED
      BY <3>2, <3>3
  <2>7. ASSUME e \in Listening, e \notin raced', NEW p \in Told(later, e)' \ urls'[e]
        PROVE  \E t \in Sub : (t \in later /\ p \notin prev[t]) \/ ToAdd(t, e, p)'
    <3>1. e \in Listening \ raced
      BY <1>2, <2>7
    <3>2. CASE p \notin urls[e]
      <4>1. \E t \in Sub : (t \in later /\ p \notin prev[t]) \/ ToAdd(t, e, p)
        BY <1>1, <2>3, <2>7, <3>1, <3>2 DEF Listed
      <4>2. ~(e = d /\ head.kind = "add" /\ p \in head.urls)
        BY <1>6, <2>7
      <4> QED
        BY <2>5, <4>1, <4>2
    <3>3. CASE p \in urls[e]
      <4>1. e = d /\ head.kind = "remove" /\ p \in head.urls
        BY <1>4, <1>6, <1>7, <2>7, <3>3
      <4> QED
        BY <1>5, <4>1
    <3> QED
      BY <3>2, <3>3
  <2>8. prev' = prev
    BY <1>2 DEF loop
  <2> QED
    BY <2>1, <2>2, <2>4, <2>6, <2>7, <2>8, Zenon DEF Listed
<1> SUFFICES ASSUME NEW t \in Sub PROVE Follower(later, t)'
  BY DEF Followers
<1>15. Phase(later, t)' /\ Known(later, t)'
  BY <1>10, OtherPhases DEF SubStep
<1> QED
  BY <1>12, <1>13, <1>14, <1>15 DEF Follower

-----------------------------------------------------------------------------

LEMMA FollowInit == Init => FollowInv
<1> SUFFICES ASSUME Init PROVE Followers({})
  BY DEF FollowInv, Followers
<1> SUFFICES ASSUME NEW s \in Sub PROVE Follower({}, s)
  BY DEF Followers
<1>1. /\ pc[s] \in {"absent", "out"} /\ listeners = <<>> /\ urls[s] = {} /\ prev[s] = {}
      /\ watch[s] = "none" /\ queue[s] = <<>> /\ snapshot[s] = {}
  BY DEF Init
<1>2. Listening = {} /\ Pending(s) = {}
  BY <1>1, EmptyMembers DEF Listening, Pending
<1> QED
  BY <1>1, <1>2 DEF Follower, Phase, Known, Telling, Computing, Listed, Early

LEMMA FollowStep == TypeOK /\ FollowInv /\ [Next]_vars => FollowInv'
<1> SUFFICES ASSUME TypeOK, [Next]_vars, NEW later \in SUBSET Sub, Followers(later)
             PROVE  \E more \in SUBSET Sub : Followers(more)'
  BY DEF FollowInv, Followers
<1>1. CASE UNCHANGED vars
  BY <1>1, IdleStep DEF vars, zk
<1>2. CASE Unsubscribe
  <2>1. UNCHANGED <<nodes, loop, notifying, history, pc>> /\ listeners' = <<>>
    BY <1>2 DEF Unsubscribe, zk
  <2> QED
    BY <2>1, IdleStep
<1>3. ASSUME NEW p \in Provider,
             Register(p) \/ EnsureExists(p) \/ EnsureCreate(p) \/ Join(p) \/ Leave(p)
      PROVE  Followers(later)'
  BY <1>3, ProviderStep
<1>4. ASSUME NEW s \in Sub, Listen(s) \/ SubStep(s) PROVE \E more \in SUBSET Sub : Followers(more)'
  <2>1. CASE Fetch(s)
    <3>1. Followers(later \cup {s})' /\ later \cup {s} \in SUBSET Sub
      BY <2>1, FetchStep
    <3> QED
      BY <3>1
  <2>2. CASE ~Fetch(s)
    <3>1. Followers(later)'
      BY <1>4, <2>2, ListenStep, EnsureStep, SnapshotStep, WatchStep, AnnounceStep, ReadStep,
         RefreshStep DEF SubStep
    <3> QED
      BY <3>1
  <2> QED
    BY <2>1, <2>2
<1> QED
  BY <1>1, <1>2, <1>3, <1>4 DEF Next

\* For any providers and subscribers, whatever fails or is missed and in whatever order the
\* tasks announce: once all is settled the directory of a subscriber that watches lists who
\* is registered, and besides only what was in a snapshot.
THEOREM SettledIsCurrent == Spec => []IdleIsCurrent
<1>1. TypeOK /\ FollowInv => IdleIsCurrent
  <2> SUFFICES ASSUME TypeOK, NEW later \in SUBSET Sub, Followers(later), Settled,
                      NEW d \in Listening \ raced, Waiting(d)
               PROVE  nodes \subseteq urls[d] /\ urls[d] \subseteq nodes \cup Leftover
    BY DEF FollowInv, Followers, IdleIsCurrent
  <2>1. d \in Sub
    BY DEF Listening, TypeOK
  <2>2. \A t \in Sub : Phase(later, t) /\ Known(later, t) /\ Listed(later, t)
    BY DEF Followers, Follower
  <2>3. ASSUME NEW t \in Sub
        PROVE  /\ Pending(t) = {}
               /\ t \in later => prev[t] = nodes
               /\ t \notin later => prev[t] = {}
    <3>1. Waiting(t) \/ pc[t] \in {"absent", "out", "failed", "plain"}
      BY DEF Settled
    <3>2. queue[t] = <<>>
      BY <2>2, <3>1 DEF Phase, Waiting
    <3>3. t \in later => Waiting(t)
      BY <2>2, <3>1 DEF Phase
    <3>4. t \in later => prev[t] = nodes
      BY <2>2, <3>3 DEF Known, Waiting
    <3>5. t \notin later => prev[t] = {}
      BY <2>2 DEF Phase
    <3> QED
      BY <3>2, <3>4, <3>5, EmptyMembers DEF Pending
  <2>4. \A t \in Sub : \A p : ~ToAdd(t, d, p) /\ ~ToRemove(t, d, p)
    BY <2>3 DEF ToAdd, ToRemove
  <2>5. Told(later, d) = nodes
    <3>1. CASE d \in later
      BY <2>1, <2>3, <3>1 DEF Told
    <3>2. CASE d \notin later
      BY <2>1, <2>2, <3>2 DEF Told, Known, Waiting
    <3> QED
      BY <3>1, <3>2
  <2>6. ASSUME NEW p \in nodes, p \notin urls[d] PROVE FALSE
    <3>1. PICK t \in Sub : t \in later /\ p \notin prev[t]
      BY <2>1, <2>2, <2>4, <2>5, <2>6 DEF Listed
    <3> QED
      BY <2>3, <3>1
  <2>7. ASSUME NEW p \in urls[d] PROVE p \in nodes \cup Leftover
    <3>1. p \in Leftover \/ \E t \in Sub : p \in prev[t]
      BY <2>1, <2>2, <2>4, <2>7 DEF Listed
    <3> QED
      BY <2>3, <3>1
  <2> QED
    BY <2>6, <2>7
<1> QED
  BY <1>1, FollowInit, FollowStep, NamingTypeCorrect, PTL DEF Spec
=============================================================================
