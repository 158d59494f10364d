----------------------- MODULE ConnectionPool_proofs ------------------------
(***************************************************************************)
(* Proofs about ConnectionPool, for any number of addresses and clients    *)
(* and any limits.                                                         *)
(*                                                                         *)
(* The counters and the stages are kept apart by the code and never        *)
(* compared, so neither is inductive alone.  The invariant relates them:   *)
(* the idle list names idle clients and each only once (or giving one out  *)
(* could close another), and in_use covers the busy clients (so that a     *)
(* count below the limit means a place is really free).                    *)
(***************************************************************************)
EXTENDS ConnectionPool, TLAPS, FiniteSetTheorems, SequenceTheorems

BusyStage == {"connecting", "failed", "held", "returning"}

IdleMatches == \A a \in Addr :
  /\ \A i \in 1 .. Len(idle[a]) : stage[a][idle[a][i]] = "idle"
  /\ \A i, j \in 1 .. Len(idle[a]) : idle[a][i] = idle[a][j] => i = j

Counted == \A a \in Addr :
  /\ Cardinality(Busy(a)) <= inUse[a]
  /\ faults = {} => inUse[a] = Cardinality(Busy(a))

IInv == TypeOK /\ IdleMatches /\ Counted

-----------------------------------------------------------------------------
(* How the set of busy clients of an address changes.                      *)

LEMMA BusyFinite ==
  ASSUME NEW a \in Addr
  PROVE  IsFiniteSet(Busy(a)) /\ Cardinality(Busy(a)) \in Nat
<1>1. Busy(a) \in SUBSET Lease
  BY DEF Busy
<1>2. IsFiniteSet(Busy(a))
  BY <1>1, FS_Subset, PoolAssumption
<1> QED
  BY <1>2, FS_CardinalityType

LEMMA OneMoreBusy ==
  ASSUME NEW a \in Addr, NEW l \in Lease,
         l \notin Busy(a), Busy(a)' = Busy(a) \cup {l}
  PROVE  Cardinality(Busy(a)') = Cardinality(Busy(a)) + 1
BY BusyFinite, FS_AddElement

LEMMA OneLessBusy ==
  ASSUME NEW a \in Addr, NEW l \in Lease,
         l \in Busy(a), Busy(a)' = Busy(a) \ {l}
  PROVE  /\ Cardinality(Busy(a)') = Cardinality(Busy(a)) - 1
         /\ Cardinality(Busy(a)) >= 1
<1>1. Cardinality(Busy(a)') = Cardinality(Busy(a)) - 1
  BY BusyFinite, FS_RemoveElement
<1>2. Busy(a)' \in SUBSET Lease
  BY DEF Busy
<1>3. Cardinality(Busy(a)') \in Nat
  BY <1>2, FS_Subset, FS_CardinalityType, PoolAssumption
<1> QED
  BY <1>1, <1>3, BusyFinite

\* What MoveTo does to the stages and to the busy clients.
LEMMA Moved ==
  ASSUME TypeOK, NEW a \in Addr, NEW l \in Lease, NEW s \in Stage, MoveTo(a, l, s)
  PROVE  /\ stage' \in [Addr -> [Lease -> Stage]]
         /\ stage'[a][l] = s
         /\ \A b \in Addr, m \in Lease : <<b, m>> # <<a, l>> => stage'[b][m] = stage[b][m]
         /\ \A b \in Addr \ {a} : Busy(b)' = Busy(b)
         /\ s \in BusyStage => Busy(a)' = Busy(a) \cup {l}
         /\ s \notin BusyStage => Busy(a)' = Busy(a) \ {l}
<1>1. stage' \in [Addr -> [Lease -> Stage]]
  BY DEF MoveTo, TypeOK
<1>2. stage'[a][l] = s
  BY DEF MoveTo, TypeOK
<1>3. \A b \in Addr, m \in Lease : <<b, m>> # <<a, l>> => stage'[b][m] = stage[b][m]
  BY DEF MoveTo, TypeOK
<1>4. \A b \in Addr \ {a} : Busy(b)' = Busy(b)
  BY <1>3 DEF Busy
<1>5. s \in BusyStage => Busy(a)' = Busy(a) \cup {l}
  BY <1>2, <1>3 DEF Busy, BusyStage
<1>6. s \notin BusyStage => Busy(a)' = Busy(a) \ {l}
  BY <1>2, <1>3 DEF Busy, BusyStage
<1> QED
  BY <1>1, <1>2, <1>3, <1>4, <1>5, <1>6

\* A step that moves one client neither into nor out of the idle list.
LEMMA IdleUntouched ==
  ASSUME TypeOK, IdleMatches, NEW a \in Addr, NEW l \in Lease, NEW s \in Stage,
         stage[a][l] # "idle", MoveTo(a, l, s), UNCHANGED idle
  PROVE  IdleMatches'
<1>1. \A b \in Addr : \A i \in 1 .. Len(idle[b]) : idle[b][i] \in Lease
  BY DEF TypeOK
<1>2. \A b \in Addr : \A i \in 1 .. Len(idle[b]) : <<b, idle[b][i]>> # <<a, l>>
  BY DEF IdleMatches
<1>3. \A b \in Addr : \A i \in 1 .. Len(idle[b]) : stage'[b][idle[b][i]] = "idle"
  BY <1>1, <1>2, Moved DEF IdleMatches
<1> QED
  BY <1>3 DEF IdleMatches

\* A step that takes no slot and frees none, and moves a busy client to another
\* busy stage.
LEMMA StillBusy ==
  ASSUME IInv, NEW a \in Addr, NEW l \in Lease, NEW s \in BusyStage,
         stage[a][l] \in BusyStage, MoveTo(a, l, s),
         UNCHANGED <<idle, stale, inUse, open, cleanup, faults>>
  PROVE  IInv'
<1>1. s \in Stage
  BY DEF BusyStage, Stage
<1>2. Busy(a)' = Busy(a)
  BY <1>1, Moved DEF IInv, Busy, BusyStage
<1>3. TypeOK'
  BY <1>1, Moved DEF IInv, TypeOK
<1>4. IdleMatches'
  BY <1>1, IdleUntouched DEF IInv, BusyStage
<1>5. Counted'
  BY <1>1, <1>2, Moved DEF IInv, Counted
<1> QED
  BY <1>3, <1>4, <1>5 DEF IInv

\* A step that closes a busy client without freeing its slot, which only happens
\* under a fault.
LEMMA ClosedUncounted ==
  ASSUME IInv, NEW a \in Addr, NEW l \in Lease, faults # {},
         stage[a][l] \in BusyStage, MoveTo(a, l, "none"),
         UNCHANGED <<idle, stale, inUse, open, cleanup, faults>>
  PROVE  IInv'
<1>1. "none" \in Stage /\ "none" \notin BusyStage
  BY DEF Stage, BusyStage
<1>2. l \in Busy(a) /\ Busy(a)' = Busy(a) \ {l}
  BY <1>1, Moved DEF IInv, Busy, BusyStage
<1>3. TypeOK'
  BY <1>1, Moved DEF IInv, TypeOK
<1>4. IdleMatches'
  BY <1>1, IdleUntouched DEF IInv, BusyStage
<1>5. Cardinality(Busy(a)') = Cardinality(Busy(a)) - 1
  BY <1>2, OneLessBusy
<1>6. Counted'
  BY <1>1, <1>5, BusyFinite, Moved DEF IInv, Counted, TypeOK
<1> QED
  BY <1>3, <1>4, <1>6 DEF IInv

\* A busy client leaves and its slot is given up: the subtraction is exact.
LEMMA SlotGivenUp ==
  ASSUME TypeOK, Counted, NEW a \in Addr, NEW l \in Busy(a), GiveUpSlot(a),
         Busy(a)' = Busy(a) \ {l}, \A b \in Addr \ {a} : Busy(b)' = Busy(b),
         UNCHANGED faults
  PROVE  inUse' \in [Addr -> Nat] /\ Counted'
<1>1. l \in Lease
  BY DEF Busy
<1>2. /\ Cardinality(Busy(a)') = Cardinality(Busy(a)) - 1
      /\ Cardinality(Busy(a)) >= 1
  BY <1>1, OneLessBusy
<1>3. inUse[a] \in Nat /\ inUse[a] >= 1
  BY <1>2, BusyFinite DEF Counted, TypeOK
<1>4. inUse' = [inUse EXCEPT ![a] = Pred(inUse[a])]
  BY DEF GiveUpSlot
<1>5. Pred(inUse[a]) = inUse[a] - 1
  BY <1>3 DEF Pred
<1>6. inUse' \in [Addr -> Nat] /\ inUse'[a] = inUse[a] - 1
  BY <1>3, <1>4, <1>5 DEF TypeOK
<1>7. \A b \in Addr \ {a} : inUse'[b] = inUse[b]
  BY <1>4 DEF TypeOK
<1>8. /\ Cardinality(Busy(a)') <= inUse'[a]
      /\ faults' = {} => inUse'[a] = Cardinality(Busy(a)')
  <2>1. Cardinality(Busy(a)) <= inUse[a]
    BY DEF Counted
  <2>2. faults = {} => inUse[a] = Cardinality(Busy(a))
    BY DEF Counted
  <2> QED
    BY <2>1, <2>2, <1>2, <1>3, <1>6, BusyFinite
<1> QED
  BY <1>6, <1>7, <1>8 DEF Counted

\* A client becomes busy and takes a slot.
LEMMA SlotTaken ==
  ASSUME TypeOK, Counted, NEW a \in Addr, NEW l \in Lease \ Busy(a), TakeSlot(a),
         Busy(a)' = Busy(a) \cup {l}, \A b \in Addr \ {a} : Busy(b)' = Busy(b),
         UNCHANGED faults
  PROVE  inUse' \in [Addr -> Nat] /\ Counted'
<1>1. Cardinality(Busy(a)') = Cardinality(Busy(a)) + 1
  BY OneMoreBusy
<1>2. inUse' = [inUse EXCEPT ![a] = inUse[a] + 1] /\ inUse[a] \in Nat
  BY DEF TakeSlot, TypeOK
<1>3. inUse' \in [Addr -> Nat] /\ inUse'[a] = inUse[a] + 1
  BY <1>2 DEF TypeOK
<1>4. \A b \in Addr \ {a} : inUse'[b] = inUse[b]
  BY <1>2 DEF TypeOK
<1>5. /\ Cardinality(Busy(a)') <= inUse'[a]
      /\ faults' = {} => inUse'[a] = Cardinality(Busy(a)')
  <2>1. Cardinality(Busy(a)) <= inUse[a]
    BY DEF Counted
  <2>2. faults = {} => inUse[a] = Cardinality(Busy(a))
    BY DEF Counted
  <2> QED
    BY <2>1, <2>2, <1>1, <1>2, <1>3, BusyFinite
<1> QED
  BY <1>3, <1>4, <1>5 DEF Counted

-----------------------------------------------------------------------------
(* One lemma per action that changes a counter or an idle list.            *)

\* ReleaseFailed, and Return when the idle list is full.
LEMMA ClosedCounted ==
  ASSUME IInv, NEW a \in Addr, NEW l \in Lease, stage[a][l] \in BusyStage,
         MoveTo(a, l, "none"), GiveUpSlot(a),
         UNCHANGED <<idle, stale, open, cleanup, faults>>
  PROVE  IInv'
<1>1. "none" \in Stage /\ "none" \notin BusyStage
  BY DEF Stage, BusyStage
<1>2. l \in Busy(a) /\ Busy(a)' = Busy(a) \ {l}
  BY <1>1, Moved DEF IInv, Busy, BusyStage
<1>3. \A b \in Addr \ {a} : Busy(b)' = Busy(b)
  BY <1>1, Moved DEF IInv
<1>4. inUse' \in [Addr -> Nat] /\ Counted'
  BY <1>2, <1>3, SlotGivenUp DEF IInv
<1>5. TypeOK'
  BY <1>1, <1>4, Moved DEF IInv, TypeOK
<1>6. IdleMatches'
  BY <1>1, IdleUntouched DEF IInv, BusyStage
<1> QED
  BY <1>4, <1>5, <1>6 DEF IInv

LEMMA ReturnKeeps ==
  ASSUME IInv, NEW a \in Addr, NEW l \in Lease, Return(a, l)
  PROVE  IInv'
<1>1. /\ stage[a][l] = "returning" /\ GiveUpSlot(a)
      /\ UNCHANGED <<stale, open, cleanup, faults>>
  BY DEF Return
<1>2. CASE ~HasRoom(a)
  <2>1. MoveTo(a, l, "none") /\ UNCHANGED idle
    BY <1>2 DEF Return
  <2> QED
    BY <2>1, <1>1, ClosedCounted DEF BusyStage
<1>3. CASE HasRoom(a)
  <2> DEFINE n == Len(idle[a])
  <2>1. MoveTo(a, l, "idle") /\ idle' = [idle EXCEPT ![a] = Append(idle[a], l)]
    BY <1>3 DEF Return
  <2>2. "idle" \in Stage /\ "idle" \notin BusyStage /\ "returning" \in BusyStage
    BY DEF Stage, BusyStage
  <2>3. l \in Busy(a) /\ Busy(a)' = Busy(a) \ {l}
    BY <1>1, <2>1, <2>2, Moved DEF IInv, Busy
  <2>4. \A b \in Addr \ {a} : Busy(b)' = Busy(b)
    BY <2>1, <2>2, Moved DEF IInv
  <2>5. inUse' \in [Addr -> Nat] /\ Counted'
    BY <1>1, <2>3, <2>4, SlotGivenUp DEF IInv
  <2>6. idle[a] \in Seq(Lease) /\ n \in Nat /\ n + 1 <= MaxIdle /\ stale[a] <= n
    BY <1>3, PoolAssumption DEF IInv, TypeOK, HasRoom
  <2>7. /\ idle'[a] \in Seq(Lease) /\ Len(idle'[a]) = n + 1
        /\ \A i \in 1 .. n : idle'[a][i] = idle[a][i]
        /\ idle'[a][n + 1] = l
    <3>1. idle'[a] = Append(idle[a], l)
      BY <2>1 DEF IInv, TypeOK
    <3> QED
      BY <3>1, <2>6, AppendProperties
  <2>8. idle' \in [Addr -> Seq(Lease)] /\ \A b \in Addr \ {a} : idle'[b] = idle[b]
    BY <2>1, <2>7 DEF IInv, TypeOK
  <2>9. TypeOK'
    <3>1. stage' \in [Addr -> [Lease -> Stage]]
      BY <2>1, <2>2, Moved DEF IInv
    <3>2. \A b \in Addr : stale'[b] <= Len(idle'[b]) /\ Len(idle'[b]) <= MaxIdle
      <4>1. stale[a] \in Nat
        BY DEF IInv, TypeOK
      <4>2. stale'[a] <= Len(idle'[a]) /\ Len(idle'[a]) <= MaxIdle
        BY <4>1, <1>1, <2>6, <2>7
      <4> QED
        BY <4>2, <1>1, <2>8 DEF IInv, TypeOK
    <3> QED
      BY <3>1, <3>2, <1>1, <2>5, <2>8 DEF IInv, TypeOK
  <2>10. IdleMatches'
    <3>1. \A b \in Addr : \A i \in 1 .. Len(idle[b]) : idle[b][i] \in Lease
      BY DEF IInv, TypeOK
    <3>2. \A b \in Addr : \A i \in 1 .. Len(idle[b]) : <<b, idle[b][i]>> # <<a, l>>
      BY <1>1 DEF IInv, IdleMatches
    <3>3. \A b \in Addr : \A i \in 1 .. Len(idle[b]) : stage'[b][idle[b][i]] = "idle"
      BY <3>1, <3>2, <2>1, <2>2, Moved DEF IInv, IdleMatches
    <3>4. stage'[a][l] = "idle"
      BY <2>1, <2>2, Moved DEF IInv
    <3>5. \A i \in 1 .. n + 1 : stage'[a][idle'[a][i]] = "idle"
      BY <3>3, <3>4, <2>6, <2>7
    <3>6. \A i, j \in 1 .. n + 1 : idle'[a][i] = idle'[a][j] => i = j
      <4>1. \A i \in 1 .. n : idle'[a][i] # l
        BY <3>2, <2>7
      <4>2. \A i, j \in 1 .. n : idle'[a][i] = idle'[a][j] => i = j
        BY <2>7 DEF IInv, IdleMatches
      <4>3. \A i \in 1 .. n + 1 : i \in 1 .. n \/ i = n + 1
        BY <2>6
      <4> QED
        BY <4>1, <4>2, <4>3, <2>7
    <3>7. ASSUME NEW b \in Addr \ {a}
          PROVE  /\ \A i \in 1 .. Len(idle'[b]) : stage'[b][idle'[b][i]] = "idle"
                 /\ \A i, j \in 1 .. Len(idle'[b]) : idle'[b][i] = idle'[b][j] => i = j
      BY <3>3, <2>8 DEF IInv, IdleMatches
    <3> QED
      BY <3>5, <3>6, <3>7, <2>7 DEF IdleMatches
  <2> QED
    BY <2>5, <2>9, <2>10 DEF IInv
<1> QED
  BY <1>2, <1>3

LEMMA GetReuseKeeps ==
  ASSUME IInv, NEW a \in Addr, GetReuse(a)
  PROVE  IInv'
<1> DEFINE n == Len(idle[a])
           l == idle[a][n]
<1>1. "held" \in Stage /\ "held" \in BusyStage
  BY DEF Stage, BusyStage
<1>2. /\ MoveTo(a, l, "held") /\ TakeSlot(a)
      /\ idle' = [idle EXCEPT ![a] = SubSeq(idle[a], 1, n - 1)]
      /\ UNCHANGED <<stale, open, cleanup, faults>>
  BY DEF GetReuse
<1>3. /\ idle[a] \in Seq(Lease) /\ n \in Nat /\ n >= 1 /\ n <= MaxIdle
      /\ stale[a] \in Nat /\ stale[a] <= n - 1
  BY DEF IInv, TypeOK, GetReuse, AllStale
<1>4. l \in Lease /\ stage[a][l] = "idle"
  BY <1>3 DEF IInv, IdleMatches
<1>5. l \notin Busy(a) /\ Busy(a)' = Busy(a) \cup {l}
  BY <1>1, <1>2, <1>4, Moved DEF IInv, Busy
<1>6. \A b \in Addr \ {a} : Busy(b)' = Busy(b)
  BY <1>1, <1>2, <1>4, Moved DEF IInv
<1>7. inUse' \in [Addr -> Nat] /\ Counted'
  BY <1>2, <1>4, <1>5, <1>6, SlotTaken DEF IInv
<1>8. /\ idle'[a] \in Seq(Lease) /\ Len(idle'[a]) = n - 1
      /\ \A i \in 1 .. n - 1 : idle'[a][i] = idle[a][i]
  <2>1. idle'[a] = SubSeq(idle[a], 1, n - 1)
    BY <1>2 DEF IInv, TypeOK
  <2> QED
    BY <2>1, <1>3, SubSeqProperties
<1>9. idle' \in [Addr -> Seq(Lease)] /\ \A b \in Addr \ {a} : idle'[b] = idle[b]
  BY <1>2, <1>8 DEF IInv, TypeOK
<1>10. TypeOK'
  <2>1. stage' \in [Addr -> [Lease -> Stage]]
    BY <1>1, <1>2, <1>4, Moved DEF IInv
  <2>2. \A b \in Addr : stale'[b] <= Len(idle'[b]) /\ Len(idle'[b]) <= MaxIdle
    BY <1>2, <1>3, <1>8, <1>9, PoolAssumption DEF IInv, TypeOK
  <2> QED
    BY <2>1, <2>2, <1>2, <1>7, <1>9 DEF IInv, TypeOK
<1>11. IdleMatches'
  <2>1. \A i \in 1 .. n - 1 : idle[a][i] # l /\ idle[a][i] \in Lease
    BY <1>3 DEF IInv, IdleMatches
  <2>2. \A i \in 1 .. n - 1 : stage'[a][idle[a][i]] = "idle"
    BY <2>1, <1>1, <1>2, <1>3, <1>4, Moved DEF IInv, IdleMatches
  <2>3. \A b \in Addr \ {a}, m \in Lease : stage'[b][m] = stage[b][m]
    BY <1>1, <1>2, <1>4, Moved DEF IInv
  <2>4. \A b \in Addr \ {a} : \A i \in 1 .. Len(idle[b]) : idle[b][i] \in Lease
    BY DEF IInv, TypeOK
  <2>5. ASSUME NEW b \in Addr
        PROVE  /\ \A i \in 1 .. Len(idle'[b]) : stage'[b][idle'[b][i]] = "idle"
               /\ \A i, j \in 1 .. Len(idle'[b]) : idle'[b][i] = idle'[b][j] => i = j
    <3>1. CASE b = a
      <4>1. \A i \in 1 .. n - 1 : stage'[a][idle'[a][i]] = "idle"
        BY <2>2, <1>8
      <4>2. \A i, j \in 1 .. n - 1 : idle'[a][i] = idle'[a][j] => i = j
        BY <1>3, <1>8 DEF IInv, IdleMatches
      <4> QED
        BY <3>1, <4>1, <4>2, <1>8
    <3>2. CASE b # a
      BY <3>2, <2>3, <2>4, <1>9 DEF IInv, IdleMatches
    <3> QED
      BY <3>1, <3>2
  <2> QED
    BY <2>5 DEF IdleMatches
<1> QED
  BY <1>7, <1>10, <1>11 DEF IInv

\* get() found every idle client stale and closes them; GetReserve also opens
\* a client.  The busy clients are untouched by the closing.
LEMMA GetReserveKeeps ==
  ASSUME IInv, NEW a \in Addr, NEW l \in Lease, GetReserve(a, l)
  PROVE  IInv'
<1>1. /\ stage' = [stage EXCEPT ![a] = [CloseIdle(a) EXCEPT ![l] = "connecting"]]
      /\ idle' = [idle EXCEPT ![a] = <<>>] /\ stale' = [stale EXCEPT ![a] = 0]
      /\ stage[a][l] = "none" /\ TakeSlot(a)
      /\ UNCHANGED <<open, cleanup, faults>>
  BY DEF GetReserve
<1>2. CloseIdle(a) \in [Lease -> Stage]
  BY DEF CloseIdle, IInv, TypeOK, Stage
<1>3. /\ stage' \in [Addr -> [Lease -> Stage]]
      /\ stage'[a] = [CloseIdle(a) EXCEPT ![l] = "connecting"]
      /\ \A b \in Addr \ {a} : stage'[b] = stage[b]
  BY <1>1, <1>2 DEF IInv, TypeOK, Stage
<1>4. l \notin Busy(a) /\ Busy(a)' = Busy(a) \cup {l}
  BY <1>1, <1>3 DEF Busy, CloseIdle
<1>5. \A b \in Addr \ {a} : Busy(b)' = Busy(b)
  BY <1>3 DEF Busy
<1>6. inUse' \in [Addr -> Nat] /\ Counted'
  BY <1>1, <1>4, <1>5, SlotTaken DEF IInv
<1>7. TypeOK'
  BY <1>1, <1>3, <1>6, PoolAssumption DEF IInv, TypeOK
<1>8. IdleMatches'
  BY <1>1, <1>3 DEF IInv, TypeOK, IdleMatches
<1> QED
  BY <1>6, <1>7, <1>8 DEF IInv

LEMMA GetExhaustedKeeps ==
  ASSUME IInv, NEW a \in Addr, GetExhausted(a)
  PROVE  IInv'
<1>1. /\ stage' = [stage EXCEPT ![a] = CloseIdle(a)]
      /\ idle' = [idle EXCEPT ![a] = <<>>] /\ stale' = [stale EXCEPT ![a] = 0]
      /\ UNCHANGED <<inUse, open, cleanup, faults>>
  BY DEF GetExhausted
<1>2. CloseIdle(a) \in [Lease -> Stage]
  BY DEF CloseIdle, IInv, TypeOK, Stage
<1>3. /\ stage' \in [Addr -> [Lease -> Stage]]
      /\ stage'[a] = CloseIdle(a)
      /\ \A b \in Addr \ {a} : stage'[b] = stage[b]
  BY <1>1, <1>2 DEF IInv, TypeOK
<1>4. \A b \in Addr : Busy(b)' = Busy(b)
  BY <1>3 DEF Busy, CloseIdle
<1>5. TypeOK'
  BY <1>1, <1>3, PoolAssumption DEF IInv, TypeOK
<1>6. IdleMatches'
  BY <1>1, <1>3 DEF IInv, TypeOK, IdleMatches
<1>7. Counted'
  BY <1>1, <1>4 DEF IInv, Counted
<1> QED
  BY <1>5, <1>6, <1>7 DEF IInv

\* The part of a sequence after its first k elements.
LEMMA Suffix ==
  ASSUME NEW S, NEW s, NEW k \in Nat, NEW n \in Nat, k <= n,
         \A i \in k + 1 .. n : s[i] \in S
  PROVE  /\ SubSeq(s, k + 1, n) \in Seq(S)
         /\ Len(SubSeq(s, k + 1, n)) = n - k
         /\ \A i \in 1 .. n - k : SubSeq(s, k + 1, n)[i] = s[i + k]
<1> DEFINE m == k + 1
           t == SubSeq(s, m, n)
<1>1. m \in Int /\ n \in Int
  OBVIOUS
<1>2. /\ t \in Seq(S)
      /\ Len(t) = IF m <= n THEN n - m + 1 ELSE 0
      /\ \A i \in 1 .. n - m + 1 : t[i] = s[m + i - 1]
  <2> HIDE DEF m
  <2>1. \A i \in m .. n : s[i] \in S
    BY DEF m
  <2> QED
    BY <1>1, <2>1, SubSeqProperties
<1>3. n - m + 1 = n - k
  OBVIOUS
<1>4. ASSUME NEW i \in 1 .. n - k PROVE m + i - 1 = i + k
  OBVIOUS
<1>5. Len(t) = n - k
  BY <1>2
<1> HIDE DEF m, t
<1>6. \A i \in 1 .. n - k : t[i] = s[i + k]
  BY <1>2, <1>3, <1>4
<1> QED
  BY <1>2, <1>5, <1>6 DEF m, t

LEMMA EvictKeeps ==
  ASSUME IInv, Evict
  PROVE  IInv' /\ \A a \in Addr : Busy(a)' = Busy(a)
<1>1. /\ stage' = [a \in Addr |-> [l \in Lease |->
                     IF l \in StaleClients(a) THEN "none" ELSE stage[a][l]]]
      /\ idle' = [a \in Addr |-> SubSeq(idle[a], stale[a] + 1, Len(idle[a]))]
      /\ stale' = [a \in Addr |-> 0]
      /\ UNCHANGED <<inUse, open, cleanup, faults>>
  BY DEF Evict
<1>2. stage' \in [Addr -> [Lease -> Stage]]
  BY <1>1 DEF IInv, TypeOK, Stage
<1>3. ASSUME NEW a \in Addr
      PROVE  /\ idle[a] \in Seq(Lease) /\ stale[a] \in Nat /\ Len(idle[a]) \in Nat
             /\ stale[a] <= Len(idle[a]) /\ Len(idle[a]) <= MaxIdle
             /\ \A i \in 1 .. Len(idle[a]) : idle[a][i] \in Lease /\ stage[a][idle[a][i]] = "idle"
             /\ StaleClients(a) \subseteq {l \in Lease : stage[a][l] = "idle"}
  <2>1. /\ idle[a] \in Seq(Lease) /\ stale[a] \in Nat
        /\ stale[a] <= Len(idle[a]) /\ Len(idle[a]) <= MaxIdle
    BY DEF IInv, TypeOK
  <2>2. Len(idle[a]) \in Nat
    BY <2>1
  <2>3. \A i \in 1 .. Len(idle[a]) : idle[a][i] \in Lease /\ stage[a][idle[a][i]] = "idle"
    BY <2>1 DEF IInv, IdleMatches
  <2>4. \A i \in 1 .. stale[a] : i \in 1 .. Len(idle[a])
    BY <2>1, <2>2
  <2> QED
    BY <2>1, <2>2, <2>3, <2>4 DEF StaleClients
<1>4. ASSUME NEW a \in Addr
      PROVE  /\ idle'[a] \in Seq(Lease)
             /\ Len(idle'[a]) = Len(idle[a]) - stale[a]
             /\ \A i \in 1 .. Len(idle'[a]) : idle'[a][i] = idle[a][i + stale[a]]
  <2>1. idle'[a] = SubSeq(idle[a], stale[a] + 1, Len(idle[a]))
    BY <1>1, <1>4
  <2> DEFINE s == idle[a]
             k == stale[a]
             n == Len(idle[a])
  <2>2. k \in Nat /\ n \in Nat /\ k <= n /\ \A i \in k + 1 .. n : s[i] \in Lease
    BY <1>3
  <2> HIDE DEF s, k, n
  <2>3. /\ SubSeq(s, k + 1, n) \in Seq(Lease)
        /\ Len(SubSeq(s, k + 1, n)) = n - k
        /\ \A i \in 1 .. n - k : SubSeq(s, k + 1, n)[i] = s[i + k]
    BY <2>2, Suffix
  <2> QED
    BY <2>1, <2>3 DEF s, k, n
<1>5. \A a \in Addr : Busy(a)' = Busy(a)
  BY <1>1, <1>3 DEF Busy
<1>6. TypeOK'
  <2>1. idle' \in [Addr -> Seq(Lease)]
    BY <1>1, <1>4
  <2>2. \A a \in Addr : stale'[a] <= Len(idle'[a]) /\ Len(idle'[a]) <= MaxIdle
    BY <1>1, <1>3, <1>4, PoolAssumption
  <2> QED
    BY <2>1, <2>2, <1>1, <1>2 DEF IInv, TypeOK
<1>7. IdleMatches'
  <2> SUFFICES ASSUME NEW a \in Addr
               PROVE  /\ \A i \in 1 .. Len(idle'[a]) : stage'[a][idle'[a][i]] = "idle"
                      /\ \A i, j \in 1 .. Len(idle'[a]) : idle'[a][i] = idle'[a][j] => i = j
    BY DEF IdleMatches
  <2> DEFINE n == Len(idle[a])
             k == stale[a]
  <2>1. \A i, j \in 1 .. n : idle[a][i] = idle[a][j] => i = j
    BY DEF IInv, IdleMatches
  <2>2. \A i \in 1 .. Len(idle'[a]) : i + k \in 1 .. n /\ i + k > k
    BY <1>3, <1>4
  <2>3. \A i \in 1 .. Len(idle'[a]) : idle'[a][i] \notin StaleClients(a)
    <3> SUFFICES ASSUME NEW i \in 1 .. Len(idle'[a]), NEW j \in 1 .. k,
                        idle'[a][i] = idle[a][j]
                 PROVE  FALSE
      BY DEF StaleClients
    <3>1. j \in 1 .. n /\ j <= k
      BY <1>3
    <3>2. i + k = j
      BY <2>1, <2>2, <3>1, <1>4
    <3> QED
      BY <2>2, <3>1, <3>2, <1>3
  <2>4. ASSUME NEW i \in 1 .. Len(idle'[a])
        PROVE  idle'[a][i] \in Lease /\ stage[a][idle'[a][i]] = "idle"
    <3>1. i + k \in 1 .. n /\ idle'[a][i] = idle[a][i + k]
      BY <2>2, <1>4
    <3> HIDE DEF n, k
    <3> QED
      BY <3>1, <1>3 DEF n
  <2>5. \A i \in 1 .. Len(idle'[a]) : stage'[a][idle'[a][i]] = "idle"
    BY <2>3, <2>4, <1>1
  <2>6. \A i, j \in 1 .. Len(idle'[a]) : idle'[a][i] = idle'[a][j] => i = j
    <3> SUFFICES ASSUME NEW i \in 1 .. Len(idle'[a]), NEW j \in 1 .. Len(idle'[a]),
                        idle'[a][i] = idle'[a][j]
                 PROVE  i = j
      OBVIOUS
    <3>1. i + k = j + k
      BY <2>1, <2>2, <1>4
    <3> QED
      BY <3>1, <1>3, <1>4
  <2> QED
    BY <2>5, <2>6
<1>8. Counted'
  BY <1>1, <1>5 DEF IInv, Counted
<1> QED
  BY <1>5, <1>6, <1>7, <1>8 DEF IInv

LEMMA FreeStateKeeps ==
  ASSUME IInv, FreeState
  PROVE  IInv'
<1>1. /\ stage' = [a \in Addr |-> [l \in Lease |-> "none"]]
      /\ idle' = [a \in Addr |-> <<>>] /\ stale' = [a \in Addr |-> 0]
      /\ UNCHANGED <<inUse, open, cleanup, faults>>
  BY DEF FreeState
<1>2. \A a \in Addr : Busy(a)' = Busy(a)
  BY <1>1 DEF FreeState, Busy
<1>3. TypeOK'
  BY <1>1, PoolAssumption DEF IInv, TypeOK, Stage
<1>4. IdleMatches'
  BY <1>1 DEF IdleMatches
<1>5. Counted'
  BY <1>1, <1>2 DEF IInv, Counted
<1> QED
  BY <1>3, <1>4, <1>5 DEF IInv

-----------------------------------------------------------------------------
(* The invariant and what follows from it.                                 *)

LEMMA Initially == Init => IInv
<1> SUFFICES ASSUME Init PROVE IInv
  OBVIOUS
<1>1. TypeOK
  BY PoolAssumption DEF Init, TypeOK, Stage
<1>2. IdleMatches
  BY DEF Init, IdleMatches
<1>3. Counted
  <2>1. \A a \in Addr : Busy(a) = {} /\ inUse[a] = 0
    BY DEF Init, Busy
  <2> QED
    BY <2>1, FS_EmptySet DEF Counted
<1> QED
  BY <1>1, <1>2, <1>3 DEF IInv

LEMMA Stepwise == IInv /\ [Next]_vars => IInv'
<1> SUFFICES ASSUME IInv, [Next]_vars PROVE IInv'
  OBVIOUS
<1>1. ASSUME NEW a \in Addr, Get(a) PROVE IInv'
  BY <1>1, GetReuseKeeps, GetExhaustedKeeps, GetReserveKeeps DEF Get
<1>2. ASSUME NEW a \in Addr, Age(a) PROVE IInv'
  <2>1. \A b \in Addr : Busy(b)' = Busy(b)
    BY <1>2 DEF Age, Busy
  <2>2. TypeOK'
    BY <1>2 DEF IInv, TypeOK, Age
  <2>3. IdleMatches'
    BY <1>2 DEF IInv, IdleMatches, Age
  <2>4. Counted'
    BY <1>2, <2>1 DEF IInv, Counted, Age
  <2> QED
    BY <2>2, <2>3, <2>4 DEF IInv
<1>3. ASSUME NEW a \in Addr, NEW l \in Lease, Settle(a, l) PROVE IInv'
  <2>1. CASE ConnectOk(a, l)
    BY <2>1, StillBusy DEF ConnectOk, BusyStage
  <2>2. CASE ConnectErr(a, l)
    BY <2>2, StillBusy DEF ConnectErr, BusyStage
  <2>3. CASE ReleaseFailed(a, l)
    BY <2>3, ClosedCounted DEF ReleaseFailed, BusyStage
  <2>4. CASE Return(a, l)
    BY <2>4, ReturnKeeps
  <2> QED
    BY <1>3, <2>1, <2>2, <2>3, <2>4 DEF Settle
<1>4. ASSUME NEW a \in Addr, NEW l \in Lease,
             CancelGet(a, l) \/ DropOutsideRuntime(a, l)
      PROVE  IInv'
  BY <1>4, ClosedUncounted DEF CancelGet, DropOutsideRuntime, BusyStage
<1>5. ASSUME NEW a \in Addr, NEW l \in Lease, DropConnection(a, l) PROVE IInv'
  BY <1>5, StillBusy DEF DropConnection, BusyStage
<1>6. CASE Evict
  BY <1>6, EvictKeeps
<1>7. CASE DropPool \/ UNCHANGED vars
  <2>1. UNCHANGED <<stage, idle, stale, inUse, faults>>
    BY <1>7 DEF DropPool, vars
  <2>2. \A a \in Addr : Busy(a)' = Busy(a)
    BY <2>1 DEF Busy
  <2>3. TypeOK'
    BY <1>7, <2>1 DEF IInv, TypeOK, DropPool, vars
  <2>4. IdleMatches'
    BY <2>1 DEF IInv, IdleMatches
  <2>5. Counted'
    BY <2>1, <2>2 DEF IInv, Counted
  <2> QED
    BY <2>3, <2>4, <2>5 DEF IInv
<1>8. CASE FreeState
  BY <1>8, FreeStateKeeps
<1> QED
  BY <1>1, <1>2, <1>3, <1>4, <1>5, <1>6, <1>7, <1>8 DEF Next

LEMMA Invariant == Spec => []IInv
BY Initially, Stepwise, PTL DEF Spec

\* The pool's data keeps its shape: idle lists within MaxIdle, and the stale
\* clients a prefix of the idle list.
THEOREM TypeCorrect == Spec => []TypeOK
BY Invariant, PTL DEF IInv

\* No slot is given up twice: in_use never falls below the clients counted.
THEOREM SlotsCovered == Spec => []SlotsCoverBusy
<1>1. IInv => SlotsCoverBusy
  BY DEF IInv, Counted, SlotsCoverBusy
<1> QED
  BY <1>1, Invariant, PTL

\* Without a cancelled get() or a drop outside of the runtime, in_use is the
\* number of clients in use.
THEOREM ExactWithoutFaults == Spec => []InUseIsExactWithoutFaults
<1>1. IInv => InUseIsExactWithoutFaults
  BY DEF IInv, Counted, InUseIsExactWithoutFaults, InUseIsExact
<1> QED
  BY <1>1, Invariant, PTL

-----------------------------------------------------------------------------
(* The pool implements SocketLimit: only GetReserve opens a client, and    *)
(* when it does every client of the address that stays open is busy.       *)

SocketMap == [a \in Addr |-> Sockets(a)]

LEMMA ClosingStep ==
  ASSUME \A a \in Addr : Sockets(a)' \subseteq Sockets(a)
  PROVE  Limit!Close
<1>1. SocketMap' \in [Addr -> SUBSET Lease]
  BY DEF SocketMap, Sockets
<1> QED
  BY <1>1 DEF Limit!Close, SocketMap

LEMMA MovedOpen ==
  ASSUME TypeOK, NEW a \in Addr, NEW l \in Lease, NEW s \in Stage,
         stage[a][l] # "none", MoveTo(a, l, s)
  PROVE  \A b \in Addr : Sockets(b)' \subseteq Sockets(b)
<1>1. \A b \in Addr, m \in Lease : stage'[b][m] # "none" => stage[b][m] # "none"
  BY Moved
<1> QED
  BY <1>1 DEF Sockets

LEMMA ReserveOpens ==
  ASSUME IInv, NEW a \in Addr, NEW l \in Lease, GetReserve(a, l)
  PROVE  Limit!Next
<1> DEFINE closed == {m \in Lease : stage[a][m] = "idle"}
<1>1. CloseIdle(a) \in [Lease -> Stage]
  BY DEF CloseIdle, IInv, TypeOK, Stage
<1>2. /\ stage'[a] = [CloseIdle(a) EXCEPT ![l] = "connecting"]
      /\ \A b \in Addr \ {a} : stage'[b] = stage[b]
  BY DEF GetReserve, IInv, TypeOK
<1>3. closed \in SUBSET Lease /\ closed \subseteq Sockets(a) /\ l \notin Sockets(a)
  BY DEF Sockets, GetReserve
<1>4. Sockets(a) \ closed = Busy(a)
  BY DEF Sockets, Busy, IInv, TypeOK, Stage
<1>5. Cardinality(Busy(a)) < MaxConn
  <2>1. Cardinality(Busy(a)) <= inUse[a] /\ inUse[a] \in Nat /\ ~(inUse[a] >= MaxConn)
    BY DEF IInv, Counted, TypeOK, GetReserve, AtLimit
  <2> QED
    BY <2>1, BusyFinite, PoolAssumption
<1>6. Sockets(a)' = (Sockets(a) \ closed) \cup {l}
  BY <1>1, <1>2 DEF Sockets, CloseIdle
<1>7. \A b \in Addr \ {a} : Sockets(b)' = Sockets(b)
  BY <1>2 DEF Sockets
<1>8. SocketMap' = [SocketMap EXCEPT ![a] = (Sockets(a) \ closed) \cup {l}]
  BY <1>6, <1>7 DEF SocketMap
<1>9. SocketMap[a] = Sockets(a)
  BY DEF SocketMap
<1>10. Limit!Cardinality(Busy(a)) < MaxConn
  BY <1>5 DEF Cardinality, Limit!Cardinality
<1> HIDE DEF closed
<1>11. Limit!Open(a, l, closed)
  BY <1>3, <1>4, <1>8, <1>9, <1>10 DEF Limit!Open, SocketMap
<1> QED
  BY <1>3, <1>11 DEF Limit!Next

LEMMA StepRefines == IInv /\ [Next]_vars => [Limit!Next]_SocketMap
<1> SUFFICES ASSUME IInv, [Next]_vars
             PROVE  Limit!Next \/ UNCHANGED SocketMap
  OBVIOUS
<1>1. ASSUME NEW a \in Addr, GetReuse(a)
      PROVE  Limit!Close
  <2> DEFINE l == idle[a][Len(idle[a])]
  <2>1. Len(idle[a]) \in Nat /\ Len(idle[a]) >= 1 /\ idle[a] \in Seq(Lease)
    BY <1>1 DEF IInv, TypeOK, GetReuse, AllStale
  <2>2. l \in Lease /\ stage[a][l] = "idle" /\ MoveTo(a, l, "held")
    BY <1>1, <2>1 DEF IInv, IdleMatches, GetReuse
  <2> HIDE DEF l
  <2> QED
    BY <2>2, MovedOpen, ClosingStep DEF IInv, Stage
<1>2. ASSUME NEW a \in Addr, GetExhausted(a)
      PROVE  Limit!Close
  <2>1. stage' = [stage EXCEPT ![a] = CloseIdle(a)]
    BY <1>2 DEF GetExhausted
  <2>2. \A b \in Addr, m \in Lease : stage'[b][m] # "none" => stage[b][m] # "none"
    BY <2>1 DEF IInv, TypeOK, CloseIdle
  <2> QED
    BY <2>2, ClosingStep DEF Sockets
<1>3. ASSUME NEW a \in Addr, NEW l \in Lease,
             \/ Settle(a, l) \/ CancelGet(a, l)
             \/ DropConnection(a, l) \/ DropOutsideRuntime(a, l)
      PROVE  Limit!Close
  <2>1. stage[a][l] # "none" /\ \E s \in Stage : MoveTo(a, l, s)
    BY <1>3 DEF Settle, ConnectOk, ConnectErr, ReleaseFailed, Return, CancelGet,
                DropConnection, DropOutsideRuntime, Stage
  <2> QED
    BY <2>1, MovedOpen, ClosingStep DEF IInv
<1>4. CASE Evict \/ FreeState
  <2>1. \A b \in Addr, m \in Lease : stage'[b][m] # "none" => stage[b][m] # "none"
    BY <1>4 DEF Evict, FreeState
  <2> QED
    BY <2>1, ClosingStep DEF Sockets, Limit!Next
<1>5. CASE (\E a \in Addr : Age(a)) \/ DropPool \/ UNCHANGED vars
  <2>1. UNCHANGED stage
    BY <1>5 DEF Age, DropPool, vars
  <2> QED
    BY <2>1 DEF SocketMap, Sockets
<1> QED
  BY <1>1, <1>2, <1>3, <1>4, <1>5, ReserveOpens DEF Next, Get, Limit!Next

\* PoolConfig's limit holds for all the clients of an address that exist, the
\* idle ones and those on their way back included, under every fault.
THEOREM Refines == Spec => ImplementsSocketLimit
<1>1. Init => Limit!Init
  BY DEF Init, Limit!Init, Sockets
<1>2. IInv /\ [Next]_vars => [Limit!Next]_SocketMap
  BY StepRefines
<1> QED
  BY <1>1, <1>2, Invariant, PTL DEF Spec, ImplementsSocketLimit, Limit!Spec, SocketMap

=============================================================================
