------------------------ MODULE ServerChain_proofs --------------------------
(***************************************************************************)
(* Proofs about ServerChain, for any number of calls, any limits and any   *)
(* set of orders of the filters.                                           *)
(*                                                                         *)
(* A limit is kept because a counter covers the calls inside the filter,   *)
(* and that is only inductive if one says which calls a counter covers at  *)
(* every step between the filter's own: those further in, those on their   *)
(* way out, and for the active limiter those about to undo their           *)
(* increment.  The counts of the three filters do not depend on each other *)
(* but all change when one call moves: the first lemmas say how.           *)
(***************************************************************************)
EXTENDS ServerChain, TLAPS, FiniteSetTheorems

Undoing == {c \in Call : Is(c, "active", "undo")}

\* A call that has not arrived is outside.
NewIsOutside == \A c \in Call : step[c] = "new" => at[c] = 0

ActiveCovers == InChain("active") =>
  /\ Cardinality(Counted("active")) + Cardinality(Undoing) <= active
  /\ active <= MaxActive + Cardinality(Undoing)
  /\ Cardinality(Counted("active")) <= MaxActive

IInv == TypeOK /\ NewIsOutside /\ PermitsAddUp /\ InFlightIsExact /\ ActiveCovers

-----------------------------------------------------------------------------
(* Sets of calls that differ in one call.                                  *)

LEMMA CallsFinite ==
  ASSUME NEW S \in SUBSET Call
  PROVE  IsFiniteSet(S) /\ Cardinality(S) \in Nat
BY FS_Subset, FS_CardinalityType, ChainAssumption

LEMMA Changed ==
  ASSUME NEW S \in SUBSET Call, NEW T \in SUBSET Call, NEW c \in Call,
         \A d \in Call \ {c} : d \in S <=> d \in T
  PROVE  /\ (c \in S <=> c \in T) => T = S
         /\ c \notin S /\ c \in T => Cardinality(T) = Cardinality(S) + 1
         /\ c \in S /\ c \notin T => Cardinality(T) = Cardinality(S) - 1
<1>1. ASSUME c \in S <=> c \in T PROVE T = S
  BY <1>1
<1>2. ASSUME c \notin S, c \in T PROVE Cardinality(T) = Cardinality(S) + 1
  <2>1. T = S \cup {c}
    BY <1>2
  <2> QED
    BY <1>2, <2>1, CallsFinite, FS_AddElement
<1>3. ASSUME c \in S, c \notin T PROVE Cardinality(T) = Cardinality(S) - 1
  <2>1. S = T \cup {c}
    BY <1>3
  <2>2. Cardinality(S) = Cardinality(T) + 1
    BY <1>3, <2>1, CallsFinite, FS_AddElement
  <2> QED
    BY <2>2, CallsFinite
<1> QED
  BY <1>1, <1>2, <1>3

-----------------------------------------------------------------------------
(* The place of a filter in its chain.                                     *)

LEMMA ChainIsSeq ==
  ASSUME TypeOK
  PROVE  /\ chain \in Seq(Filter)
         /\ Len(chain) \in Nat /\ DOMAIN chain = 1 .. Len(chain)
         /\ \A i, j \in DOMAIN chain : chain[i] = chain[j] => i = j
BY ChainAssumption DEF TypeOK

LEMMA Place ==
  ASSUME TypeOK, NEW f \in Filter, InChain(f)
  PROVE  /\ Position(f) \in DOMAIN chain
         /\ Position(f) \in 1 .. Len(chain)
         /\ \A i \in DOMAIN chain : chain[i] = f <=> i = Position(f)
<1>1. Position(f) \in DOMAIN chain /\ chain[Position(f)] = f
  BY DEF InChain, Position
<1> QED
  BY <1>1, ChainIsSeq

LEMMA ChainFixed ==
  ASSUME TypeOK, chain' = chain, NEW f \in Filter
  PROVE  InChain(f)' = InChain(f) /\ Position(f)' = Position(f)
BY DEF InChain, Position

\* Would a call at node n, about to do s there, be one that filter f counts?
CountedAt(f, n, s) == n > Position(f) \/ (n = Position(f) /\ s = "out")
UndoingAt(n, s) == n = Position("active") /\ s = "undo"

\* Call c goes to node n, to do s there; nothing else moves.
Goes(c, n, s) ==
  /\ at' = [at EXCEPT ![c] = n]
  /\ step' = [step EXCEPT ![c] = s]
  /\ chain' = chain

LEMMA CountedMembers ==
  ASSUME TypeOK, NEW c \in Call, NEW f \in Filter, InChain(f)
  PROVE  c \in Counted(f) <=> CountedAt(f, at[c], step[c])
BY Place DEF Counted, Inside, Is, CountedAt, TypeOK

LEMMA UndoingMembers ==
  ASSUME TypeOK, NEW c \in Call, InChain("active")
  PROVE  c \in Undoing <=> UndoingAt(at[c], step[c])
BY Place DEF Undoing, Is, UndoingAt, TypeOK, Filter

LEMMA CountedMoves ==
  ASSUME TypeOK, NEW c \in Call, NEW n \in Nat, NEW s, Goes(c, n, s),
         NEW f \in Filter, InChain(f)
  PROVE  LET was == CountedAt(f, at[c], step[c])
             is == CountedAt(f, n, s)
         IN  /\ (was <=> is) => Counted(f)' = Counted(f)
             /\ ~was /\ is => Cardinality(Counted(f)') = Cardinality(Counted(f)) + 1
             /\ was /\ ~is => Cardinality(Counted(f)') = Cardinality(Counted(f)) - 1
<1>1. Counted(f) \in SUBSET Call /\ Counted(f)' \in SUBSET Call
  BY DEF Counted, Inside
<1>2. ASSUME NEW d \in Call \ {c} PROVE d \in Counted(f) <=> d \in Counted(f)'
  BY ChainFixed DEF Goes, Counted, Inside, Is, TypeOK
<1>3. c \in Counted(f) <=> CountedAt(f, at[c], step[c])
  BY CountedMembers
<1>4. c \in Counted(f)' <=> CountedAt(f, n, s)
  <2>1. at'[c] = n /\ step'[c] = s
    BY DEF Goes, TypeOK
  <2>2. c \in Counted(f)' <=> n > Position(f) \/ (n \in DOMAIN chain /\ chain[n] = f /\ s = "out")
    BY <2>1, ChainFixed DEF Goes, Counted, Inside, Is
  <2> QED
    BY <2>2, Place DEF CountedAt
<1>5. /\ (c \in Counted(f) <=> c \in Counted(f)') => Counted(f)' = Counted(f)
      /\ c \notin Counted(f) /\ c \in Counted(f)' =>
           Cardinality(Counted(f)') = Cardinality(Counted(f)) + 1
      /\ c \in Counted(f) /\ c \notin Counted(f)' =>
           Cardinality(Counted(f)') = Cardinality(Counted(f)) - 1
  BY ONLY <1>1, <1>2, Changed, c \in Call
<1> QED
  BY <1>3, <1>4, <1>5

LEMMA UndoingMoves ==
  ASSUME TypeOK, NEW c \in Call, NEW n \in Nat, NEW s, Goes(c, n, s), InChain("active")
  PROVE  LET was == UndoingAt(at[c], step[c])
             is == UndoingAt(n, s)
         IN  /\ (was <=> is) => Undoing' = Undoing
             /\ ~was /\ is => Cardinality(Undoing') = Cardinality(Undoing) + 1
             /\ was /\ ~is => Cardinality(Undoing') = Cardinality(Undoing) - 1
<1>1. Undoing \in SUBSET Call /\ Undoing' \in SUBSET Call
  BY DEF Undoing
<1>2. ASSUME NEW d \in Call \ {c} PROVE d \in Undoing <=> d \in Undoing'
  BY DEF Goes, Undoing, Is, TypeOK
<1>3. c \in Undoing <=> UndoingAt(at[c], step[c])
  BY UndoingMembers
<1>4. c \in Undoing' <=> UndoingAt(n, s)
  <2>1. at'[c] = n /\ step'[c] = s
    BY DEF Goes, TypeOK
  <2>2. c \in Undoing' <=> n \in DOMAIN chain /\ chain[n] = "active" /\ s = "undo"
    BY <2>1 DEF Goes, Undoing, Is
  <2> QED
    BY <2>2, Place DEF UndoingAt, Filter
<1>5. /\ (c \in Undoing <=> c \in Undoing') => Undoing' = Undoing
      /\ c \notin Undoing /\ c \in Undoing' =>
           Cardinality(Undoing') = Cardinality(Undoing) + 1
      /\ c \in Undoing /\ c \notin Undoing' =>
           Cardinality(Undoing') = Cardinality(Undoing) - 1
  BY ONLY <1>1, <1>2, Changed, c \in Call
<1> QED
  BY <1>3, <1>4, <1>5

-----------------------------------------------------------------------------
(* What each kind of move does to the sets of calls that are counted.      *)

\* The types and the place of all calls, after one that goes to n.
LEMMA GoesKeeps ==
  ASSUME TypeOK, NewIsOutside, NEW c \in Call, NEW n \in 0 .. InnerEnd,
         NEW s \in {"new", "in", "count", "undo", "out", "notify"},
         Goes(c, n, s), s = "new" => n = 0
  PROVE  /\ at' \in [Call -> 0 .. Len(chain') + 1]
         /\ step' \in [Call -> {"new", "in", "count", "undo", "out", "notify"}]
         /\ NewIsOutside'
BY ChainIsSeq DEF TypeOK, NewIsOutside, Goes, InnerEnd

\* A call that goes further in is counted by the filter it goes in from.
LEMMA InwardMoves ==
  ASSUME TypeOK, NewIsOutside, NEW c \in Call, at[c] \in 0 .. Len(chain),
         step[c] \notin {"out", "undo"}, Inward(c), chain' = chain
  PROVE  /\ at' \in [Call -> 0 .. Len(chain') + 1]
         /\ step' \in [Call -> {"new", "in", "count", "undo", "out", "notify"}]
         /\ NewIsOutside'
         /\ InChain("active") => Undoing' = Undoing
         /\ \A f \in Filter : InChain(f) =>
              IF at[c] = Position(f)
                THEN Cardinality(Counted(f)') = Cardinality(Counted(f)) + 1
                ELSE Counted(f)' = Counted(f)
<1> DEFINE n == at[c] + 1
<1>1. n \in 0 .. InnerEnd /\ n \in Nat /\ Goes(c, n, "in")
  BY ChainIsSeq DEF Inward, Goes, InnerEnd
<1>2. InChain("active") => Undoing' = Undoing
  <2>1. ~UndoingAt(at[c], step[c]) /\ ~UndoingAt(n, "in")
    BY DEF UndoingAt
  <2> QED
    BY <1>1, <2>1, UndoingMoves
<1>3. ASSUME NEW f \in Filter, InChain(f)
      PROVE  IF at[c] = Position(f)
               THEN Cardinality(Counted(f)') = Cardinality(Counted(f)) + 1
               ELSE Counted(f)' = Counted(f)
  <2>1. Position(f) \in Nat
    BY <1>3, Place
  <2>2. CountedAt(f, at[c], step[c]) <=> at[c] > Position(f)
    BY DEF CountedAt
  <2>3. CountedAt(f, n, "in") <=> at[c] > Position(f) \/ at[c] = Position(f)
    BY <2>1 DEF CountedAt
  <2> QED
    BY <1>1, <1>3, <2>1, <2>2, <2>3, CountedMoves
<1>4. /\ at' \in [Call -> 0 .. Len(chain') + 1]
      /\ step' \in [Call -> {"new", "in", "count", "undo", "out", "notify"}]
      /\ NewIsOutside'
  BY <1>1, GoesKeeps
<1> QED
  BY <1>2, <1>3, <1>4

\* A call that returns is no longer counted by the filter it returns from, and
\* still by those outside of it.
LEMMA OutwardMoves ==
  ASSUME TypeOK, NewIsOutside, NEW c \in Call, NEW o,
         at[c] \in 1 .. InnerEnd, Outward(c, o), chain' = chain
  PROVE  /\ at' \in [Call -> 0 .. Len(chain') + 1]
         /\ step' \in [Call -> {"new", "in", "count", "undo", "out", "notify"}]
         /\ NewIsOutside'
         /\ InChain("active") =>
              IF UndoingAt(at[c], step[c])
                THEN Cardinality(Undoing') = Cardinality(Undoing) - 1
                ELSE Undoing' = Undoing
         /\ \A f \in Filter : InChain(f) =>
              IF at[c] = Position(f) /\ step[c] = "out"
                THEN Cardinality(Counted(f)') = Cardinality(Counted(f)) - 1
                ELSE Counted(f)' = Counted(f)
<1> DEFINE n == at[c] - 1
           s == IF at[c] = 1 THEN "new" ELSE "out"
<1>1. n \in 0 .. InnerEnd /\ n \in Nat /\ Goes(c, n, s) /\ (s = "new" => n = 0)
  BY ChainIsSeq DEF Outward, Goes, InnerEnd
<1>2. ASSUME InChain("active")
      PROVE  IF UndoingAt(at[c], step[c])
               THEN Cardinality(Undoing') = Cardinality(Undoing) - 1
               ELSE Undoing' = Undoing
  <2>1. ~UndoingAt(n, s)
    BY DEF UndoingAt
  <2> QED
    BY <1>1, <1>2, <2>1, UndoingMoves
<1>3. ASSUME NEW f \in Filter, InChain(f)
      PROVE  IF at[c] = Position(f) /\ step[c] = "out"
               THEN Cardinality(Counted(f)') = Cardinality(Counted(f)) - 1
               ELSE Counted(f)' = Counted(f)
  <2>1. Position(f) \in Nat \ {0}
    BY <1>3, Place, ChainIsSeq
  <2>2. CountedAt(f, n, s) <=> at[c] > Position(f)
    BY <2>1, ChainIsSeq DEF CountedAt, InnerEnd
  <2>3. CountedAt(f, at[c], step[c]) <=>
          at[c] > Position(f) \/ (at[c] = Position(f) /\ step[c] = "out")
    BY DEF CountedAt
  <2> HIDE DEF n, s
  <2> QED
    BY <1>1, <1>3, <2>1, <2>2, <2>3, CountedMoves, ChainIsSeq DEF InnerEnd
<1>4. /\ at' \in [Call -> 0 .. Len(chain') + 1]
      /\ step' \in [Call -> {"new", "in", "count", "undo", "out", "notify"}]
      /\ NewIsOutside'
  <2>1. s \in {"new", "in", "count", "undo", "out", "notify"}
    OBVIOUS
  <2> HIDE DEF n, s
  <2> QED
    BY <1>1, <2>1, GoesKeeps
<1> QED
  BY <1>2, <1>3, <1>4

\* A call that stays at a filter, which counts it out or has it undo.
LEMMA StayMoves ==
  ASSUME TypeOK, NewIsOutside, NEW c \in Call, NEW s \in {"count", "undo", "notify"},
         at[c] \in 1 .. Len(chain), step[c] # "undo", Stay(c, s), chain' = chain
  PROVE  /\ at' \in [Call -> 0 .. Len(chain') + 1]
         /\ step' \in [Call -> {"new", "in", "count", "undo", "out", "notify"}]
         /\ NewIsOutside'
         /\ InChain("active") =>
              IF UndoingAt(at[c], s)
                THEN Cardinality(Undoing') = Cardinality(Undoing) + 1
                ELSE Undoing' = Undoing
         /\ \A f \in Filter : InChain(f) =>
              IF at[c] = Position(f) /\ step[c] = "out"
                THEN Cardinality(Counted(f)') = Cardinality(Counted(f)) - 1
                ELSE Counted(f)' = Counted(f)
<1>1. at[c] \in 0 .. InnerEnd /\ at[c] \in Nat /\ Goes(c, at[c], s)
  BY ChainIsSeq DEF Stay, Goes, InnerEnd, TypeOK
<1>2. InChain("active") =>
        IF UndoingAt(at[c], s)
          THEN Cardinality(Undoing') = Cardinality(Undoing) + 1
          ELSE Undoing' = Undoing
  <2>1. ~UndoingAt(at[c], step[c])
    BY DEF UndoingAt
  <2> QED
    BY <1>1, <2>1, UndoingMoves
<1>3. ASSUME NEW f \in Filter, InChain(f)
      PROVE  IF at[c] = Position(f) /\ step[c] = "out"
               THEN Cardinality(Counted(f)') = Cardinality(Counted(f)) - 1
               ELSE Counted(f)' = Counted(f)
  <2>1. Position(f) \in Nat
    BY <1>3, Place
  <2>2. CountedAt(f, at[c], s) <=> at[c] > Position(f)
    BY DEF CountedAt
  <2>3. CountedAt(f, at[c], step[c]) <=>
          at[c] > Position(f) \/ (at[c] = Position(f) /\ step[c] = "out")
    BY DEF CountedAt
  <2> QED
    BY <1>1, <1>3, <2>1, <2>2, <2>3, CountedMoves
<1>4. /\ at' \in [Call -> 0 .. Len(chain') + 1]
      /\ step' \in [Call -> {"new", "in", "count", "undo", "out", "notify"}]
      /\ NewIsOutside'
  BY <1>1, GoesKeeps
<1> QED
  BY <1>2, <1>3, <1>4

\* A call that is dropped in the service leaves the count of every filter.
LEMMA CancelMoves ==
  ASSUME TypeOK, NewIsOutside, NEW c \in Call, Cancel(c)
  PROVE  /\ at' \in [Call -> 0 .. Len(chain') + 1]
         /\ step' \in [Call -> {"new", "in", "count", "undo", "out", "notify"}]
         /\ NewIsOutside'
         /\ InChain("active") => Undoing' = Undoing
         /\ \A f \in Filter : InChain(f) =>
              Cardinality(Counted(f)') = Cardinality(Counted(f)) - 1
<1>1. 0 \in 0 .. InnerEnd /\ 0 \in Nat /\ Goes(c, 0, "new") /\ at[c] = InnerEnd
  BY ChainIsSeq DEF Cancel, config, Goes, InnerEnd
<1>2. InChain("active") => Undoing' = Undoing
  <2>1. InChain("active") => ~UndoingAt(at[c], step[c])
    BY <1>1, Place, ChainIsSeq DEF UndoingAt, InnerEnd, Filter
  <2>2. ~UndoingAt(0, "new")
    BY DEF UndoingAt
  <2> QED
    BY <1>1, <2>1, <2>2, UndoingMoves
<1>3. ASSUME NEW f \in Filter, InChain(f)
      PROVE  Cardinality(Counted(f)') = Cardinality(Counted(f)) - 1
  <2>1. Position(f) \in 1 .. Len(chain)
    BY <1>3, Place
  <2>2. ~CountedAt(f, 0, "new") /\ CountedAt(f, at[c], step[c])
    BY <1>1, <2>1, ChainIsSeq DEF CountedAt, InnerEnd
  <2> QED
    BY <1>1, <1>3, <2>2, CountedMoves
<1>4. /\ at' \in [Call -> 0 .. Len(chain') + 1]
      /\ step' \in [Call -> {"new", "in", "count", "undo", "out", "notify"}]
      /\ NewIsOutside'
  BY <1>1, GoesKeeps
<1> QED
  BY <1>2, <1>3, <1>4

-----------------------------------------------------------------------------
(* The steps keep the invariant.                                           *)

\* A call that is about to do something at f is at no other filter.
LEMMA AtFilter ==
  ASSUME TypeOK, NEW c \in Call, NEW f \in Filter, NEW s, Is(c, f, s)
  PROVE  /\ InChain(f) /\ at[c] = Position(f) /\ at[c] \in 1 .. Len(chain)
         /\ step[c] = s
         /\ \A g \in Filter \ {f} : InChain(g) => at[c] # Position(g)
<1>1. at[c] \in DOMAIN chain /\ chain[at[c]] = f /\ step[c] = s
  BY DEF Is
<1>2. InChain(f)
  BY <1>1 DEF InChain
<1> QED
  BY <1>1, <1>2, Place, ChainIsSeq

LEMMA SetsFinite ==
  /\ \A f \in Filter : Cardinality(Counted(f)) \in Nat /\ Cardinality(Counted(f)') \in Nat
  /\ Cardinality(Undoing) \in Nat /\ Cardinality(Undoing') \in Nat
  /\ Cardinality(Undoing') <= Cardinality(Call)
  /\ Cardinality(Call) \in Nat
<1>1. \A f \in Filter : Counted(f) \in SUBSET Call /\ Counted(f)' \in SUBSET Call
  BY DEF Counted, Inside
<1>2. Undoing \in SUBSET Call /\ Undoing' \in SUBSET Call
  BY DEF Undoing
<1> QED
  BY <1>1, <1>2, CallsFinite, FS_Subset, ChainAssumption

\* A step that changes neither the counters nor the calls they count.
LEMMA SameCounts ==
  ASSUME IInv, TypeOK', NewIsOutside', chain' = chain, dropped' = dropped,
         UNCHANGED counts,
         InChain("active") => Undoing' = Undoing,
         \A f \in Filter : InChain(f) => Counted(f)' = Counted(f)
  PROVE  IInv'
<1>1. \A f \in Filter : InChain(f)' = InChain(f)
  BY ChainFixed DEF IInv
<1>2. PermitsAddUp'
  BY <1>1 DEF IInv, PermitsAddUp, counts, Filter
<1>3. InFlightIsExact'
  BY <1>1 DEF IInv, InFlightIsExact, counts, Filter
<1>4. ActiveCovers'
  BY <1>1 DEF IInv, ActiveCovers, counts, Filter
<1> QED
  BY <1>2, <1>3, <1>4 DEF IInv

\* Steps of a call that change no counter.
LEMMA ArriveKeeps ==
  ASSUME IInv, NEW c \in Call, Arrive(c)
  PROVE  IInv'
<1>1. /\ TypeOK /\ NewIsOutside /\ at[c] = 0 /\ step[c] = "new" /\ Inward(c)
      /\ chain' = chain /\ dropped' = dropped /\ outcome' = outcome
      /\ UNCHANGED <<config, flag, counts, instance>>
  BY DEF IInv, NewIsOutside, Arrive, Inward, config
<1>2. at[c] \in 0 .. Len(chain)
  BY <1>1, ChainIsSeq
<1>3. TypeOK' /\ NewIsOutside'
  BY <1>1, <1>2, InwardMoves DEF TypeOK, config, counts, instance
<1>4. \A f \in Filter : InChain(f) => at[c] # Position(f)
  BY <1>1, Place
<1>5. /\ InChain("active") => Undoing' = Undoing
      /\ \A f \in Filter : InChain(f) => Counted(f)' = Counted(f)
  BY <1>1, <1>2, <1>4, InwardMoves
<1> QED
  BY <1>1, <1>3, <1>5, SameCounts

LEMMA ServeKeeps ==
  ASSUME IInv, NEW c \in Call, Serve(c)
  PROVE  IInv'
<1>1. PICK o \in {"ok", "err"} : Outward(c, o)
  BY DEF Serve
<1>2. /\ TypeOK /\ NewIsOutside /\ at[c] = InnerEnd
      /\ chain' = chain /\ dropped' = dropped
      /\ UNCHANGED <<config, flag, counts, instance>>
  BY <1>1 DEF IInv, Serve, Outward, config
<1>3. at[c] \in 1 .. InnerEnd
  BY <1>2, ChainIsSeq DEF InnerEnd
<1>4. outcome' \in [Call -> {"none", "ok", "err"}]
  BY <1>1, <1>2 DEF TypeOK, Outward
<1>5. TypeOK' /\ NewIsOutside'
  BY <1>1, <1>2, <1>3, <1>4, OutwardMoves DEF TypeOK, config, counts, instance
<1>6. \A f \in Filter : InChain(f) => at[c] # Position(f)
  BY <1>2, Place, ChainIsSeq DEF InnerEnd
<1>7. InChain("active") => ~UndoingAt(at[c], step[c])
  BY <1>6 DEF UndoingAt, Filter
<1>8. /\ InChain("active") => Undoing' = Undoing
      /\ \A f \in Filter : InChain(f) => Counted(f)' = Counted(f)
  BY <1>1, <1>2, <1>3, <1>6, <1>7, OutwardMoves
<1> QED
  BY <1>2, <1>5, <1>8, SameCounts

\* A call turned back at a filter that has not counted it.
LEMMA TurnedBackKeeps ==
  ASSUME IInv, NEW c \in Call, NEW f \in Filter, NEW s \in {"in", "notify"}, Is(c, f, s),
         NEW o \in {"none", "ok", "err"}, Outward(c, o),
         UNCHANGED <<config, flag, counts, registered, toGo>>,
         stage' \in {stage, "completed"}
  PROVE  IInv'
<1>1. /\ TypeOK /\ NewIsOutside /\ chain' = chain /\ dropped' = dropped
      /\ step[c] = s /\ step[c] # "out" /\ step[c] # "undo"
  BY DEF IInv, Outward, config, Is
<1>2. at[c] \in 1 .. InnerEnd
  BY <1>1, AtFilter, ChainIsSeq DEF InnerEnd
<1>3. outcome' \in [Call -> {"none", "ok", "err"}]
  BY <1>1 DEF TypeOK, Outward
<1>4. TypeOK' /\ NewIsOutside'
  BY <1>1, <1>2, <1>3, OutwardMoves DEF TypeOK, config, counts
<1>5. ~UndoingAt(at[c], step[c])
  BY <1>1 DEF UndoingAt
<1>6. /\ InChain("active") => Undoing' = Undoing
      /\ \A g \in Filter : InChain(g) => Counted(g)' = Counted(g)
  BY <1>1, <1>2, <1>5, OutwardMoves
<1> QED
  BY <1>1, <1>4, <1>6, SameCounts

LEMMA AdmitKeeps ==
  ASSUME IInv, NEW c \in Call, Admit(c)
  PROVE  IInv'
<1>1. /\ TypeOK /\ NewIsOutside /\ Is(c, "shutdown", "in") /\ step[c] = "in"
      /\ "shutdown" \in Filter /\ chain' = chain
      /\ UNCHANGED <<config, flag, counts, instance>>
  BY DEF IInv, Admit, Is, Filter, config
<1>2. CASE flag
  BY <1>1, <1>2, TurnedBackKeeps DEF Admit, instance
<1>3. CASE ~flag
  <2>1. Stay(c, "count") /\ at[c] \in 1 .. Len(chain) /\ dropped' = dropped
    BY <1>1, <1>3, AtFilter DEF Admit, Stay
  <2>2. TypeOK' /\ NewIsOutside'
    BY <1>1, <2>1, StayMoves DEF TypeOK, config, counts, instance, Stay
  <2>3. /\ InChain("active") => Undoing' = Undoing
        /\ \A f \in Filter : InChain(f) => Counted(f)' = Counted(f)
    BY <1>1, <2>1, StayMoves DEF UndoingAt
  <2> QED
    BY <1>1, <2>1, <2>2, <2>3, SameCounts
<1> QED
  BY <1>2, <1>3

LEMMA NotifyKeeps ==
  ASSUME IInv, NEW c \in Call, Notify(c)
  PROVE  IInv'
<1>1. outcome[c] \in {"none", "ok", "err"} /\ "shutdown" \in Filter
  BY DEF IInv, TypeOK, Filter
<1> QED
  BY <1>1, TurnedBackKeeps DEF Notify

-----------------------------------------------------------------------------
(* Steps that change a counter.  Each is at the filter of that counter, so *)
(* the other two see nothing of it.                                        *)

LEMMA CountInKeeps ==
  ASSUME IInv, NEW c \in Call, CountIn(c)
  PROVE  IInv'
<1>1. /\ TypeOK /\ NewIsOutside /\ Is(c, "shutdown", "count") /\ step[c] = "count"
      /\ "shutdown" \in Filter /\ chain' = chain /\ Inward(c) /\ dropped' = dropped
      /\ inFlight' = inFlight + 1 /\ outcome' = outcome
      /\ UNCHANGED <<config, flag, active, permits, instance>>
  BY DEF IInv, CountIn, Is, Filter, config, Inward
<1>2. at[c] \in 0 .. Len(chain)
  BY <1>1, AtFilter
<1>3. /\ InChain("active") => Undoing' = Undoing
      /\ Cardinality(Counted("shutdown")') = Cardinality(Counted("shutdown")) + 1
      /\ \A g \in Filter \ {"shutdown"} : InChain(g) => Counted(g)' = Counted(g)
  BY <1>1, <1>2, AtFilter, InwardMoves
<1>4. TypeOK' /\ NewIsOutside'
  BY <1>1, <1>2, InwardMoves DEF TypeOK, config, instance
<1>5. \A g \in Filter : InChain(g)' = InChain(g)
  BY <1>1, ChainFixed
<1>6. InFlightIsExact'
  <2>1. InChain("shutdown") /\ dropped \in Nat
    BY <1>1, AtFilter DEF TypeOK
  <2> QED
    BY <1>1, <1>3, <2>1, SetsFinite DEF IInv, InFlightIsExact
<1>7. PermitsAddUp' /\ ActiveCovers'
  BY <1>1, <1>3, <1>5 DEF IInv, PermitsAddUp, ActiveCovers, Filter
<1> QED
  BY <1>4, <1>6, <1>7 DEF IInv

LEMMA CountOutKeeps ==
  ASSUME IInv, NEW c \in Call, CountOut(c)
  PROVE  IInv'
<1>1. /\ TypeOK /\ NewIsOutside /\ Is(c, "shutdown", "out") /\ step[c] = "out"
      /\ "shutdown" \in Filter /\ chain' = chain /\ dropped' = dropped
      /\ inFlight' = inFlight - 1
      /\ Stay(c, "notify") \/ Outward(c, outcome[c])
      /\ UNCHANGED <<config, flag, active, permits, instance>>
  BY DEF IInv, CountOut, Is, Filter, config, Stay, Outward
<1>2. at[c] \in 1 .. Len(chain) /\ at[c] \in 1 .. InnerEnd
  BY <1>1, AtFilter, ChainIsSeq DEF InnerEnd
<1>3. ~UndoingAt(at[c], step[c]) /\ ~UndoingAt(at[c], "notify")
  BY <1>1 DEF UndoingAt
<1>4. /\ InChain("active") => Undoing' = Undoing
      /\ Cardinality(Counted("shutdown")') = Cardinality(Counted("shutdown")) - 1
      /\ \A g \in Filter \ {"shutdown"} : InChain(g) => Counted(g)' = Counted(g)
      /\ at' \in [Call -> 0 .. Len(chain') + 1]
      /\ step' \in [Call -> {"new", "in", "count", "undo", "out", "notify"}]
      /\ NewIsOutside'
  <2>1. CASE Stay(c, "notify")
    BY <1>1, <1>2, <1>3, <2>1, AtFilter, StayMoves
  <2>2. CASE Outward(c, outcome[c])
    BY <1>1, <1>2, <1>3, <2>2, AtFilter, OutwardMoves
  <2> QED
    BY <1>1, <2>1, <2>2
<1>5. InFlightIsExact' /\ inFlight' \in Nat
  <2>1. InChain("shutdown") /\ dropped \in Nat
    BY <1>1, AtFilter DEF TypeOK
  <2> QED
    BY <1>1, <1>4, <2>1, SetsFinite DEF IInv, InFlightIsExact
<1>6. outcome' \in [Call -> {"none", "ok", "err"}]
  BY <1>1 DEF TypeOK, Stay, Outward
<1>7. TypeOK'
  BY <1>1, <1>4, <1>5, <1>6 DEF TypeOK, config, instance
<1>8. PermitsAddUp' /\ ActiveCovers'
  <2>1. \A g \in Filter : InChain(g)' = InChain(g)
    BY <1>1, ChainFixed
  <2> QED
    BY <1>1, <1>4, <2>1 DEF IInv, PermitsAddUp, ActiveCovers, Filter
<1> QED
  BY <1>4, <1>5, <1>7, <1>8 DEF IInv

LEMMA AcquireKeeps ==
  ASSUME IInv, NEW c \in Call, Acquire(c)
  PROVE  IInv'
<1>1. /\ TypeOK /\ NewIsOutside /\ Is(c, "execute", "in") /\ step[c] = "in"
      /\ "execute" \in Filter /\ chain' = chain
      /\ UNCHANGED <<config, flag, inFlight, active, instance>>
  BY DEF IInv, Acquire, Is, Filter, config
<1>2. CASE permits > 0
  <2>1. permits' = permits - 1 /\ Inward(c) /\ dropped' = dropped /\ outcome' = outcome
    BY <1>2 DEF Acquire, Inward
  <2>2. at[c] \in 0 .. Len(chain)
    BY <1>1, AtFilter
  <2>3. /\ InChain("active") => Undoing' = Undoing
        /\ Cardinality(Counted("execute")') = Cardinality(Counted("execute")) + 1
        /\ \A g \in Filter \ {"execute"} : InChain(g) => Counted(g)' = Counted(g)
    BY <1>1, <2>1, <2>2, AtFilter, InwardMoves
  <2>4. permits' \in 0 .. MaxExecute
    BY <1>1, <1>2, <2>1, ChainAssumption DEF TypeOK
  <2>5. TypeOK' /\ NewIsOutside'
    BY <1>1, <2>1, <2>2, <2>4, InwardMoves DEF TypeOK, config, instance
  <2>6. \A g \in Filter : InChain(g)' = InChain(g)
    BY <1>1, ChainFixed
  <2>7. PermitsAddUp'
    <3>1. InChain("execute") /\ permits \in Nat /\ MaxExecute \in Nat
      BY <1>1, AtFilter, ChainAssumption DEF TypeOK
    <3> QED
      BY <1>1, <2>1, <2>3, <3>1, SetsFinite DEF IInv, PermitsAddUp
  <2>8. InFlightIsExact' /\ ActiveCovers'
    BY <1>1, <2>1, <2>3, <2>6 DEF IInv, InFlightIsExact, ActiveCovers, Filter
  <2> QED
    BY <2>5, <2>7, <2>8 DEF IInv
<1>3. CASE ~(permits > 0)
  <2>1. UNCHANGED counts /\ Outward(c, "err")
    BY <1>1, <1>3 DEF Acquire, counts
  <2> QED
    BY <1>1, <2>1, TurnedBackKeeps DEF instance
<1> QED
  BY <1>2, <1>3

LEMMA ReleaseKeeps ==
  ASSUME IInv, NEW c \in Call, Release(c)
  PROVE  IInv'
<1>1. /\ TypeOK /\ NewIsOutside /\ Is(c, "execute", "out") /\ step[c] = "out"
      /\ "execute" \in Filter /\ chain' = chain /\ dropped' = dropped
      /\ permits' = permits + 1 /\ Outward(c, outcome[c])
      /\ UNCHANGED <<config, flag, inFlight, active, instance>>
  BY DEF IInv, Release, Is, Filter, config, Outward
<1>2. at[c] \in 1 .. InnerEnd
  BY <1>1, AtFilter, ChainIsSeq DEF InnerEnd
<1>3. ~UndoingAt(at[c], step[c])
  BY <1>1 DEF UndoingAt
<1>4. /\ InChain("active") => Undoing' = Undoing
      /\ Cardinality(Counted("execute")') = Cardinality(Counted("execute")) - 1
      /\ \A g \in Filter \ {"execute"} : InChain(g) => Counted(g)' = Counted(g)
  BY <1>1, <1>2, <1>3, AtFilter, OutwardMoves
<1>5. PermitsAddUp' /\ permits' \in 0 .. MaxExecute
  <2>1. InChain("execute") /\ permits \in Nat /\ MaxExecute \in Nat
    BY <1>1, AtFilter, ChainAssumption DEF TypeOK
  <2> QED
    BY <1>1, <1>4, <2>1, SetsFinite DEF IInv, PermitsAddUp
<1>6. outcome' \in [Call -> {"none", "ok", "err"}]
  BY <1>1 DEF TypeOK, Outward
<1>7. TypeOK' /\ NewIsOutside'
  BY <1>1, <1>2, <1>5, <1>6, OutwardMoves DEF TypeOK, config, instance
<1>8. InFlightIsExact' /\ ActiveCovers'
  <2>1. \A g \in Filter : InChain(g)' = InChain(g)
    BY <1>1, ChainFixed
  <2> QED
    BY <1>1, <1>4, <2>1 DEF IInv, InFlightIsExact, ActiveCovers, Filter
<1> QED
  BY <1>5, <1>7, <1>8 DEF IInv

\* A step of the active limiter leaves the counts of the others alone.
LEMMA OthersKeep ==
  ASSUME IInv, chain' = chain, dropped' = dropped, UNCHANGED <<inFlight, permits>>,
         \A g \in Filter \ {"active"} : InChain(g) => Counted(g)' = Counted(g)
  PROVE  PermitsAddUp' /\ InFlightIsExact'
<1>1. \A g \in Filter : InChain(g)' = InChain(g)
  BY ChainFixed DEF IInv
<1> QED
  BY <1>1 DEF IInv, PermitsAddUp, InFlightIsExact, Filter

LEMMA ActiveTyped ==
  ASSUME TypeOK, InChain("active"), ActiveCovers, active' \in Int,
         chain' = chain,
         /\ Cardinality(Counted("active")') + Cardinality(Undoing') <= active'
         /\ active' <= MaxActive + Cardinality(Undoing')
         /\ Cardinality(Counted("active")') <= MaxActive
  PROVE  active' \in 0 .. MaxActive + Cardinality(Call) /\ ActiveCovers'
BY SetsFinite, ChainAssumption DEF Filter, ActiveCovers

LEMMA LimitKeeps ==
  ASSUME IInv, NEW c \in Call, Limit(c)
  PROVE  IInv'
<1>1. /\ TypeOK /\ NewIsOutside /\ Is(c, "active", "in") /\ step[c] = "in"
      /\ "active" \in Filter /\ chain' = chain /\ active' = active + 1
      /\ UNCHANGED <<config, flag, inFlight, permits, instance>>
  BY DEF IInv, Limit, Is, Filter, config
<1>2. /\ InChain("active") /\ at[c] = Position("active") /\ at[c] \in 0 .. Len(chain)
      /\ at[c] \in 1 .. Len(chain)
  BY <1>1, AtFilter
<1>3. /\ active \in Nat /\ MaxActive \in Nat
      /\ Cardinality(Counted("active")) + Cardinality(Undoing) <= active
      /\ active <= MaxActive + Cardinality(Undoing)
      /\ Cardinality(Counted("active")) <= MaxActive
  BY <1>1, <1>2, ChainAssumption DEF IInv, ActiveCovers, TypeOK
<1>4. CASE active >= MaxActive
  <2>1. Stay(c, "undo") /\ dropped' = dropped /\ outcome' = outcome
    BY <1>4 DEF Limit, Stay
  <2>2. UndoingAt(at[c], "undo")
    BY <1>2 DEF UndoingAt
  <2>3. /\ Cardinality(Undoing') = Cardinality(Undoing) + 1
        /\ \A g \in Filter : InChain(g) => Counted(g)' = Counted(g)
    BY <1>1, <1>2, <2>1, <2>2, StayMoves
  <2>4. active' \in 0 .. MaxActive + Cardinality(Call) /\ ActiveCovers'
    <3>1. Counted("active")' = Counted("active")
      BY <1>1, <1>2, <2>3
    <3> QED
      BY <1>1, <1>2, <1>3, <2>3, <3>1, SetsFinite, ActiveTyped DEF IInv
  <2>5. TypeOK' /\ NewIsOutside'
    BY <1>1, <1>2, <2>1, <2>4, StayMoves DEF TypeOK, config, instance
  <2> QED
    BY <1>1, <2>1, <2>3, <2>4, <2>5, OthersKeep DEF IInv
<1>5. CASE ~(active >= MaxActive)
  <2>1. Inward(c) /\ dropped' = dropped /\ outcome' = outcome
    BY <1>5 DEF Limit, Inward
  <2>2. /\ Undoing' = Undoing
        /\ Cardinality(Counted("active")') = Cardinality(Counted("active")) + 1
        /\ \A g \in Filter \ {"active"} : InChain(g) => Counted(g)' = Counted(g)
    BY <1>1, <1>2, <2>1, AtFilter, InwardMoves
  <2>3. active' \in 0 .. MaxActive + Cardinality(Call) /\ ActiveCovers'
    BY <1>1, <1>2, <1>3, <1>5, <2>2, SetsFinite, ActiveTyped DEF IInv
  <2>4. TypeOK' /\ NewIsOutside'
    BY <1>1, <1>2, <2>1, <2>3, InwardMoves DEF TypeOK, config, instance
  <2> QED
    BY <1>1, <2>1, <2>2, <2>3, <2>4, OthersKeep DEF IInv
<1> QED
  BY <1>4, <1>5

LEMMA UndoLimitKeeps ==
  ASSUME IInv, NEW c \in Call, UndoLimit(c)
  PROVE  IInv'
<1>1. /\ TypeOK /\ NewIsOutside /\ Is(c, "active", "undo") /\ step[c] = "undo"
      /\ "active" \in Filter /\ chain' = chain /\ dropped' = dropped
      /\ active' = active - 1 /\ Outward(c, "err")
      /\ UNCHANGED <<config, flag, inFlight, permits, instance>>
  BY DEF IInv, UndoLimit, Is, Filter, config, Outward
<1>2. InChain("active") /\ at[c] = Position("active") /\ at[c] \in 1 .. InnerEnd
  BY <1>1, AtFilter, ChainIsSeq DEF InnerEnd
<1>3. /\ active \in Nat /\ MaxActive \in Nat
      /\ Cardinality(Counted("active")) + Cardinality(Undoing) <= active
      /\ active <= MaxActive + Cardinality(Undoing)
      /\ Cardinality(Counted("active")) <= MaxActive
  BY <1>1, <1>2, ChainAssumption DEF IInv, ActiveCovers, TypeOK
<1>4. UndoingAt(at[c], step[c])
  BY <1>1, <1>2 DEF UndoingAt
<1>5. /\ Cardinality(Undoing') = Cardinality(Undoing) - 1
      /\ \A g \in Filter : InChain(g) => Counted(g)' = Counted(g)
  BY <1>1, <1>2, <1>4, OutwardMoves
<1>6. active' \in 0 .. MaxActive + Cardinality(Call) /\ ActiveCovers'
  <2>1. Counted("active")' = Counted("active")
    BY <1>1, <1>2, <1>5
  <2> QED
    BY <1>1, <1>2, <1>3, <1>5, <2>1, SetsFinite, ActiveTyped DEF IInv
<1>7. outcome' \in [Call -> {"none", "ok", "err"}]
  BY <1>1 DEF TypeOK, Outward
<1>8. TypeOK' /\ NewIsOutside'
  BY <1>1, <1>2, <1>6, <1>7, OutwardMoves DEF TypeOK, config, instance
<1> QED
  BY <1>1, <1>5, <1>6, <1>8, OthersKeep DEF IInv

LEMMA UnlimitKeeps ==
  ASSUME IInv, NEW c \in Call, Unlimit(c)
  PROVE  IInv'
<1>1. /\ TypeOK /\ NewIsOutside /\ Is(c, "active", "out") /\ step[c] = "out"
      /\ "active" \in Filter /\ chain' = chain /\ dropped' = dropped
      /\ active' \in {active, active - 1} /\ Outward(c, outcome[c])
      /\ UNCHANGED <<config, flag, inFlight, permits, instance>>
  BY DEF IInv, Unlimit, Is, Filter, config, Outward
<1>2. InChain("active") /\ at[c] = Position("active") /\ at[c] \in 1 .. InnerEnd
  BY <1>1, AtFilter, ChainIsSeq DEF InnerEnd
<1>3. /\ active \in Nat /\ MaxActive \in Nat
      /\ Cardinality(Counted("active")) + Cardinality(Undoing) <= active
      /\ active <= MaxActive + Cardinality(Undoing)
      /\ Cardinality(Counted("active")) <= MaxActive
  BY <1>1, <1>2, ChainAssumption DEF IInv, ActiveCovers, TypeOK
<1>4. ~UndoingAt(at[c], step[c])
  BY <1>1 DEF UndoingAt
<1>5. /\ Undoing' = Undoing
      /\ Cardinality(Counted("active")') = Cardinality(Counted("active")) - 1
      /\ \A g \in Filter \ {"active"} : InChain(g) => Counted(g)' = Counted(g)
  BY <1>1, <1>2, <1>4, AtFilter, OutwardMoves
<1>6. active' \in 0 .. MaxActive + Cardinality(Call) /\ ActiveCovers'
  BY <1>1, <1>2, <1>3, <1>5, SetsFinite, ActiveTyped DEF IInv
<1>7. outcome' \in [Call -> {"none", "ok", "err"}]
  BY <1>1 DEF TypeOK, Outward
<1>8. TypeOK' /\ NewIsOutside'
  BY <1>1, <1>2, <1>6, <1>7, OutwardMoves DEF TypeOK, config, instance
<1> QED
  BY <1>1, <1>5, <1>6, <1>8, OthersKeep DEF IInv

\* A dropped call gives its permit back and leaves the two atomics as they are.
LEMMA CancelKeeps ==
  ASSUME IInv, NEW c \in Call, Cancel(c)
  PROVE  IInv'
<1>1. /\ TypeOK /\ NewIsOutside /\ chain' = chain
      /\ dropped' = dropped + 1 /\ dropped' \in 0 .. MaxDropped
      /\ permits' = IF InChain("execute") THEN permits + 1 ELSE permits
      /\ UNCHANGED <<config, outcome, flag, inFlight, active, instance>>
  BY ChainAssumption DEF IInv, Cancel, config, TypeOK
<1>2. /\ InChain("active") => Undoing' = Undoing
      /\ \A f \in Filter : InChain(f) =>
           Cardinality(Counted(f)') = Cardinality(Counted(f)) - 1
  BY <1>1, CancelMoves
<1>3. \A g \in Filter : InChain(g)' = InChain(g)
  BY <1>1, ChainFixed
<1>4. PermitsAddUp' /\ permits' \in 0 .. MaxExecute
  <2>1. permits \in 0 .. MaxExecute /\ MaxExecute \in Nat /\ "execute" \in Filter
    BY <1>1, ChainAssumption DEF TypeOK, Filter
  <2> QED
    BY <1>1, <1>2, <1>3, <2>1, SetsFinite DEF IInv, PermitsAddUp
<1>5. InFlightIsExact'
  <2>1. dropped \in Nat /\ "shutdown" \in Filter
    BY <1>1 DEF TypeOK, Filter
  <2> QED
    BY <1>1, <1>2, <1>3, <2>1, SetsFinite DEF IInv, InFlightIsExact
<1>6. ActiveCovers'
  <2>1. active \in Int /\ MaxActive \in Nat /\ "active" \in Filter
    BY <1>1, ChainAssumption DEF TypeOK, Filter
  <2> QED
    BY <1>1, <1>2, <1>3, <2>1, SetsFinite DEF IInv, ActiveCovers
<1>7. TypeOK' /\ NewIsOutside'
  BY <1>1, <1>4, CancelMoves DEF TypeOK, config, instance
<1> QED
  BY <1>4, <1>5, <1>6, <1>7 DEF IInv

\* Steps of Instance.shutdown() move no call.
LEMMA InstanceKeeps ==
  ASSUME IInv, UNCHANGED <<config, call, counts>>, TypeOK'
  PROVE  IInv'
<1>1. UNCHANGED <<at, step, chain, dropped>>
  BY DEF config, call
<1>2. NewIsOutside' /\ Undoing' = Undoing /\ \A f \in Filter : Counted(f)' = Counted(f)
  BY <1>1 DEF IInv, NewIsOutside, Undoing, Counted, Inside, Is, Position
<1> QED
  BY <1>1, <1>2, SameCounts

-----------------------------------------------------------------------------

LEMMA Initially == Init => IInv
<1> SUFFICES ASSUME Init PROVE IInv
  OBVIOUS
<1>1. TypeOK
  <2>1. chain \in Seq(Filter) /\ Len(chain) \in Nat
    BY ChainAssumption DEF Init
  <2>2. Cardinality(Call) \in Nat
    BY SetsFinite
  <2>3. at \in [Call -> 0 .. Len(chain) + 1]
    BY <2>1 DEF Init
  <2>4. active \in 0 .. MaxActive + Cardinality(Call) /\ permits \in 0 .. MaxExecute
    BY <2>2, ChainAssumption DEF Init
  <2>5. inFlight \in Nat /\ dropped \in 0 .. MaxDropped
    BY ChainAssumption DEF Init
  <2> QED
    BY <2>3, <2>4, <2>5 DEF Init, TypeOK
<1>2. Undoing = {}
  BY DEF Init, Undoing, Is
<1>3. ASSUME NEW f \in Filter, InChain(f) PROVE Counted(f) = {}
  BY <1>1, <1>3, Place DEF Init, Counted, Inside, Is
<1>4. Cardinality({}) = 0
  BY FS_EmptySet
<1>5. "shutdown" \in Filter /\ "active" \in Filter /\ "execute" \in Filter
  BY DEF Filter
<1>6. PermitsAddUp /\ InFlightIsExact /\ ActiveCovers
  <2>0. MaxExecute \in Nat /\ MaxActive \in Nat
    BY ChainAssumption
  <2>1. PermitsAddUp
    BY <1>3, <1>4, <1>5, <2>0 DEF Init, PermitsAddUp
  <2>2. InFlightIsExact
    BY <1>3, <1>4, <1>5 DEF Init, InFlightIsExact
  <2>3. ActiveCovers
    BY <1>2, <1>3, <1>4, <1>5, <2>0 DEF Init, ActiveCovers
  <2> QED
    BY <2>1, <2>2, <2>3
<1> QED
  BY <1>1, <1>6 DEF IInv, NewIsOutside, Init

LEMMA Stepwise == IInv /\ [Next]_vars => IInv'
<1> SUFFICES ASSUME IInv, [Next]_vars PROVE IInv'
  OBVIOUS
<1>0. TypeOK
  BY DEF IInv
<1>1. ASSUME NEW c \in Call, Arrive(c) \/ CallStep(c) \/ Cancel(c) PROVE IInv'
  BY <1>1, ArriveKeeps, ServeKeeps, AdmitKeeps, CountInKeeps, CountOutKeeps, NotifyKeeps,
     LimitKeeps, UndoLimitKeeps, UnlimitKeeps, AcquireKeeps, ReleaseKeeps, CancelKeeps
     DEF CallStep
<1>2. CASE Shutdown
  BY <1>0, <1>2, InstanceKeeps DEF Shutdown, TypeOK, config, call, counts
<1>3. CASE InstanceStep
  <2>1. CASE \E r \in Registration : Unregister(r)
    BY <1>0, <2>1, InstanceKeeps DEF Unregister, TypeOK, config, call, counts
  <2>2. CASE Wait
    BY <1>0, <2>2, InstanceKeeps DEF Wait, BeginWait, TypeOK, config, call, counts
  <2>3. CASE WaitTimesOut
    BY <1>0, <2>3, InstanceKeeps DEF WaitTimesOut, TypeOK, config, call, counts
  <2> QED
    BY <1>3, <2>1, <2>2, <2>3 DEF InstanceStep
<1>4. CASE UNCHANGED vars
  BY <1>0, <1>4, InstanceKeeps DEF vars, TypeOK, config, call, counts, instance
<1> QED
  BY <1>1, <1>2, <1>3, <1>4 DEF Next

LEMMA Invariant == Spec => []IInv
BY Initially, Stepwise, PTL DEF Spec

\* Every variable keeps its type; the active limiter's counter never exceeds its
\* limit by more than the calls that are about to undo their increment.
THEOREM TypeCorrect == Spec => []TypeOK
BY Invariant, PTL DEF IInv

\* No limit is ever exceeded, in whatever order the filters are nested and
\* whatever fails or is dropped.
THEOREM LimitsHold == Spec => []WithinLimits
<1>1. IInv => WithinLimits
  <2> SUFFICES ASSUME IInv PROVE WithinLimits
    OBVIOUS
  <2>1. \A f \in Filter : /\ Inside(f) \subseteq Counted(f)
                          /\ Counted(f) \in SUBSET Call
    BY DEF Counted, Inside
  <2>2. \A f \in Filter : Cardinality(Inside(f)) <= Cardinality(Counted(f))
    BY <2>1, CallsFinite, FS_Subset
  <2>3. \A f \in Filter : Cardinality(Inside(f)) \in Nat
    BY CallsFinite DEF Inside
  <2>4. permits \in 0 .. MaxExecute /\ MaxExecute \in Nat /\ MaxActive \in Nat
    BY ChainAssumption DEF IInv, TypeOK
  <2> QED
    BY <2>2, <2>3, <2>4, SetsFinite
       DEF IInv, WithinLimits, PermitsAddUp, ActiveCovers, Filter
<1> QED
  BY <1>1, Invariant, PTL

\* No permit of the execute limiter is ever lost or made up.
THEOREM PermitsKept == Spec => []PermitsAddUp
BY Invariant, PTL DEF IInv

\* The in-flight count of the shutdown filter is exact but for dropped calls.
THEOREM InFlightExact == Spec => []InFlightIsExact
BY Invariant, PTL DEF IInv

-----------------------------------------------------------------------------
(* The active limiter counts exactly as long as nothing fails behind it.   *)

\* Nothing can fail behind the active limiter, and nothing was dropped there.
Faultless ==
  ~failing /\ dropped = 0 /\ InChain("active") /\ Position("active") = Len(chain)

\* Then all that comes back to it is counted out.
ActiveExact == Faultless =>
  /\ active = Cardinality(Counted("active")) + Cardinality(Undoing)
  /\ \A c \in Call : Is(c, "active", "out") => outcome[c] = "ok"

LEMMA FaultlessBefore ==
  ASSUME TypeOK, UNCHANGED config, dropped' = dropped, Faultless'
  PROVE  /\ Faultless
         /\ InChain("active") /\ InChain("active")'
         /\ Position("active") = Len(chain) /\ "active" \in Filter
         /\ Len(chain) \in Nat
BY ChainFixed, ChainIsSeq DEF Faultless, config, Filter

\* A call that moves on is the only one that can newly be on its way out of the
\* limiter, and only with a response.
LEMMA ResponsesStay ==
  ASSUME TypeOK, ActiveExact, Faultless, chain' = chain,
         NEW c \in Call, NEW n \in Nat, NEW s, Goes(c, n, s),
         \A d \in Call \ {c} : outcome'[d] = outcome[d],
         n = Len(chain) /\ s = "out" => outcome'[c] = "ok"
  PROVE  \A d \in Call : Is(d, "active", "out")' => outcome'[d] = "ok"
<1> SUFFICES ASSUME NEW d \in Call, Is(d, "active", "out")' PROVE outcome'[d] = "ok"
  OBVIOUS
<1>1. CASE d # c
  <2>1. at'[d] = at[d] /\ step'[d] = step[d]
    BY <1>1 DEF Goes, TypeOK
  <2> QED
    BY <1>1, <2>1 DEF Is, ActiveExact
<1>2. CASE d = c
  <2>1. at'[c] = n /\ step'[c] = s
    BY DEF Goes, TypeOK
  <2>2. n \in DOMAIN chain /\ chain[n] = "active" /\ s = "out"
    BY <1>2, <2>1 DEF Is
  <2>3. n = Position("active")
    BY <2>2, Place DEF Faultless, Filter
  <2> QED
    BY <1>2, <2>2, <2>3 DEF Faultless
<1> QED
  BY <1>1, <1>2

\* A call that takes a step elsewhere, and brings no error to the limiter.
LEMMA ElsewhereExact ==
  ASSUME IInv, ActiveExact, UNCHANGED config, active' = active, dropped' = dropped,
         NEW c \in Call, NEW n \in Nat, NEW s, Goes(c, n, s),
         \A d \in Call \ {c} : outcome'[d] = outcome[d],
         n = Len(chain) /\ s = "out" => outcome'[c] = "ok",
         InChain("active") => Undoing' = Undoing /\ Counted("active")' = Counted("active")
  PROVE  ActiveExact'
<1> SUFFICES ASSUME Faultless' PROVE ActiveExact'
  BY DEF ActiveExact
<1>1. Faultless /\ InChain("active") /\ TypeOK /\ chain' = chain
  BY FaultlessBefore DEF IInv, config
<1>2. active' = Cardinality(Counted("active")') + Cardinality(Undoing')
  BY <1>1 DEF ActiveExact
<1>3. \A d \in Call : Is(d, "active", "out")' => outcome'[d] = "ok"
  BY <1>1, ResponsesStay
<1> QED
  BY <1>2, <1>3 DEF ActiveExact

LEMMA InwardExact ==
  ASSUME IInv, ActiveExact, UNCHANGED config, active' = active,
         NEW c \in Call, at[c] \in 0 .. Len(chain), step[c] \notin {"out", "undo"},
         InChain("active") => at[c] # Position("active"), Inward(c)
  PROVE  ActiveExact'
<1>1. TypeOK /\ NewIsOutside /\ chain' = chain /\ "active" \in Filter
      /\ dropped' = dropped /\ outcome' = outcome
  BY DEF IInv, config, Inward, Filter
<1>2. at[c] + 1 \in Nat /\ Goes(c, at[c] + 1, "in")
  BY <1>1 DEF Inward, Goes
<1>3. InChain("active") => Undoing' = Undoing /\ Counted("active")' = Counted("active")
  BY <1>1, InwardMoves
<1> QED
  BY <1>1, <1>2, <1>3, ElsewhereExact

LEMMA StayExact ==
  ASSUME IInv, ActiveExact, UNCHANGED config, active' = active,
         NEW c \in Call, NEW f \in Filter \ {"active"}, NEW now \in {"in", "out"},
         Is(c, f, now), NEW s \in {"count", "notify"}, Stay(c, s)
  PROVE  ActiveExact'
<1>1. TypeOK /\ NewIsOutside /\ chain' = chain /\ "active" \in Filter
      /\ dropped' = dropped /\ outcome' = outcome
  BY DEF IInv, config, Stay, Filter
<1>2. at[c] \in 1 .. Len(chain) /\ step[c] # "undo"
      /\ (InChain("active") => at[c] # Position("active"))
  BY <1>1, AtFilter
<1>3. at[c] \in Nat /\ Goes(c, at[c], s)
  BY <1>1, <1>2 DEF Stay, Goes, TypeOK
<1>4. InChain("active") => Undoing' = Undoing /\ Counted("active")' = Counted("active")
  <2>1. InChain("active") => ~UndoingAt(at[c], s)
    BY <1>2 DEF UndoingAt
  <2> QED
    BY <1>1, <1>2, <2>1, StayMoves
<1> QED
  BY <1>1, <1>3, <1>4, ElsewhereExact

LEMMA OutwardExact ==
  ASSUME IInv, ActiveExact, UNCHANGED config, active' = active,
         NEW c \in Call, at[c] \in 1 .. InnerEnd, NEW o, Outward(c, o),
         InChain("active") => at[c] # Position("active"),
         at[c] = InnerEnd => o = "ok"
  PROVE  ActiveExact'
<1> DEFINE n == at[c] - 1
           s == IF at[c] = 1 THEN "new" ELSE "out"
<1>1. TypeOK /\ NewIsOutside /\ chain' = chain /\ "active" \in Filter /\ dropped' = dropped
  BY DEF IInv, config, Outward, Filter
<1>2. n \in Nat /\ Goes(c, n, s)
  BY <1>1, ChainIsSeq DEF Outward, Goes, InnerEnd
<1>3. \A d \in Call \ {c} : outcome'[d] = outcome[d]
  BY <1>1 DEF Outward, TypeOK
<1>4. n = Len(chain) /\ s = "out" => outcome'[c] = "ok"
  BY <1>1, ChainIsSeq DEF Outward, InnerEnd, TypeOK
<1>5. InChain("active") => Undoing' = Undoing /\ Counted("active")' = Counted("active")
  <2>1. InChain("active") => ~UndoingAt(at[c], step[c])
    BY DEF UndoingAt
  <2> QED
    BY <1>1, <2>1, OutwardMoves
<1> HIDE DEF n, s
<1> QED
  BY <1>1, <1>2, <1>3, <1>4, <1>5, ElsewhereExact

\* A call at another filter returns to one further out than the limiter.
LEMMA ReturnExact ==
  ASSUME IInv, ActiveExact, UNCHANGED config, active' = active,
         NEW c \in Call, NEW f \in Filter \ {"active"}, NEW s, Is(c, f, s),
         NEW o, Outward(c, o)
  PROVE  ActiveExact'
<1>1. TypeOK
  BY DEF IInv
<1>2. at[c] \in 1 .. Len(chain) /\ (InChain("active") => at[c] # Position("active"))
  BY <1>1, AtFilter DEF Filter
<1>3. at[c] \in 1 .. InnerEnd /\ at[c] # InnerEnd
  BY <1>1, <1>2, ChainIsSeq DEF InnerEnd
<1> QED
  BY <1>2, <1>3, OutwardExact

-----------------------------------------------------------------------------

LEMMA ServeExact ==
  ASSUME IInv, ActiveExact, NEW c \in Call, Serve(c)
  PROVE  ActiveExact'
<1>1. /\ TypeOK /\ at[c] = InnerEnd /\ UNCHANGED config /\ active' = active
      /\ dropped' = dropped
  BY DEF IInv, Serve, counts, Outward
<1>2. CASE failing
  BY <1>1, <1>2 DEF ActiveExact, Faultless, config
<1>3. CASE ~failing
  <2>1. Outward(c, "ok")
    BY <1>3 DEF Serve
  <2>2. at[c] \in 1 .. InnerEnd
    BY <1>1, ChainIsSeq DEF InnerEnd
  <2>3. InChain("active") => at[c] # Position("active")
    BY <1>1, Place, ChainIsSeq DEF InnerEnd, Filter
  <2> QED
    BY <1>1, <2>1, <2>2, <2>3, OutwardExact
<1> QED
  BY <1>2, <1>3

LEMMA ShutdownFilterExact ==
  ASSUME IInv, ActiveExact, NEW c \in Call,
         Admit(c) \/ CountIn(c) \/ CountOut(c) \/ Notify(c)
  PROVE  ActiveExact'
<1>1. TypeOK /\ UNCHANGED config /\ active' = active /\ "shutdown" \in Filter \ {"active"}
  BY DEF IInv, Admit, CountIn, CountOut, Notify, counts, Filter
<1>2. CASE Admit(c)
  BY <1>1, <1>2, StayExact, ReturnExact DEF Admit
<1>3. CASE CountIn(c)
  <2>1. Is(c, "shutdown", "count") /\ Inward(c)
    BY <1>3 DEF CountIn
  <2>2. at[c] \in 0 .. Len(chain) /\ step[c] \notin {"out", "undo"}
        /\ (InChain("active") => at[c] # Position("active"))
    BY <1>1, <2>1, AtFilter DEF Filter
  <2> QED
    BY <1>1, <2>1, <2>2, InwardExact
<1>4. CASE CountOut(c)
  BY <1>1, <1>4, StayExact, ReturnExact DEF CountOut
<1>5. CASE Notify(c)
  BY <1>1, <1>5, ReturnExact DEF Notify
<1> QED
  BY <1>2, <1>3, <1>4, <1>5

LEMMA ExecuteFilterExact ==
  ASSUME IInv, ActiveExact, NEW c \in Call, Acquire(c) \/ Release(c)
  PROVE  ActiveExact'
<1>1. TypeOK /\ UNCHANGED config /\ active' = active /\ "execute" \in Filter \ {"active"}
  BY DEF IInv, Acquire, Release, Filter
<1>2. CASE Acquire(c)
  <2>1. Is(c, "execute", "in") /\ (Inward(c) \/ Outward(c, "err"))
    BY <1>2 DEF Acquire
  <2>2. at[c] \in 0 .. Len(chain) /\ step[c] \notin {"out", "undo"}
        /\ (InChain("active") => at[c] # Position("active"))
    BY <1>1, <2>1, AtFilter DEF Filter
  <2> QED
    BY <1>1, <2>1, <2>2, InwardExact, ReturnExact
<1>3. CASE Release(c)
  BY <1>1, <1>3, ReturnExact DEF Release
<1> QED
  BY <1>2, <1>3

\* The limiter's own steps change its count and the calls it covers together.
LEMMA LimiterExact ==
  ASSUME IInv, ActiveExact, NEW c \in Call, Limit(c) \/ UndoLimit(c) \/ Unlimit(c)
  PROVE  ActiveExact'
<1> SUFFICES ASSUME Faultless' PROVE ActiveExact'
  BY DEF ActiveExact
<1>1. TypeOK /\ NewIsOutside /\ UNCHANGED config /\ dropped' = dropped /\ chain' = chain
  BY DEF IInv, Limit, UndoLimit, Unlimit, config, Stay, Inward, Outward
<1>2. /\ Faultless /\ InChain("active") /\ InChain("active")' /\ "active" \in Filter
      /\ Position("active") = Len(chain)
  BY <1>1, FaultlessBefore
<1>3. active = Cardinality(Counted("active")) + Cardinality(Undoing)
  BY <1>2 DEF ActiveExact
<1>4. Cardinality(Counted("active")) \in Nat /\ Cardinality(Undoing) \in Nat
  BY <1>2, SetsFinite
<1>5. CASE Limit(c)
  <2>1. Is(c, "active", "in") /\ active' = active + 1 /\ (Stay(c, "undo") \/ Inward(c))
    BY <1>5 DEF Limit
  <2>2. at[c] = Position("active") /\ at[c] \in 1 .. Len(chain) /\ step[c] = "in"
        /\ at[c] \in 0 .. Len(chain)
    BY <1>1, <1>2, <2>1, AtFilter
  <2>3. CASE Stay(c, "undo")
    <3>1. Cardinality(Undoing') = Cardinality(Undoing) + 1
      BY <1>1, <1>2, <2>2, <2>3, StayMoves DEF UndoingAt
    <3>2. Counted("active")' = Counted("active")
      BY <1>1, <1>2, <2>2, <2>3, StayMoves
    <3>3. at[c] \in Nat /\ Goes(c, at[c], "undo") /\ outcome' = outcome
      BY <1>1, <2>2, <2>3 DEF Stay, Goes, TypeOK
    <3>4. \A d \in Call : Is(d, "active", "out")' => outcome'[d] = "ok"
      BY <1>1, <1>2, <3>3, ResponsesStay
    <3> QED
      BY <1>3, <1>4, <2>1, <3>1, <3>2, <3>4 DEF ActiveExact
  <2>4. CASE Inward(c)
    <3>1. /\ Undoing' = Undoing
          /\ Cardinality(Counted("active")') = Cardinality(Counted("active")) + 1
      BY <1>1, <1>2, <2>2, <2>4, InwardMoves
    <3>2. at[c] + 1 \in Nat /\ Goes(c, at[c] + 1, "in") /\ outcome' = outcome
      BY <1>1, <2>2, <2>4, ChainIsSeq DEF Inward, Goes
    <3>3. \A d \in Call : Is(d, "active", "out")' => outcome'[d] = "ok"
      BY <1>1, <1>2, <3>2, ResponsesStay
    <3> QED
      BY <1>3, <1>4, <2>1, <3>1, <3>3 DEF ActiveExact
  <2> QED
    BY <2>1, <2>3, <2>4
<1>6. CASE UndoLimit(c) \/ Unlimit(c)
  <2>1. PICK o : Outward(c, o)
    BY <1>6 DEF UndoLimit, Unlimit
  <2>2. Is(c, "active", "undo") \/ Is(c, "active", "out")
    BY <1>6 DEF UndoLimit, Unlimit
  <2>3. at[c] = Position("active") /\ at[c] \in 1 .. Len(chain) /\ step[c] \in {"undo", "out"}
    BY <1>1, <1>2, <2>2, AtFilter
  <2>4. at[c] \in 1 .. InnerEnd /\ at[c] - 1 \in Nat /\ at[c] - 1 # Len(chain)
    BY <1>1, <1>2, <2>3, ChainIsSeq DEF InnerEnd
  <2>5. \A d \in Call : Is(d, "active", "out")' => outcome'[d] = "ok"
    <3> DEFINE s == IF at[c] = 1 THEN "new" ELSE "out"
    <3>1. Goes(c, at[c] - 1, s)
      BY <1>1, <2>1 DEF Outward, Goes
    <3>2. \A d \in Call \ {c} : outcome'[d] = outcome[d]
      BY <1>1, <2>1 DEF Outward, TypeOK
    <3> HIDE DEF s
    <3> QED
      BY <1>1, <1>2, <2>4, <3>1, <3>2, ResponsesStay
  <2>6. active' = active - 1
    <3>1. CASE UndoLimit(c)
      BY <3>1 DEF UndoLimit
    <3>2. CASE Unlimit(c)
      <4>1. outcome[c] = "ok"
        BY <1>2, <3>2 DEF Unlimit, ActiveExact
      <4> QED
        BY <3>2, <4>1 DEF Unlimit
    <3> QED
      BY <1>6, <3>1, <3>2
  <2>7. CASE step[c] = "undo"
    <3>1. Cardinality(Undoing') = Cardinality(Undoing) - 1
      BY <1>1, <1>2, <2>1, <2>3, <2>4, <2>7, OutwardMoves DEF UndoingAt
    <3>2. Counted("active")' = Counted("active")
      BY <1>1, <1>2, <2>1, <2>4, <2>7, OutwardMoves
    <3> QED
      BY <1>3, <1>4, <2>5, <2>6, <3>1, <3>2 DEF ActiveExact
  <2>8. CASE step[c] = "out"
    <3>1. Undoing' = Undoing
      BY <1>1, <1>2, <2>1, <2>3, <2>4, <2>8, OutwardMoves DEF UndoingAt
    <3>2. Cardinality(Counted("active")') = Cardinality(Counted("active")) - 1
      BY <1>1, <1>2, <2>1, <2>3, <2>4, <2>8, OutwardMoves
    <3> QED
      BY <1>3, <1>4, <2>5, <2>6, <3>1, <3>2 DEF ActiveExact
  <2> QED
    BY <2>3, <2>7, <2>8
<1> QED
  BY <1>5, <1>6

LEMMA ActiveExactStep == IInv /\ ActiveExact /\ [Next]_vars => ActiveExact'
<1> SUFFICES ASSUME IInv, ActiveExact, [Next]_vars PROVE ActiveExact'
  OBVIOUS
<1>0. TypeOK /\ NewIsOutside
  BY DEF IInv
<1>1. ASSUME NEW c \in Call, Arrive(c) PROVE ActiveExact'
  <2>1. /\ UNCHANGED config /\ active' = active /\ Inward(c)
        /\ at[c] = 0 /\ step[c] \notin {"out", "undo"}
    BY <1>0, <1>1 DEF Arrive, counts, NewIsOutside
  <2>2. at[c] \in 0 .. Len(chain) /\ (InChain("active") => at[c] # Position("active"))
    BY <1>0, <2>1, Place, ChainIsSeq DEF Filter
  <2> QED
    BY <2>1, <2>2, InwardExact
<1>2. ASSUME NEW c \in Call, CallStep(c) PROVE ActiveExact'
  BY <1>2, ServeExact, ShutdownFilterExact, ExecuteFilterExact, LimiterExact DEF CallStep
<1>3. ASSUME NEW c \in Call, Cancel(c) PROVE ActiveExact'
  <2>1. dropped' # 0
    BY <1>0, <1>3 DEF Cancel, TypeOK
  <2> QED
    BY <2>1 DEF ActiveExact, Faultless
<1>4. CASE UNCHANGED <<config, call, counts>>
  <2>1. /\ UNCHANGED <<at, step, chain, dropped, failing, active, outcome>>
    BY <1>4 DEF config, call, counts
  <2> QED
    BY <2>1 DEF ActiveExact, Faultless, InChain, Position, Undoing, Counted, Inside, Is
<1>5. CASE Shutdown \/ InstanceStep \/ UNCHANGED vars
  BY <1>4, <1>5 DEF Shutdown, InstanceStep, Unregister, Wait, WaitTimesOut, vars
<1> QED
  BY <1>1, <1>2, <1>3, <1>5 DEF Next

\* As long as nothing fails behind the active limiter and no call is dropped, its
\* count is exactly the calls it has let in and those about to undo their increment.
THEOREM ActiveExactWithoutErrors == Spec => []ActiveIsExactWithoutErrors
<1>1. Init => ActiveExact
  <2> SUFFICES ASSUME Init, Faultless PROVE ActiveExact
    BY DEF ActiveExact
  <2>1. TypeOK
    BY Initially DEF IInv
  <2>2. Undoing = {} /\ \A c \in Call : ~Is(c, "active", "out")
    BY DEF Init, Undoing, Is
  <2>3. Counted("active") = {}
    BY <2>1, Place DEF Init, Faultless, Counted, Inside, Is, Filter
  <2> QED
    BY <2>2, <2>3, FS_EmptySet DEF Init, ActiveExact
<1>2. IInv /\ ActiveExact => ActiveIsExactWithoutErrors
  <2> SUFFICES ASSUME IInv, ActiveExact, Faultless
               PROVE  active = Cardinality(Counted("active") \cup Undoing)
    BY DEF ActiveIsExactWithoutErrors, Faultless, Undoing
  <2>1. IsFiniteSet(Counted("active")) /\ IsFiniteSet(Undoing)
    <3>1. Counted("active") \in SUBSET Call /\ Undoing \in SUBSET Call
      BY DEF Counted, Inside, Undoing
    <3> QED
      BY <3>1, CallsFinite
  <2>2. Counted("active") \cap Undoing = {}
    <3>1. TypeOK /\ "active" \in Filter /\ InChain("active")
      BY DEF IInv, Filter, Faultless
    <3>2. \A c \in Undoing : c \in Call /\ at[c] = Position("active") /\ step[c] = "undo"
      BY <3>1, AtFilter DEF Undoing
    <3>3. Position("active") \in Nat
      BY <3>1, Place
    <3> QED
      BY <3>2, <3>3 DEF Counted, Inside, Is
  <2>3. Cardinality(Counted("active") \cup Undoing)
          = Cardinality(Counted("active")) + Cardinality(Undoing)
    BY <2>1, <2>2, FS_Union, FS_EmptySet, FS_CardinalityType
  <2> QED
    BY <2>3 DEF ActiveExact
<1> QED
  BY <1>1, <1>2, Invariant, ActiveExactStep, PTL DEF Spec

-----------------------------------------------------------------------------
(* What the registries hold while Instance.shutdown() goes through them.   *)

StillRegistered ==
  /\ broken \subseteq Registration
  /\ stage = "serving" => registered = Registration
  /\ stage = "unregister" => registered = broken \cup toGo
  /\ stage \notin {"serving", "unregister"} => registered = broken

LEMMA StillRegisteredStep == StillRegistered /\ [Next]_vars => StillRegistered'
<1> SUFFICES ASSUME StillRegistered, [Next]_vars PROVE StillRegistered'
  OBVIOUS
<1>1. CASE UNCHANGED <<config, instance>>
  BY <1>1 DEF StillRegistered, config, instance
<1>2. ASSUME NEW c \in Call, Arrive(c) \/ CallStep(c) \/ Cancel(c) PROVE StillRegistered'
  <2>1. CASE Notify(c)
    BY <2>1 DEF Notify, StillRegistered, config
  <2> QED
    BY <1>1, <1>2, <2>1
       DEF Arrive, CallStep, Cancel, Admit, CountIn, CountOut, Limit, UndoLimit, Unlimit,
           Acquire, Release, Serve
<1>3. CASE Shutdown
  BY <1>3 DEF Shutdown, StillRegistered, config
<1>4. CASE InstanceStep
  BY <1>4 DEF InstanceStep, Unregister, Wait, BeginWait, WaitTimesOut, StillRegistered, config
<1>5. CASE UNCHANGED vars
  BY <1>1, <1>5 DEF vars
<1> QED
  BY <1>2, <1>3, <1>4, <1>5 DEF Next

\* For any registrations, however many of their registries fail: when shutdown()
\* begins to wait, those that could be removed are all removed.
THEOREM UnregistersAll == Spec => []UnregistersAllItCan
<1>1. Init => StillRegistered
  BY DEF Init, StillRegistered
<1>2. StillRegistered => UnregistersAllItCan
  BY DEF StillRegistered, UnregistersAllItCan
<1> QED
  BY <1>1, <1>2, StillRegisteredStep, PTL DEF Spec

=============================================================================
