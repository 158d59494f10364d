---------------------------- MODULE Wire_proofs ----------------------------
(***************************************************************************)
(* Proofs about Wire, for any strings, numbers, classes, types, arguments, *)
(* attachments and messages, and for documents and calls of any length.    *)
(*                                                                         *)
(* Hessian2.  Bytes are read back one call at a time: for each operation a *)
(* lemma says that a Decoder at the bytes an Encoder wrote reads what they *)
(* were written for and stops behind them, whatever follows.  To that end  *)
(* the two have to agree on what was written before: Follows relates the   *)
(* Encoder after k calls to the Decoder after k (the definitions read are  *)
(* those written, the strings read are those tracked, or no reference is   *)
(* to come), and one call of both keeps it.  The invariant says that the   *)
(* reader stands where a value begins and follows the writer as it was     *)
(* then, so that it needs the history of the writer, of which each state   *)
(* keeps only the last.                                                    *)
(*                                                                         *)
(* DubboMessages.  A body is the join of lists whose places are known      *)
(* (IsLaidOut), so that decoding it finds each of them, unless an argument *)
(* has strayed into the next, and then the body does not decode at all.    *)
(* The types are found by induction over them, each where the one before   *)
(* has ended (EndsAfter).  The invariant says at each stage what the frame *)
(* on the way is made of.                                                  *)
(*                                                                         *)
(* HttpProtocols.  What came back is one of what the protocol makes of     *)
(* what the service did (Came, Made), and what was taken from a stream     *)
(* and what is still on its way is the beginning of what was emitted.      *)
(***************************************************************************)
EXTENDS Wire, Data_proofs, SequenceTheorems, NaturalsInduction

-----------------------------------------------------------------------------
(* Induction, and sequences joined one after the other.                    *)

(* Induction up to a number, for a set.                                    *)
LEMMA InductionUpTo ==
  ASSUME NEW n \in Nat, NEW S, 0 \in S, \A k \in 1 .. n : k - 1 \in S => k \in S
  PROVE  \A k \in 0 .. n : k \in S
<1> DEFINE T == {k \in Nat : k <= n => k \in S}
<1>1. 0 \in T
  OBVIOUS
<1>2. ASSUME NEW k \in Nat, k \in T PROVE k + 1 \in T
  <2> SUFFICES ASSUME k + 1 <= n PROVE k + 1 \in S
    OBVIOUS
  <2>1. k + 1 \in 1 .. n /\ k + 1 - 1 = k /\ k <= n
    OBVIOUS
  <2> QED
    BY <1>2, <2>1
<1> HIDE DEF T
<1>3. Nat \subseteq T
  BY <1>1, <1>2, Induction
<1> QED
  BY <1>3 DEF T

\* The recursive function in FlattenSeq, one list at a time.
Joins(joined, seqs) ==
  /\ FlattenSeq(seqs) = joined[Len(seqs)]
  /\ joined[0] = <<>>
  /\ \A i \in 1 .. Len(seqs) : joined[i] = joined[i - 1] \o seqs[i]

LEMMA JoinSteps ==
  ASSUME NEW E, NEW seqs \in Seq(Seq(E))
  PROVE  \E joined \in [0 .. Len(seqs) -> Seq(E)] : Joins(joined, seqs)
<1> DEFINE n == Len(seqs)
           flatten == CHOOSE g : g = [i \in 1 .. n |-> IF i = 1 THEN seqs[i] ELSE g[i - 1] \o seqs[i]]
           f == CHOOSE g : g = [i \in 1 .. n |-> IF i = 1 THEN seqs[1] ELSE g[i - 1] \o seqs[i]]
           Def(v, i) == v \o seqs[i]
           joined == [i \in 0 .. n |-> IF i = 0 THEN <<>> ELSE f[i]]
<1>1. n \in Nat /\ \A i \in 1 .. n : seqs[i] \in Seq(E)
  BY LenProperties, ElementOfSeq
<1>2. CASE n = 0
  <2>1. FlattenSeq(seqs) = seqs /\ seqs = <<>>
    BY <1>2, EmptySeq DEF FlattenSeq
  <2>2. Joins([i \in 0 .. 0 |-> <<>>], seqs) /\ [i \in 0 .. 0 |-> <<>>] \in [0 .. Len(seqs) -> Seq(E)]
    BY <1>2, <2>1 DEF Joins
  <2> QED
    BY <2>2
<1>3. CASE n # 0
  <2>1. FlattenSeq(seqs) = flatten[n]
    BY <1>3, Zenon DEF FlattenSeq
  <2>2. flatten = f
    <3>1. ASSUME NEW g
          PROVE  [i \in 1 .. n |-> IF i = 1 THEN seqs[i] ELSE g[i - 1] \o seqs[i]]
                 = [i \in 1 .. n |-> IF i = 1 THEN seqs[1] ELSE g[i - 1] \o seqs[i]]
      OBVIOUS
    <3> QED
      BY <3>1, Zenon
  <2>3. FiniteNatInductiveDefHypothesis(f, seqs[1], Def, 1, n)
    BY Zenon DEF FiniteNatInductiveDefHypothesis
  <2>4. FiniteNatInductiveDefConclusion(f, seqs[1], Def, 1, n)
    BY <1>1, <2>3, FiniteNatInductiveDef, Zenon
  <2>5. f = [i \in 1 .. n |-> IF i = 1 THEN seqs[1] ELSE Def(f[i - 1], i)]
    BY <2>4, Zenon DEF FiniteNatInductiveDefConclusion
  <2> HIDE DEF f, flatten
  <2>6. \A i \in 1 .. n : f[i] = IF i = 1 THEN seqs[1] ELSE f[i - 1] \o seqs[i]
    BY <2>5, Zenon
  <2>7. joined[n] = FlattenSeq(seqs) /\ joined[0] = <<>>
    BY <1>1, <1>3, <2>1, <2>2
  <2>8. \A i \in 1 .. n : joined[i] = joined[i - 1] \o seqs[i]
    <3> SUFFICES ASSUME NEW i \in 1 .. n PROVE joined[i] = joined[i - 1] \o seqs[i]
      OBVIOUS
    <3>1. CASE i = 1
      <4>1. joined[i] = seqs[1] /\ joined[i - 1] = <<>>
        BY <1>1, <2>6, <3>1
      <4> QED
        BY <1>1, <3>1, <4>1, ConcatEmptySeq
    <3>2. CASE i # 1
      <4>1. i \in 0 .. n /\ i # 0 /\ i - 1 \in 0 .. n /\ i - 1 # 0
        BY <1>1, <3>2
      <4>2. joined[i] = f[i] /\ joined[i - 1] = f[i - 1]
        BY <4>1
      <4> QED
        BY <2>6, <3>2, <4>2
    <3> QED
      BY <3>1, <3>2
  <2> HIDE DEF joined
  <2>9. \A i \in 0 .. n : joined[i] \in Seq(E)
    <3> DEFINE S == {i \in 0 .. n : joined[i] \in Seq(E)}
    <3>1. 0 \in S
      <4>1. 0 \in 0 .. n
        BY <1>1
      <4>2. joined[0] \in Seq(E)
        BY <2>7, EmptySeq
      <4> QED
        BY <4>1, <4>2
    <3>2. ASSUME NEW k \in 1 .. n, k - 1 \in S PROVE k \in S
      <4>1. joined[k] = joined[k - 1] \o seqs[k]
        BY <2>8
      <4>2. joined[k - 1] \in Seq(E) /\ k \in 0 .. n
        BY <1>1, <3>2
      <4> QED
        BY <1>1, <4>1, <4>2, ConcatProperties
    <3> HIDE DEF S
    <3>3. \A k \in 0 .. n : k \in S
      BY <1>1, <3>1, <3>2, InductionUpTo
    <3> QED
      BY <3>3 DEF S
  <2>10. joined \in [0 .. n -> Seq(E)]
    BY <2>9 DEF joined
  <2> QED
    BY <2>7, <2>8, <2>10 DEF Joins
<1> QED
  BY <1>2, <1>3

(* Where each list is in the whole.                                        *)
Placed(seqs, joined, k) ==
  \A i \in 1 .. Len(seqs[k]) : FlattenSeq(seqs)[Len(joined[k - 1]) + i] = seqs[k][i]

LEMMA JoinPlaces ==
  ASSUME NEW E, NEW seqs \in Seq(Seq(E)), NEW joined \in [0 .. Len(seqs) -> Seq(E)],
         Joins(joined, seqs), NEW k \in 1 .. Len(seqs)
  PROVE  /\ Len(joined[k]) = Len(joined[k - 1]) + Len(seqs[k])
         /\ Len(joined[k]) <= Len(FlattenSeq(seqs))
         /\ Placed(seqs, joined, k)
<1> DEFINE n == Len(seqs)
<1>1. n \in Nat /\ \A i \in 1 .. n : seqs[i] \in Seq(E)
  BY LenProperties, ElementOfSeq
<1>2. \A i \in 0 .. n : joined[i] \in Seq(E) /\ Len(joined[i]) \in Nat
  BY LenProperties
<1>3. ASSUME NEW i \in 1 .. n
      PROVE  /\ i - 1 \in 0 .. n /\ i \in 0 .. n
             /\ joined[i] = joined[i - 1] \o seqs[i]
             /\ Len(joined[i]) = Len(joined[i - 1]) + Len(seqs[i])
             /\ Len(seqs[i]) \in Nat
             /\ \A j \in 1 .. Len(joined[i]) :
                  joined[i][j] = IF j <= Len(joined[i - 1]) THEN joined[i - 1][j]
                                 ELSE seqs[i][j - Len(joined[i - 1])]
  <2>1. i - 1 \in 0 .. n /\ i \in 0 .. n
    BY <1>1
  <2>2. joined[i] = joined[i - 1] \o seqs[i]
    BY DEF Joins
  <2>3. joined[i - 1] \in Seq(E) /\ seqs[i] \in Seq(E)
    BY <1>1, <1>2, <2>1
  <2>4. Len(joined[i - 1]) \in Nat /\ Len(seqs[i]) \in Nat
    BY <2>3, LenProperties
  <2>5. /\ Len(joined[i - 1] \o seqs[i]) = Len(joined[i - 1]) + Len(seqs[i])
        /\ \A j \in 1 .. Len(joined[i - 1]) + Len(seqs[i]) : (joined[i - 1] \o seqs[i])[j] =
             IF j <= Len(joined[i - 1]) THEN joined[i - 1][j] ELSE seqs[i][j - Len(joined[i - 1])]
    BY <2>3, ConcatProperties
  <2> QED
    BY <2>1, <2>2, <2>4, <2>5
<1> DEFINE S == {m \in Nat : m + k <= n =>
                   /\ Len(joined[k]) <= Len(joined[m + k])
                   /\ \A j \in 1 .. Len(joined[k]) : joined[m + k][j] = joined[k][j]}
<1>4. 0 \in S
  BY <1>1, <1>2
<1>5. ASSUME NEW m \in 1 .. n - k, m - 1 \in S PROVE m \in S
  <2> DEFINE i == m + k
             a == joined[k]
             b == joined[i - 1]
             c == joined[i]
  <2>1. /\ m \in Nat /\ m - 1 \in Nat /\ i \in 1 .. n /\ m - 1 + k = i - 1 /\ m - 1 + k <= n
        /\ k \in 0 .. n /\ i - 1 \in 0 .. n /\ i \in 0 .. n
    BY <1>1
  <2>2. Len(a) <= Len(b) /\ \A j \in 1 .. Len(a) : b[j] = a[j]
    BY <1>5, <2>1
  <2>3. Len(a) \in Nat /\ Len(b) \in Nat /\ Len(c) \in Nat
    BY <1>2, <2>1
  <2>4. /\ Len(c) = Len(b) + Len(seqs[i]) /\ Len(seqs[i]) \in Nat
        /\ \A j \in 1 .. Len(c) : c[j] = IF j <= Len(b) THEN b[j] ELSE seqs[i][j - Len(b)]
    BY <1>3, <2>1
  <2> HIDE DEF a, b, c
  <2>5. Len(a) <= Len(c) /\ \A j \in 1 .. Len(a) : c[j] = a[j]
    <3>1. Len(a) <= Len(c)
      BY <2>2, <2>3, <2>4
    <3>2. ASSUME NEW j \in 1 .. Len(a) PROVE c[j] = a[j]
      <4>1. j \in 1 .. Len(c) /\ j <= Len(b)
        BY <2>2, <2>3, <2>4
      <4>2. c[j] = b[j]
        BY <2>4, <4>1
      <4> QED
        BY <2>2, <4>2
    <3> QED
      BY <3>1, <3>2
  <2> QED
    BY <2>1, <2>5 DEF a, c
<1> HIDE DEF S
<1>6. n - k \in Nat /\ n - k \in 0 .. n - k
  BY <1>1
<1>7. n - k \in S
  BY <1>4, <1>5, <1>6, InductionUpTo
<1>8. /\ Len(joined[k]) <= Len(joined[n])
      /\ \A j \in 1 .. Len(joined[k]) : joined[n][j] = joined[k][j]
  <2>1. (n - k) + k = n
    BY <1>1
  <2> QED
    BY <1>1, <1>7, <2>1 DEF S
<1>9. FlattenSeq(seqs) = joined[n]
  BY DEF Joins
<1>10. ASSUME NEW i \in 1 .. Len(seqs[k])
       PROVE  FlattenSeq(seqs)[Len(joined[k - 1]) + i] = seqs[k][i]
  <2> DEFINE a == joined[k - 1]
             b == joined[k]
             j == Len(a) + i
  <2>1. k - 1 \in 0 .. n /\ k \in 0 .. n
    BY <1>1
  <2>2. Len(a) \in Nat /\ Len(seqs[k]) \in Nat /\ Len(b) = Len(a) + Len(seqs[k])
    BY <1>2, <1>3, <2>1
  <2>3. \A l \in 1 .. Len(b) : b[l] = IF l <= Len(a) THEN a[l] ELSE seqs[k][l - Len(a)]
    BY <1>3
  <2>4. \A l \in 1 .. Len(b) : FlattenSeq(seqs)[l] = b[l]
    BY <1>8, <1>9
  <2> HIDE DEF a, b
  <2>5. j \in 1 .. Len(b) /\ ~(j <= Len(a)) /\ j - Len(a) = i
    BY <2>2
  <2>6. FlattenSeq(seqs)[j] = seqs[k][i]
    BY <2>3, <2>4, <2>5
  <2> QED
    BY <2>6 DEF a
<1> QED
  BY <1>3, <1>8, <1>9, <1>10 DEF Placed

(* One sequence after another, or one element.                             *)
IsBoth(E, s, t, st) ==
  /\ st \in Seq(E) /\ Len(st) = Len(s) + Len(t)
  /\ \A i \in 1 .. Len(s) : st[i] = s[i]
  /\ \A i \in 1 .. Len(t) : st[Len(s) + i] = t[i]

LEMMA OneAfterOther ==
  ASSUME NEW E, NEW s \in Seq(E), NEW t \in Seq(E)
  PROVE  IsBoth(E, s, t, s \o t)
<1>1. /\ s \o t \in Seq(E) /\ Len(s \o t) = Len(s) + Len(t)
      /\ \A i \in 1 .. Len(s) + Len(t) :
           (s \o t)[i] = IF i <= Len(s) THEN s[i] ELSE t[i - Len(s)]
  BY ConcatProperties
<1>2. Len(s) \in Nat /\ Len(t) \in Nat
  BY LenProperties
<1>3. \A i \in 1 .. Len(s) : (s \o t)[i] = s[i]
  BY <1>1, <1>2
<1>4. ASSUME NEW i \in 1 .. Len(t) PROVE (s \o t)[Len(s) + i] = t[i]
  <2>1. PICK j \in Int : j = Len(s) + i
    BY <1>2
  <2>2. j \in 1 .. Len(s) + Len(t) /\ ~(j <= Len(s)) /\ j - Len(s) = i
    BY <1>2, <2>1
  <2> QED
    BY <1>1, <2>1, <2>2
<1> QED
  BY <1>1, <1>3, <1>4 DEF IsBoth

LEMMA OneElementAfter ==
  ASSUME NEW E, NEW s \in Seq(E), NEW e \in E
  PROVE  /\ s \o <<e>> \in Seq(E) /\ Len(s \o <<e>>) = Len(s) + 1
         /\ \A i \in 1 .. Len(s) : (s \o <<e>>)[i] = s[i]
         /\ (s \o <<e>>)[Len(s) + 1] = e
  OBVIOUS

-----------------------------------------------------------------------------
(* Writing and reading, one call after the other.                          *)

Writes(at, e, calls) ==
  /\ WriteAll(e, calls) = at[Len(calls)] /\ at[0] = e
  /\ \A k \in 1 .. Len(calls) : at[k] = Write(at[k - 1], calls[k])

LEMMA WriteSteps ==
  ASSUME NEW e, NEW calls, Len(calls) \in Nat
  PROVE  \E at : Writes(at, e, calls)
<1> DEFINE n == Len(calls)
           f == CHOOSE g : g = [k \in 0 .. n |-> IF k = 0 THEN e ELSE Write(g[k - 1], calls[k])]
           Def(v, k) == Write(v, calls[k])
<1>1. WriteAll(e, calls) = f[n]
  BY Zenon DEF WriteAll
<1>2. FiniteNatInductiveDefHypothesis(f, e, Def, 0, n)
  BY Zenon DEF FiniteNatInductiveDefHypothesis
<1>3. FiniteNatInductiveDefConclusion(f, e, Def, 0, n)
  BY <1>2, FiniteNatInductiveDef, Zenon
<1>4. f = [k \in 0 .. n |-> IF k = 0 THEN e ELSE Write(f[k - 1], calls[k])]
  BY <1>3, Zenon DEF FiniteNatInductiveDefConclusion
<1> HIDE DEF f
<1>5. f[0] = e
  <2>1. 0 \in 0 .. n
    OBVIOUS
  <2> QED
    BY <1>4, <2>1, Zenon
<1>6. ASSUME NEW k \in 1 .. n PROVE f[k] = Write(f[k - 1], calls[k])
  <2>1. k \in 0 .. n /\ k # 0
    OBVIOUS
  <2> QED
    BY <1>4, <2>1, Zenon
<1> QED
  BY <1>1, <1>5, <1>6 DEF Writes

Reads(at, d, calls) ==
  /\ ReadAll(d, calls) = at[Len(calls)] /\ at[0] = d
  /\ \A k \in 1 .. Len(calls) : at[k] = Read(at[k - 1], calls[k])

LEMMA ReadSteps ==
  ASSUME NEW d, NEW calls, Len(calls) \in Nat
  PROVE  \E at : Reads(at, d, calls)
<1> DEFINE n == Len(calls)
           f == CHOOSE g : g = [k \in 0 .. n |-> IF k = 0 THEN d ELSE Read(g[k - 1], calls[k])]
           Def(v, k) == Read(v, calls[k])
<1>1. ReadAll(d, calls) = f[n]
  BY Zenon DEF ReadAll
<1>2. FiniteNatInductiveDefHypothesis(f, d, Def, 0, n)
  BY Zenon DEF FiniteNatInductiveDefHypothesis
<1>3. FiniteNatInductiveDefConclusion(f, d, Def, 0, n)
  BY <1>2, FiniteNatInductiveDef, Zenon
<1>4. f = [k \in 0 .. n |-> IF k = 0 THEN d ELSE Read(f[k - 1], calls[k])]
  BY <1>3, Zenon DEF FiniteNatInductiveDefConclusion
<1> HIDE DEF f
<1>5. f[0] = d
  <2>1. 0 \in 0 .. n
    OBVIOUS
  <2> QED
    BY <1>4, <2>1, Zenon
<1>6. ASSUME NEW k \in 1 .. n PROVE f[k] = Read(f[k - 1], calls[k])
  <2>1. k \in 0 .. n /\ k # 0
    OBVIOUS
  <2> QED
    BY <1>4, <2>1, Zenon
<1> QED
  BY <1>1, <1>5, <1>6 DEF Reads

-----------------------------------------------------------------------------
(* Where a reader is in a stream.                                          *)

Rest(w, p) == SubSeq(w, p + 1, Len(w))
Holds(w, p, b) == p + Len(b) <= Len(w) /\ \A i \in 1 .. Len(b) : w[p + i] = b[i]
Starts(s, b) == Len(b) <= Len(s) /\ \A i \in 1 .. Len(b) : s[i] = b[i]

LEMMA RestIs ==
  ASSUME NEW E, NEW w \in Seq(E), NEW p \in 0 .. Len(w)
  PROVE  /\ Rest(w, p) \in Seq(E) /\ Len(Rest(w, p)) = Len(w) - p
         /\ \A i \in 1 .. Len(w) - p : Rest(w, p)[i] = w[p + i]
<1>1. Len(w) \in Nat /\ p \in Nat
  BY LenProperties
<1>2. \A i \in p + 1 .. Len(w) : w[i] \in E
  BY <1>1, ElementOfSeq
<1>3. Len(Rest(w, p)) = Len(w) - p /\ \A i \in 1 .. Len(w) - p : Rest(w, p)[i] = w[p + i]
  BY <1>1, <1>2, SMT DEF Rest
<1>4. Rest(w, p) \in Seq(E)
  BY <1>1, <1>2, SMT DEF Rest
<1> QED
  BY <1>3, <1>4

LEMMA RestOfRest ==
  ASSUME NEW E, NEW w \in Seq(E), NEW p \in 0 .. Len(w), NEW n \in 0 .. Len(w) - p
  PROVE  Rest(Rest(w, p), n) = Rest(w, p + n)
<1>1. Len(w) \in Nat /\ p \in Nat /\ n \in Nat /\ p + n \in 0 .. Len(w)
  BY LenProperties
<1> DEFINE s == Rest(w, p)
           t == Rest(s, n)
           u == Rest(w, p + n)
<1>2. s \in Seq(E) /\ Len(s) = Len(w) - p /\ \A i \in 1 .. Len(w) - p : s[i] = w[p + i]
  BY RestIs
<1>3. t \in Seq(E) /\ Len(t) = Len(s) - n /\ \A i \in 1 .. Len(s) - n : t[i] = s[n + i]
  <2> HIDE DEF s
  <2>1. n \in 0 .. Len(s)
    BY <1>1, <1>2
  <2> QED
    BY <1>2, <2>1, RestIs
<1>4. u \in Seq(E) /\ Len(u) = Len(w) - (p + n) /\ \A i \in 1 .. Len(w) - (p + n) : u[i] = w[p + n + i]
  BY <1>1, RestIs
<1> HIDE DEF s, t, u
<1>5. Len(t) = Len(u)
  BY <1>1, <1>2, <1>3, <1>4
<1>6. ASSUME NEW i \in 1 .. Len(t) PROVE t[i] = u[i]
  <2>1. i \in 1 .. Len(s) - n /\ i \in 1 .. Len(w) - (p + n) /\ n + i \in 1 .. Len(w) - p
    BY <1>1, <1>2, <1>3
  <2>2. t[i] = w[p + (n + i)] /\ u[i] = w[p + n + i]
    BY <1>2, <1>3, <1>4, <2>1
  <2> QED
    BY <1>1, <2>1, <2>2
<1> QED
  BY <1>3, <1>4, <1>5, <1>6, SeqEqual DEF t, u, s

LEMMA HoldsStarts ==
  ASSUME NEW E, NEW w \in Seq(E), NEW p \in 0 .. Len(w), NEW b, Len(b) \in Nat, Holds(w, p, b)
  PROVE  /\ Starts(Rest(w, p), b)
         /\ p + Len(b) \in 0 .. Len(w)
         /\ Rest(Rest(w, p), Len(b)) = Rest(w, p + Len(b))
<1>1. Len(w) \in Nat /\ p \in Nat /\ p + Len(b) \in 0 .. Len(w) /\ Len(b) \in 0 .. Len(w) - p
  BY LenProperties DEF Holds
<1>2. Len(Rest(w, p)) = Len(w) - p /\ \A i \in 1 .. Len(w) - p : Rest(w, p)[i] = w[p + i]
  BY RestIs
<1>3. Starts(Rest(w, p), b)
  BY <1>1, <1>2 DEF Starts, Holds
<1> QED
  BY <1>1, <1>3, RestOfRest

LEMMA HoldsBoth ==
  ASSUME NEW E, NEW s \in Seq(E), NEW t \in Seq(E), NEW w, NEW p \in Nat, Len(w) \in Nat,
         Holds(w, p, s \o t)
  PROVE  Holds(w, p, s) /\ Holds(w, p + Len(s), t)
<1>1. IsBoth(E, s, t, s \o t)
  BY OneAfterOther
<1>2. Len(s) \in Nat /\ Len(t) \in Nat
  BY LenProperties
<1> DEFINE st == s \o t
<1>3. Len(st) = Len(s) + Len(t) /\ (\A i \in 1 .. Len(s) : st[i] = s[i])
      /\ \A i \in 1 .. Len(t) : st[Len(s) + i] = t[i]
  BY <1>1 DEF IsBoth
<1>4. p + Len(st) <= Len(w) /\ \A i \in 1 .. Len(st) : w[p + i] = st[i]
  BY DEF Holds
<1> HIDE DEF st
<1>5. Holds(w, p, s)
  BY <1>2, <1>3, <1>4 DEF Holds
<1>6. ASSUME NEW i \in 1 .. Len(t) PROVE w[p + Len(s) + i] = t[i]
  <2>1. PICK j \in Int : j = Len(s) + i
    BY <1>2
  <2>2. j \in 1 .. Len(st) /\ p + j = p + Len(s) + i
    BY <1>2, <1>3, <2>1
  <2>3. w[p + j] = st[j]
    BY <1>4, <2>2
  <2>4. st[j] = t[i]
    BY <1>3, <2>1
  <2> QED
    BY <2>2, <2>3, <2>4
<1> QED
  BY <1>2, <1>3, <1>4, <1>5, <1>6 DEF Holds

-----------------------------------------------------------------------------
(* A number is read from its bytes, whatever follows them.                 *)

\* As many bytes as their tag promises.
IntSized(b) ==
  /\ b[1] \in 192..207 => Len(b) = 2
  /\ b[1] \in 208..215 => Len(b) = 3
  /\ b[1] = 73 => Len(b) = 5
LongSized(b) ==
  /\ b[1] \in 240..255 => Len(b) = 2
  /\ b[1] \in 56..63 => Len(b) = 3
  /\ b[1] = 89 => Len(b) = 5
  /\ b[1] = 76 => Len(b) = 9

LEMMA Ahead ==
  ASSUME NEW s, NEW b \in Seq(Int), Len(b) \in Nat \ {0}, Starts(s, b)
  PROVE  /\ IntSized(b) => ReadInt(s) = ReadInt(b)
         /\ LongSized(b) => ReadLong(s) = ReadLong(b)
<1>1. s[1] = b[1] /\ \A i \in 1 .. Len(b) : s[i] = b[i] /\ b[i] \in Int
  BY ElementOfSeq DEF Starts
<1>2. /\ Len(b) = 2 => s[2] = b[2] /\ b[2] \in Int
      /\ Len(b) = 3 => s[2] = b[2] /\ s[3] = b[3] /\ b[2] \in Int /\ b[3] \in Int
      /\ Len(b) = 5 => FromBytes4(s, 2) = FromBytes4(b, 2)
      /\ Len(b) = 9 => FromBytes8(s, 2) = FromBytes8(b, 2)
  <2>1. CASE Len(b) = 2
    BY <1>1, <2>1
  <2>2. CASE Len(b) = 3
    BY <1>1, <2>2
  <2>3. CASE Len(b) = 5
    <3>1. s[2] = b[2] /\ s[3] = b[3] /\ s[4] = b[4] /\ s[5] = b[5]
          /\ b[2] \in Int /\ b[3] \in Int /\ b[4] \in Int /\ b[5] \in Int
      BY <1>1, <2>3
    <3> QED
      BY <2>3, <3>1 DEF FromBytes4, FromBytes2
  <2>4. CASE Len(b) = 9
    <3>1. s[2] = b[2] /\ s[3] = b[3] /\ s[4] = b[4] /\ s[5] = b[5]
          /\ s[6] = b[6] /\ s[7] = b[7] /\ s[8] = b[8] /\ s[9] = b[9]
          /\ b[2] \in Int /\ b[3] \in Int /\ b[4] \in Int /\ b[5] \in Int
          /\ b[6] \in Int /\ b[7] \in Int /\ b[8] \in Int /\ b[9] \in Int
      BY <1>1, <2>4
    <3>4. s[2] = b[2] /\ s[3] = b[3] /\ s[4] = b[4] /\ s[5] = b[5]
      BY <3>1
    <3>2. FromBytes4(s, 2) = FromBytes4(b, 2)
      BY <3>4 DEF FromBytes4, FromBytes2
    <3>5. s[2 + 4] = b[2 + 4] /\ s[2 + 5] = b[2 + 5] /\ s[2 + 6] = b[2 + 6] /\ s[2 + 7] = b[2 + 7]
      BY <3>1
    <3>3. FromBytes8(s, 2) = FromBytes8(b, 2)
      BY <3>2, <3>5, SMT DEF FromBytes8
    <3> QED
      BY <2>4, <3>3
  <2> QED
    BY <2>1, <2>2, <2>3, <2>4
<1>3. b[1] \in Int
  BY <1>1
<1>4. ASSUME IntSized(b) PROVE ReadInt(s) = ReadInt(b)
  <2>1. CASE b[1] \in 128..191
    BY <1>1, <1>3, <2>1, SMT DEF ReadInt
  <2>2. CASE b[1] \in 192..207
    <3>1. s[2] = b[2] /\ b[2] \in Int
      BY <1>2, <1>4, <2>2 DEF IntSized
    <3> QED
      BY <1>1, <1>3, <2>2, <3>1, SMT DEF ReadInt
  <2>3. CASE b[1] \in 208..215
    <3>1. s[2] = b[2] /\ s[3] = b[3] /\ b[2] \in Int /\ b[3] \in Int
      BY <1>2, <1>4, <2>3 DEF IntSized
    <3> QED
      BY <1>1, <1>3, <2>3, <3>1, SMT DEF ReadInt
  <2>4. CASE b[1] = 73
    <3>1. FromBytes4(s, 2) = FromBytes4(b, 2)
      BY <1>2, <1>4, <2>4 DEF IntSized
    <3> QED
      BY <1>1, <1>3, <2>4, <3>1, SMT DEF ReadInt
  <2>5. CASE b[1] \notin 128..191 \cup 192..207 \cup 208..215 \cup {73}
    BY <1>1, <1>3, <2>5, SMT DEF ReadInt
  <2> QED
    BY <2>1, <2>2, <2>3, <2>4, <2>5
<1>5. ASSUME LongSized(b) PROVE ReadLong(s) = ReadLong(b)
  <2>1. CASE b[1] \in 216..239
    BY <1>1, <1>3, <2>1, SMT DEF ReadLong
  <2>2. CASE b[1] \in 240..255
    <3>1. s[2] = b[2] /\ b[2] \in Int
      BY <1>2, <1>5, <2>2 DEF LongSized
    <3> QED
      BY <1>1, <1>3, <2>2, <3>1, SMT DEF ReadLong
  <2>3. CASE b[1] \in 56..63
    <3>1. s[2] = b[2] /\ s[3] = b[3] /\ b[2] \in Int /\ b[3] \in Int
      BY <1>2, <1>5, <2>3 DEF LongSized
    <3> QED
      BY <1>1, <1>3, <2>3, <3>1, SMT DEF ReadLong
  <2>4. CASE b[1] = 89
    <3>1. FromBytes4(s, 2) = FromBytes4(b, 2)
      BY <1>2, <1>5, <2>4 DEF LongSized
    <3> QED
      BY <1>1, <1>3, <2>4, <3>1, SMT DEF ReadLong
  <2>5. CASE b[1] = 76
    <3>1. FromBytes8(s, 2) = FromBytes8(b, 2)
      BY <1>2, <1>5, <2>5 DEF LongSized
    <3> QED
      BY <1>1, <1>3, <2>5, <3>1, SMT DEF ReadLong
  <2>6. CASE b[1] \notin 216..239 \cup 240..255 \cup 56..63 \cup {89, 76}
    BY <1>1, <1>3, <2>6, SMT DEF ReadLong
  <2> QED
    BY <2>1, <2>2, <2>3, <2>4, <2>5, <2>6
<1> QED
  BY <1>4, <1>5

StringTags == (0..31) \cup {83}
\* Some bytes, of which the first one is a tag.
Tagged(b, tags) == b \in Seq(Int) /\ Len(b) \in Nat \ {0} /\ b[1] \in tags

LEMMA ByteIs ==
  \A v \in Int : /\ Low(v) \in Int /\ Shift(v, 256) \in Int
                  /\ Shift(v, 65536) \in Int /\ Shift(v, 16777216) \in Int
  BY SMT DEF Low, Shift

LEMMA BytesAre ==
  ASSUME NEW v \in Int, NEW tag \in Int
  PROVE  /\ BigEndian4(tag, v) \in Seq(Int) /\ Len(BigEndian4(tag, v)) = 5 /\ BigEndian4(tag, v)[1] = tag
         /\ BigEndian8(tag, v) \in Seq(Int) /\ Len(BigEndian8(tag, v)) = 9 /\ BigEndian8(tag, v)[1] = tag
<1>1. \A u \in Int : /\ BigEndian4(tag, u) \in Seq(Int) /\ Len(BigEndian4(tag, u)) = 5
                     /\ BigEndian4(tag, u)[1] = tag
  <2> SUFFICES ASSUME NEW u \in Int
               PROVE  /\ BigEndian4(tag, u) \in Seq(Int) /\ Len(BigEndian4(tag, u)) = 5
                      /\ BigEndian4(tag, u)[1] = tag
    OBVIOUS
  <2> DEFINE a == Low(Shift(u, 16777216))
             b == Low(Shift(u, 65536))
             c == Low(Shift(u, 256))
             d == Low(u)
  <2>1. a \in Int /\ b \in Int /\ c \in Int /\ d \in Int
    BY ByteIs
  <2>2. BigEndian4(tag, u) = <<tag, a, b, c, d>>
    BY DEF BigEndian4
  <2> HIDE DEF a, b, c, d
  <2> QED
    BY <2>1, <2>2
<1>2. Upper(v) \in Int
  BY SMT DEF Upper, Shift
<1> DEFINE h == BigEndian4(tag, Upper(v))
           l == BigEndian4(tag, v)
<1>3. /\ h[2] \in Int /\ h[3] \in Int /\ h[4] \in Int /\ h[5] \in Int
      /\ l[2] \in Int /\ l[3] \in Int /\ l[4] \in Int /\ l[5] \in Int
  <2>1. ASSUME NEW u \in Int, NEW i \in 1 .. 5 PROVE BigEndian4(tag, u)[i] \in Int
    BY <1>1, ElementOfSeq
  <2> QED
    BY <1>2, <2>1
<1>4. BigEndian8(tag, v) = <<tag, h[2], h[3], h[4], h[5], l[2], l[3], l[4], l[5]>>
  BY DEF BigEndian8
<1> HIDE DEF h, l
<1>5. BigEndian8(tag, v) \in Seq(Int) /\ Len(BigEndian8(tag, v)) = 9 /\ BigEndian8(tag, v)[1] = tag
  BY <1>3, <1>4
<1> QED
  BY <1>1, <1>5

LEMMA IntAhead ==
  ASSUME NEW v \in Int, IsWord(v)
  PROVE  /\ Tagged(WriteInt(v), 73..215)
         /\ \A s : Starts(s, WriteInt(v)) => ReadInt(s) = Got(v, Len(WriteInt(v)))
<1> DEFINE b == WriteInt(v)
<1>1. Tagged(b, 73..215) /\ IntSized(b)
  <2>1. CASE IntIsTiny(v)
    BY <2>1 DEF WriteInt, IntIsTiny, Tagged, IntSized
  <2>2. CASE ~IntIsTiny(v) /\ IsShort(v)
    <3>1. b = <<200 + Shift(v, 256), Low(v)>>
      BY <2>2 DEF WriteInt
    <3>2. Shift(v, 256) \in -8..7 /\ Low(v) \in Int
      BY <2>2, TwoBytes
    <3> HIDE DEF b
    <3> QED
      BY <3>1, <3>2 DEF Tagged, IntSized
  <2>3. CASE ~IntIsTiny(v) /\ ~IsShort(v) /\ IsMedium(v)
    <3>1. b = <<208 + (Shift(v, 65536) % 8), Low(Shift(v, 256)), Low(v)>>
      BY <2>3 DEF WriteInt
    <3>2. Shift(v, 65536) % 8 \in 0..7 /\ Low(Shift(v, 256)) \in Int /\ Low(v) \in Int
      BY <2>3, ThreeBytes
    <3> HIDE DEF b
    <3> QED
      BY <3>1, <3>2 DEF Tagged, IntSized
  <2>4. CASE ~IntIsTiny(v) /\ ~IsShort(v) /\ ~IsMedium(v)
    <3>1. b = BigEndian4(73, v)
      BY <2>4 DEF WriteInt
    <3> HIDE DEF b
    <3>2. b \in Seq(Int) /\ Len(b) = 5 /\ b[1] = 73
      BY <3>1, BytesAre
    <3> QED
      BY <3>2 DEF Tagged, IntSized
  <2> QED
    BY <2>1, <2>2, <2>3, <2>4
<1>2. ReadInt(b) = Got(v, Len(b)) 
  BY IntRoundTrip
<1> HIDE DEF b
<1>3. \A s : Starts(s, b) => ReadInt(s) = Got(v, Len(b))
  BY <1>1, <1>2, Ahead DEF Tagged
<1> QED
  BY <1>1, <1>3 DEF b

LEMMA LongAhead ==
  ASSUME NEW v \in Int, IsWord(Upper(v))
  PROVE  /\ Tagged(WriteLong(v), 0..255)
         /\ \A s : Starts(s, WriteLong(v)) => ReadLong(s) = Got(v, Len(WriteLong(v)))
<1> DEFINE b == WriteLong(v)
<1>1. Tagged(b, 0..255) /\ LongSized(b)
  <2>1. CASE LongIsTiny(v)
    BY <2>1 DEF WriteLong, LongIsTiny, Tagged, LongSized
  <2>2. CASE ~LongIsTiny(v) /\ IsShort(v)
    <3>1. b = <<240 + (Shift(v, 256) % 16), Low(v)>>
      BY <2>2 DEF WriteLong
    <3>2. Shift(v, 256) % 16 \in 0..15 /\ Low(v) \in Int
      BY <2>2, TwoBytes
    <3> HIDE DEF b
    <3> QED
      BY <3>1, <3>2 DEF Tagged, LongSized
  <2>3. CASE ~LongIsTiny(v) /\ ~IsShort(v) /\ IsMedium(v)
    <3>1. b = <<56 + (Shift(v, 65536) % 8), Low(Shift(v, 256)), Low(v)>>
      BY <2>3 DEF WriteLong
    <3>2. Shift(v, 65536) % 8 \in 0..7 /\ Low(Shift(v, 256)) \in Int /\ Low(v) \in Int
      BY <2>3, ThreeBytes
    <3> HIDE DEF b
    <3> QED
      BY <3>1, <3>2 DEF Tagged, LongSized
  <2>4. CASE ~LongIsTiny(v) /\ ~IsShort(v) /\ ~IsMedium(v) /\ IsWord(v)
    <3>1. b = BigEndian4(89, v)
      BY <2>4 DEF WriteLong
    <3> HIDE DEF b
    <3>2. b \in Seq(Int) /\ Len(b) = 5 /\ b[1] = 89
      BY <3>1, BytesAre
    <3> QED
      BY <3>2 DEF Tagged, LongSized
  <2>5. CASE ~LongIsTiny(v) /\ ~IsShort(v) /\ ~IsMedium(v) /\ ~IsWord(v)
    <3>1. b = BigEndian8(76, v)
      BY <2>5 DEF WriteLong
    <3> HIDE DEF b
    <3>2. b \in Seq(Int) /\ Len(b) = 9 /\ b[1] = 76
      BY <3>1, BytesAre
    <3> QED
      BY <3>2 DEF Tagged, LongSized
  <2> QED
    BY <2>1, <2>2, <2>3, <2>4, <2>5
<1>2. ReadLong(b) = Got(v, Len(b)) 
  BY LongRoundTrip
<1> HIDE DEF b
<1>3. \A s : Starts(s, b) => ReadLong(s) = Got(v, Len(b))
  BY <1>1, <1>2, Ahead DEF Tagged
<1> QED
  BY <1>1, <1>3 DEF b

LEMMA DateAhead ==
  ASSUME NEW v \in Int, IsWord(Upper(v))
  PROVE  /\ Tagged(WriteDate(v), 0..255) /\ Len(WriteDate(v)) = 9
         /\ \A s : Starts(s, WriteDate(v)) => ReadDate(s) = Got(v, 9)
<1> DEFINE b == WriteDate(v)
<1>1. b = BigEndian8(100, v)
  BY DEF WriteDate
<1>2. b \in Seq(Int) /\ Len(b) = 9 /\ b[1] = 100
  BY <1>1, BytesAre
<1>3. FromBytes8(b, 2) = v
  BY <1>1, EightBytes
<1> HIDE DEF b
<1>4. ASSUME NEW s, Starts(s, b) PROVE ReadDate(s) = Got(v, 9)
  <2>1. s[1] = 100 /\ s[2] = b[2] /\ s[3] = b[3] /\ s[4] = b[4] /\ s[5] = b[5]
        /\ s[6] = b[6] /\ s[7] = b[7] /\ s[8] = b[8] /\ s[9] = b[9]
    BY <1>2, <1>4 DEF Starts
  <2>2. FromBytes8(s, 2) = FromBytes8(b, 2)
    BY <2>1 DEF FromBytes8, FromBytes4, FromBytes2
  <2>3. ReadDate(s) = Got(FromBytes8(s, 2), 9)
    BY <2>1, SMT DEF ReadDate
  <2> QED
    BY <1>3, <2>2, <2>3
<1> QED
  BY <1>2, <1>4 DEF b, Tagged

LEMMA TwoBytesOf ==
  ASSUME NEW n \in Nat, n < 65536
  PROVE  /\ Low(Shift(n, 256)) \in 0..255 /\ Low(n) \in 0..255
         /\ Low(Shift(n, 256)) * 256 + Low(n) = n
  BY SMTT(30) DEF Low, Shift

LEMMA StringHeadAhead ==
  ASSUME NEW n \in Nat, n < 65536
  PROVE  /\ Tagged(WriteStringHead(n), StringTags)
         /\ \A s : Starts(s, WriteStringHead(n)) => ReadStringHead(s) = Got(n, Len(WriteStringHead(n)))
<1> DEFINE h == Low(Shift(n, 256))
           l == Low(n)
           b == WriteStringHead(n)
<1>1. h \in 0..255 /\ l \in 0..255 /\ h * 256 + l = n
  BY TwoBytesOf
<1>2. b = (IF n <= 31 THEN <<n>> ELSE <<83, h, l>>)
  BY SMT DEF WriteStringHead
<1> HIDE DEF h, l, b
<1>3. CASE n <= 31
  <2>1. b = <<n>>
    BY <1>2, <1>3
  <2>2. Tagged(b, StringTags) /\ Len(b) = 1
    BY <1>3, <2>1 DEF Tagged, StringTags
  <2>3. ASSUME NEW s, Starts(s, b) PROVE ReadStringHead(s) = Got(n, Len(b))
    <3>1. s[1] = n
      BY <2>1, <2>3 DEF Starts
    <3> QED
      BY <1>3, <2>2, <3>1, SMT DEF ReadStringHead
  <2> QED
    BY <2>2, <2>3 DEF b
<1>4. CASE ~(n <= 31)
  <2>1. b = <<83, h, l>>
    BY <1>2, <1>4
  <2>2. Tagged(b, StringTags) /\ Len(b) = 3
    BY <1>1, <2>1 DEF Tagged, StringTags
  <2>3. ASSUME NEW s, Starts(s, b) PROVE ReadStringHead(s) = Got(n, Len(b))
    <3>1. s[1] = 83 /\ s[2] = h /\ s[3] = l
      BY <2>1, <2>3 DEF Starts
    <3> QED
      BY <1>1, <2>2, <3>1, SMT DEF ReadStringHead
  <2> QED
    BY <2>2, <2>3 DEF b
<1> QED
  BY <1>3, <1>4

LEMMA BinaryHeadAhead ==
  ASSUME NEW n \in Nat, n < 65536
  PROVE  /\ Tagged(WriteBinaryHead(n), 32..66)
         /\ \A s : Starts(s, WriteBinaryHead(n)) => ReadBinaryHead(s) = Got(n, Len(WriteBinaryHead(n)))
<1> DEFINE h == Low(Shift(n, 256))
           l == Low(n)
           b == WriteBinaryHead(n)
<1>1. h \in 0..255 /\ l \in 0..255 /\ h * 256 + l = n
  BY TwoBytesOf
<1>2. b = (IF n <= 15 THEN <<32 + n>> ELSE <<66, h, l>>)
  BY SMT DEF WriteBinaryHead
<1> HIDE DEF h, l, b
<1>3. CASE n <= 15
  <2>1. b = <<32 + n>>
    BY <1>2, <1>3
  <2>2. Tagged(b, 32..66) /\ Len(b) = 1
    BY <1>3, <2>1 DEF Tagged
  <2>3. ASSUME NEW s, Starts(s, b) PROVE ReadBinaryHead(s) = Got(n, Len(b))
    <3>1. s[1] = 32 + n
      BY <2>1, <2>3 DEF Starts
    <3>2. ReadBinaryHead(s) = Got(32 + n - 32, 1)
      BY <1>3, <3>1, SMT DEF ReadBinaryHead
    <3> QED
      BY <2>2, <3>2
  <2> QED
    BY <2>2, <2>3 DEF b
<1>4. CASE ~(n <= 15)
  <2>1. b = <<66, h, l>>
    BY <1>2, <1>4
  <2>2. Tagged(b, 32..66) /\ Len(b) = 3
    BY <1>1, <2>1 DEF Tagged
  <2>3. ASSUME NEW s, Starts(s, b) PROVE ReadBinaryHead(s) = Got(n, Len(b))
    <3>1. s[1] = 66 /\ s[2] = h /\ s[3] = l
      BY <2>1, <2>3 DEF Starts
    <3> QED
      BY <1>1, <2>2, <3>1, SMT DEF ReadBinaryHead
  <2> QED
    BY <2>2, <2>3 DEF b
<1> QED
  BY <1>3, <1>4

-----------------------------------------------------------------------------
(* What a Decoder at some place of a stream reads there.                   *)

NoFailure == FALSE
Decoder(rest, refs, defs, index, got) ==
  [rest |-> rest, refs |-> refs, defs |-> defs, index |-> index, got |-> got, failed |-> NoFailure]
Reading(w, p, refs, defs, index, got) == Decoder(Rest(w, p), refs, defs, index, got)

\* Its fields, and what changing one makes of it.
SetRest(d, y) == [d EXCEPT !.rest = y]
SetRefs(d, y) == [d EXCEPT !.refs = y]
SetDefs(d, y) == [d EXCEPT !.defs = y]
SetIndex(d, y) == [d EXCEPT !.index = y]
SetGot(d, y) == [d EXCEPT !.got = y]
IsDecoder(d, r, f, s, x, g) ==
  /\ d.rest = r /\ d.refs = f /\ d.defs = s /\ d.index = x /\ d.got = g /\ d.failed = NoFailure
  /\ \A y : SetRest(d, y) = Decoder(y, f, s, x, g)
  /\ \A y : SetRefs(d, y) = Decoder(r, y, s, x, g)
  /\ \A y : SetDefs(d, y) = Decoder(r, f, y, x, g)
  /\ \A y : SetIndex(d, y) = Decoder(r, f, s, y, g)
  /\ \A y : SetGot(d, y) = Decoder(r, f, s, x, y)

LEMMA DecoderIs ==
  ASSUME NEW r, NEW f, NEW s, NEW x, NEW g
  PROVE  IsDecoder(Decoder(r, f, s, x, g), r, f, s, x, g)
<1> DEFINE d == Decoder(r, f, s, x, g)
<1>1. d.rest = r /\ d.refs = f /\ d.defs = s /\ d.index = x /\ d.got = g /\ d.failed = NoFailure
  BY DEF Decoder
<1>2. ASSUME NEW y PROVE SetRest(d, y) = Decoder(y, f, s, x, g)
  BY DEF Decoder, SetRest
<1>3. ASSUME NEW y PROVE SetRefs(d, y) = Decoder(r, y, s, x, g)
  BY DEF Decoder, SetRefs
<1>4. ASSUME NEW y PROVE SetDefs(d, y) = Decoder(r, f, y, x, g)
  BY DEF Decoder, SetDefs
<1>5. ASSUME NEW y PROVE SetIndex(d, y) = Decoder(r, f, s, y, g)
  BY DEF Decoder, SetIndex
<1>6. ASSUME NEW y PROVE SetGot(d, y) = Decoder(r, f, s, x, y)
  BY DEF Decoder, SetGot
<1> HIDE DEF d
<1>7. IsDecoder(d, r, f, s, x, g)
  BY <1>1, <1>2, <1>3, <1>4, <1>5, <1>6, Zenon DEF IsDecoder
<1> QED
  BY <1>7 DEF d

LEMMA PastIs ==
  ASSUME NEW r, NEW f, NEW s, NEW x, NEW g, NEW n
  PROVE  Past(Decoder(r, f, s, x, g), n) = Decoder(Rest(r, n), f, s, x, g)
<1> DEFINE d == Decoder(r, f, s, x, g)
<1>1. d.rest = r /\ \A y : SetRest(d, y) = Decoder(y, f, s, x, g)
  <2>1. IsDecoder(d, r, f, s, x, g)
    BY DecoderIs
  <2> QED
    BY <2>1, Zenon DEF IsDecoder
<1> HIDE DEF d
<1>2. Past(d, n) = SetRest(d, Rest(d.rest, n))
  BY DEF Past, Rest, SetRest
<1>3. Past(d, n) = Decoder(Rest(r, n), f, s, x, g)
  BY <1>1, <1>2
<1> QED
  BY <1>3 DEF d

LEMMA TakeStep ==
  ASSUME NEW E, NEW w \in Seq(E), NEW p \in 0 .. Len(w), NEW b, Len(b) \in Nat \ {0}, Holds(w, p, b),
         NEW f, NEW s, NEW x, NEW g, NEW v
  PROVE  Take(Reading(w, p, f, s, x, g), Got(v, Len(b)))
           = Reading(w, p + Len(b), f, s, x, Append(g, v))
<1> DEFINE d == Reading(w, p, f, s, x, g)
           n == Len(b)
           e == Past(d, n)
<1>1. Got(v, n).used = n /\ Got(v, n).value = v /\ Mismatch.used = 0
  BY DEF Got, Mismatch
<1>2. Got(v, n) # Mismatch
  <2>1. n # 0
    OBVIOUS
  <2> HIDE DEF n
  <2> QED
    BY <1>1, <2>1, Zenon
<1>3. Rest(Rest(w, p), n) = Rest(w, p + n)
  BY HoldsStarts
<1> HIDE DEF n
<1>4. e = Decoder(Rest(Rest(w, p), n), f, s, x, g)
  <2>1. d = Decoder(Rest(w, p), f, s, x, g)
    BY DEF Reading
  <2> HIDE DEF d
  <2> QED
    BY <2>1, PastIs
<1>5. Take(d, Got(v, n)) = [e EXCEPT !.got = Append(@, v)]
  BY <1>1, <1>2, Zenon DEF Take
<1> HIDE DEF e
<1>6. [e EXCEPT !.got = Append(@, v)] = Decoder(Rest(w, p + n), f, s, x, Append(g, v))
  <2>1. e.got = g /\ \A y : SetGot(e, y) = Decoder(Rest(w, p + n), f, s, x, y)
    <3>1. IsDecoder(e, Rest(w, p + n), f, s, x, g)
      BY <1>3, <1>4, DecoderIs
    <3> QED
      BY <3>1, Zenon DEF IsDecoder
  <2>2. [e EXCEPT !.got = Append(@, v)] = SetGot(e, Append(e.got, v))
    BY DEF SetGot
  <2> QED
    BY <2>1, <2>2
<1> QED
  BY <1>5, <1>6 DEF Reading, n

LEMMA ExpectStep ==
  ASSUME NEW E, NEW w \in Seq(E), NEW p \in 0 .. Len(w), NEW tag, NEW tags, tag \in tags,
         Holds(w, p, <<tag>>), NEW f, NEW s, NEW x, NEW g
  PROVE  /\ Tag(Reading(w, p, f, s, x, g), tags)
         /\ Expect(Reading(w, p, f, s, x, g), tags) = Reading(w, p + 1, f, s, x, g)
<1>1. Len(<<tag>>) = 1 /\ <<tag>>[1] = tag
  OBVIOUS
<1>2. Starts(Rest(w, p), <<tag>>) /\ Rest(Rest(w, p), 1) = Rest(w, p + 1)
  <2> DEFINE b == <<tag>>
  <2>1. Len(b) = 1 /\ Len(b) \in Nat
    BY <1>1
  <2> HIDE DEF b
  <2>2. Starts(Rest(w, p), b) /\ Rest(Rest(w, p), Len(b)) = Rest(w, p + Len(b))
    BY <2>1, HoldsStarts DEF b
  <2> QED
    BY <2>1, <2>2 DEF b
<1>3. Rest(w, p)[1] = tag /\ Rest(w, p) # <<>>
  <2>1. Len(Rest(w, p)) >= 1
    BY <1>1, <1>2 DEF Starts
  <2> QED
    BY <1>1, <1>2, <2>1 DEF Starts
<1>4. Tag(Reading(w, p, f, s, x, g), tags)
  BY <1>3 DEF Tag, Reading, Decoder
<1> QED
  <2>1. Past(Decoder(Rest(w, p), f, s, x, g), 1) = Decoder(Rest(Rest(w, p), 1), f, s, x, g)
    BY PastIs
  <2> QED
    BY <1>2, <1>4, <2>1, Zenon DEF Expect, Reading

LEMMA TextIs ==
  ASSUME NEW t \in Text, IsCounted(t)
  PROVE  /\ Chars[t] \in Nat /\ Chars[t] < 65536
         /\ \A E : Int \cup Text \subseteq E => WriteString(t) \in Seq(E) /\ WriteBinary(t) \in Seq(E)
         /\ Len(WriteString(t)) = Len(WriteStringHead(Chars[t])) + 1
         /\ Len(WriteBinary(t)) = Len(WriteBinaryHead(Chars[t])) + 1
         /\ Len(WriteStringHead(Chars[t])) \in Nat \ {0} /\ Len(WriteBinaryHead(Chars[t])) \in Nat \ {0}
         /\ WriteStringHead(Chars[t])[1] \in StringTags
         /\ WriteStringHead(Chars[t]) \in Seq(Int) /\ WriteBinaryHead(Chars[t]) \in Seq(Int)
<1>1. Chars[t] \in Nat /\ Chars[t] < 65536
  BY HessianAssumption DEF IsCounted
<1> DEFINE n == Chars[t]
           h == WriteStringHead(n)
           b == WriteBinaryHead(n)
<1>2. Tagged(h, StringTags) /\ Tagged(b, 32..66)
  <2> HIDE DEF n
  <2>1. Tagged(h, StringTags)
    BY <1>1, StringHeadAhead, SMT DEF n, h
  <2>2. Tagged(b, 32..66)
    BY <1>1, BinaryHeadAhead DEF n
  <2> QED
    BY <2>1, <2>2
<1> HIDE DEF h, b
<1>3. ASSUME NEW E, Int \cup Text \subseteq E
      PROVE  /\ h \o <<t>> \in Seq(E) /\ Len(h \o <<t>>) = Len(h) + 1
             /\ b \o <<t>> \in Seq(E) /\ Len(b \o <<t>>) = Len(b) + 1
  <2>1. h \in Seq(E) /\ b \in Seq(E) /\ t \in E
    BY <1>2, <1>3 DEF Tagged
  <2>4. h \in Seq(E) /\ t \in E
    BY <2>1
  <2>2. h \o <<t>> \in Seq(E) /\ Len(h \o <<t>>) = Len(h) + 1
    BY <2>4, OneElementAfter
  <2>3. b \o <<t>> \in Seq(E) /\ Len(b \o <<t>>) = Len(b) + 1
    BY <2>1, OneElementAfter
  <2> QED
    BY <2>2, <2>3
<1>4. Len(h \o <<t>>) = Len(h) + 1 /\ Len(b \o <<t>>) = Len(b) + 1
  BY <1>3
<1> QED
  BY <1>1, <1>2, <1>3, <1>4 DEF Tagged, WriteString, WriteBinary, h, b

LEMMA StringStep ==
  ASSUME NEW w, NEW E, w \in Seq(E), Int \cup Text \subseteq E, NEW p \in 0 .. Len(w),
         NEW t \in Text, IsCounted(t),
         Holds(w, p, WriteString(t)), NEW f, NEW s, NEW x, NEW g
  PROVE  ReadStr(Reading(w, p, f, s, x, g))
           = Reading(w, p + Len(WriteString(t)), Append(f, t), s, x, Append(g, t))
<1> DEFINE d == Reading(w, p, f, s, x, g)
           r == Rest(w, p)
           h == WriteStringHead(Chars[t])
           b == WriteString(t)
           m == Len(h)
<1>1. /\ Chars[t] \in Nat /\ Chars[t] < 65536 /\ b \in Seq(E) /\ Len(b) = m + 1
      /\ m \in Nat \ {0} /\ h \in Seq(Int)
  BY TextIs
<1>2. Starts(r, b) /\ Rest(r, m + 1) = Rest(w, p + (m + 1))
  <2>1. Len(b) \in Nat
    BY <1>1
  <2> QED
    BY <1>1, <2>1, HoldsStarts
<1>3. b = h \o <<t>>
  BY DEF WriteString
<1>4. (\A i \in 1 .. m : b[i] = h[i]) /\ b[m + 1] = t
  <2>1. h \in Seq(E) /\ t \in E
    BY <1>1
  <2> HIDE DEF h, b
  <2> QED
    BY <1>3, <2>1, OneElementAfter
<1>5. Starts(r, h) /\ r[m + 1] = t /\ m + 1 <= Len(r)
  <2> HIDE DEF h, b, r, m
  <2>1. Len(b) <= Len(r) /\ \A i \in 1 .. Len(b) : r[i] = b[i]
    BY <1>2 DEF Starts
  <2>2. Len(r) \in Nat
    BY RestIs, LenProperties DEF r
  <2> QED
    BY <1>1, <1>4, <2>1, <2>2 DEF Starts, m
<1>6. ReadStringHead(r) = Got(Chars[t], m)
  BY <1>1, <1>5, StringHeadAhead
<1>7. Got(Chars[t], m) # Mismatch /\ Got(Chars[t], m).used = m /\ Got(Chars[t], m).value = Chars[t]
  <2>1. Got(Chars[t], m).used = m /\ Got(Chars[t], m).value = Chars[t] /\ Mismatch.used = 0 /\ m # 0
    BY <1>1 DEF Got, Mismatch
  <2> HIDE DEF m, h
  <2> QED
    BY <2>1
<1>8. d.rest = r
  BY DEF Reading, Decoder
<1> HIDE DEF h, b, r, m
<1>9. ReadStr(d) = WithString(Past(d, m + 1), t)
  <2>1. ~(Len(r) < m + 1)
    BY <1>1, <1>5, RestIs, LenProperties DEF r
  <2> HIDE DEF d
  <2> QED
    BY <1>5, <1>6, <1>7, <1>8, <2>1, SMT DEF ReadStr
<1>10. Past(d, m + 1) = Decoder(Rest(r, m + 1), f, s, x, g)
  <2>1. d = Decoder(r, f, s, x, g)
    BY DEF Reading, r
  <2> HIDE DEF d
  <2> QED
    BY <2>1, PastIs
<1>11. WithString(Past(d, m + 1), t)
         = Decoder(Rest(w, p + (m + 1)), Append(f, t), s, x, Append(g, t))
  <2> DEFINE e == Past(d, m + 1)
             c == SetGot(e, Append(e.got, t))
  <2>1. e.got = g /\ \A y : SetGot(e, y) = Decoder(Rest(w, p + (m + 1)), f, s, x, y)
    <3>1. IsDecoder(e, Rest(w, p + (m + 1)), f, s, x, g)
      BY <1>2, <1>10, DecoderIs
    <3> QED
      BY <3>1, Zenon DEF IsDecoder
  <2>2. c = Decoder(Rest(w, p + (m + 1)), f, s, x, Append(g, t))
    BY <2>1, Zenon
  <2> HIDE DEF c
  <2>3. /\ c.refs = f
        /\ \A y : SetRefs(c, y) = Decoder(Rest(w, p + (m + 1)), y, s, x, Append(g, t))
    <3>1. IsDecoder(c, Rest(w, p + (m + 1)), f, s, x, Append(g, t))
      BY <2>2, DecoderIs
    <3> QED
      BY <3>1, Zenon DEF IsDecoder
  <2> HIDE DEF e
  <2>4. WithString(e, t) = SetRefs(c, Append(c.refs, t))
    BY DEF WithString, SetRefs, SetGot, c
  <2> QED
    BY <2>3, <2>4, Zenon DEF e
<1>12. p + Len(b) = p + (m + 1)
  BY <1>1
<1> QED
  BY <1>9, <1>11, <1>12, Zenon DEF Reading, b, d

LEMMA BinaryStep ==
  ASSUME NEW w, NEW E, w \in Seq(E), Int \cup Text \subseteq E, NEW p \in 0 .. Len(w),
         NEW t \in Text, IsCounted(t),
         Holds(w, p, WriteBinary(t)), NEW f, NEW s, NEW x, NEW g
  PROVE  ReadBinary(Reading(w, p, f, s, x, g))
           = Reading(w, p + Len(WriteBinary(t)), f, s, x, Append(g, t))
<1> DEFINE d == Reading(w, p, f, s, x, g)
           r == Rest(w, p)
           h == WriteBinaryHead(Chars[t])
           b == WriteBinary(t)
           m == Len(h)
<1>1. /\ Chars[t] \in Nat /\ Chars[t] < 65536 /\ b \in Seq(E) /\ Len(b) = m + 1
      /\ m \in Nat \ {0} /\ h \in Seq(Int)
  BY TextIs
<1>2. Starts(r, b) /\ Rest(r, m + 1) = Rest(w, p + (m + 1))
  <2>1. Len(b) \in Nat
    BY <1>1
  <2> QED
    BY <1>1, <2>1, HoldsStarts
<1>3. b = h \o <<t>>
  BY DEF WriteBinary
<1>4. (\A i \in 1 .. m : b[i] = h[i]) /\ b[m + 1] = t
  <2>1. h \in Seq(E) /\ t \in E
    BY <1>1
  <2> HIDE DEF h, b
  <2> QED
    BY <1>3, <2>1, OneElementAfter
<1>5. Starts(r, h) /\ r[m + 1] = t /\ m + 1 <= Len(r)
  <2> HIDE DEF h, b, r, m
  <2>1. Len(b) <= Len(r) /\ \A i \in 1 .. Len(b) : r[i] = b[i]
    BY <1>2 DEF Starts
  <2>2. Len(r) \in Nat
    BY RestIs, LenProperties DEF r
  <2> QED
    BY <1>1, <1>4, <2>1, <2>2 DEF Starts, m
<1>6. ReadBinaryHead(r) = Got(Chars[t], m)
  BY <1>1, <1>5, BinaryHeadAhead
<1>7. Got(Chars[t], m) # Mismatch /\ Got(Chars[t], m).used = m /\ Got(Chars[t], m).value = Chars[t]
  <2>1. Got(Chars[t], m).used = m /\ Got(Chars[t], m).value = Chars[t] /\ Mismatch.used = 0 /\ m # 0
    BY <1>1 DEF Got, Mismatch
  <2> HIDE DEF m, h
  <2> QED
    BY <2>1
<1>8. d.rest = r
  BY DEF Reading, Decoder
<1> HIDE DEF h, b, r, m
<1>9. ReadBinary(d) = [Past(d, m + 1) EXCEPT !.got = Append(@, t)]
  <2>1. ~(Len(r) <= m)
    BY <1>1, <1>5, RestIs, LenProperties DEF r
  <2>2. r[m + 1] = t
    BY <1>5
  <2> DEFINE u == Got(Chars[t], m)
             c == Past(d, m + 1)
  <2>3. u # Mismatch /\ u.used = m /\ u.value = Chars[t]
    BY <1>7
  <2>4. ReadBinaryHead(d.rest) = u
    BY <1>6, <1>8
  <2> HIDE DEF d, u
  <2>6. ~(Len(d.rest) <= u.used) /\ d.rest[u.used + 1] = t /\ t \in Text /\ Chars[t] = u.value
    BY <1>8, <2>1, <2>2, <2>3
  <2>5. ReadBinary(d) = [Past(d, u.used + 1) EXCEPT !.got = Append(@, t)]
    BY <2>3, <2>4, <2>6, Zenon DEF ReadBinary
  <2> QED
    BY <2>3, <2>5
<1>10. Past(d, m + 1) = Decoder(Rest(r, m + 1), f, s, x, g)
  <2>1. d = Decoder(r, f, s, x, g)
    BY DEF Reading, r
  <2> HIDE DEF d
  <2> QED
    BY <2>1, PastIs
<1>11. [Past(d, m + 1) EXCEPT !.got = Append(@, t)]
         = Decoder(Rest(w, p + (m + 1)), f, s, x, Append(g, t))
  <2> DEFINE e == Past(d, m + 1)
  <2>1. e.got = g /\ \A y : SetGot(e, y) = Decoder(Rest(w, p + (m + 1)), f, s, x, y)
    <3>1. IsDecoder(e, Rest(w, p + (m + 1)), f, s, x, g)
      BY <1>2, <1>10, DecoderIs
    <3> QED
      BY <3>1, Zenon DEF IsDecoder
  <2> HIDE DEF e
  <2>2. [e EXCEPT !.got = Append(@, t)] = SetGot(e, Append(e.got, t))
    BY DEF SetGot
  <2> QED
    BY <2>1, <2>2 DEF e
<1>12. p + Len(b) = p + (m + 1)
  BY <1>1
<1> QED
  BY <1>9, <1>11, <1>12, Zenon DEF Reading, b, d

-----------------------------------------------------------------------------
(* The calls, one predicate for each.                                      *)

SaysNull(c) == c.op = "null"
SaysBool(c) == c.op = "bool"
SaysInt(c) == c.op = "int"
SaysLong(c) == c.op = "long"
SaysDate(c) == c.op = "date"
SaysDouble(c) == c.op = "double"
SaysString(c) == c.op = "string"
SaysRef(c) == c.op = "ref"
SaysBinary(c) == c.op = "binary"
SaysList(c) == c.op = "list"
SaysMap(c) == c.op = "map"
SaysEnd(c) == c.op = "end"
SaysDefine(c) == c.op = "define"
SaysRedefine(c) == c.op = "redefine"
SaysObject(c) == c.op = "object"
SaysOwn(c) == c.op = "own"

\* What is written for each, and how it is read.
IsWriting(e, c, after) ==
  /\ SaysNull(c) => after = WriteBytes(e, <<78>>)
  /\ SaysBool(c) => after = WriteBytes(e, <<IF c.arg THEN 84 ELSE 70>>)
  /\ SaysInt(c) => after = WriteBytes(e, WriteInt(c.arg))
  /\ SaysLong(c) => after = WriteBytes(e, WriteLong(c.arg))
  /\ SaysDate(c) => after = WriteBytes(e, WriteDate(c.arg))
  /\ SaysDouble(c) => after = WriteBytes(e, WriteDouble(c.arg))
  /\ SaysString(c) => after = WriteBytes(e, WriteString(c.arg))
  /\ SaysRef(c) => after = WriteStringRef(e, c.arg)
  /\ SaysBinary(c) => after = WriteBytes(e, WriteBinary(c.arg))
  /\ SaysList(c) => after = WriteBytes(e, WriteListBegin(c.arg))
  /\ SaysMap(c) => after = WriteBytes(e, <<72>>)
  /\ SaysEnd(c) => after = WriteBytes(e, <<90>>)
  /\ SaysDefine(c) \/ SaysRedefine(c) => after = WriteClassDef(e, c.arg)
  /\ SaysObject(c) \/ SaysOwn(c) => after = WriteBytes(e, <<79>> \o WriteInt(e.index))

LEMMA WriteIs ==
  ASSUME NEW e, NEW c
  PROVE  IsWriting(e, c, Write(e, c))
<1> DEFINE after == Write(e, c)
<1>1. /\ SaysNull(c) => after = WriteBytes(e, <<78>>)
      /\ SaysBool(c) => after = WriteBytes(e, <<IF c.arg THEN 84 ELSE 70>>)
      /\ SaysInt(c) => after = WriteBytes(e, WriteInt(c.arg))
      /\ SaysLong(c) => after = WriteBytes(e, WriteLong(c.arg))
  BY SMT DEF Write, SaysNull, SaysBool, SaysInt, SaysLong
<1>2. /\ SaysDate(c) => after = WriteBytes(e, WriteDate(c.arg))
      /\ SaysDouble(c) => after = WriteBytes(e, WriteDouble(c.arg))
      /\ SaysString(c) => after = WriteBytes(e, WriteString(c.arg))
      /\ SaysRef(c) => after = WriteStringRef(e, c.arg)
  BY SMT DEF Write, SaysDate, SaysDouble, SaysString, SaysRef
<1>3. /\ SaysBinary(c) => after = WriteBytes(e, WriteBinary(c.arg))
      /\ SaysList(c) => after = WriteBytes(e, WriteListBegin(c.arg))
      /\ SaysMap(c) => after = WriteBytes(e, <<72>>)
      /\ SaysEnd(c) => after = WriteBytes(e, <<90>>)
  BY SMT DEF Write, SaysBinary, SaysList, SaysMap, SaysEnd
<1>4. /\ SaysDefine(c) \/ SaysRedefine(c) => after = WriteClassDef(e, c.arg)
      /\ SaysObject(c) \/ SaysOwn(c) => after = WriteBytes(e, <<79>> \o WriteInt(e.index))
  BY SMT DEF Write, SaysDefine, SaysRedefine, SaysObject, SaysOwn
<1> QED
  BY <1>1, <1>2, <1>3, <1>4, Zenon DEF IsWriting

IsReading(d, c, after) ==
  /\ SaysNull(c) => after = Expect(d, {78})
  /\ SaysBool(c) => after = IF Tag(d, {84, 70}) THEN Take(d, Got(d.rest[1] = 84, 1)) ELSE Failed(d)
  /\ SaysInt(c) => after = Take(d, ReadInt(d.rest))
  /\ SaysLong(c) => after = Take(d, ReadLong(d.rest))
  /\ SaysDate(c) => after = Take(d, ReadDate(d.rest))
  /\ SaysDouble(c) => after = ReadDouble(d)
  /\ SaysString(c) => after = ReadStr(d)
  /\ SaysRef(c) => after = IF Tag(d, {82}) THEN ReadRef(d) ELSE ReadStr(d)
  /\ SaysBinary(c) => after = ReadBinary(d)
  /\ SaysList(c) => after = Take(d, ReadListBegin(d.rest))
  /\ SaysMap(c) => after = Expect(d, {77, 72})
  /\ SaysEnd(c) => after = Expect(d, {90})
  /\ SaysDefine(c) => after = ReadClassDef(d)
  /\ SaysRedefine(c) => after = IF Tag(d, {67}) THEN ReadClassDef(d) ELSE d
  /\ SaysObject(c) => after = ReadRegistered(d)
  /\ SaysOwn(c) => after = ReadOwn(d, c.arg)

LEMMA ReadIs ==
  ASSUME NEW d, NEW c, ~d.failed, d.rest # <<>>
  PROVE  IsReading(d, c, Read(d, c))
<1> DEFINE after == Read(d, c)
<1>1. /\ SaysNull(c) => after = Expect(d, {78})
      /\ SaysBool(c) => after = IF Tag(d, {84, 70}) THEN Take(d, Got(d.rest[1] = 84, 1)) ELSE Failed(d)
      /\ SaysInt(c) => after = Take(d, ReadInt(d.rest))
      /\ SaysLong(c) => after = Take(d, ReadLong(d.rest))
  BY SMT DEF Read, SaysNull, SaysBool, SaysInt, SaysLong
<1>2. /\ SaysDate(c) => after = Take(d, ReadDate(d.rest))
      /\ SaysDouble(c) => after = ReadDouble(d)
      /\ SaysString(c) => after = ReadStr(d)
      /\ SaysRef(c) => after = IF Tag(d, {82}) THEN ReadRef(d) ELSE ReadStr(d)
  BY SMT DEF Read, SaysDate, SaysDouble, SaysString, SaysRef
<1>3. /\ SaysBinary(c) => after = ReadBinary(d)
      /\ SaysList(c) => after = Take(d, ReadListBegin(d.rest))
      /\ SaysMap(c) => after = Expect(d, {77, 72})
      /\ SaysEnd(c) => after = Expect(d, {90})
  BY SMT DEF Read, SaysBinary, SaysList, SaysMap, SaysEnd
<1>4. /\ SaysDefine(c) => after = ReadClassDef(d)
      /\ SaysRedefine(c) => after = IF Tag(d, {67}) THEN ReadClassDef(d) ELSE d
      /\ SaysObject(c) => after = ReadRegistered(d)
      /\ SaysOwn(c) => after = ReadOwn(d, c.arg)
  BY SMT DEF Read, SaysDefine, SaysRedefine, SaysObject, SaysOwn
<1> QED
  BY <1>1, <1>2, <1>3, <1>4, Zenon DEF IsReading

LEMMA OwesIs ==
  ASSUME NEW c
  PROVE  /\ SaysNull(c) \/ SaysMap(c) \/ SaysEnd(c) \/ SaysDefine(c) \/ SaysRedefine(c)
              \/ SaysObject(c) \/ SaysOwn(c) => Owes(c) = <<>>
         /\ SaysBool(c) \/ SaysInt(c) \/ SaysLong(c) \/ SaysDate(c) \/ SaysString(c) \/ SaysRef(c)
              \/ SaysBinary(c) \/ SaysList(c) => Owes(c) = <<c.arg>>
         /\ SaysDouble(c) => Owes(c) = IF c.arg = NegZero THEN <<0>> ELSE <<c.arg>>
  BY SMT DEF Owes, SaysNull, SaysBool, SaysInt, SaysLong, SaysDate, SaysDouble, SaysString, SaysRef,
             SaysBinary, SaysList, SaysMap, SaysEnd, SaysDefine, SaysRedefine, SaysObject, SaysOwn

Known == Class \cup {Thrown, Frame}
Symbol == Int \cup Text \cup Double
Result == Symbol \cup BOOLEAN

\* The calls that encode functions make.
Sayable(c) ==
  \/ SaysNull(c) \/ SaysMap(c) \/ SaysEnd(c)
  \/ SaysBool(c) /\ c.arg \in BOOLEAN
  \/ SaysInt(c) /\ c.arg \in Int /\ IsWord(c.arg)
  \/ (SaysLong(c) \/ SaysDate(c)) /\ c.arg \in Int /\ IsWord(Upper(c.arg))
  \/ SaysDouble(c) /\ c.arg \in Double
  \/ (SaysString(c) \/ SaysRef(c) \/ SaysBinary(c)) /\ c.arg \in Text
  \/ SaysList(c) /\ c.arg \in 0..7
  \/ (SaysDefine(c) \/ SaysRedefine(c) \/ SaysObject(c) \/ SaysOwn(c)) /\ c.arg \in Known

LEMMA SayableIs ==
  ASSUME NEW c, Sayable(c)
  PROVE  /\ SaysBool(c) => c.arg \in BOOLEAN
         /\ SaysInt(c) => c.arg \in Int /\ IsWord(c.arg)
         /\ SaysLong(c) \/ SaysDate(c) => c.arg \in Int /\ IsWord(Upper(c.arg))
         /\ SaysDouble(c) => c.arg \in Double
         /\ SaysString(c) \/ SaysRef(c) \/ SaysBinary(c) => c.arg \in Text
         /\ SaysList(c) => c.arg \in 0..7
         /\ SaysDefine(c) \/ SaysRedefine(c) \/ SaysObject(c) \/ SaysOwn(c) => c.arg \in Known
  BY Zenon DEF Sayable, SaysNull, SaysBool, SaysInt, SaysLong, SaysDate, SaysDouble, SaysString, SaysRef,
             SaysBinary, SaysList, SaysMap, SaysEnd, SaysDefine, SaysRedefine, SaysObject, SaysOwn

\* A call of which the bytes b tell all, the rest of the Encoder staying as it is.
Plain(c) ==
  \/ SaysNull(c) \/ SaysBool(c) \/ SaysInt(c) \/ SaysLong(c) \/ SaysDate(c) \/ SaysDouble(c)
  \/ SaysString(c) \/ SaysBinary(c) \/ SaysList(c) \/ SaysMap(c) \/ SaysEnd(c)
IsWritten(e, c, b) == Write(e, c) = WriteBytes(e, b) /\ b \in Seq(Symbol) /\ Len(b) \in Nat \ {0}
IsReadBack(c, b) ==
  \A w \in Seq(Symbol) : \A p \in 0 .. Len(w) :
    Holds(w, p, b) =>
      \A f, s, x : \A g \in Seq(Result) :
        Read(Reading(w, p, f, s, x, g), c)
          = Reading(w, p + Len(b), IF SaysString(c) THEN Append(f, c.arg) ELSE f, s, x, g \o Owes(c))

\* What a Decoder does at a place where bytes are.
LEMMA ReadHere ==
  ASSUME NEW w \in Seq(Symbol), NEW p \in 0 .. Len(w), NEW b, Len(b) \in Nat \ {0}, Holds(w, p, b),
         NEW f, NEW s, NEW x, NEW g, NEW c
  PROVE  LET d == Reading(w, p, f, s, x, g)
         IN /\ IsReading(d, c, Read(d, c))
            /\ d.rest = Rest(w, p) /\ Starts(Rest(w, p), b) /\ Rest(w, p)[1] = b[1] /\ Rest(w, p) # <<>>
<1> DEFINE d == Reading(w, p, f, s, x, g)
<1>1. d.rest = Rest(w, p) /\ ~d.failed
  BY DEF Reading, Decoder, NoFailure
<1>2. Starts(Rest(w, p), b)
  BY HoldsStarts
<1>3. Rest(w, p) # <<>> /\ Rest(w, p)[1] = b[1]
  <2>1. Len(Rest(w, p)) >= 1 /\ Rest(w, p)[1] = b[1]
    BY <1>2, RestIs, LenProperties DEF Starts
  <2> QED
    BY <2>1
<1> HIDE DEF d
<1>4. IsReading(d, c, Read(d, c))
  BY <1>1, <1>3, ReadIs
<1> QED
  BY <1>1, <1>2, <1>3, <1>4 DEF d

\* Reading one value.
LEMMA ValueRead ==
  ASSUME NEW w \in Seq(Symbol), NEW p \in 0 .. Len(w), NEW b, Len(b) \in Nat \ {0}, Holds(w, p, b),
         NEW f, NEW s, NEW x, NEW g \in Seq(Result), NEW v \in Result
  PROVE  Take(Reading(w, p, f, s, x, g), Got(v, Len(b)))
           = Reading(w, p + Len(b), f, s, x, g \o <<v>>)
<1>1. Append(g, v) = g \o <<v>>
  BY AppendIsConcat
<1>2. Take(Reading(w, p, f, s, x, g), Got(v, Len(b))) = Reading(w, p + Len(b), f, s, x, Append(g, v))
  BY TakeStep
<1> QED
  BY <1>1, <1>2, Zenon

LEMMA NothingOwed ==
  ASSUME NEW g \in Seq(Result)
  PROVE  g \o <<>> = g
  BY ConcatEmptySeq

LEMMA TagsReadBack ==
  ASSUME NEW c, Sayable(c), SaysNull(c) \/ SaysMap(c) \/ SaysEnd(c)
  PROVE  \E b : (\A e : IsWritten(e, c, b)) /\ IsReadBack(c, b)
<1> DEFINE tag == IF SaysNull(c) THEN 78 ELSE IF SaysMap(c) THEN 72 ELSE 90
           tags == IF SaysNull(c) THEN {78} ELSE IF SaysMap(c) THEN {77, 72} ELSE {90}
           b == <<tag>>
<1>1. /\ ~(SaysNull(c) /\ SaysMap(c)) /\ ~(SaysNull(c) /\ SaysEnd(c)) /\ ~(SaysMap(c) /\ SaysEnd(c))
      /\ ~SaysString(c)
  BY SMT DEF SaysNull, SaysMap, SaysEnd, SaysString
<1>2. tag \in Int /\ tag \in tags
  OBVIOUS
<1>3. \A e : Write(e, c) = WriteBytes(e, b)
  <2> SUFFICES ASSUME NEW e PROVE Write(e, c) = WriteBytes(e, b)
    OBVIOUS
  <2>1. IsWriting(e, c, Write(e, c))
    BY WriteIs
  <2> QED
    BY <1>1, <2>1, SMT DEF IsWriting
<1>4. \A d : IsReading(d, c, Read(d, c)) => Read(d, c) = Expect(d, tags)
  BY <1>1, SMT DEF IsReading
<1> HIDE DEF tag, tags
<1>5. b \in Seq(Symbol) /\ Len(b) = 1
  BY <1>2 DEF Symbol
<1>6. Owes(c) = <<>>
  BY OwesIs
<1>7. ASSUME NEW w \in Seq(Symbol), NEW p \in 0 .. Len(w), Holds(w, p, b), NEW f, NEW s, NEW x, NEW g \in Seq(Result)
      PROVE  Read(Reading(w, p, f, s, x, g), c) = Reading(w, p + Len(b), f, s, x, g \o Owes(c))
  <2> DEFINE d == Reading(w, p, f, s, x, g)
  <2>1. Len(b) \in Nat \ {0}
    BY <1>5
  <2>2. IsReading(d, c, Read(d, c))
    <3> HIDE DEF b
    <3> QED
      BY <1>7, <2>1, ReadHere
  <2>3. Expect(d, tags) = Reading(w, p + 1, f, s, x, g)
    BY <1>2, <1>7, ExpectStep
  <2>4. g \o Owes(c) = g
    BY <1>6, NothingOwed
  <2> HIDE DEF d, b
  <2> QED
    BY <1>4, <1>5, <2>2, <2>3, <2>4 DEF d
<1> HIDE DEF b
<1>8. IsReadBack(c, b)
  BY <1>1, <1>7, Zenon DEF IsReadBack
<1>9. \A e : IsWritten(e, c, b)
  BY <1>3, <1>5 DEF IsWritten
<1> QED
  BY <1>8, <1>9

\* A value that takes its place in the list of what was read.
LEMMA ValueReadBack ==
  ASSUME NEW c, ~SaysString(c), NEW v \in Result, Owes(c) = <<v>>,
         NEW b \in Seq(Symbol), Len(b) \in Nat \ {0},
         \A d : /\ IsReading(d, c, Read(d, c)) /\ d.rest # <<>> /\ Starts(d.rest, b) /\ d.rest[1] = b[1]
                => Read(d, c) = Take(d, Got(v, Len(b)))
  PROVE  IsReadBack(c, b)
<1>1. ASSUME NEW w \in Seq(Symbol), NEW p \in 0 .. Len(w), Holds(w, p, b), NEW f, NEW s, NEW x, NEW g \in Seq(Result)
      PROVE  Read(Reading(w, p, f, s, x, g), c)
               = Reading(w, p + Len(b), IF SaysString(c) THEN Append(f, c.arg) ELSE f, s, x, g \o Owes(c))
  <2> DEFINE d == Reading(w, p, f, s, x, g)
  <2>1. /\ IsReading(d, c, Read(d, c))
        /\ d.rest # <<>> /\ Starts(d.rest, b) /\ d.rest[1] = b[1]
    <3>1. /\ IsReading(d, c, Read(d, c))
          /\ d.rest = Rest(w, p) /\ Starts(Rest(w, p), b) /\ Rest(w, p)[1] = b[1] /\ Rest(w, p) # <<>>
      BY <1>1, ReadHere
    <3> HIDE DEF d
    <3> QED
      BY <3>1
  <2>2. Take(d, Got(v, Len(b))) = Reading(w, p + Len(b), f, s, x, g \o <<v>>)
    BY <1>1, ValueRead
  <2> HIDE DEF d
  <2>3. Read(d, c) = Take(d, Got(v, Len(b)))
    BY <2>1
  <2>4. (IF SaysString(c) THEN Append(f, c.arg) ELSE f) = f
    OBVIOUS
  <2> QED
    BY <2>2, <2>3, <2>4 DEF d
<1> QED
  BY <1>1 DEF IsReadBack

Told(c) == \E b : (\A e : IsWritten(e, c, b)) /\ IsReadBack(c, b)

LEMMA ValueTold ==
  ASSUME NEW c, ~SaysString(c), NEW v \in Result, Owes(c) = <<v>>,
         NEW b \in Seq(Symbol), Len(b) \in Nat \ {0},
         \A e : IsWriting(e, c, Write(e, c)) => Write(e, c) = WriteBytes(e, b),
         \A d : /\ IsReading(d, c, Read(d, c)) /\ d.rest # <<>> /\ Starts(d.rest, b) /\ d.rest[1] = b[1]
                => Read(d, c) = Take(d, Got(v, Len(b)))
  PROVE  Told(c)
<1>1. IsReadBack(c, b)
  BY ValueReadBack
<1>2. ASSUME NEW e PROVE IsWritten(e, c, b)
  <2>1. IsWriting(e, c, Write(e, c))
    BY WriteIs
  <2> QED
    BY <2>1 DEF IsWritten
<1> QED
  BY <1>1, <1>2 DEF Told

LEMMA IntTold ==
  ASSUME NEW c, Sayable(c), SaysInt(c)
  PROVE  Told(c)
<1> DEFINE v == c.arg
           b == WriteInt(v)
<1>1. ~SaysString(c) /\ ~SaysBool(c)
  BY SMT DEF SaysInt, SaysString, SaysBool
<1>2. v \in Int /\ IsWord(v) /\ v \in Result /\ Owes(c) = <<v>>
  BY SayableIs, OwesIs DEF Result, Symbol
<1>3. Tagged(b, 73..215) /\ \A s : Starts(s, b) => ReadInt(s) = Got(v, Len(b))
  BY <1>2, IntAhead
<1>4. \A e : IsWriting(e, c, Write(e, c)) => Write(e, c) = WriteBytes(e, b)
  BY Zenon DEF IsWriting
<1> HIDE DEF b, v
<1>5. b \in Seq(Symbol) /\ Len(b) \in Nat \ {0}
  BY <1>3 DEF Tagged, Symbol
<1>6. ASSUME NEW d, IsReading(d, c, Read(d, c)), Starts(d.rest, b)
      PROVE  Read(d, c) = Take(d, Got(v, Len(b)))
  <2>1. Read(d, c) = Take(d, ReadInt(d.rest))
    BY <1>6, Zenon DEF IsReading
  <2> QED
    BY <1>3, <1>6, <2>1, Zenon
<1> QED
  BY <1>1, <1>2, <1>4, <1>5, <1>6, ValueTold

LEMMA LongTold ==
  ASSUME NEW c, Sayable(c), SaysLong(c)
  PROVE  Told(c)
<1> DEFINE v == c.arg
           b == WriteLong(v)
<1>1. ~SaysString(c)
  BY SMT DEF SaysLong, SaysString
<1>2. v \in Int /\ IsWord(Upper(v)) /\ v \in Result /\ Owes(c) = <<v>>
  BY SayableIs, OwesIs DEF Result, Symbol
<1>3. Tagged(b, 0..255) /\ \A s : Starts(s, b) => ReadLong(s) = Got(v, Len(b))
  BY <1>2, LongAhead
<1>4. \A e : IsWriting(e, c, Write(e, c)) => Write(e, c) = WriteBytes(e, b)
  BY Zenon DEF IsWriting
<1> HIDE DEF b, v
<1>5. b \in Seq(Symbol) /\ Len(b) \in Nat \ {0}
  BY <1>3 DEF Tagged, Symbol
<1>6. ASSUME NEW d, IsReading(d, c, Read(d, c)), Starts(d.rest, b)
      PROVE  Read(d, c) = Take(d, Got(v, Len(b)))
  <2>1. Read(d, c) = Take(d, ReadLong(d.rest))
    BY <1>6, Zenon DEF IsReading
  <2> QED
    BY <1>3, <1>6, <2>1, Zenon
<1> QED
  BY <1>1, <1>2, <1>4, <1>5, <1>6, ValueTold

LEMMA DateTold ==
  ASSUME NEW c, Sayable(c), SaysDate(c)
  PROVE  Told(c)
<1> DEFINE v == c.arg
           b == WriteDate(v)
<1>1. ~SaysString(c)
  BY SMT DEF SaysDate, SaysString
<1>2. v \in Int /\ IsWord(Upper(v)) /\ v \in Result /\ Owes(c) = <<v>>
  BY SayableIs, OwesIs DEF Result, Symbol
<1>3. Tagged(b, 0..255) /\ Len(b) = 9 /\ \A s : Starts(s, b) => ReadDate(s) = Got(v, 9)
  BY <1>2, DateAhead
<1>4. \A e : IsWriting(e, c, Write(e, c)) => Write(e, c) = WriteBytes(e, b)
  BY Zenon DEF IsWriting
<1> HIDE DEF b, v
<1>5. b \in Seq(Symbol) /\ Len(b) \in Nat \ {0}
  BY <1>3 DEF Tagged, Symbol
<1>6. ASSUME NEW d, IsReading(d, c, Read(d, c)), Starts(d.rest, b)
      PROVE  Read(d, c) = Take(d, Got(v, Len(b)))
  <2>1. Read(d, c) = Take(d, ReadDate(d.rest))
    BY <1>6, Zenon DEF IsReading
  <2> QED
    BY <1>3, <1>6, <2>1, Zenon
<1> QED
  BY <1>1, <1>2, <1>4, <1>5, <1>6, ValueTold

LEMMA ListTold ==
  ASSUME NEW c, Sayable(c), SaysList(c)
  PROVE  Told(c)
<1> DEFINE v == c.arg
           b == WriteListBegin(v)
<1>1. ~SaysString(c)
  BY SMT DEF SaysList, SaysString
<1>2. v \in 0..7 /\ v \in Int /\ v \in Result /\ Owes(c) = <<v>>
  BY SayableIs, OwesIs DEF Result, Symbol
<1>3. b = <<120 + v>>
  BY <1>2, SMT DEF WriteListBegin
<1>4. \A e : IsWriting(e, c, Write(e, c)) => Write(e, c) = WriteBytes(e, b)
  BY Zenon DEF IsWriting
<1> HIDE DEF b, v
<1>5. b \in Seq(Symbol) /\ Len(b) = 1 /\ b[1] = 120 + v
  BY <1>2, <1>3 DEF Symbol
<1>6. ASSUME NEW d, IsReading(d, c, Read(d, c)), d.rest[1] = b[1]
      PROVE  Read(d, c) = Take(d, Got(v, Len(b)))
  <2>1. Read(d, c) = Take(d, ReadListBegin(d.rest))
    BY <1>6, Zenon DEF IsReading
  <2>2. ReadListBegin(d.rest) = Got(v, 1)
    <3> DEFINE s == d.rest
    <3>1. s[1] = 120 + v
      BY <1>5, <1>6
    <3> HIDE DEF s
    <3>2. ReadListBegin(s) = Got(v, 1)
      BY <1>2, <3>1, SMT DEF ReadListBegin
    <3> QED
      BY <3>2 DEF s
  <2> QED
    BY <1>5, <2>1, <2>2, Zenon
<1>7. Len(b) \in Nat \ {0}
  BY <1>5
<1> QED
  BY <1>1, <1>2, <1>4, <1>5, <1>6, <1>7, ValueTold

LEMMA BoolTold ==
  ASSUME NEW c, Sayable(c), SaysBool(c)
  PROVE  Told(c)
<1>1. ~SaysString(c)
  BY SMT DEF SaysBool, SaysString
<1>2. PICK v \in BOOLEAN : v = c.arg
  BY SayableIs, Zenon
<1> DEFINE byte == IF v THEN 84 ELSE 70
           b == <<byte>>
<1>3. v \in Result /\ Owes(c) = <<v>>
  BY <1>2, OwesIs, Zenon DEF Result
<1>4. \A e : IsWriting(e, c, Write(e, c)) => Write(e, c) = WriteBytes(e, b)
  BY <1>2, Zenon DEF IsWriting
<1>5. byte \in {84, 70} /\ byte \in Int
  OBVIOUS
<1>6. (byte = 84) = v
  <2>1. CASE v = TRUE
    BY <2>1
  <2>2. CASE v = FALSE
    BY <2>2
  <2> QED
    BY <2>1, <2>2, Zenon
<1> HIDE DEF byte
<1>7. b \in Seq(Symbol) /\ Len(b) = 1 /\ b[1] = byte
  BY <1>5 DEF Symbol
<1> HIDE DEF b
<1>8. ASSUME NEW d, IsReading(d, c, Read(d, c)), d.rest # <<>>, d.rest[1] = b[1]
      PROVE  Read(d, c) = Take(d, Got(v, Len(b)))
  <2>1. Read(d, c) = IF Tag(d, {84, 70}) THEN Take(d, Got(d.rest[1] = 84, 1)) ELSE Failed(d)
    BY <1>8, Zenon DEF IsReading
  <2>2. Tag(d, {84, 70})
    BY <1>5, <1>7, <1>8, Zenon DEF Tag
  <2>3. (d.rest[1] = 84) = v
    BY <1>6, <1>7, <1>8, Zenon
  <2> QED
    BY <1>7, <2>1, <2>2, <2>3, Zenon
<1>9. Len(b) \in Nat \ {0}
  BY <1>7
<1> QED
  BY <1>1, <1>3, <1>4, <1>7, <1>8, <1>9, ValueTold

(* The five forms of a double.                                             *)
IsZero(x) == x \in {0, NegZero}
IsByteDouble(x) == x \in Int /\ -128 <= x /\ x <= 127
IsShortDouble(x) == x \in Int /\ -32768 <= x /\ x <= 32767
LEMMA DoubleForms ==
  ASSUME NEW x
  PROVE  /\ IsZero(x) => WriteDouble(x) = <<91>>
         /\ ~IsZero(x) /\ x = 1 => WriteDouble(x) = <<92>>
         /\ ~IsZero(x) /\ x # 1 /\ IsByteDouble(x) => WriteDouble(x) = <<93, Low(x)>>
         /\ ~IsZero(x) /\ x # 1 /\ ~IsByteDouble(x) /\ IsShortDouble(x)
              => WriteDouble(x) = <<94, Low(Shift(x, 256)), Low(x)>>
         /\ ~IsZero(x) /\ x # 1 /\ ~IsByteDouble(x) /\ ~IsShortDouble(x)
              => WriteDouble(x) \in {<<95, x>>, <<68, x>>}
<1>1. WriteDouble(x) =
        IF IsZero(x) THEN <<91>> ELSE IF x = 1 THEN <<92>>
        ELSE IF IsByteDouble(x) THEN <<93, Low(x)>>
        ELSE IF IsShortDouble(x) THEN <<94, Low(Shift(x, 256)), Low(x)>>
        ELSE IF x \in Single THEN <<95, x>> ELSE <<68, x>>
  BY DEF WriteDouble, IsZero, IsByteDouble, IsShortDouble
<1> QED
  BY <1>1, Zenon

LEMMA SmallDoubles ==
  ASSUME NEW x
  PROVE  /\ IsByteDouble(x) => x \in Int /\ Low(x) \in Int /\ Signed(Low(x)) = x
         /\ IsShortDouble(x) => /\ x \in Int /\ Low(x) \in 0..255 /\ Low(Shift(x, 256)) \in 0..255
                                /\ Signed(Low(Shift(x, 256))) * 256 + Low(x) = x
<1>1. IsByteDouble(x) => x \in Int /\ Low(x) \in Int /\ Signed(Low(x)) = x
  BY SMT DEF IsByteDouble, Low, Signed
<1>2. IsShortDouble(x) => /\ x \in Int /\ Low(x) \in 0..255 /\ Low(Shift(x, 256)) \in 0..255
                          /\ Signed(Low(Shift(x, 256))) * 256 + Low(x) = x
  <2> SUFFICES ASSUME IsShortDouble(x)
               PROVE  /\ x \in Int /\ Low(x) \in 0..255 /\ Low(Shift(x, 256)) \in 0..255
                      /\ Signed(Low(Shift(x, 256))) * 256 + Low(x) = x
    OBVIOUS
  <2>1. x \in Int /\ -32768 <= x /\ x <= 32767
    BY SMT DEF IsShortDouble
  <2>2. PICK q \in Int, r \in Int : q = Shift(x, 256) /\ r = Low(x) /\ x = 256 * q + r /\ r \in 0..255
    BY <2>1, SMT DEF Shift, Low
  <2>3. q \in -128..127
    BY <2>1, <2>2, SMT
  <2>4. Low(q) \in 0..255 /\ Signed(Low(q)) = q
    BY <2>3, SMT DEF Low, Signed
  <2> QED
    BY <2>1, <2>2, <2>4, SMT
<1> QED
  BY <1>1, <1>2, Zenon

LEMMA DoubleTold ==
  ASSUME NEW c, Sayable(c), SaysDouble(c)
  PROVE  Told(c)
<1> DEFINE x == c.arg
           b == WriteDouble(x)
           v == IF x = NegZero THEN 0 ELSE x
<1>1. ~SaysString(c)
  BY SMT DEF SaysDouble, SaysString
<1>2. x \in Double /\ v \in Result /\ Owes(c) = <<v>>
  BY SayableIs, OwesIs DEF Result, Symbol
<1>3. \A e : IsWriting(e, c, Write(e, c)) => Write(e, c) = WriteBytes(e, b)
  BY Zenon DEF IsWriting
<1>4. \A d : IsReading(d, c, Read(d, c)) => Read(d, c) = ReadDouble(d)
  BY Zenon DEF IsReading
<1>0. /\ IsZero(x) => v = 0
      /\ ~IsZero(x) => v = x
  BY SMT DEF IsZero
<1>9. /\ IsZero(x) => b = <<91>>
      /\ ~IsZero(x) /\ x = 1 => b = <<92>>
      /\ ~IsZero(x) /\ x # 1 /\ IsByteDouble(x) => b = <<93, Low(x)>>
      /\ ~IsZero(x) /\ x # 1 /\ ~IsByteDouble(x) /\ IsShortDouble(x)
           => b = <<94, Low(Shift(x, 256)), Low(x)>>
      /\ ~IsZero(x) /\ x # 1 /\ ~IsByteDouble(x) /\ ~IsShortDouble(x)
           => b \in {<<95, x>>, <<68, x>>}
  BY DoubleForms
<1> HIDE DEF b, v, x
<1>5. /\ b \in Seq(Symbol) /\ Len(b) \in Nat \ {0}
      /\ \A d : Starts(d.rest, b) => ReadDouble(d) = Take(d, Got(v, Len(b)))
  <2>1. CASE IsZero(x)
    <3>1. v = 0
      BY <1>0, <2>1
    <3>2. b = <<91>>
      BY <1>9, <2>1
    <3>3. \A d : Starts(d.rest, b) => d.rest[1] = 91
      BY <3>2 DEF Starts
    <3>4. \A d : d.rest[1] = 91 => ReadDouble(d) = Take(d, Got(0, 1))
      BY SMT DEF ReadDouble
    <3>5. b \in Seq(Symbol) /\ Len(b) = 1
      BY <3>2 DEF Symbol
    <3> QED
      BY <3>1, <3>3, <3>4, <3>5
  <2>2. CASE ~IsZero(x) /\ x = 1
    <3>1. v = 1
      BY <1>0, <2>2
    <3>2. b = <<92>>
      BY <1>9, <2>2
    <3>3. \A d : Starts(d.rest, b) => d.rest[1] = 92
      BY <3>2 DEF Starts
    <3>4. \A d : d.rest[1] = 92 => ReadDouble(d) = Take(d, Got(1, 1))
      BY SMT DEF ReadDouble
    <3>5. b \in Seq(Symbol) /\ Len(b) = 1
      BY <3>2 DEF Symbol
    <3> QED
      BY <3>1, <3>3, <3>4, <3>5
  <2>3. CASE ~IsZero(x) /\ x # 1 /\ IsByteDouble(x)
    <3>1. v = x
      BY <1>0, <2>3
    <3>2. b = <<93, Low(x)>>
      BY <1>9, <2>3
    <3>3. x \in Int /\ Low(x) \in Int /\ Signed(Low(x)) = x
      BY <2>3, SmallDoubles
    <3>4. \A d : Starts(d.rest, b) => d.rest[1] = 93 /\ d.rest[2] = Low(x)
      BY <3>2 DEF Starts
    <3>5. \A d : d.rest[1] = 93 => ReadDouble(d) = Take(d, Got(Signed(d.rest[2]), 2))
      BY SMT DEF ReadDouble
    <3>6. b \in Seq(Symbol) /\ Len(b) = 2
      BY <3>2, <3>3 DEF Symbol
    <3> QED
      BY <3>1, <3>3, <3>4, <3>5, <3>6
  <2>4. CASE ~IsZero(x) /\ x # 1 /\ ~IsByteDouble(x) /\ IsShortDouble(x)
    <3>1. v = x
      BY <1>0, <2>4
    <3>2. b = <<94, Low(Shift(x, 256)), Low(x)>>
      BY <1>9, <2>4
    <3>3. x \in Int /\ Low(x) \in Int /\ Low(Shift(x, 256)) \in Int
      BY <2>4, SmallDoubles, SMT
    <3>4. \A d : Starts(d.rest, b) => d.rest[1] = 94 /\ d.rest[2] = Low(Shift(x, 256)) /\ d.rest[3] = Low(x)
      BY <3>2 DEF Starts
    <3>5. \A d : d.rest[1] = 94 => ReadDouble(d) = Take(d, Got(FromBytes2(d.rest, 2), 3))
      BY SMT DEF ReadDouble
    <3>6. b \in Seq(Symbol) /\ Len(b) = 3
      BY <3>2, <3>3 DEF Symbol
    <3>7. ASSUME NEW s, s[2] = Low(Shift(x, 256)), s[3] = Low(x) PROVE FromBytes2(s, 2) = x
      BY <2>4, <3>7, SmallDoubles, SMT DEF FromBytes2
    <3> QED
      BY <3>1, <3>4, <3>5, <3>6, <3>7
  <2>5. CASE ~IsZero(x) /\ x # 1 /\ ~IsByteDouble(x) /\ ~IsShortDouble(x)
    <3>1. v = x
      BY <1>0, <2>5
    <3>2. PICK tag \in {95, 68} : b = <<tag, x>>
      <4>1. b = <<95, x>> \/ b = <<68, x>>
        BY <1>9, <2>5
      <4> QED
        BY <4>1
    <3>4. \A d : Starts(d.rest, b) => d.rest[1] \in {95, 68} /\ d.rest[2] = x
      BY <3>2 DEF Starts
    <3>5. \A d : d.rest[1] \in {95, 68} => ReadDouble(d) = Take(d, Got(d.rest[2], 2))
      BY SMT DEF ReadDouble
    <3>6. b \in Seq(Symbol) /\ Len(b) = 2
      BY <1>2, <3>2 DEF Symbol
    <3> QED
      BY <3>1, <3>4, <3>5, <3>6
  <2> QED
    BY <2>1, <2>2, <2>3, <2>4, <2>5, Zenon
<1> QED
  BY <1>1, <1>2, <1>3, <1>4, <1>5, ValueTold

LEMMA StringTold ==
  ASSUME NEW c, Sayable(c), SaysString(c), IsCounted(c.arg)
  PROVE  Told(c)
<1> DEFINE t == c.arg
           b == WriteString(t)
<1>1. t \in Text /\ IsCounted(t) /\ Owes(c) = <<t>>
  BY SayableIs, OwesIs
<1>2. Int \cup Text \subseteq Symbol
  BY DEF Symbol
<1>3. b \in Seq(Symbol) /\ Len(b) \in Nat \ {0}
  BY <1>1, <1>2, TextIs
<1>4. ASSUME NEW e PROVE Write(e, c) = WriteBytes(e, b)
  <2>1. IsWriting(e, c, Write(e, c))
    BY WriteIs
  <2> QED
    BY <2>1, Zenon DEF IsWriting
<1>5. ASSUME NEW w \in Seq(Symbol), NEW p \in 0 .. Len(w), Holds(w, p, b), NEW f, NEW s, NEW x, NEW g \in Seq(Result)
      PROVE  Read(Reading(w, p, f, s, x, g), c)
               = Reading(w, p + Len(b), IF SaysString(c) THEN Append(f, c.arg) ELSE f, s, x, g \o Owes(c))
  <2> DEFINE d == Reading(w, p, f, s, x, g)
  <2>1. IsReading(d, c, Read(d, c))
    <3> HIDE DEF b
    <3> QED
      BY <1>3, <1>5, ReadHere
  <2>2. ReadStr(d) = Reading(w, p + Len(b), Append(f, t), s, x, Append(g, t))
    BY <1>1, <1>2, <1>5, StringStep
  <2>3. Append(g, t) = g \o Owes(c)
    <3>1. t \in Result
      BY <1>1 DEF Result, Symbol
    <3> QED
      BY <1>1, <3>1, AppendIsConcat
  <2> HIDE DEF d, b
  <2>4. Read(d, c) = ReadStr(d)
    BY <2>1, Zenon DEF IsReading
  <2> QED
    BY <2>2, <2>3, <2>4, Zenon DEF d
<1> HIDE DEF b
<1>6. IsReadBack(c, b)
  BY <1>5 DEF IsReadBack
<1>7. \A e : IsWritten(e, c, b)
  BY <1>3, <1>4 DEF IsWritten
<1> QED
  BY <1>6, <1>7 DEF Told

LEMMA BinaryTold ==
  ASSUME NEW c, Sayable(c), SaysBinary(c), IsCounted(c.arg)
  PROVE  Told(c)
<1> DEFINE t == c.arg
           b == WriteBinary(t)
<1>0. ~SaysString(c)
  BY SMT DEF SaysBinary, SaysString
<1>1. t \in Text /\ IsCounted(t) /\ Owes(c) = <<t>>
  BY SayableIs, OwesIs
<1>2. Int \cup Text \subseteq Symbol
  BY DEF Symbol
<1>3. b \in Seq(Symbol) /\ Len(b) \in Nat \ {0}
  BY <1>1, <1>2, TextIs
<1>4. ASSUME NEW e PROVE Write(e, c) = WriteBytes(e, b)
  <2>1. IsWriting(e, c, Write(e, c))
    BY WriteIs
  <2> QED
    BY <2>1, Zenon DEF IsWriting
<1>5. ASSUME NEW w \in Seq(Symbol), NEW p \in 0 .. Len(w), Holds(w, p, b), NEW f, NEW s, NEW x, NEW g \in Seq(Result)
      PROVE  Read(Reading(w, p, f, s, x, g), c)
               = Reading(w, p + Len(b), IF SaysString(c) THEN Append(f, c.arg) ELSE f, s, x, g \o Owes(c))
  <2> DEFINE d == Reading(w, p, f, s, x, g)
  <2>1. IsReading(d, c, Read(d, c))
    <3> HIDE DEF b
    <3> QED
      BY <1>3, <1>5, ReadHere
  <2>2. ReadBinary(d) = Reading(w, p + Len(b), f, s, x, Append(g, t))
    BY <1>1, <1>2, <1>5, BinaryStep
  <2>3. Append(g, t) = g \o Owes(c)
    <3>1. t \in Result
      BY <1>1 DEF Result, Symbol
    <3> QED
      BY <1>1, <3>1, AppendIsConcat
  <2> HIDE DEF d, b
  <2>4. Read(d, c) = ReadBinary(d)
    BY <2>1, Zenon DEF IsReading
  <2> QED
    BY <1>0, <2>2, <2>3, <2>4, Zenon DEF d
<1> HIDE DEF b
<1>6. IsReadBack(c, b)
  BY <1>5 DEF IsReadBack
<1>7. \A e : IsWritten(e, c, b)
  BY <1>3, <1>4 DEF IsWritten
<1> QED
  BY <1>6, <1>7 DEF Told

LEMMA PlainTold ==
  ASSUME NEW c, Sayable(c), Plain(c), SaysString(c) \/ SaysBinary(c) => IsCounted(c.arg)
  PROVE  Told(c)
<1>1. SaysNull(c) \/ SaysMap(c) \/ SaysEnd(c) => Told(c)
  BY TagsReadBack, Zenon DEF Told
<1> QED
  BY <1>1, BoolTold, IntTold, LongTold, DateTold, DoubleTold, StringTold, BinaryTold, ListTold, Zenon DEF Plain

\* One write, or one read, after others.
LEMMA MoreWrites ==
  ASSUME NEW E, NEW e, NEW s \in Seq(E), NEW t \in Seq(E)
  PROVE  WriteAll(WriteAll(e, s), t) = WriteAll(e, s \o t)
<1> DEFINE st == s \o t
           m == Len(s)
           n == Len(t)
<1>1. IsBoth(E, s, t, st)
  BY OneAfterOther
<1>2. m \in Nat /\ n \in Nat /\ Len(st) = m + n /\ Len(st) \in Nat
  BY <1>1, LenProperties DEF IsBoth
<1>3. (\A i \in 1 .. m : st[i] = s[i]) /\ \A i \in 1 .. n : st[m + i] = t[i]
  BY <1>1 DEF IsBoth
<1> HIDE DEF st
<1>4. PICK at : Writes(at, e, s)
  BY <1>2, WriteSteps
<1>5. PICK bt : Writes(bt, WriteAll(e, s), t)
  BY <1>2, WriteSteps
<1>6. PICK ct : Writes(ct, e, st)
  BY <1>2, WriteSteps
<1>7. \A k \in 0 .. m : ct[k] = at[k]
  <2> DEFINE S == {k \in 0 .. m : ct[k] = at[k]}
  <2>1. 0 \in S
    BY <1>2, <1>4, <1>6 DEF Writes
  <2>2. ASSUME NEW k \in 1 .. m, k - 1 \in S PROVE k \in S
    <3>1. k \in 1 .. Len(st) /\ k \in 0 .. m /\ st[k] = s[k] /\ ct[k - 1] = at[k - 1]
      BY <1>2, <1>3, <2>2
    <3>2. ct[k] = Write(ct[k - 1], st[k]) /\ at[k] = Write(at[k - 1], s[k])
      BY <1>4, <1>6, <3>1 DEF Writes
    <3> QED
      BY <3>1, <3>2
  <2> HIDE DEF S
  <2>3. \A k \in 0 .. m : k \in S
    BY <1>2, <2>1, <2>2, InductionUpTo
  <2> QED
    BY <2>3 DEF S
<1>8. \A k \in 0 .. n : ct[m + k] = bt[k]
  <2> DEFINE S == {k \in 0 .. n : ct[m + k] = bt[k]}
  <2>1. 0 \in S
    <3>1. ct[m] = at[m] /\ m + 0 = m /\ 0 \in 0 .. n
      BY <1>2, <1>7
    <3>2. at[m] = WriteAll(e, s) /\ bt[0] = WriteAll(e, s)
      BY <1>4, <1>5 DEF Writes
    <3> QED
      BY <3>1, <3>2
  <2>2. ASSUME NEW k \in 1 .. n, k - 1 \in S PROVE k \in S
    <3>1. PICK j \in Int : j = m + k
      BY <1>2
    <3>2. j \in 1 .. Len(st) /\ k \in 0 .. n /\ j - 1 = m + (k - 1)
      BY <1>2, <3>1
    <3>3. st[j] = t[k] /\ ct[j - 1] = bt[k - 1]
      BY <1>3, <2>2, <3>1, <3>2
    <3>4. ct[j] = Write(ct[j - 1], st[j]) /\ bt[k] = Write(bt[k - 1], t[k])
      BY <1>5, <1>6, <3>2 DEF Writes
    <3> QED
      BY <3>1, <3>2, <3>3, <3>4
  <2> HIDE DEF S
  <2>3. \A k \in 0 .. n : k \in S
    BY <1>2, <2>1, <2>2, InductionUpTo
  <2> QED
    BY <2>3 DEF S
<1>9. ct[m + n] = bt[n]
  BY <1>2, <1>8
<1>10. WriteAll(e, st) = ct[Len(st)] /\ WriteAll(WriteAll(e, s), t) = bt[n]
  BY <1>5, <1>6 DEF Writes
<1> QED
  BY <1>2, <1>9, <1>10 DEF st

LEMMA FlattenAppend ==
  ASSUME NEW E, NEW seqs \in Seq(Seq(E)), NEW v \in Seq(E)
  PROVE  FlattenSeq(Append(seqs, v)) = FlattenSeq(seqs) \o v
<1> DEFINE more == Append(seqs, v)
           n == Len(seqs)
<1>1. more \in Seq(Seq(E)) /\ Len(more) = n + 1 /\ n \in Nat /\ more[n + 1] = v
      /\ \A i \in 1 .. n : more[i] = seqs[i]
  <2>1. n \in Nat /\ more \in Seq(Seq(E)) /\ Len(more) = n + 1
    BY LenProperties, AppendProperties
  <2>2. more[n + 1] = v
    BY AppendProperties
  <2>3. \A i \in 1 .. n : more[i] = seqs[i]
    BY AppendProperties
  <2> QED
    BY <2>1, <2>2, <2>3
<1> HIDE DEF more
<1>2. PICK a \in [0 .. Len(seqs) -> Seq(E)] : Joins(a, seqs)
  BY JoinSteps
<1>3. PICK b \in [0 .. Len(more) -> Seq(E)] : Joins(b, more)
  BY <1>1, JoinSteps
<1>4. \A k \in 0 .. n : b[k] = a[k]
  <2> DEFINE S == {k \in 0 .. n : b[k] = a[k]}
  <2>1. 0 \in S
    BY <1>1, <1>2, <1>3 DEF Joins
  <2>2. ASSUME NEW k \in 1 .. n, k - 1 \in S PROVE k \in S
    <3>1. k \in 1 .. Len(more) /\ k \in 0 .. n /\ more[k] = seqs[k] /\ b[k - 1] = a[k - 1]
      BY <1>1, <2>2
    <3>2. a[k] = a[k - 1] \o seqs[k] /\ b[k] = b[k - 1] \o more[k]
      BY <1>2, <1>3, <3>1 DEF Joins
    <3> QED
      BY <3>1, <3>2
  <2> HIDE DEF S
  <2>3. \A k \in 0 .. n : k \in S
    BY <1>1, <2>1, <2>2, InductionUpTo
  <2> QED
    BY <2>3 DEF S
<1>5. b[n + 1] = b[n] \o v
  <2>1. PICK j \in Int : j = n + 1
    BY <1>1
  <2>2. j \in 1 .. Len(more) /\ j - 1 = n
    BY <1>1, <2>1
  <2>3. b[j] = b[j - 1] \o more[j]
    BY <1>3, <2>2 DEF Joins
  <2> QED
    BY <1>1, <2>1, <2>2, <2>3
<1>6. FlattenSeq(more) = b[n + 1] /\ FlattenSeq(seqs) = a[n] /\ a[n] = b[n]
  BY <1>1, <1>2, <1>3, <1>4 DEF Joins
<1> QED
  BY <1>5, <1>6 DEF more

-----------------------------------------------------------------------------
(* The Encoder.                                                            *)

Encoder(o, t, d, i) == [out |-> o, tracked |-> t, defined |-> d, index |-> i]
HasName(names, name) == name \in Range(names)
DefinitionOf(class) ==
  <<67>> \o WriteString(class.name) \o WriteInt(Len(class.fields))
  \o FlattenSeq([i \in DOMAIN class.fields |-> WriteString(class.fields[i])])

\* Its fields, and what writing makes of it.
IsEncoder(e, o, t, d, i) ==
  /\ e.out = o /\ e.tracked = t /\ e.defined = d /\ e.index = i
  /\ \A b : WriteBytes(e, b) = Encoder(o \o b, t, d, i)
  /\ \A s : HasName(t, s) =>
       WriteStringRef(e, s) = Encoder(o \o (<<82>> \o WriteInt(IndexOf(t, s) - 1)), t, d, i)
  /\ \A s : ~HasName(t, s) => WriteStringRef(e, s) = Encoder(o \o WriteString(s), Append(t, s), d, i)
  /\ \A class : HasName(d, class.name) =>
       WriteClassDef(e, class) = Encoder(o, t, d, IndexOf(d, class.name) - 1)
  /\ \A class : ~HasName(d, class.name) =>
       WriteClassDef(e, class) = Encoder(o \o DefinitionOf(class), t, Append(d, class.name), Len(d))

LEMMA EncoderIs ==
  ASSUME NEW o, NEW t, NEW d, NEW i
  PROVE  IsEncoder(Encoder(o, t, d, i), o, t, d, i)
<1> DEFINE e == Encoder(o, t, d, i)
<1>1. e.out = o /\ e.tracked = t /\ e.defined = d /\ e.index = i
  BY DEF Encoder
<1>2. ASSUME NEW y PROVE WriteBytes(e, y) = Encoder(o \o y, t, d, i)
  BY DEF Encoder, WriteBytes
<1>3. ASSUME NEW y, NEW z PROVE [Encoder(y, t, d, i) EXCEPT !.tracked = Append(@, z)] = Encoder(y, Append(t, z), d, i)
  BY DEF Encoder
<1>4. ASSUME NEW y PROVE [e EXCEPT !.index = y] = Encoder(o, t, d, y)
  BY DEF Encoder
<1>5. ASSUME NEW y, NEW x, NEW z
      PROVE [Encoder(y, t, d, i) EXCEPT !.index = x, !.defined = Append(@, z)] = Encoder(y, t, Append(d, z), x)
  <2>1. [Encoder(y, t, d, i) EXCEPT !.index = x] = Encoder(y, t, d, x)
    BY DEF Encoder
  <2>2. [Encoder(y, t, d, x) EXCEPT !.defined = Append(@, z)] = Encoder(y, t, Append(d, z), x)
    BY DEF Encoder
  <2>3. [Encoder(y, t, d, i) EXCEPT !.index = x, !.defined = Append(@, z)]
          = [[Encoder(y, t, d, i) EXCEPT !.index = x] EXCEPT !.defined = Append(@, z)]
    OBVIOUS
  <2> QED
    BY <2>1, <2>2, <2>3, Zenon
<1> HIDE DEF e
<1>6. ASSUME NEW s, HasName(t, s)
      PROVE  WriteStringRef(e, s) = Encoder(o \o (<<82>> \o WriteInt(IndexOf(t, s) - 1)), t, d, i)
  <2>1. s \in Range(e.tracked)
    BY <1>1, <1>6 DEF HasName
  <2>2. WriteStringRef(e, s) = WriteBytes(e, <<82>> \o WriteInt(IndexOf(e.tracked, s) - 1))
    BY <2>1, Zenon DEF WriteStringRef
  <2> QED
    BY <1>1, <1>2, <2>2, Zenon
<1>7. ASSUME NEW s, ~HasName(t, s)
      PROVE  WriteStringRef(e, s) = Encoder(o \o WriteString(s), Append(t, s), d, i)
  <2>1. s \notin Range(e.tracked)
    BY <1>1, <1>7 DEF HasName
  <2>2. WriteStringRef(e, s) = [WriteBytes(e, WriteString(s)) EXCEPT !.tracked = Append(@, s)]
    BY <2>1, Zenon DEF WriteStringRef
  <2> QED
    BY <1>2, <1>3, <2>2, Zenon
<1>8. ASSUME NEW class, HasName(d, class.name)
      PROVE  WriteClassDef(e, class) = Encoder(o, t, d, IndexOf(d, class.name) - 1)
  <2>1. class.name \in Range(e.defined)
    BY <1>1, <1>8 DEF HasName
  <2>2. WriteClassDef(e, class) = [e EXCEPT !.index = IndexOf(e.defined, class.name) - 1]
    BY <2>1, Zenon DEF WriteClassDef
  <2> QED
    BY <1>1, <1>4, <2>2, Zenon
<1>9. ASSUME NEW class, ~HasName(d, class.name)
      PROVE  WriteClassDef(e, class) = Encoder(o \o DefinitionOf(class), t, Append(d, class.name), Len(d))
  <2>1. class.name \notin Range(e.defined)
    BY <1>1, <1>9 DEF HasName
  <2>2. WriteClassDef(e, class)
          = [WriteBytes(e, DefinitionOf(class)) EXCEPT !.index = Len(e.defined), !.defined = Append(@, class.name)]
    BY <2>1, Zenon DEF WriteClassDef, DefinitionOf
  <2>3. WriteClassDef(e, class)
          = [Encoder(o \o DefinitionOf(class), t, d, i) EXCEPT !.index = Len(d), !.defined = Append(@, class.name)]
    BY <1>1, <1>2, <2>2, Zenon
  <2> QED
    BY <1>5, <2>3, Zenon
<1>10. IsEncoder(e, o, t, d, i)
  BY <1>1, <1>2, <1>6, <1>7, <1>8, <1>9, Zenon DEF IsEncoder
<1> QED
  BY <1>10 DEF e

LEMMA IndexIs ==
  ASSUME NEW E, NEW names \in Seq(E), NEW name, HasName(names, name)
  PROVE  IndexOf(names, name) \in 1 .. Len(names) /\ names[IndexOf(names, name)] = name
<1>1. Len(names) \in Nat /\ DOMAIN names = 1 .. Len(names)
  BY LenProperties
<1>2. name \in Range(names)
  BY DEF HasName
<1>3. PICK i \in 1 .. Len(names) : names[i] = name
  BY <1>1, <1>2 DEF Range
<1>4. \E j \in 0 .. Len(names) : IF name \in Range(names) THEN j > 0 /\ names[j] = name ELSE j = 0
  <2>1. i \in 0 .. Len(names) /\ i > 0
    BY <1>1, <1>3
  <2> QED
    BY <1>2, <1>3, <2>1
<1> DEFINE j == IndexOf(names, name)
<1>5. j \in 0 .. Len(names) /\ IF name \in Range(names) THEN j > 0 /\ names[j] = name ELSE j = 0
  BY <1>4, Zenon DEF IndexOf
<1> HIDE DEF j
<1>6. j \in 1 .. Len(names) /\ names[j] = name
  BY <1>1, <1>2, <1>5
<1> QED
  BY <1>6 DEF j

(* A tag, then a number.                                                   *)
LEMMA TagThenInt ==
  ASSUME NEW w \in Seq(Symbol), NEW p \in 0 .. Len(w), NEW tag \in Int, NEW v \in Int, IsWord(v),
         Holds(w, p, <<tag>> \o WriteInt(v))
  PROVE  /\ Rest(w, p) # <<>> /\ Rest(w, p)[1] = tag
         /\ ReadInt(Tail(Rest(w, p))) = Got(v, Len(WriteInt(v)))
         /\ Rest(Rest(w, p), Len(WriteInt(v)) + 1) = Rest(w, p + Len(<<tag>> \o WriteInt(v)))
<1> DEFINE b == WriteInt(v)
           tb == <<tag>> \o b
           r == Rest(w, p)
<1>1. Tagged(b, 73..215) /\ \A s : Starts(s, b) => ReadInt(s) = Got(v, Len(b))
  BY IntAhead
<1>2. b \in Seq(Int) /\ Len(b) \in Nat
  BY <1>1 DEF Tagged
<1> HIDE DEF b
<1>3. Len(tb) = Len(b) + 1 /\ tb[1] = tag /\ \A i \in 1 .. Len(b) : tb[i + 1] = b[i]
  BY <1>2
<1>4. Starts(r, tb) /\ Rest(r, Len(tb)) = Rest(w, p + Len(tb))
  <2>1. Len(tb) \in Nat /\ Holds(w, p, tb)
    BY <1>2, <1>3 DEF b
  <2> HIDE DEF tb
  <2> QED
    BY <2>1, HoldsStarts
<1>5. r \in Seq(Symbol) /\ Len(r) \in Nat
  BY RestIs, LenProperties
<1> HIDE DEF tb, r
<1>6. Len(tb) <= Len(r) /\ \A i \in 1 .. Len(tb) : r[i] = tb[i]
  BY <1>4 DEF Starts
<1>7. r # <<>> /\ r[1] = tag
  <2>1. Len(r) >= 1 /\ r[1] = tag
    BY <1>2, <1>3, <1>5, <1>6
  <2> QED
    BY <2>1
<1>8. Starts(Tail(r), b)
  <2>1. Len(Tail(r)) = Len(r) - 1 /\ \A i \in 1 .. Len(Tail(r)) : Tail(r)[i] = r[i + 1]
    BY <1>5, <1>7, HeadTailProperties
  <2>2. Len(b) <= Len(Tail(r))
    BY <1>2, <1>3, <1>5, <1>6, <2>1
  <2>3. ASSUME NEW i \in 1 .. Len(b) PROVE Tail(r)[i] = b[i]
    <3>1. PICK j \in Int : j = i + 1
      OBVIOUS
    <3>2. i \in 1 .. Len(Tail(r)) /\ j \in 1 .. Len(tb)
      BY <1>2, <1>3, <1>5, <2>1, <2>2, <3>1
    <3>3. Tail(r)[i] = r[j] /\ r[j] = tb[j] /\ tb[j] = b[i]
      BY <1>3, <1>6, <2>1, <3>1, <3>2
    <3> QED
      BY <3>3
  <2> QED
    BY <2>2, <2>3 DEF Starts
<1> QED
  BY <1>1, <1>3, <1>4, <1>7, <1>8 DEF b, tb, r

\* A string with references: t are the tracked ones before, u those after.
IsReferenceBack(c, b, t, u) ==
  \A w \in Seq(Symbol) : \A p \in 0 .. Len(w) :
    Holds(w, p, b) =>
      \A s, x : \A g \in Seq(Result) :
        Read(Reading(w, p, t, s, x, g), c) = Reading(w, p + Len(b), u, s, x, g \o Owes(c))

ReferenceMoves(o, t, d, i, c) ==
  \E b \in Seq(Symbol) : \E u \in Seq(Text) :
    /\ Write(Encoder(o, t, d, i), c) = Encoder(o \o b, u, d, i)
    /\ Len(u) <= Len(t) + 1 /\ Len(b) \in Nat \ {0}
    /\ IsReferenceBack(c, b, t, u)
LEMMA RefStep ==
  ASSUME NEW o, NEW t \in Seq(Text), NEW d, NEW i, IsWord(Len(t)),
         NEW c, Sayable(c), SaysRef(c), IsCounted(c.arg)
  PROVE  ReferenceMoves(o, t, d, i, c)
<1> DEFINE a == c.arg
           e == Encoder(o, t, d, i)
<1>1. a \in Text /\ IsCounted(a) /\ Owes(c) = <<a>> /\ a \in Result
  BY SayableIs, OwesIs DEF Result, Symbol
<1>2. Int \cup Text \subseteq Symbol /\ Len(t) \in Nat
  BY LenProperties DEF Symbol
<1>3. Write(e, c) = WriteStringRef(e, a)
  <2>1. IsWriting(e, c, Write(e, c))
    BY WriteIs
  <2> QED
    BY <2>1, Zenon DEF IsWriting
<1>0. IsEncoder(e, o, t, d, i)
  BY EncoderIs
<1>4. ASSUME NEW g \in Seq(Result) PROVE Append(g, a) = g \o Owes(c)
  BY <1>1, AppendIsConcat
<1>5. CASE HasName(t, a)
  <2> DEFINE k == IndexOf(t, a)
             wi == WriteInt(k - 1)
             b == <<82>> \o wi
  <2>1. k \in 1 .. Len(t) /\ t[k] = a
    BY <1>5, IndexIs
  <2>2. Write(e, c) = Encoder(o \o b, t, d, i)
    BY <1>0, <1>3, <1>5, Zenon DEF IsEncoder
  <2> HIDE DEF k
  <2>3. k - 1 \in Int /\ IsWord(k - 1)
    BY <1>2, <2>1 DEF IsWord
  <2>4. wi \in Seq(Int) /\ Len(wi) \in Nat
    BY <2>3, IntAhead DEF Tagged
  <2>5. b \in Seq(Symbol) /\ Len(b) = Len(wi) + 1
    <3> HIDE DEF wi
    <3> QED
      BY <2>4 DEF Symbol
  <2>6. ASSUME NEW w \in Seq(Symbol), NEW p \in 0 .. Len(w), Holds(w, p, b),
               NEW s, NEW x, NEW g \in Seq(Result)
        PROVE  Read(Reading(w, p, t, s, x, g), c) = Reading(w, p + Len(b), t, s, x, g \o Owes(c))
    <3> DEFINE r == Rest(w, p)
               n == Got(k - 1, Len(wi))
               dd == Reading(w, p, t, s, x, g)
               m == Len(wi) + 1
    <3>1. r # <<>> /\ r[1] = 82 /\ ReadInt(Tail(r)) = n /\ Rest(r, m) = Rest(w, p + Len(b))
      <4>1. PICK v \in Int : v = k - 1
        BY <2>3
      <4>2. IsWord(v) /\ Holds(w, p, <<82>> \o WriteInt(v))
        BY <2>3, <2>6, <4>1
      <4>3. /\ Rest(w, p) # <<>> /\ Rest(w, p)[1] = 82
            /\ ReadInt(Tail(Rest(w, p))) = Got(v, Len(WriteInt(v)))
            /\ Rest(Rest(w, p), Len(WriteInt(v)) + 1) = Rest(w, p + Len(<<82>> \o WriteInt(v)))
        BY <4>2, TagThenInt
      <4> QED
        BY <4>1, <4>3
    <3>2. n.used + 1 = m /\ n.value + 1 = k /\ n # Mismatch
      <4>1. n.used = Len(wi) /\ n.value = k - 1 /\ Mismatch.used = 0
        BY DEF Got, Mismatch
      <4>2. Len(wi) # 0
        <5>1. Tagged(wi, 73..215)
          BY <2>3, IntAhead
        <5> QED
          BY <5>1 DEF Tagged
      <4> HIDE DEF n, wi
      <4> QED
        BY <2>1, <4>1, <4>2
    <3> HIDE DEF n, m
    <3>3. IsReading(dd, c, Read(dd, c))
      <4>1. Len(b) \in Nat \ {0}
        BY <2>4, <2>5
      <4> HIDE DEF b
      <4> QED
        BY <2>6, <4>1, ReadHere
    <3>4. dd.rest = r /\ dd.refs = t
      BY DEF Reading, Decoder
    <3>5. Past(dd, m) = Decoder(Rest(r, m), t, s, x, g)
      <4>1. dd = Decoder(r, t, s, x, g)
        BY DEF Reading
      <4> HIDE DEF dd, r
      <4> QED
        BY <4>1, PastIs
    <3> HIDE DEF dd, r, b
    <3>6. Tag(dd, {82})
      BY <3>1, <3>4, Zenon DEF Tag
    <3>7. Read(dd, c) = ReadRef(dd)
      BY <3>3, <3>6, Zenon DEF IsReading
    <3>8. ReadRef(dd) = [Past(dd, m) EXCEPT !.got = Append(@, a)]
      <4>1. k \in DOMAIN dd.refs
        BY <2>1, <3>4, LenProperties
      <4> QED
        BY <2>1, <3>1, <3>2, <3>4, <4>1, Zenon DEF ReadRef
    <3>9. [Past(dd, m) EXCEPT !.got = Append(@, a)] = Decoder(Rest(r, m), t, s, x, Append(g, a))
      <4> DEFINE q == Past(dd, m)
      <4>1. q.got = g /\ \A y : SetGot(q, y) = Decoder(Rest(r, m), t, s, x, y)
        <5>1. IsDecoder(q, Rest(r, m), t, s, x, g)
          BY <3>5, DecoderIs
        <5> QED
          BY <5>1, Zenon DEF IsDecoder
      <4> HIDE DEF q
      <4>2. [q EXCEPT !.got = Append(@, a)] = SetGot(q, Append(q.got, a))
        BY DEF SetGot
      <4> QED
        BY <4>1, <4>2 DEF q
    <3>10. Append(g, a) = g \o Owes(c)
      BY <1>4
    <3> QED
      BY <3>1, <3>7, <3>8, <3>9, <3>10, Zenon DEF Reading, dd
  <2>7. Len(t) <= Len(t) + 1 /\ Len(b) \in Nat \ {0}
    BY <1>2, <2>4, <2>5
  <2> HIDE DEF b, e, a
  <2>8. IsReferenceBack(c, b, t, t)
    BY <2>6 DEF IsReferenceBack
  <2> QED
    BY <2>2, <2>5, <2>7, <2>8 DEF e, ReferenceMoves
<1>6. CASE ~HasName(t, a)
  <2> DEFINE b == WriteString(a)
             u == Append(t, a)
  <2>1. Write(e, c) = Encoder(o \o b, u, d, i)
    BY <1>0, <1>3, <1>6, Zenon DEF IsEncoder
  <2>2. b \in Seq(Symbol) /\ Len(b) \in Nat \ {0}
    BY <1>1, <1>2, TextIs
  <2>3. u \in Seq(Text) /\ Len(u) = Len(t) + 1
    BY <1>1, AppendProperties
  <2>4. b[1] \in StringTags
    <3> DEFINE h == WriteStringHead(Chars[a])
    <3>1. h \in Seq(Int) /\ Len(h) \in Nat \ {0} /\ h[1] \in StringTags
      BY <1>1, TextIs
    <3>2. b = h \o <<a>>
      BY DEF WriteString
    <3> HIDE DEF h, b
    <3>3. h \in Seq(Symbol) /\ a \in Symbol
      BY <1>1, <3>1 DEF Symbol
    <3>4. \A j \in 1 .. Len(h) : (h \o <<a>>)[j] = h[j]
      BY <3>3, OneElementAfter
    <3> QED
      BY <3>1, <3>2, <3>4
  <2>5. ASSUME NEW w \in Seq(Symbol), NEW p \in 0 .. Len(w), Holds(w, p, b),
               NEW s, NEW x, NEW g \in Seq(Result)
        PROVE  Read(Reading(w, p, t, s, x, g), c) = Reading(w, p + Len(b), u, s, x, g \o Owes(c))
    <3> DEFINE dd == Reading(w, p, t, s, x, g)
    <3>1. IsReading(dd, c, Read(dd, c)) /\ dd.rest[1] = b[1]
      <4> HIDE DEF b
      <4>1. IsReading(dd, c, Read(dd, c))
        BY <2>2, <2>5, ReadHere
      <4>2. dd.rest = Rest(w, p)
        BY DEF Reading, Decoder
      <4>3. Starts(Rest(w, p), b)
        BY <2>2, <2>5, HoldsStarts
      <4>4. Rest(w, p)[1] = b[1]
        <5>1. 1 \in 1 .. Len(b)
          BY <2>2
        <5> QED
          BY <4>3, <5>1, Zenon DEF Starts
      <4> HIDE DEF dd
      <4> QED
        BY <4>1, <4>2, <4>4
    <3>2. ReadStr(dd) = Reading(w, p + Len(b), u, s, x, Append(g, a))
      BY <1>1, <1>2, <2>5, StringStep
    <3>3. Append(g, a) = g \o Owes(c)
      BY <1>4
    <3> HIDE DEF dd, b
    <3>4. ~Tag(dd, {82})
      <4>1. 82 \notin StringTags
        BY DEF StringTags
      <4> QED
        BY <2>4, <3>1, <4>1, Zenon DEF Tag
    <3>5. Read(dd, c) = ReadStr(dd)
      BY <3>1, <3>4, Zenon DEF IsReading
    <3> QED
      BY <3>2, <3>3, <3>5, Zenon DEF dd
  <2>6. Len(u) <= Len(t) + 1
    BY <1>2, <2>3
  <2> HIDE DEF b, u, e, a
  <2>7. IsReferenceBack(c, b, t, u)
    BY <2>5 DEF IsReferenceBack
  <2> QED
    BY <2>1, <2>2, <2>3, <2>6, <2>7 DEF e, ReferenceMoves
<1> QED
  BY <1>5, <1>6

\* An object: i is the definition it names.
LEMMA ObjectStep ==
  ASSUME NEW i \in Nat, IsWord(i), NEW w \in Seq(Symbol), NEW p \in 0 .. Len(w),
         Holds(w, p, << 79 >> \o WriteInt(i)),
         NEW f, NEW s, Len(s) \in Nat, i < Len(s), NEW x, NEW g
  PROVE  ReadObjectBegin(Reading(w, p, f, s, x, g))
           = Reading(w, p + Len(<<79>> \o WriteInt(i)), f, s, i, g)
<1> DEFINE wi == WriteInt(i)
           b == <<79>> \o wi
           r == Rest(w, p)
           n == Got(i, Len(wi))
           dd == Reading(w, p, f, s, x, g)
           m == Len(wi) + 1
<1>1. r # <<>> /\ r[1] = 79 /\ ReadInt(Tail(r)) = n /\ Rest(r, m) = Rest(w, p + Len(b))
  BY TagThenInt
<1>2. n.used + 1 = m /\ n.value = i /\ n # Mismatch
  <2>1. n.used = Len(wi) /\ n.value = i /\ Mismatch.used = 0
    BY DEF Got, Mismatch
  <2>2. Len(wi) # 0
    <3>1. Tagged(wi, 73..215)
      BY IntAhead
    <3> QED
      BY <3>1 DEF Tagged
  <2> HIDE DEF n, wi
  <2> QED
    BY <2>1, <2>2
<1>3. dd.rest = r /\ dd.defs = s
  BY DEF Reading, Decoder
<1>4. Past(dd, m) = Decoder(Rest(r, m), f, s, x, g)
  <2>1. dd = Decoder(r, f, s, x, g)
    BY DEF Reading
  <2> HIDE DEF dd, r, m
  <2> QED
    BY <2>1, PastIs
<1> HIDE DEF n, m, dd, r, b
<1>5. Tag(dd, {79}) /\ ~Tag(dd, 96..111)
  <2>1. 79 \notin 96..111
    OBVIOUS
  <2> QED
    BY <1>1, <1>3, <2>1, Zenon DEF Tag
<1>6. ReadObjectBegin(dd) = [Past(dd, m) EXCEPT !.index = i]
  BY <1>1, <1>2, <1>3, <1>5, Zenon DEF ReadObjectBegin
<1>7. [Past(dd, m) EXCEPT !.index = i] = Decoder(Rest(r, m), f, s, i, g)
  <2> DEFINE q == Past(dd, m)
  <2>1. \A y : SetIndex(q, y) = Decoder(Rest(r, m), f, s, y, g)
    <3>1. IsDecoder(q, Rest(r, m), f, s, x, g)
      BY <1>4, DecoderIs
    <3> QED
      BY <3>1, Zenon DEF IsDecoder
  <2> HIDE DEF q
  <2>2. [q EXCEPT !.index = i] = SetIndex(q, i)
    BY DEF SetIndex
  <2> QED
    BY <2>1, <2>2 DEF q
<1> QED
  BY <1>1, <1>6, <1>7, Zenon DEF Reading, dd, b

-----------------------------------------------------------------------------
(* A class definition.                                                     *)

StringReads(at, d, n) ==
  ReadStrings(d, n) = at[n] /\ at[0] = d /\ \A k \in 1 .. n : at[k] = ReadStr(at[k - 1])

LEMMA StringSteps ==
  ASSUME NEW d, NEW n \in Nat
  PROVE  \E at : StringReads(at, d, n)
<1> DEFINE f == CHOOSE g : g = [k \in 0 .. n |-> IF k = 0 THEN d ELSE ReadStr(g[k - 1])]
           Def(v, k) == ReadStr(v)
<1>1. ReadStrings(d, n) = f[n]
  BY Zenon DEF ReadStrings
<1>2. FiniteNatInductiveDefHypothesis(f, d, Def, 0, n)
  BY Zenon DEF FiniteNatInductiveDefHypothesis
<1>3. FiniteNatInductiveDefConclusion(f, d, Def, 0, n)
  BY <1>2, FiniteNatInductiveDef, Zenon
<1>4. f = [k \in 0 .. n |-> IF k = 0 THEN d ELSE ReadStr(f[k - 1])]
  BY <1>3, Zenon DEF FiniteNatInductiveDefConclusion
<1> HIDE DEF f
<1>5. f[0] = d
  <2>1. 0 \in 0 .. n
    OBVIOUS
  <2> QED
    BY <1>4, <2>1, Zenon
<1>6. ASSUME NEW k \in 1 .. n PROVE f[k] = ReadStr(f[k - 1])
  <2>1. k \in 0 .. n /\ k # 0
    OBVIOUS
  <2> QED
    BY <1>4, <2>1, Zenon
<1> QED
  BY <1>1, <1>5, <1>6 DEF StringReads

IsClass(class) ==
  /\ class \in [name : Text, fields : Seq(Text)]
  /\ IsCounted(class.name) /\ \A j \in DOMAIN class.fields : IsCounted(class.fields[j])
  /\ IsWord(Len(class.fields))
FieldBytes(class) == [i \in DOMAIN class.fields |-> WriteString(class.fields[i])]

\* The name of a class and its first k fields, read after g.
GotFields(q, g, class, k) ==
  /\ q \in Seq(Result) /\ Len(q) = Len(g) + 1 + k
  /\ q[Len(g) + 1] = class.name
  /\ \A i \in 1 .. k : q[Len(g) + 1 + i] = class.fields[i]

LEMMA OneMoreField ==
  ASSUME NEW g \in Seq(Result), NEW class, NEW k \in Nat, NEW q, GotFields(q, g, class, k),
         class.fields[k + 1] \in Result
  PROVE  GotFields(Append(q, class.fields[k + 1]), g, class, k + 1)
<1> DEFINE v == class.fields[k + 1]
           r == Append(q, v)
           n == Len(g)
<1>1. n \in Nat
  BY LenProperties
<1> HIDE DEF v, n
<1>2. /\ q \in Seq(Result) /\ Len(q) = n + 1 + k /\ q[n + 1] = class.name
      /\ \A i \in 1 .. k : q[n + 1 + i] = class.fields[i]
  BY DEF GotFields, n
<1>3. /\ r \in Seq(Result) /\ Len(r) = Len(q) + 1 /\ r[Len(q) + 1] = v
      /\ \A i \in 1 .. Len(q) : r[i] = q[i]
  BY <1>2, AppendProperties DEF v
<1> HIDE DEF r
<1>4. Len(r) = n + 1 + (k + 1)
  BY <1>1, <1>2, <1>3
<1>5. r[n + 1] = class.name
  <2>1. PICK j \in Int : j = n + 1
    BY <1>1
  <2>2. j \in 1 .. Len(q)
    BY <1>1, <1>2, <2>1
  <2> QED
    BY <1>2, <1>3, <2>1, <2>2
<1>6. ASSUME NEW i \in 1 .. k + 1 PROVE r[n + 1 + i] = class.fields[i]
  <2>1. PICK j \in Int : j = n + 1 + i
    BY <1>1
  <2>2. CASE i = k + 1
    <3>1. j = Len(q) + 1 /\ class.fields[i] = v
      BY <1>1, <1>2, <2>1, <2>2 DEF v
    <3> QED
      BY <1>3, <2>1, <3>1
  <2>3. CASE i # k + 1
    <3>1. i \in 1 .. k /\ j \in 1 .. Len(q)
      BY <1>1, <1>2, <2>1, <2>3
    <3>2. q[j] = class.fields[i]
      BY <1>2, <2>1, <3>1
    <3> QED
      BY <1>3, <2>1, <3>1, <3>2
  <2> QED
    BY <2>2, <2>3
<1> QED
  BY <1>3, <1>4, <1>5, <1>6 DEF GotFields, r, n, v

\* The bytes of a class definition, and their parts.
NameBytes(class) == <<67>> \o WriteString(class.name)
HeadBytes(class) == NameBytes(class) \o WriteInt(Len(class.fields))
BodyBytes(class) == FlattenSeq(FieldBytes(class))
IsDefinition(class) ==
  /\ FieldBytes(class) \in Seq(Seq(Symbol)) /\ Len(FieldBytes(class)) = Len(class.fields)
  /\ \A i \in 1 .. Len(class.fields) : FieldBytes(class)[i] = WriteString(class.fields[i])
  /\ DefinitionOf(class) = HeadBytes(class) \o BodyBytes(class)
  /\ WriteString(class.name) \in Seq(Symbol) /\ WriteInt(Len(class.fields)) \in Seq(Symbol)
  /\ NameBytes(class) \in Seq(Symbol) /\ HeadBytes(class) \in Seq(Symbol) /\ BodyBytes(class) \in Seq(Symbol)
  /\ DefinitionOf(class) \in Seq(Symbol)
  /\ Len(DefinitionOf(class)) \in Nat \ {0} /\ DefinitionOf(class)[1] = 67
  /\ Len(NameBytes(class)) = 1 + Len(WriteString(class.name))
  /\ Len(HeadBytes(class)) = Len(NameBytes(class)) + Len(WriteInt(Len(class.fields)))
  /\ Len(DefinitionOf(class)) = Len(HeadBytes(class)) + Len(BodyBytes(class))
LEMMA DefinitionIs ==
  ASSUME NEW class, IsClass(class)
  PROVE  IsDefinition(class)
<1> DEFINE fields == class.fields
           parts == FieldBytes(class)
           ws == WriteString(class.name)
           wi == WriteInt(Len(fields))
           name == <<67>> \o ws
           head == name \o wi
           rest == FlattenSeq(parts)
<1>1. class.name \in Text /\ fields \in Seq(Text) /\ IsCounted(class.name) /\ IsWord(Len(fields))
      /\ Len(fields) \in Nat /\ DOMAIN fields = 1 .. Len(fields)
      /\ \A i \in 1 .. Len(fields) : fields[i] \in Text /\ IsCounted(fields[i])
  <2>1. class.name \in Text /\ fields \in Seq(Text)
    BY DEF IsClass
  <2> QED
    BY <2>1, LenProperties, ElementOfSeq DEF IsClass
<1>2. Int \cup Text \subseteq Symbol
  BY DEF Symbol
<1>3. ASSUME NEW t \in Text, IsCounted(t) PROVE WriteString(t) \in Seq(Symbol)
  BY <1>2, <1>3, TextIs
<1>4. ws \in Seq(Symbol) /\ wi \in Seq(Symbol)
  <2>1. ws \in Seq(Symbol)
    BY <1>1, <1>3
  <2>2. Tagged(wi, 73..215)
    BY <1>1, IntAhead
  <2> HIDE DEF wi, ws
  <2> QED
    BY <2>1, <2>2 DEF Tagged, Symbol
<1>5. parts \in Seq(Seq(Symbol)) /\ Len(parts) = Len(fields)
      /\ \A i \in 1 .. Len(fields) : parts[i] = WriteString(fields[i])
  <2>1. parts = [i \in 1 .. Len(fields) |-> WriteString(fields[i])]
    BY <1>1 DEF FieldBytes
  <2>2. \A i \in 1 .. Len(fields) : WriteString(fields[i]) \in Seq(Symbol)
    BY <1>1, <1>3
  <2> HIDE DEF parts, fields
  <2> QED
    BY <1>1, <2>1, <2>2
<1>6. rest \in Seq(Symbol)
  <2>1. PICK a \in [0 .. Len(parts) -> Seq(Symbol)] : Joins(a, parts)
    BY <1>5, JoinSteps
  <2>2. Len(parts) \in 0 .. Len(parts)
    BY <1>1, <1>5
  <2>3. rest = a[Len(parts)]
    BY <2>1 DEF Joins
  <2> QED
    BY <2>1, <2>2, <2>3
<1> HIDE DEF ws, wi, parts, rest, fields
<1>7. name \in Seq(Symbol) /\ Len(name) = 1 + Len(ws) /\ name[1] = 67
  BY <1>4 DEF Symbol
<1> HIDE DEF name
<1>8. IsBoth(Symbol, name, wi, head)
  BY <1>4, <1>7, OneAfterOther
<1>9. Len(name) \in Nat /\ Len(wi) \in Nat /\ Len(rest) \in Nat /\ Len(ws) \in Nat
  BY <1>4, <1>6, <1>7, LenProperties
<1>10. head \in Seq(Symbol) /\ Len(head) = Len(name) + Len(wi) /\ head[1] = 67
  BY <1>7, <1>8, <1>9 DEF IsBoth
<1>11. DefinitionOf(class) = head \o rest
  BY DEF DefinitionOf, FieldBytes, head, name, ws, wi, rest, parts, fields
<1> HIDE DEF head
<1> DEFINE all == head \o rest
<1>12. IsBoth(Symbol, head, rest, all)
  BY <1>6, <1>10, OneAfterOther
<1>13. all \in Seq(Symbol) /\ Len(all) = Len(head) + Len(rest) /\ all[1] = 67 /\ Len(all) \in Nat \ {0}
  BY <1>7, <1>9, <1>10, <1>12 DEF IsBoth
<1> QED
  BY <1>4, <1>5, <1>6, <1>7, <1>10, <1>11, <1>13
  DEF IsDefinition, NameBytes, HeadBytes, BodyBytes, head, name, ws, wi, rest, parts, fields

\* Reading the fields, one string after another.
AreRead(w, p, f, s, x, q, g, class) ==
  \E h, r : /\ GotFields(r, g, class, Len(class.fields))
            /\ ReadStrings(Reading(w, p, f, s, x, q), Len(class.fields))
                 = Reading(w, p + Len(BodyBytes(class)), h, s, x, r)
LEMMA FieldsRead ==
  ASSUME NEW class, IsClass(class), NEW w \in Seq(Symbol), NEW p \in 0 .. Len(w),
         Holds(w, p, BodyBytes(class)), NEW f, NEW s, NEW x, NEW g \in Seq(Result),
         NEW q, GotFields(q, g, class, 0)
  PROVE  AreRead(w, p, f, s, x, q, g, class)
<1> DEFINE fields == class.fields
           n == Len(fields)
           parts == FieldBytes(class)
           body == BodyBytes(class)
           d == Reading(w, p, f, s, x, q)
<1>1. fields \in Seq(Text) /\ n \in Nat
      /\ \A i \in 1 .. n : fields[i] \in Text /\ IsCounted(fields[i]) /\ fields[i] \in Result
  <2>1. fields \in Seq(Text)
    BY DEF IsClass
  <2>2. \A i \in 1 .. n : IsCounted(fields[i])
    BY <2>1, LenProperties DEF IsClass
  <2>3. n \in Nat /\ \A i \in 1 .. n : fields[i] \in Text
    BY <2>1, LenProperties, ElementOfSeq
  <2> QED
    BY <2>1, <2>2, <2>3 DEF Result, Symbol
<1>2. parts \in Seq(Seq(Symbol)) /\ Len(parts) = n /\ (\A i \in 1 .. n : parts[i] = WriteString(fields[i]))
      /\ body \in Seq(Symbol) /\ Len(body) \in Nat
  <2>1. IsDefinition(class)
    BY DefinitionIs
  <2>2. body \in Seq(Symbol)
    BY <2>1 DEF IsDefinition
  <2> QED
    BY <2>1, <2>2, LenProperties DEF IsDefinition
<1>3. body = FlattenSeq(parts)
  BY DEF BodyBytes
<1> HIDE DEF fields, parts, body, n
<1>4. PICK a \in [0 .. Len(parts) -> Seq(Symbol)] : Joins(a, parts)
  BY <1>2, JoinSteps
<1>5. PICK at : StringReads(at, d, n)
  BY <1>1, StringSteps
<1>6. Int \cup Text \subseteq Symbol
  BY DEF Symbol
<1>7. Len(w) \in Nat /\ p \in Nat /\ p + Len(body) <= Len(w)
      /\ \A i \in 1 .. Len(body) : w[p + i] = body[i]
  <2>1. Holds(w, p, body)
    BY DEF body
  <2> QED
    BY <2>1, LenProperties DEF Holds
<1> DEFINE OK(k) == \E h, r : GotFields(r, g, class, k) /\ at[k] = Reading(w, p + Len(a[k]), h, s, x, r)
           S == {k \in 0 .. n : OK(k)}
<1>8. 0 \in S
  <2>1. a[0] = <<>> /\ Len(a[0]) = 0 /\ p + 0 = p
    BY <1>4 DEF Joins
  <2>2. at[0] = d
    BY <1>5 DEF StringReads
  <2>3. at[0] = Reading(w, p + Len(a[0]), f, s, x, q)
    BY <1>7, <2>1, <2>2
  <2>4. OK(0)
    BY <2>3
  <2> QED
    BY <1>1, <2>4
<1>9. ASSUME NEW k \in 1 .. n, k - 1 \in S PROVE k \in S
  <2>1. PICK j \in Int : j = k - 1
    OBVIOUS
  <2>2. j \in Nat /\ j + 1 = k /\ j \in 0 .. n /\ k \in 0 .. n /\ k \in 1 .. Len(parts) /\ j \in S
    BY <1>1, <1>2, <1>9, <2>1
  <2>3. PICK h, r : GotFields(r, g, class, j) /\ at[j] = Reading(w, p + Len(a[j]), h, s, x, r)
    BY <2>2
  <2> DEFINE t == fields[k]
             b == WriteString(t)
             m == p + Len(a[j])
  <2>4. /\ Len(a[k]) = Len(a[k - 1]) + Len(parts[k]) /\ Len(a[k]) <= Len(FlattenSeq(parts))
        /\ Placed(parts, a, k)
    BY <1>2, <1>4, <2>2, JoinPlaces
  <2>5. parts[k] = b /\ t \in Text /\ IsCounted(t) /\ t \in Result
    BY <1>1, <1>2
  <2>6. Len(a[k]) = Len(a[j]) + Len(b) /\ Len(a[k]) <= Len(body)
        /\ \A i \in 1 .. Len(b) : body[Len(a[j]) + i] = b[i]
    BY <1>3, <2>1, <2>4, <2>5 DEF Placed
  <2>7. Len(a[j]) \in Nat /\ Len(a[k]) \in Nat /\ Len(b) \in Nat
    <3>1. a[j] \in Seq(Symbol) /\ a[k] \in Seq(Symbol)
      BY <1>2, <2>2
    <3>2. b \in Seq(Symbol)
      BY <1>6, <2>5, TextIs
    <3> QED
      BY <3>1, <3>2, LenProperties
  <2> HIDE DEF b, t
  <2>8. m \in 0 .. Len(w) /\ Holds(w, m, b)
    <3>1. m \in 0 .. Len(w) /\ m + Len(b) <= Len(w)
      <4>1. PICK u \in Nat, v \in Nat : u = Len(a[j]) /\ v = Len(b)
        BY <2>7
      <4>2. u + v <= Len(body) /\ m = p + u
        BY <2>6, <4>1
      <4>3. Len(w) \in Nat /\ p \in Nat /\ Len(body) \in Nat /\ p + Len(body) <= Len(w)
        BY <1>2, <1>7
      <4> HIDE DEF m
      <4>4. m \in 0 .. Len(w) /\ m + v <= Len(w)
        BY <4>2, <4>3
      <4> QED
        BY <4>1, <4>4
    <3>2. ASSUME NEW i \in 1 .. Len(b) PROVE w[m + i] = b[i]
      <4>1. PICK l \in Int : l = Len(a[j]) + i
        BY <2>7
      <4>2. l \in 1 .. Len(body) /\ p + l = m + i
        <5>1. PICK u \in Nat, v \in Nat : u = Len(a[j]) /\ v = Len(b)
          BY <2>7
        <5>2. u + v <= Len(body) /\ m = p + u /\ i \in 1 .. v /\ l = u + i
          BY <2>6, <4>1, <5>1
        <5>3. p \in Nat /\ Len(body) \in Nat
          BY <1>2, <1>7
        <5> HIDE DEF m
        <5> QED
          BY <5>2, <5>3
      <4>3. w[p + l] = body[l] /\ body[l] = b[i]
        BY <1>7, <2>6, <4>1, <4>2
      <4> QED
        BY <4>2, <4>3
    <3> QED
      BY <3>1, <3>2 DEF Holds
  <2>9. m + Len(b) = p + Len(a[k])
    BY <1>7, <2>6, <2>7
  <2> HIDE DEF m
  <2>10. ReadStr(Reading(w, m, h, s, x, r)) = Reading(w, m + Len(b), Append(h, t), s, x, Append(r, t))
    BY <1>6, <2>5, <2>8, StringStep DEF b
  <2>11. at[k] = ReadStr(at[j])
    BY <1>5, <2>1 DEF StringReads
  <2>12. GotFields(Append(r, t), g, class, k)
    <3>1. class.fields[j + 1] = t
      BY <2>2 DEF t, fields
    <3>2. GotFields(Append(r, class.fields[j + 1]), g, class, j + 1)
      BY <2>2, <2>3, <2>5, <3>1, OneMoreField
    <3> QED
      BY <2>2, <3>1, <3>2
  <2>13. at[k] = Reading(w, p + Len(a[k]), Append(h, t), s, x, Append(r, t))
    BY <2>3, <2>9, <2>10, <2>11, Zenon DEF m
  <2>14. OK(k)
    BY <2>12, <2>13, Zenon
  <2> QED
    BY <2>2, <2>14
<1> HIDE DEF S
<1>10. n \in S
  <2>1. \A k \in 0 .. n : k \in S
    BY <1>1, <1>8, <1>9, InductionUpTo
  <2> QED
    BY <1>1, <2>1
<1>11. a[n] = body
  BY <1>2, <1>3, <1>4 DEF Joins
<1>12. OK(n)
  BY <1>10, Zenon DEF S
<1>13. ReadStrings(d, n) = at[n]
  BY <1>5 DEF StringReads
<1> QED
  BY <1>11, <1>12, <1>13, Zenon DEF AreRead, body, n, fields

\* The class that was read.
LEMMA ReadClassIs ==
  ASSUME NEW class, IsClass(class), NEW g \in Seq(Result), NEW q,
         GotFields(q, g, class, Len(class.fields))
  PROVE  LET read == SubSeq(q, Len(g) + 1, Len(q))
         IN  [name |-> read[1], fields |-> Tail(read)] = class
<1> DEFINE n == Len(g)
           m == Len(class.fields)
           read == SubSeq(q, n + 1, Len(q))
           fields == class.fields
<1>1. fields \in Seq(Text) /\ class = [name |-> class.name, fields |-> fields]
  BY DEF IsClass
<1>2. n \in Nat /\ m \in Nat
  BY <1>1, LenProperties
<1> HIDE DEF n, m
<1>3. /\ q \in Seq(Result) /\ Len(q) = n + 1 + m /\ q[n + 1] = class.name
      /\ \A i \in 1 .. m : q[n + 1 + i] = fields[i]
  BY DEF GotFields, n, m
<1> HIDE DEF fields
<1>4. /\ read \in Seq(Result) /\ Len(read) = m + 1
      /\ \A i \in 1 .. m + 1 : read[i] = q[n + i]
  <2>1. n \in 0 .. Len(q)
    BY <1>2, <1>3
  <2>2. /\ Rest(q, n) \in Seq(Result) /\ Len(Rest(q, n)) = Len(q) - n
        /\ \A i \in 1 .. Len(q) - n : Rest(q, n)[i] = q[n + i]
    BY <1>3, <2>1, RestIs
  <2>3. Rest(q, n) = read /\ Len(q) - n = m + 1
    BY <1>2, <1>3 DEF Rest
  <2> QED
    BY <2>2, <2>3
<1> HIDE DEF read
<1>5. read[1] = class.name /\ read # <<>>
  <2>1. 1 \in 1 .. m + 1
    BY <1>2
  <2> QED
    BY <1>2, <1>3, <1>4, <2>1
<1>6. /\ Tail(read) \in Seq(Result) /\ Len(Tail(read)) = m
      /\ \A i \in 1 .. m : Tail(read)[i] = read[i + 1]
  BY <1>2, <1>4, <1>5, HeadTailProperties
<1>7. \A i \in 1 .. m : Tail(read)[i] = fields[i]
  <2> SUFFICES ASSUME NEW i \in 1 .. m PROVE Tail(read)[i] = fields[i]
    OBVIOUS
  <2>1. PICK j \in Int : j = i + 1
    OBVIOUS
  <2>2. j \in 1 .. m + 1 /\ n + j = n + 1 + i
    BY <1>2, <2>1
  <2>3. read[j] = q[n + j]
    BY <1>4, <2>2
  <2> QED
    BY <1>3, <1>6, <2>1, <2>2, <2>3
<1>8. Tail(read) = fields
  <2> DEFINE u == Tail(read)
  <2>1. u \in Seq(Result) /\ fields \in Seq(Text) /\ Len(u) = Len(fields)
    BY <1>1, <1>6 DEF m, fields
  <2>2. \A i \in 1 .. Len(u) : u[i] = fields[i]
    BY <1>6, <1>7
  <2> HIDE DEF u
  <2>3. u \in Seq(Result \cup Text) /\ fields \in Seq(Result \cup Text)
    BY <2>1
  <2>4. u = fields
    BY <2>1, <2>2, <2>3, SeqEqual
  <2> QED
    BY <2>4 DEF u
<1> QED
  BY <1>1, <1>5, <1>8 DEF read, n

LEMMA DefinitionHeld ==
  ASSUME NEW class, IsClass(class), NEW w \in Seq(Symbol), NEW p \in 0 .. Len(w),
         Holds(w, p, DefinitionOf(class))
  PROVE  /\ Holds(w, p, <<67>>) /\ Holds(w, p + 1, WriteString(class.name))
         /\ Holds(w, p + Len(NameBytes(class)), WriteInt(Len(class.fields)))
         /\ Holds(w, p + Len(HeadBytes(class)), BodyBytes(class))
         /\ p + 1 \in 0 .. Len(w) /\ p + Len(NameBytes(class)) \in 0 .. Len(w)
         /\ p + Len(HeadBytes(class)) \in 0 .. Len(w)
<1> DEFINE ws == WriteString(class.name)
           wi == WriteInt(Len(class.fields))
           name == NameBytes(class)
           head == HeadBytes(class)
           body == BodyBytes(class)
           all == DefinitionOf(class)
           tag == <<67>>
<1>1. /\ all = head \o body /\ ws \in Seq(Symbol) /\ wi \in Seq(Symbol)
      /\ name \in Seq(Symbol) /\ head \in Seq(Symbol) /\ body \in Seq(Symbol)
      /\ Len(name) = 1 + Len(ws) /\ Len(head) = Len(name) + Len(wi) /\ Len(all) = Len(head) + Len(body)
  BY DefinitionIs DEF IsDefinition
<1>2. name = tag \o ws /\ head = name \o wi
  BY DEF NameBytes, HeadBytes
<1>3. tag \in Seq(Symbol) /\ Len(tag) = 1
  BY DEF Symbol
<1>4. Len(w) \in Nat /\ p \in Nat
  BY LenProperties
<1> HIDE DEF ws, wi, name, head, body, all, tag
<1>5. Holds(w, p, head) /\ Holds(w, p + Len(head), body)
  <2>1. Holds(w, p, head \o body)
    BY <1>1 DEF all
  <2> QED
    BY <1>1, <1>4, <2>1, HoldsBoth
<1>6. Holds(w, p, name) /\ Holds(w, p + Len(name), wi)
  <2>1. Holds(w, p, name \o wi)
    BY <1>2, <1>5
  <2> QED
    BY <1>1, <1>4, <2>1, HoldsBoth
<1>7. Holds(w, p, tag) /\ Holds(w, p + Len(tag), ws)
  <2>1. Holds(w, p, tag \o ws)
    BY <1>2, <1>6
  <2> QED
    BY <1>1, <1>3, <1>4, <2>1, HoldsBoth
<1>8. p + 1 \in 0 .. Len(w) /\ p + Len(name) \in 0 .. Len(w) /\ p + Len(head) \in 0 .. Len(w)
  <2>1. p + Len(tag) <= Len(w) /\ p + Len(name) <= Len(w) /\ p + Len(head) <= Len(w)
    BY <1>5, <1>6, <1>7 DEF Holds
  <2>2. Len(name) \in Nat /\ Len(head) \in Nat
    BY <1>1, LenProperties
  <2> QED
    BY <1>3, <1>4, <2>1, <2>2
<1> QED
  BY <1>3, <1>5, <1>6, <1>7, <1>8 DEF ws, wi, name, head, body, tag

LEMMA NameRead ==
  ASSUME NEW class, IsClass(class), NEW w \in Seq(Symbol), NEW p \in 0 .. Len(w),
         Holds(w, p, DefinitionOf(class)), NEW f, NEW s, NEW x, NEW g \in Seq(Result)
  PROVE  LET d == Reading(w, p, f, s, x, g)
             named == ReadStr(Expect(d, {67}))
             n == Len(class.fields)
         IN  /\ Tag(d, {67}) /\ d.got = g /\ d.defs = s
             /\ named.failed = NoFailure
             /\ ReadInt(named.rest) = Got(n, Len(WriteInt(n)))
             /\ Past(named, Len(WriteInt(n)))
                  = Reading(w, p + Len(HeadBytes(class)), Append(f, class.name), s, x, Append(g, class.name))
<1> DEFINE d == Reading(w, p, f, s, x, g)
           n == Len(class.fields)
           wi == WriteInt(n)
           ws == WriteString(class.name)
           named == ReadStr(Expect(d, {67}))
           u == p + 1
           v == p + Len(NameBytes(class))
           z == p + Len(HeadBytes(class))
           F == Append(f, class.name)
           G == Append(g, class.name)
<1>1. class.name \in Text /\ IsCounted(class.name) /\ n \in Nat /\ IsWord(n)
  <2>1. class.name \in Text /\ class.fields \in Seq(Text)
    BY DEF IsClass
  <2> QED
    BY <2>1, LenProperties DEF IsClass
<1>2. /\ Holds(w, p, <<67>>) /\ Holds(w, u, ws) /\ Holds(w, v, wi)
      /\ u \in 0 .. Len(w) /\ v \in 0 .. Len(w) /\ z \in 0 .. Len(w)
  BY DefinitionHeld
<1>3. /\ Len(NameBytes(class)) = 1 + Len(ws) /\ Len(HeadBytes(class)) = Len(NameBytes(class)) + Len(wi)
      /\ Len(ws) \in Nat /\ Len(NameBytes(class)) \in Nat
  <2>1. IsDefinition(class)
    BY DefinitionIs
  <2>2. ws \in Seq(Symbol) /\ NameBytes(class) \in Seq(Symbol)
    BY <2>1 DEF IsDefinition
  <2> QED
    BY <2>1, <2>2, LenProperties DEF IsDefinition
<1>4. Tag(d, {67}) /\ Expect(d, {67}) = Reading(w, u, f, s, x, g)
  <2> DEFINE tags == {67}
             tag == 67
  <2>1. tag \in tags /\ Holds(w, p, <<tag>>)
    BY <1>2
  <2> HIDE DEF tags, tag
  <2>2. Tag(Reading(w, p, f, s, x, g), tags)
    BY <2>1, ExpectStep
  <2>3. Expect(Reading(w, p, f, s, x, g), tags) = Reading(w, p + 1, f, s, x, g)
    BY <2>1, ExpectStep
  <2> QED
    BY <2>2, <2>3 DEF tags
<1>5. Int \cup Text \subseteq Symbol
  BY DEF Symbol
<1>6. v = u + Len(ws)
  BY <1>3
<1>7. named = Reading(w, v, F, s, x, G)
  <2> HIDE DEF u, v
  <2>1. ReadStr(Reading(w, u, f, s, x, g)) = Reading(w, u + Len(ws), F, s, x, G)
    BY <1>1, <1>2, <1>5, StringStep
  <2> QED
    BY <1>4, <1>6, <2>1, Zenon
<1>8. Tagged(wi, 73..215) /\ \A r : Starts(r, wi) => ReadInt(r) = Got(n, Len(wi))
  BY <1>1, IntAhead
<1>9. z = v + Len(wi)
  BY <1>3, <1>8 DEF Tagged
<1> HIDE DEF wi, v, n
<1>10. Starts(Rest(w, v), wi) /\ Rest(Rest(w, v), Len(wi)) = Rest(w, v + Len(wi))
  <2>1. Len(wi) \in Nat
    BY <1>8 DEF Tagged
  <2> QED
    BY <1>2, <2>1, HoldsStarts
<1>11. named = Decoder(Rest(w, v), F, s, x, G)
  BY <1>7 DEF Reading
<1> HIDE DEF named, F, G, z
<1>12. named.rest = Rest(w, v) /\ named.failed = NoFailure
  BY <1>11 DEF Decoder
<1>13. Past(named, Len(wi)) = Reading(w, z, F, s, x, G)
  <2>1. Past(named, Len(wi)) = Decoder(Rest(Rest(w, v), Len(wi)), F, s, x, G)
    BY <1>11, PastIs
  <2> QED
    BY <1>9, <1>10, <2>1, Zenon DEF Reading
<1>14. ReadInt(named.rest) = Got(n, Len(wi))
  BY <1>8, <1>10, <1>12
<1>15. d.got = g /\ d.defs = s
  BY DEF Reading, Decoder
<1> HIDE DEF d
<1> QED
  BY <1>4, <1>12, <1>13, <1>14, <1>15, Zenon DEF wi, n, named, F, G, z, d

Defines(w, p, f, s, x, g, class) ==
  \E h : ReadClassDef(Reading(w, p, f, s, x, g))
           = Reading(w, p + Len(DefinitionOf(class)), h, Append(s, class), Len(s), g)
LEMMA DefinitionRead ==
  ASSUME NEW class, IsClass(class), NEW w \in Seq(Symbol), NEW p \in 0 .. Len(w),
         Holds(w, p, DefinitionOf(class)), NEW f, NEW s, NEW x, NEW g \in Seq(Result)
  PROVE  Defines(w, p, f, s, x, g, class)
<1> DEFINE d == Reading(w, p, f, s, x, g)
           n == Len(class.fields)
           wi == WriteInt(n)
           named == ReadStr(Expect(d, {67}))
           z == p + Len(HeadBytes(class))
           F == Append(f, class.name)
           G == Append(g, class.name)
           start == Reading(w, z, F, s, x, G)
           all == ReadStrings(start, n)
           end == p + Len(DefinitionOf(class))
<1>1. /\ Tag(d, {67}) /\ d.got = g /\ d.defs = s /\ named.failed = NoFailure
      /\ ReadInt(named.rest) = Got(n, Len(wi)) /\ Past(named, Len(wi)) = start
  BY NameRead
<1>2. z \in 0 .. Len(w) /\ Holds(w, z, BodyBytes(class))
  BY DefinitionHeld
<1>3. GotFields(G, g, class, 0)
  <2>1. class.name \in Text
    BY DEF IsClass
  <2>2. class.name \in Result
    BY <2>1 DEF Result, Symbol
  <2>3. G \in Seq(Result) /\ Len(G) = Len(g) + 1 /\ G[Len(g) + 1] = class.name
    BY <2>2, AppendProperties
  <2>4. Len(g) \in Nat
    BY LenProperties
  <2> HIDE DEF G
  <2>5. Len(g) + 1 + 0 = Len(g) + 1 /\ \A i \in 1 .. 0 : G[Len(g) + 1 + i] = class.fields[i]
    BY <2>4
  <2> QED
    BY <2>3, <2>5 DEF GotFields
<1>4. PICK h, r : /\ GotFields(r, g, class, n)
                  /\ all = Reading(w, z + Len(BodyBytes(class)), h, s, x, r)
  <2>1. AreRead(w, z, F, s, x, G, g, class)
    <3> HIDE DEF z, F, G
    <3> QED
      BY <1>2, <1>3, FieldsRead
  <2> QED
    BY <2>1, Zenon DEF AreRead
<1>5. z + Len(BodyBytes(class)) = end
  <2>1. /\ Len(DefinitionOf(class)) = Len(HeadBytes(class)) + Len(BodyBytes(class))
        /\ HeadBytes(class) \in Seq(Symbol) /\ BodyBytes(class) \in Seq(Symbol)
    BY DefinitionIs DEF IsDefinition
  <2>2. Len(HeadBytes(class)) \in Nat /\ Len(BodyBytes(class)) \in Nat
    BY <2>1, LenProperties
  <2> QED
    BY <2>1, <2>2
<1>6. all = Decoder(Rest(w, end), h, s, x, r)
  BY <1>4, <1>5 DEF Reading
<1>7. Got(n, Len(wi)) # Mismatch /\ Got(n, Len(wi)).used = Len(wi) /\ Got(n, Len(wi)).value = n
  <2>1. Got(n, Len(wi)).used = Len(wi) /\ Got(n, Len(wi)).value = n /\ Mismatch.used = 0
    BY DEF Got, Mismatch
  <2>2. Len(wi) # 0
    <3>1. class.fields \in Seq(Text) /\ IsWord(n)
      BY DEF IsClass
    <3>2. n \in Int /\ IsWord(n)
      BY <3>1, LenProperties
    <3>3. Tagged(wi, 73..215)
      BY <3>2, IntAhead
    <3> QED
      BY <3>3 DEF Tagged
  <2> HIDE DEF wi, n
  <2> QED
    BY <2>1, <2>2
<1> DEFINE got == SubSeq(all.got, Len(d.got) + 1, Len(all.got))
<1>8. [name |-> got[1], fields |-> Tail(got)] = class
  <2>1. all.got = r
    BY <1>6 DEF Decoder
  <2>2. got = SubSeq(r, Len(g) + 1, Len(r))
    BY <1>1, <2>1
  <2>3. [name |-> SubSeq(r, Len(g) + 1, Len(r))[1], fields |-> Tail(SubSeq(r, Len(g) + 1, Len(r)))] = class
    BY <1>4, ReadClassIs
  <2> HIDE DEF got
  <2> QED
    BY <2>2, <2>3
<1> HIDE DEF d, wi, n, start, end
<1>9. ReadClassDef(d) = [Unkept(all, d) EXCEPT !.defs = Append(@, [name |-> got[1], fields |-> Tail(got)]),
                                               !.index = Len(d.defs)]
  <2> DEFINE k == ReadInt(named.rest)
             most == ReadStrings(Past(named, k.used), k.value)
             found == SubSeq(most.got, Len(d.got) + 1, Len(most.got))
  <2>1. k # Mismatch /\ k.used = Len(wi) /\ k.value = n
    BY <1>1, <1>7, Zenon
  <2>2. most = all
    BY <1>1, <2>1, Zenon
  <2>3. ReadClassDef(d)
          = [Unkept(most, d) EXCEPT !.defs = Append(@, [name |-> found[1], fields |-> Tail(found)]),
                                    !.index = Len(d.defs)]
    BY <1>1, <2>1, Zenon DEF ReadClassDef, NoFailure
  <2> HIDE DEF most, all
  <2> QED
    BY <2>2, <2>3, Zenon
<1> HIDE DEF all, got
<1>10. Unkept(all, d) = Decoder(Rest(w, end), h, s, x, g)
  <2>1. \A y : SetGot(all, y) = Decoder(Rest(w, end), h, s, x, y)
    <3>1. IsDecoder(all, Rest(w, end), h, s, x, r)
      BY <1>6, DecoderIs
    <3> QED
      BY <3>1, Zenon DEF IsDecoder
  <2>2. Unkept(all, d) = SetGot(all, g)
    BY <1>1 DEF Unkept, SetGot
  <2> QED
    BY <2>1, <2>2
<1>11. [Unkept(all, d) EXCEPT !.defs = Append(@, class), !.index = Len(s)]
         = Decoder(Rest(w, end), h, Append(s, class), Len(s), g)
  <2> DEFINE q == Unkept(all, d)
             t == SetDefs(q, Append(q.defs, class))
  <2>1. q.defs = s /\ \A y : SetDefs(q, y) = Decoder(Rest(w, end), h, y, x, g)
    <3>1. IsDecoder(q, Rest(w, end), h, s, x, g)
      BY <1>10, DecoderIs
    <3> QED
      BY <3>1, Zenon DEF IsDecoder
  <2>2. t = Decoder(Rest(w, end), h, Append(s, class), x, g)
    BY <2>1, Zenon
  <2> HIDE DEF t
  <2>3. \A y : SetIndex(t, y) = Decoder(Rest(w, end), h, Append(s, class), y, g)
    <3>1. IsDecoder(t, Rest(w, end), h, Append(s, class), x, g)
      BY <2>2, DecoderIs
    <3> QED
      BY <3>1, Zenon DEF IsDecoder
  <2> HIDE DEF q
  <2>4. [q EXCEPT !.defs = Append(@, class), !.index = Len(s)] = SetIndex(t, Len(s))
    BY DEF SetIndex, SetDefs, t
  <2> QED
    BY <2>3, <2>4 DEF q
<1>12. ReadClassDef(d) = Reading(w, end, h, Append(s, class), Len(s), g)
  BY <1>1, <1>8, <1>9, <1>11, Zenon DEF Reading
<1> QED
  BY <1>12 DEF d, end, Defines

-----------------------------------------------------------------------------
(* One call of an Encoder: the bytes b and the state they leave.           *)

SaysClass(c) == SaysDefine(c) \/ SaysRedefine(c)
SaysThing(c) == SaysObject(c) \/ SaysOwn(c)
IsFit(c) ==
  /\ Sayable(c)
  /\ SaysString(c) \/ SaysRef(c) \/ SaysBinary(c) => IsCounted(c.arg)
  /\ SaysClass(c) => IsClass(c.arg)

Moves(o, t, d, i, c, b, e) ==
  /\ Plain(c) => e = Encoder(o \o b, t, d, i) /\ IsReadBack(c, b) /\ Len(b) \in Nat \ {0}
  /\ SaysRef(c) =>
       \E u \in Seq(Text) : /\ e = Encoder(o \o b, u, d, i) /\ Len(u) <= Len(t) + 1
                            /\ IsReferenceBack(c, b, t, u)
  /\ SaysThing(c) => e = Encoder(o \o b, t, d, i) /\ b = <<79>> \o WriteInt(i)
  /\ SaysClass(c) /\ HasName(d, c.arg.name) =>
       e = Encoder(o \o b, t, d, IndexOf(d, c.arg.name) - 1) /\ b = <<>>
  /\ SaysClass(c) /\ ~HasName(d, c.arg.name) =>
       e = Encoder(o \o b, t, Append(d, c.arg.name), Len(d)) /\ b = DefinitionOf(c.arg)

LEMMA KindsAre ==
  ASSUME NEW c, Sayable(c)
  PROVE  /\ Plain(c) \/ SaysRef(c) \/ SaysThing(c) \/ SaysClass(c)
         /\ ~(Plain(c) /\ SaysRef(c)) /\ ~(Plain(c) /\ SaysThing(c)) /\ ~(Plain(c) /\ SaysClass(c))
         /\ ~(SaysRef(c) /\ SaysThing(c)) /\ ~(SaysRef(c) /\ SaysClass(c))
         /\ ~(SaysThing(c) /\ SaysClass(c)) /\ ~(SaysDefine(c) /\ SaysRedefine(c))
         /\ ~(SaysObject(c) /\ SaysOwn(c))
<1>1. Plain(c) \/ SaysRef(c) \/ SaysThing(c) \/ SaysClass(c)
  BY Zenon DEF Sayable, Plain, SaysThing, SaysClass
<1>2. ~(Plain(c) /\ SaysRef(c)) /\ ~(Plain(c) /\ SaysThing(c)) /\ ~(Plain(c) /\ SaysClass(c))
  BY SMT DEF Plain, SaysThing, SaysClass, SaysNull, SaysBool, SaysInt, SaysLong, SaysDate, SaysDouble,
             SaysString, SaysRef, SaysBinary, SaysList, SaysMap, SaysEnd, SaysDefine, SaysRedefine,
             SaysObject, SaysOwn
<1>3. /\ ~(SaysRef(c) /\ SaysThing(c)) /\ ~(SaysRef(c) /\ SaysClass(c))
      /\ ~(SaysThing(c) /\ SaysClass(c)) /\ ~(SaysDefine(c) /\ SaysRedefine(c))
      /\ ~(SaysObject(c) /\ SaysOwn(c))
  BY SMT DEF SaysThing, SaysClass, SaysRef, SaysDefine, SaysRedefine, SaysObject, SaysOwn
<1> QED
  BY <1>1, <1>2, <1>3, Zenon

LEMMA WriteStep ==
  ASSUME NEW o \in Seq(Symbol), NEW t \in Seq(Text), NEW d \in Seq(Text), NEW i \in Nat,
         IsWord(Len(t)), IsWord(i), NEW c, IsFit(c)
  PROVE  \E b \in Seq(Symbol) : Moves(o, t, d, i, c, b, Write(Encoder(o, t, d, i), c))
<1> DEFINE e == Encoder(o, t, d, i)
           after == Write(e, c)
<1>1. IsWriting(e, c, after) /\ IsEncoder(e, o, t, d, i)
  BY WriteIs, EncoderIs
<1>2. Sayable(c) /\ (SaysString(c) \/ SaysRef(c) \/ SaysBinary(c) => IsCounted(c.arg))
      /\ (SaysClass(c) => IsClass(c.arg))
  BY DEF IsFit
<1>3. /\ ~(Plain(c) /\ SaysRef(c)) /\ ~(Plain(c) /\ SaysThing(c)) /\ ~(Plain(c) /\ SaysClass(c))
      /\ ~(SaysRef(c) /\ SaysThing(c)) /\ ~(SaysRef(c) /\ SaysClass(c)) /\ ~(SaysThing(c) /\ SaysClass(c))
  BY <1>2, KindsAre
<1>4. CASE Plain(c)
  <2>1. Told(c)
    BY <1>2, <1>4, PlainTold
  <2>2. PICK b : IsWritten(e, c, b) /\ IsReadBack(c, b)
    BY <2>1, Zenon DEF Told
  <2>3. after = WriteBytes(e, b) /\ b \in Seq(Symbol) /\ Len(b) \in Nat \ {0}
    BY <2>2, Zenon DEF IsWritten
  <2>4. after = Encoder(o \o b, t, d, i)
    BY <1>1, <2>3, Zenon DEF IsEncoder
  <2> HIDE DEF e, after
  <2>5. Moves(o, t, d, i, c, b, after)
    BY <1>3, <1>4, <2>2, <2>3, <2>4, Zenon DEF Moves
  <2> QED
    BY <2>3, <2>5 DEF e, after
<1>5. CASE SaysRef(c)
  <2>1. PICK b \in Seq(Symbol), u \in Seq(Text) :
           /\ after = Encoder(o \o b, u, d, i)
           /\ Len(u) <= Len(t) + 1
           /\ IsReferenceBack(c, b, t, u)
    <3>1. ReferenceMoves(o, t, d, i, c)
      BY <1>2, <1>5, RefStep
    <3> QED
      BY <3>1, Zenon DEF ReferenceMoves
  <2> HIDE DEF e, after
  <2>2. Moves(o, t, d, i, c, b, after)
    BY <1>3, <1>5, <2>1, Zenon DEF Moves
  <2> QED
    BY <2>2 DEF e, after
<1>6. CASE SaysThing(c)
  <2> DEFINE b == <<79>> \o WriteInt(i)
  <2>1. after = WriteBytes(e, <<79>> \o WriteInt(e.index)) /\ e.index = i
    BY <1>1, <1>6, Zenon DEF IsWriting, IsEncoder, SaysThing
  <2>2. after = Encoder(o \o b, t, d, i)
    BY <1>1, <2>1, Zenon DEF IsEncoder
  <2>3. b \in Seq(Symbol)
    <3> DEFINE wi == WriteInt(i)
    <3>1. Tagged(wi, 73..215)
      BY IntAhead
    <3> HIDE DEF wi
    <3>2. <<79>> \in Seq(Symbol) /\ wi \in Seq(Symbol)
      BY <3>1 DEF Tagged, Symbol
    <3> QED
      BY <3>2, ConcatProperties DEF wi
  <2> HIDE DEF e, after
  <2>4. Moves(o, t, d, i, c, b, after)
    BY <1>3, <1>6, <2>2, Zenon DEF Moves
  <2> QED
    BY <2>3, <2>4 DEF e, after
<1>7. CASE SaysClass(c)
  <2>1. after = WriteClassDef(e, c.arg)
    BY <1>1, <1>7, Zenon DEF IsWriting, SaysClass
  <2>2. CASE HasName(d, c.arg.name)
    <3>1. after = Encoder(o, t, d, IndexOf(d, c.arg.name) - 1)
      BY <1>1, <2>1, <2>2, Zenon DEF IsEncoder
    <3>2. o \o <<>> = o /\ <<>> \in Seq(Symbol)
      BY ConcatEmptySeq
    <3> HIDE DEF e, after
    <3>3. Moves(o, t, d, i, c, <<>>, after)
      BY <1>3, <1>7, <2>2, <3>1, <3>2, Zenon DEF Moves
    <3> QED
      BY <3>2, <3>3 DEF e, after
  <2>3. CASE ~HasName(d, c.arg.name)
    <3>1. after = Encoder(o \o DefinitionOf(c.arg), t, Append(d, c.arg.name), Len(d))
      BY <1>1, <2>1, <2>3, Zenon DEF IsEncoder
    <3>2. DefinitionOf(c.arg) \in Seq(Symbol)
      BY <1>2, <1>7, DefinitionIs DEF IsDefinition
    <3> HIDE DEF e, after
    <3>3. Moves(o, t, d, i, c, DefinitionOf(c.arg), after)
      BY <1>3, <1>7, <2>3, <3>1, Zenon DEF Moves
    <3> QED
      BY <3>2, <3>3 DEF e, after
  <2> QED
    BY <2>2, <2>3
<1> QED
  BY <1>2, <1>4, <1>5, <1>6, <1>7, KindsAre

-----------------------------------------------------------------------------
(* An Encoder after k calls.                                               *)

IsState(e, k) ==
  /\ e = Encoder(e.out, e.tracked, e.defined, e.index)
  /\ e.out \in Seq(Symbol) /\ e.tracked \in Seq(Text) /\ e.defined \in Seq(Text)
  /\ e.index \in 0 .. k /\ Len(e.tracked) \in 0 .. k /\ Len(e.defined) \in 0 .. k
Moved(e, c, b, after) ==
  /\ b \in Seq(Symbol) /\ after.out = e.out \o b
  /\ Moves(e.out, e.tracked, e.defined, e.index, c, b, after)

LEMMA StateIs ==
  ASSUME NEW o \in Seq(Symbol), NEW t \in Seq(Text), NEW d \in Seq(Text), NEW k \in Nat, NEW i \in 0 .. k,
         Len(t) <= k, Len(d) <= k
  PROVE  IsState(Encoder(o, t, d, i), k)
<1> DEFINE e == Encoder(o, t, d, i)
<1>1. e.out = o /\ e.tracked = t /\ e.defined = d /\ e.index = i
  BY DEF Encoder
<1>2. Len(t) \in 0 .. k /\ Len(d) \in 0 .. k
  BY LenProperties
<1>3. e = Encoder(e.out, e.tracked, e.defined, e.index)
  BY <1>1, Zenon
<1> HIDE DEF e
<1>4. IsState(e, k)
  BY <1>1, <1>2, <1>3 DEF IsState
<1> QED
  BY <1>4 DEF e

LEMMA WriterStep ==
  ASSUME NEW k \in Nat, IsWord(k), NEW e, IsState(e, k), NEW c, IsFit(c)
  PROVE  IsState(Write(e, c), k + 1) /\ \E b : Moved(e, c, b, Write(e, c))
<1> DEFINE o == e.out
           t == e.tracked
           d == e.defined
           i == e.index
           after == Write(e, c)
<1>1. /\ e = Encoder(o, t, d, i) /\ o \in Seq(Symbol) /\ t \in Seq(Text) /\ d \in Seq(Text)
      /\ i \in 0 .. k /\ Len(t) \in 0 .. k /\ Len(d) \in 0 .. k
  BY DEF IsState
<1> HIDE DEF o, t, d, i
<1>2. i \in Nat /\ IsWord(i) /\ IsWord(Len(t))
  BY <1>1 DEF IsWord
<1>3. PICK b \in Seq(Symbol) : Moves(o, t, d, i, c, b, after)
  <2>1. \E b \in Seq(Symbol) : Moves(o, t, d, i, c, b, Write(Encoder(o, t, d, i), c))
    BY <1>1, <1>2, WriteStep
  <2> QED
    BY <1>1, <2>1
<1> HIDE DEF after
<1>4. ASSUME NEW u \in Seq(Text), NEW v \in Seq(Text), NEW j \in 0 .. k + 1, Len(u) <= k + 1, Len(v) <= k + 1,
             after = Encoder(o \o b, u, v, j)
      PROVE  IsState(after, k + 1) /\ after.out = o \o b
  <2>1. o \o b \in Seq(Symbol)
    BY <1>1, <1>3, ConcatProperties
  <2> DEFINE ob == o \o b
  <2>2. (Encoder(ob, u, v, j)).out = ob
    BY DEF Encoder
  <2>3. k + 1 \in Nat
    OBVIOUS
  <2> HIDE DEF ob
  <2>4. IsState(Encoder(ob, u, v, j), k + 1)
    <3>1. PICK m \in Nat : m = k + 1
      BY <2>3
    <3>2. IsState(Encoder(ob, u, v, j), m)
      BY <1>4, <2>1, <3>1, StateIs DEF ob
    <3> QED
      BY <3>1, <3>2
  <2> QED
    BY <1>4, <2>2, <2>4 DEF ob
<1>5. Sayable(c)
  BY DEF IsFit
<1>6. IsState(after, k + 1) /\ after.out = o \o b
  <2>1. CASE Plain(c) \/ SaysThing(c)
    <3>1. after = Encoder(o \o b, t, d, i)
      BY <1>3, <2>1, Zenon DEF Moves
    <3>2. i \in 0 .. k + 1 /\ Len(t) <= k + 1 /\ Len(d) <= k + 1
      BY <1>1
    <3> QED
      BY <1>1, <1>4, <3>1, <3>2
  <2>2. CASE SaysRef(c)
    <3>1. PICK u \in Seq(Text) : after = Encoder(o \o b, u, d, i) /\ Len(u) <= Len(t) + 1
      BY <1>3, <2>2, Zenon DEF Moves
    <3>2. i \in 0 .. k + 1 /\ Len(u) <= k + 1 /\ Len(d) <= k + 1
      BY <1>1, <3>1, LenProperties
    <3> QED
      BY <1>1, <1>4, <3>1, <3>2
  <2>3. CASE SaysClass(c) /\ HasName(d, c.arg.name)
    <3> DEFINE j == IndexOf(d, c.arg.name)
    <3>1. after = Encoder(o \o b, t, d, j - 1)
      BY <1>3, <2>3, Zenon DEF Moves
    <3>2. j \in 1 .. Len(d)
      BY <1>1, <2>3, IndexIs
    <3> HIDE DEF j
    <3>3. PICK l \in Int : l = j - 1
      BY <1>1, <3>2
    <3>4. l \in 0 .. k + 1 /\ Len(t) <= k + 1 /\ Len(d) <= k + 1
      BY <1>1, <3>2, <3>3
    <3> QED
      BY <1>1, <1>4, <3>1, <3>3, <3>4
  <2>4. CASE SaysClass(c) /\ ~HasName(d, c.arg.name)
    <3> DEFINE v == Append(d, c.arg.name)
    <3>1. after = Encoder(o \o b, t, v, Len(d))
      BY <1>3, <2>4, Zenon DEF Moves
    <3>2. v \in Seq(Text) /\ Len(v) = Len(d) + 1
      <4>1. c.arg.name \in Text
        BY <2>4 DEF IsFit, IsClass
      <4> QED
        BY <1>1, <4>1, AppendProperties
    <3> HIDE DEF v
    <3>3. Len(d) \in 0 .. k + 1 /\ Len(t) <= k + 1 /\ Len(v) <= k + 1
      BY <1>1, <3>2
    <3> QED
      BY <1>1, <1>4, <3>1, <3>2, <3>3
  <2> QED
    BY <1>5, <2>1, <2>2, <2>3, <2>4, KindsAre
<1>7. Moved(e, c, b, after)
  BY <1>3, <1>6 DEF Moved, o, t, d, i
<1> QED
  BY <1>6, <1>7 DEF after

Blank == Encoder(<<>>, <<>>, <<>>, 0)
History(h, s) == h[0] = Blank /\ \A k \in 1 .. Len(s) : h[k] = Write(h[k - 1], s[k])

LEMMA HistoryStates ==
  ASSUME NEW s, Len(s) \in Nat, IsWord(Len(s)), \A k \in 1 .. Len(s) : IsFit(s[k]), NEW h, History(h, s)
  PROVE  /\ \A k \in 0 .. Len(s) : IsState(h[k], k)
         /\ \A k \in 1 .. Len(s) : \E b : Moved(h[k - 1], s[k], b, h[k])
<1> DEFINE n == Len(s)
           S == {k \in 0 .. n : IsState(h[k], k)}
<1>1. 0 \in S
  <2>1. h[0] = Encoder(<<>>, <<>>, <<>>, 0)
    BY DEF History, Blank
  <2>2. IsState(Encoder(<<>>, <<>>, <<>>, 0), 0)
    <3> DEFINE z == <<>>
    <3>1. z \in Seq(Symbol) /\ z \in Seq(Text) /\ Len(z) <= 0 /\ 0 \in 0 .. 0
      OBVIOUS
    <3> HIDE DEF z
    <3>2. IsState(Encoder(z, z, z, 0), 0)
      BY <3>1, StateIs
    <3> QED
      BY <3>2 DEF z
  <2> QED
    BY <2>1, <2>2
<1>2. ASSUME NEW k \in 1 .. n, IsState(h[k - 1], k - 1)
      PROVE  IsState(h[k], k) /\ \E b : Moved(h[k - 1], s[k], b, h[k])
  <2>1. PICK j \in Int : j = k - 1
    OBVIOUS
  <2>2. j \in Nat /\ IsWord(j) /\ j + 1 = k
    BY <2>1 DEF IsWord
  <2>3. h[k] = Write(h[j], s[k]) /\ IsFit(s[k]) /\ IsState(h[j], j)
    BY <1>2, <2>1 DEF History
  <2>4. IsState(Write(h[j], s[k]), j + 1) /\ \E b : Moved(h[j], s[k], b, Write(h[j], s[k]))
    BY <2>2, <2>3, WriterStep
  <2> QED
    BY <2>1, <2>2, <2>3, <2>4
<1>3. ASSUME NEW k \in 1 .. n, k - 1 \in S PROVE k \in S
  BY <1>2, <1>3
<1> HIDE DEF S
<1>4. \A k \in 0 .. n : k \in S
  BY <1>1, <1>3, InductionUpTo
<1>5. \A k \in 0 .. n : IsState(h[k], k)
  BY <1>4 DEF S
<1>6. \A k \in 1 .. n : k - 1 \in 0 .. n
  OBVIOUS
<1> QED
  BY <1>2, <1>5, <1>6

LEMMA HistoryHeld ==
  ASSUME NEW s, Len(s) \in Nat, NEW h, \A k \in 0 .. Len(s) : IsState(h[k], k),
         \A k \in 1 .. Len(s) : \E b : Moved(h[k - 1], s[k], b, h[k])
  PROVE  \A k \in 0 .. Len(s) : Holds(h[Len(s)].out, 0, h[k].out)
<1> DEFINE n == Len(s)
           w == h[n].out
           S == {m \in 0 .. n : Holds(w, 0, h[n - m].out)}
<1>1. \A k \in 0 .. n : h[k].out \in Seq(Symbol) /\ Len(h[k].out) \in Nat
  <2>1. \A k \in 0 .. n : h[k].out \in Seq(Symbol)
    BY DEF IsState
  <2> QED
    BY <2>1, LenProperties
<1>2. 0 \in S
  <2>1. n - 0 = n /\ n \in 0 .. n
    OBVIOUS
  <2>2. Holds(w, 0, w)
    <3>1. Len(w) \in Nat
      BY <1>1, <2>1
    <3> HIDE DEF w
    <3> QED
      BY <3>1 DEF Holds
  <2> QED
    BY <2>1, <2>2
<1>3. ASSUME NEW m \in 1 .. n, m - 1 \in S PROVE m \in S
  <2>0. PICK k \in Int : k = n - (m - 1)
    <3>1. n - (m - 1) \in Int
      OBVIOUS
    <3> HIDE DEF n
    <3> QED
      BY <3>1, Zenon
  <2>9. PICK l \in Int : l = n - m
    OBVIOUS
  <2>1. k = n - (m - 1) /\ l = n - m
    BY <2>0, <2>9
  <2>2. k \in 1 .. n /\ k - 1 = l /\ l \in 0 .. n /\ m \in 0 .. n /\ n \in 0 .. n /\ k \in 0 .. n
    BY <2>1
  <2>3. PICK b : Moved(h[l], s[k], b, h[k])
    BY <2>2
  <2>4. b \in Seq(Symbol) /\ h[k].out = h[l].out \o b
    BY <2>3 DEF Moved
  <2>5. Holds(w, 0, h[k].out)
    BY <1>3, <2>1
  <2>6. Holds(w, 0, h[l].out \o b)
    BY <2>4, <2>5
  <2>7. h[l].out \in Seq(Symbol) /\ Len(w) \in Nat
    BY <1>1, <2>2
  <2> HIDE DEF w
  <2>8. Holds(w, 0, h[l].out)
    BY <2>4, <2>6, <2>7, HoldsBoth
  <2> QED
    BY <2>1, <2>2, <2>8
<1> HIDE DEF S
<1>4. \A m \in 0 .. n : m \in S
  BY <1>2, <1>3, InductionUpTo
<1> QED
  <2> SUFFICES ASSUME NEW k \in 0 .. n PROVE Holds(w, 0, h[k].out)
    OBVIOUS
  <2>1. PICK m \in Int : m = n - k
    OBVIOUS
  <2>2. m \in 0 .. n /\ n - m = k
    BY <2>1
  <2>3. m \in S
    BY <1>4, <2>2
  <2> QED
    BY <2>2, <2>3 DEF S

-----------------------------------------------------------------------------
(* A reader that follows the writer.                                       *)

Framed(s) ==
  \A k \in 1 .. Len(s) :
    /\ SaysObject(s[k]) => k > 1 /\ SaysDefine(s[k - 1]) /\ s[k - 1].arg = s[k].arg
    /\ SaysOwn(s[k]) => k > 1 /\ SaysRedefine(s[k - 1]) /\ s[k - 1].arg = s[k].arg
    /\ SaysRedefine(s[k]) => k < Len(s) /\ SaysOwn(s[k + 1])
Refers(s) == \E k \in 1 .. Len(s) : SaysRef(s[k])
IsScript(s) ==
  /\ Len(s) \in Nat /\ IsWord(Len(s)) /\ Framed(s)
  /\ \A k \in 1 .. Len(s) : IsFit(s[k])
  /\ Refers(s) => \A k \in 1 .. Len(s) : ~SaysString(s[k]) /\ ~SaysClass(s[k])
  /\ \A j, k \in 1 .. Len(s) : SaysClass(s[j]) /\ SaysClass(s[k]) =>
       /\ s[j].arg.name = s[k].arg.name => s[j].arg = s[k].arg
       /\ SaysDefine(s[j]) /\ s[j].arg = s[k].arg => j = k

\* What a reader knows after k calls, the Encoder having been e then.
KnowsClasses(s, k, e, defs) ==
  \A l \in 1 .. Len(defs) :
    /\ e.defined[l] = defs[l].name
    /\ \E j \in 1 .. k : SaysClass(s[j]) /\ defs[l] = s[j].arg
Follows(s, k, e, refs, defs, x) ==
  /\ Refers(s) => refs = e.tracked
  /\ Len(defs) = Len(e.defined) /\ defs \in Seq(Known) /\ KnowsClasses(s, k, e, defs)
  /\ k > 0 /\ SaysClass(s[k]) => e.index < Len(defs) /\ defs[e.index + 1] = s[k].arg
  /\ k > 0 /\ SaysDefine(s[k]) => x = e.index
Reaches(s, k, w, e, after, refs, defs, x, g) ==
  \E f, d, y : /\ Follows(s, k, after, f, d, y)
               /\ Read(Reading(w, Len(e.out), refs, defs, x, g), s[k])
                    = Reading(w, Len(after.out), f, d, y, g \o Owes(s[k]))

LEMMA PlaceIs ==
  ASSUME NEW k, NEW e, IsState(e, k), NEW after, NEW b \in Seq(Symbol), after.out = e.out \o b,
         NEW w \in Seq(Symbol), Holds(w, 0, after.out)
  PROVE  /\ Len(e.out) \in 0 .. Len(w) /\ Holds(w, Len(e.out), b)
         /\ Len(after.out) = Len(e.out) + Len(b) /\ Len(b) \in Nat
<1> DEFINE o == e.out
<1>1. o \in Seq(Symbol)
  BY DEF IsState
<1>2. Len(o) \in Nat /\ Len(b) \in Nat /\ Len(w) \in Nat
  BY <1>1, LenProperties
<1> HIDE DEF o
<1>3. Holds(w, 0, o \o b)
  BY DEF o
<1>4. Holds(w, 0, o) /\ Holds(w, 0 + Len(o), b)
  BY <1>1, <1>2, <1>3, HoldsBoth
<1>5. 0 + Len(o) = Len(o)
  BY <1>2
<1>6. Len(o) <= Len(w)
  BY <1>2, <1>4 DEF Holds
<1>7. Len(o \o b) = Len(o) + Len(b)
  BY <1>1, ConcatProperties
<1> QED
  BY <1>2, <1>4, <1>5, <1>6, <1>7 DEF o

\* The classes known stay known.
LEMMA SameClasses ==
  ASSUME NEW s, NEW k \in Nat, k > 0, NEW e, NEW after, NEW defs, KnowsClasses(s, k - 1, e, defs),
         after.defined = e.defined
  PROVE  KnowsClasses(s, k, after, defs)
<1>1. 1 .. k - 1 \subseteq 1 .. k
  OBVIOUS
<1> QED
  BY <1>1 DEF KnowsClasses

LEMMA PlainReached ==
  ASSUME NEW s, IsScript(s), NEW k \in 1 .. Len(s), NEW e, IsState(e, k - 1), NEW after,
         NEW b, Moved(e, s[k], b, after), NEW w \in Seq(Symbol), Holds(w, 0, after.out),
         NEW f, NEW d, NEW x, Follows(s, k - 1, e, f, d, x), NEW g \in Seq(Result), Plain(s[k])
  PROVE  Reaches(s, k, w, e, after, f, d, x, g)
<1> DEFINE c == s[k]
           F == IF SaysString(c) THEN Append(f, c.arg) ELSE f
           o == e.out
<1>1. /\ b \in Seq(Symbol) /\ after.out = o \o b /\ Len(b) \in Nat \ {0}
      /\ after = Encoder(o \o b, e.tracked, e.defined, e.index) /\ IsReadBack(c, b)
  BY Zenon DEF Moved, Moves
<1>2. after.tracked = e.tracked /\ after.defined = e.defined /\ after.index = e.index
  BY <1>1 DEF Encoder
<1>3. /\ Len(o) \in 0 .. Len(w) /\ Holds(w, Len(o), b)
      /\ Len(after.out) = Len(o) + Len(b)
  BY <1>1, PlaceIs
<1>4. Read(Reading(w, Len(o), f, d, x, g), c) = Reading(w, Len(o) + Len(b), F, d, x, g \o Owes(c))
  <2> HIDE DEF c, o
  <2>1. ASSUME NEW p \in 0 .. Len(w), Holds(w, p, b)
        PROVE  Read(Reading(w, p, f, d, x, g), c) = Reading(w, p + Len(b), F, d, x, g \o Owes(c))
    BY <1>1, <2>1, SMT DEF IsReadBack
  <2> QED
    BY <1>3, <2>1
<1>5. ~SaysClass(c) /\ ~SaysDefine(c)
  <2>1. Sayable(c)
    BY DEF IsScript, IsFit
  <2> QED
    BY <2>1, KindsAre DEF SaysClass
<1>6. Refers(s) => F = after.tracked
  <2>1. Refers(s) => ~SaysString(c)
    BY DEF IsScript
  <2> QED
    BY <1>2, <2>1 DEF Follows
<1>7. KnowsClasses(s, k, after, d)
  BY <1>2, SameClasses DEF Follows
<1>8. Len(d) = Len(after.defined) /\ d \in Seq(Known)
  BY <1>2 DEF Follows
<1> HIDE DEF F, c
<1>9. Follows(s, k, after, F, d, x)
  BY <1>5, <1>6, <1>7, <1>8, Zenon DEF Follows, c
<1> QED
  BY <1>3, <1>4, <1>9, Zenon DEF Reaches, c

LEMMA RefReached ==
  ASSUME NEW s, IsScript(s), NEW k \in 1 .. Len(s), NEW e, IsState(e, k - 1), NEW after,
         NEW b, Moved(e, s[k], b, after), NEW w \in Seq(Symbol), Holds(w, 0, after.out),
         NEW f, NEW d, NEW x, Follows(s, k - 1, e, f, d, x), NEW g \in Seq(Result), SaysRef(s[k])
  PROVE  Reaches(s, k, w, e, after, f, d, x, g)
<1> DEFINE c == s[k]
           o == e.out
<1>1. b \in Seq(Symbol) /\ after.out = o \o b
  BY DEF Moved
<1>2. PICK u \in Seq(Text) : after = Encoder(o \o b, u, e.defined, e.index) /\ IsReferenceBack(c, b, e.tracked, u)
  BY Zenon DEF Moved, Moves
<1>3. after.tracked = u /\ after.defined = e.defined /\ after.index = e.index
  BY <1>2 DEF Encoder
<1>4. /\ Len(o) \in 0 .. Len(w) /\ Holds(w, Len(o), b)
      /\ Len(after.out) = Len(o) + Len(b)
  BY <1>1, PlaceIs
<1>5. f = e.tracked
  <2>1. Refers(s)
    BY DEF Refers
  <2> QED
    BY <2>1 DEF Follows
<1>6. Read(Reading(w, Len(o), f, d, x, g), c) = Reading(w, Len(o) + Len(b), u, d, x, g \o Owes(c))
  <2>1. \A y, z : \A got \in Seq(Result) :
          Read(Reading(w, Len(o), e.tracked, y, z, got), c)
          = Reading(w, Len(o) + Len(b), u, y, z, got \o Owes(c))
    BY <1>2, <1>4, Zenon DEF IsReferenceBack
  <2> QED
    BY <1>5, <2>1, Zenon
<1>7. ~SaysClass(c) /\ ~SaysDefine(c)
  <2>1. Sayable(c)
    BY DEF IsScript, IsFit
  <2> QED
    BY <2>1, KindsAre DEF SaysClass
<1>8. KnowsClasses(s, k, after, d)
  BY <1>3, SameClasses DEF Follows
<1>9. Len(d) = Len(after.defined) /\ d \in Seq(Known)
  BY <1>3 DEF Follows
<1>10. Follows(s, k, after, u, d, x)
  BY <1>3, <1>7, <1>8, <1>9, Zenon DEF Follows
<1> QED
  BY <1>4, <1>6, <1>10, Zenon DEF Reaches

LEMMA ThingReached ==
  ASSUME NEW s, IsScript(s), NEW k \in 1 .. Len(s), NEW e, IsState(e, k - 1), NEW after,
         NEW b, Moved(e, s[k], b, after), NEW w \in Seq(Symbol), Holds(w, 0, after.out),
         NEW f, NEW d, NEW x, Follows(s, k - 1, e, f, d, x), NEW g \in Seq(Result), SaysThing(s[k])
  PROVE  Reaches(s, k, w, e, after, f, d, x, g)
<1> DEFINE c == s[k]
           o == e.out
           i == e.index
           rd == Reading(w, Len(o), f, d, x, g)
           end == Len(o) + Len(b)
<1>1. Sayable(c) /\ Framed(s) /\ IsWord(Len(s)) /\ Len(s) \in Nat
  BY DEF IsScript, IsFit
<1>2. /\ b \in Seq(Symbol) /\ after.out = o \o b /\ b = <<79>> \o WriteInt(i)
      /\ after = Encoder(o \o b, e.tracked, e.defined, i)
  BY Zenon DEF Moved, Moves
<1>3. after.tracked = e.tracked /\ after.defined = e.defined /\ after.index = i
  BY <1>2 DEF Encoder
<1>4. Len(o) \in 0 .. Len(w) /\ Holds(w, Len(o), b) /\ Len(after.out) = end
  BY <1>2, PlaceIs
<1>5. ~SaysClass(c) /\ ~SaysDefine(c)
  BY <1>1, KindsAre DEF SaysClass
<1>6. Owes(c) = <<>> /\ g \o Owes(c) = g
  BY OwesIs, NothingOwed DEF SaysThing
<1>7. /\ k > 1 /\ SaysClass(s[k - 1]) /\ s[k - 1].arg = c.arg
      /\ SaysObject(c) => SaysDefine(s[k - 1])
  BY <1>1 DEF Framed, SaysThing, SaysClass
<1>8. /\ i < Len(d) /\ d[i + 1] = c.arg /\ d \in Seq(Known) /\ Len(d) = Len(e.defined)
      /\ SaysObject(c) => x = i
  <2>1. k - 1 > 0
    BY <1>7
  <2> QED
    BY <1>7, <2>1 DEF Follows
<1>9. i \in Nat /\ IsWord(i) /\ Len(d) \in Nat
  <2>1. i \in 0 .. k - 1
    BY DEF IsState
  <2> QED
    BY <1>1, <1>8, <2>1, LenProperties DEF IsWord
<1>10. IsReading(rd, c, Read(rd, c))
  <2>1. Len(b) \in Nat \ {0}
    <3> DEFINE wi == WriteInt(i)
    <3>1. Tagged(wi, 73..215)
      BY <1>9, IntAhead
    <3> HIDE DEF wi
    <3>2. Len(<<79>> \o wi) \in Nat \ {0}
      BY <3>1 DEF Tagged
    <3> QED
      BY <1>2, <3>2 DEF wi
  <2> HIDE DEF o, c
  <2> QED
    BY <1>4, <2>1, ReadHere
<1>11. ReadObjectBegin(rd) = Reading(w, end, f, d, i, g)
  <2> HIDE DEF o, i
  <2> QED
    BY <1>2, <1>4, <1>8, <1>9, ObjectStep
<1>12. Read(rd, c) = Reading(w, end, f, d, i, g)
  <2> DEFINE q == Reading(w, end, f, d, i, g)
  <2>1. q.index = i /\ q.defs = d /\ ~q.failed
    BY DEF Reading, Decoder, NoFailure
  <2>2. rd.index = x
    BY DEF Reading, Decoder
  <2> HIDE DEF q, rd, c, end
  <2>3. CASE SaysObject(c)
    <3>1. Read(rd, c) = ReadRegistered(rd)
      BY <1>10, <2>3, Zenon DEF IsReading
    <3>2. x = i
      BY <1>8, <2>3
    <3> QED
      BY <1>11, <2>1, <2>2, <3>1, <3>2, Zenon DEF ReadRegistered, q
  <2>4. CASE SaysOwn(c)
    <3>1. Read(rd, c) = ReadOwn(rd, c.arg)
      BY <1>10, <2>4, Zenon DEF IsReading
    <3>2. q.defs[q.index + 1].fields = c.arg.fields
      BY <1>8, <2>1
    <3>3. ReadObjectBegin(rd) = q
      BY <1>11 DEF q
    <3> QED
      BY <2>1, <3>1, <3>2, <3>3, Zenon DEF ReadOwn, q
  <2> QED
    BY <2>3, <2>4 DEF SaysThing, c
<1>13. KnowsClasses(s, k, after, d)
  BY <1>3, SameClasses DEF Follows
<1>14. Refers(s) => f = after.tracked
  BY <1>3 DEF Follows
<1>15. Len(d) = Len(after.defined)
  BY <1>3, <1>8
<1>16. Follows(s, k, after, f, d, i)
  BY <1>5, <1>8, <1>13, <1>14, <1>15, Zenon DEF Follows
<1> QED
  BY <1>4, <1>6, <1>12, <1>16, Zenon DEF Reaches, rd

\* A class defined before: only a definition written again may meet one.
LEMMA AgainReached ==
  ASSUME NEW s, IsScript(s), NEW k \in 1 .. Len(s), NEW e, IsState(e, k - 1), NEW after,
         NEW b, Moved(e, s[k], b, after), NEW w \in Seq(Symbol), Holds(w, 0, after.out),
         NEW f, NEW d, NEW x, Follows(s, k - 1, e, f, d, x), NEW g \in Seq(Result),
         SaysClass(s[k]), HasName(e.defined, s[k].arg.name),
         \* the object that follows
         k < Len(s) => IsState(after, k) /\
                       \E v, last : Moved(after, s[k + 1], v, last) /\ Holds(w, 0, last.out)
  PROVE  Reaches(s, k, w, e, after, f, d, x, g)
<1> DEFINE c == s[k]
           o == e.out
           l == IndexOf(e.defined, c.arg.name)
           rd == Reading(w, Len(o), f, d, x, g)
<1>1. Sayable(c) /\ Framed(s) /\ IsWord(Len(s)) /\ Len(s) \in Nat
  BY DEF IsScript, IsFit
<1>2. after = Encoder(o \o b, e.tracked, e.defined, l - 1) /\ b = <<>>
  BY Zenon DEF Moved, Moves
<1>3. after.tracked = e.tracked /\ after.defined = e.defined /\ after.index = l - 1
  BY <1>2 DEF Encoder
<1>4. e.defined \in Seq(Text) /\ o \in Seq(Symbol)
  BY DEF IsState
<1>5. after.out = o
  <2>1. o \o <<>> = o
    BY <1>4, ConcatEmptySeq
  <2> QED
    BY <1>2, <2>1 DEF Encoder
<1>6. l \in 1 .. Len(e.defined) /\ e.defined[l] = c.arg.name
  BY <1>4, IndexIs
<1> HIDE DEF l
<1>7. d \in Seq(Known) /\ Len(d) = Len(e.defined) /\ KnowsClasses(s, k - 1, e, d)
      /\ (Refers(s) => f = e.tracked)
  BY DEF Follows
<1>8. PICK j \in 1 .. k - 1 : SaysClass(s[j]) /\ d[l] = s[j].arg
  BY <1>6, <1>7 DEF KnowsClasses
<1>9. d[l].name = c.arg.name
  BY <1>6, <1>7 DEF KnowsClasses
<1>10. s[j].arg = c.arg /\ ~SaysDefine(c)
  <2>1. j \in 1 .. Len(s) /\ j # k
    BY <1>1
  <2>2. s[j].arg = c.arg
    BY <1>8, <1>9, <2>1 DEF IsScript
  <2>3. SaysDefine(c) /\ s[k].arg = s[j].arg => k = j
    BY <1>8, <2>1 DEF IsScript
  <2> QED
    BY <2>1, <2>2, <2>3
<1>11. SaysRedefine(c)
  BY <1>10 DEF SaysClass
<1>12. k < Len(s) /\ SaysOwn(s[k + 1])
  BY <1>1, <1>11 DEF Framed
<1>13. PICK v, last : Moved(after, s[k + 1], v, last) /\ Holds(w, 0, last.out)
  BY <1>12
<1>14. v \in Seq(Symbol) /\ last.out = after.out \o v /\ v = <<79>> \o WriteInt(after.index)
  BY <1>12, <1>13, Zenon DEF Moved, Moves, SaysThing
<1>15. Len(o) \in 0 .. Len(w) /\ Holds(w, Len(o), v)
  <2>1. IsState(after, k)
    BY <1>12
  <2>2. Len(after.out) \in 0 .. Len(w) /\ Holds(w, Len(after.out), v)
    BY <1>13, <1>14, <2>1, PlaceIs
  <2> QED
    BY <1>5, <2>2
<1>16. after.index \in Int /\ IsWord(after.index)
  <2>1. Len(e.defined) \in 0 .. k - 1
    BY DEF IsState
  <2> QED
    BY <1>1, <1>3, <1>6, <2>1 DEF IsWord
<1>17. Len(v) \in Nat \ {0} /\ v[1] = 79
  <2> DEFINE wi == WriteInt(after.index)
  <2>1. Tagged(wi, 73..215)
    BY <1>16, IntAhead
  <2> HIDE DEF wi
  <2>2. Len(<<79>> \o wi) \in Nat \ {0} /\ (<<79>> \o wi)[1] = 79
    BY <2>1 DEF Tagged
  <2> QED
    BY <1>14, <2>2 DEF wi
<1>18. IsReading(rd, c, Read(rd, c)) /\ rd.rest[1] = 79
  <2>1. IsReading(rd, c, Read(rd, c))
    <3> HIDE DEF o, c
    <3> QED
      BY <1>15, <1>17, ReadHere
  <2>2. Starts(Rest(w, Len(o)), v)
    <3> HIDE DEF o
    <3> QED
      BY <1>15, <1>17, HoldsStarts
  <2>3. rd.rest = Rest(w, Len(o))
    BY DEF Reading, Decoder
  <2> QED
    BY <1>17, <2>1, <2>2, <2>3 DEF Starts
<1>19. Read(rd, c) = rd
  <2>1. ~Tag(rd, {67})
    <3> HIDE DEF rd
    <3> QED
      BY <1>18, SMT DEF Tag
  <2> HIDE DEF rd, c
  <2> QED
    BY <1>11, <1>18, <2>1, Zenon DEF IsReading
<1>20. Owes(c) = <<>> /\ g \o Owes(c) = g
  BY <1>11, OwesIs, NothingOwed
<1>21. KnowsClasses(s, k, after, d)
  BY <1>3, <1>7, SameClasses
<1>22. Refers(s) => f = after.tracked
  BY <1>3, <1>7
<1>23. Len(d) = Len(after.defined)
  BY <1>3, <1>7
<1>24. after.index < Len(d) /\ d[after.index + 1] = c.arg
  <2>1. l - 1 < Len(d) /\ l - 1 + 1 = l
    BY <1>6, <1>7
  <2> QED
    BY <1>3, <1>8, <1>10, <2>1
<1>25. Follows(s, k, after, f, d, x)
  BY <1>7, <1>10, <1>21, <1>22, <1>23, <1>24, Zenon DEF Follows
<1> QED
  BY <1>5, <1>19, <1>20, <1>25, Zenon DEF Reaches, rd

\* A class defined for the first time.
LEMMA FirstReached ==
  ASSUME NEW s, IsScript(s), NEW k \in 1 .. Len(s), NEW e, IsState(e, k - 1), NEW after,
         NEW b, Moved(e, s[k], b, after), NEW w \in Seq(Symbol), Holds(w, 0, after.out),
         NEW f, NEW d, NEW x, Follows(s, k - 1, e, f, d, x), NEW g \in Seq(Result),
         SaysClass(s[k]), ~HasName(e.defined, s[k].arg.name)
  PROVE  Reaches(s, k, w, e, after, f, d, x, g)
<1> DEFINE c == s[k]
           o == e.out
           n == Len(d)
           rd == Reading(w, Len(o), f, d, x, g)
           end == Len(o) + Len(b)
           more == Append(d, c.arg)
           names == Append(e.defined, c.arg.name)
<1>1. Sayable(c) /\ IsClass(c.arg)
  BY DEF IsScript, IsFit
<1>2. /\ b \in Seq(Symbol) /\ after.out = o \o b /\ b = DefinitionOf(c.arg)
      /\ after = Encoder(o \o b, e.tracked, names, Len(e.defined))
  BY Zenon DEF Moved, Moves
<1>3. after.tracked = e.tracked /\ after.defined = names /\ after.index = Len(e.defined)
  BY <1>2 DEF Encoder
<1>4. d \in Seq(Known) /\ n = Len(e.defined) /\ KnowsClasses(s, k - 1, e, d) /\ n \in Nat
  BY LenProperties DEF Follows
<1>5. Len(o) \in 0 .. Len(w) /\ Holds(w, Len(o), b) /\ Len(after.out) = end
  BY <1>2, PlaceIs
<1>6. ~Refers(s)
  BY DEF IsScript
<1>7. c.arg \in Known
  BY <1>1, SayableIs DEF SaysClass
<1>8. e.defined \in Seq(Text) /\ c.arg.name \in Text
  BY <1>1 DEF IsState, IsClass
<1>9. more \in Seq(Known) /\ Len(more) = n + 1 /\ more[n + 1] = c.arg /\ \A l \in 1 .. n : more[l] = d[l]
  BY <1>4, <1>7, AppendProperties
<1>10. Len(names) = n + 1 /\ names[n + 1] = c.arg.name /\ \A l \in 1 .. n : names[l] = e.defined[l]
  BY <1>4, <1>8, AppendProperties
<1>11. IsReading(rd, c, Read(rd, c)) /\ rd.rest # <<>> /\ rd.rest[1] = 67
  <2>1. Len(b) \in Nat \ {0} /\ b[1] = 67
    BY <1>1, <1>2, DefinitionIs DEF IsDefinition
  <2>2. IsReading(rd, c, Read(rd, c))
    <3> HIDE DEF o, c
    <3> QED
      BY <1>5, <2>1, ReadHere
  <2>3. Starts(Rest(w, Len(o)), b)
    <3> HIDE DEF o
    <3> QED
      BY <1>5, <2>1, HoldsStarts
  <2>4. rd.rest = Rest(w, Len(o))
    BY DEF Reading, Decoder
  <2>5. Rest(w, Len(o))[1] = 67 /\ Len(Rest(w, Len(o))) >= 1
    <3> DEFINE r == Rest(w, Len(o))
    <3>1. r \in Seq(Symbol)
      <4> HIDE DEF o
      <4> QED
        BY <1>5, RestIs
    <3> HIDE DEF r
    <3> QED
      BY <2>1, <2>3, <3>1, LenProperties DEF Starts, r
  <2>6. Rest(w, Len(o)) # <<>>
    BY <2>5
  <2> HIDE DEF rd
  <2> QED
    BY <2>2, <2>4, <2>5, <2>6
<1>12. Read(rd, c) = ReadClassDef(rd)
  <2>1. Tag(rd, {67})
    <3> HIDE DEF rd
    <3> QED
      BY <1>11, Zenon DEF Tag
  <2> HIDE DEF rd, c
  <2> QED
    BY <1>11, <2>1, Zenon DEF IsReading, SaysClass, c
<1>13. PICK h : ReadClassDef(rd) = Reading(w, end, h, more, n, g)
  <2> DEFINE class == c.arg
  <2> HIDE DEF o
  <2>1. Holds(w, Len(o), DefinitionOf(class)) /\ IsClass(class)
    BY <1>1, <1>2, <1>5
  <2> HIDE DEF class
  <2>2. \E h : ReadClassDef(Reading(w, Len(o), f, d, x, g))
                 = Reading(w, Len(o) + Len(DefinitionOf(class)), h, Append(d, class), Len(d), g)
    <3>1. Defines(w, Len(o), f, d, x, g, class)
      BY <1>5, <2>1, DefinitionRead
    <3> QED
      BY <3>1, Zenon DEF Defines
  <2>3. b = DefinitionOf(class)
    BY <1>2 DEF class
  <2> QED
    BY <2>2, <2>3, Zenon DEF class
<1>14. Owes(c) = <<>> /\ g \o Owes(c) = g
  BY OwesIs, NothingOwed DEF SaysClass
<1> HIDE DEF n, more, names
<1>15. KnowsClasses(s, k, after, more)
  <2> SUFFICES ASSUME NEW l \in 1 .. Len(more)
               PROVE  /\ after.defined[l] = more[l].name
                      /\ \E j \in 1 .. k : SaysClass(s[j]) /\ more[l] = s[j].arg
    BY DEF KnowsClasses
  <2>1. CASE l = n + 1
    <3>1. k \in 1 .. k
      OBVIOUS
    <3> QED
      BY <1>3, <1>9, <1>10, <2>1, <3>1
  <2>2. CASE l # n + 1
    <3>1. l \in 1 .. n
      BY <1>4, <1>9, <2>2
    <3>2. after.defined[l] = e.defined[l] /\ more[l] = d[l]
      BY <1>3, <1>9, <1>10, <3>1
    <3>3. e.defined[l] = d[l].name /\ \E j \in 1 .. k - 1 : SaysClass(s[j]) /\ d[l] = s[j].arg
      BY <1>4, <3>1 DEF KnowsClasses, n
    <3>4. 1 .. k - 1 \subseteq 1 .. k
      OBVIOUS
    <3> QED
      BY <3>2, <3>3, <3>4
  <2> QED
    BY <2>1, <2>2
<1>16. Len(more) = Len(after.defined) /\ after.index < Len(more) /\ more[after.index + 1] = c.arg
       /\ n = after.index
  BY <1>3, <1>4, <1>9, <1>10
<1>17. Follows(s, k, after, h, more, n)
  BY <1>6, <1>9, <1>15, <1>16, Zenon DEF Follows
<1> QED
  BY <1>5, <1>12, <1>13, <1>14, <1>17, Zenon DEF Reaches, rd

\* The whole way: what stands in w is what an Encoder wrote for s.
Wrote(h, s, w) ==
  /\ History(h, s) /\ w \in Seq(Symbol)
  /\ \A k \in 0 .. Len(s) : IsState(h[k], k) /\ Holds(w, 0, h[k].out)
  /\ \A k \in 1 .. Len(s) : \E b : Moved(h[k - 1], s[k], b, h[k])

LEMMA WroteIs ==
  ASSUME NEW s, IsScript(s), NEW h, History(h, s)
  PROVE  Wrote(h, s, h[Len(s)].out)
<1>1. Len(s) \in Nat /\ IsWord(Len(s)) /\ \A k \in 1 .. Len(s) : IsFit(s[k])
  BY DEF IsScript
<1>2. /\ \A k \in 0 .. Len(s) : IsState(h[k], k)
      /\ \A k \in 1 .. Len(s) : \E b : Moved(h[k - 1], s[k], b, h[k])
  BY <1>1, HistoryStates
<1>3. \A k \in 0 .. Len(s) : Holds(h[Len(s)].out, 0, h[k].out)
  BY <1>1, <1>2, HistoryHeld
<1>4. h[Len(s)].out \in Seq(Symbol)
  <2>1. Len(s) \in 0 .. Len(s)
    BY <1>1
  <2> QED
    BY <1>2, <2>1 DEF IsState
<1> QED
  BY <1>2, <1>3, <1>4 DEF Wrote

LEMMA ReadStep ==
  ASSUME NEW s, IsScript(s), NEW h, NEW w, Wrote(h, s, w), NEW k \in 1 .. Len(s),
         NEW f, NEW d, NEW x, Follows(s, k - 1, h[k - 1], f, d, x), NEW g \in Seq(Result)
  PROVE  Reaches(s, k, w, h[k - 1], h[k], f, d, x, g)
<1> DEFINE e == h[k - 1]
           after == h[k]
           c == s[k]
<1>0. Len(s) \in Nat /\ Sayable(c)
  BY DEF IsScript, IsFit
<1>1. k - 1 \in 0 .. Len(s) /\ k \in 0 .. Len(s)
  BY <1>0
<1>2. IsState(e, k - 1) /\ Holds(w, 0, after.out) /\ IsState(after, k) /\ w \in Seq(Symbol)
  BY <1>1 DEF Wrote
<1>3. PICK b : Moved(e, c, b, after)
  BY DEF Wrote
<1>4. k < Len(s) => IsState(after, k) /\
                    \E v, last : Moved(after, s[k + 1], v, last) /\ Holds(w, 0, last.out)
  <2> SUFFICES ASSUME k < Len(s)
               PROVE  \E v, last : Moved(after, s[k + 1], v, last) /\ Holds(w, 0, last.out)
    BY <1>2
  <2>1. PICK j \in Int : j = k + 1
    OBVIOUS
  <2>2. j \in 1 .. Len(s) /\ j \in 0 .. Len(s) /\ j - 1 = k
    BY <1>0, <2>1
  <2>3. PICK v : Moved(h[j - 1], s[j], v, h[j])
    BY <2>2 DEF Wrote
  <2>4. Holds(w, 0, h[j].out)
    BY <2>2 DEF Wrote
  <2> QED
    BY <2>1, <2>2, <2>3, <2>4
<1>10. Follows(s, k - 1, e, f, d, x)
  OBVIOUS
<1> HIDE DEF e, after
<1>11. Reaches(s, k, w, e, after, f, d, x, g)
  <2>5. CASE Plain(c)
    BY <1>2, <1>3, <1>10, <2>5, PlainReached
  <2>6. CASE SaysRef(c)
    BY <1>2, <1>3, <1>10, <2>6, RefReached
  <2>7. CASE SaysThing(c)
    BY <1>2, <1>3, <1>10, <2>7, ThingReached
  <2>8. CASE SaysClass(c) /\ HasName(e.defined, c.arg.name)
    BY <1>2, <1>3, <1>10, <1>4, <2>8, AgainReached
  <2>9. CASE SaysClass(c) /\ ~HasName(e.defined, c.arg.name)
    BY <1>2, <1>3, <1>10, <2>9, FirstReached
  <2> QED
    BY <1>0, <2>5, <2>6, <2>7, <2>8, <2>9, KindsAre
<1> QED
  BY <1>11 DEF e, after

LEMMA OwesAre ==
  ASSUME NEW c, Sayable(c)
  PROVE  Owes(c) \in Seq(Result)
<1>1. ASSUME NEW v \in Result PROVE <<v>> \in Seq(Result)
  OBVIOUS
<1>2. <<>> \in Seq(Result)
  OBVIOUS
<1>3. 0 \in Result
  BY DEF Result, Symbol
<1>4. CASE \/ SaysNull(c) \/ SaysMap(c) \/ SaysEnd(c) \/ SaysDefine(c) \/ SaysRedefine(c)
           \/ SaysObject(c) \/ SaysOwn(c)
  BY <1>2, <1>4, OwesIs
<1>5. CASE SaysDouble(c)
  <2>1. c.arg \in Result
    BY <1>5, SayableIs DEF Result, Symbol
  <2>2. Owes(c) = IF c.arg = NegZero THEN <<0>> ELSE <<c.arg>>
    BY <1>5, OwesIs
  <2> QED
    BY <1>1, <1>3, <2>1, <2>2
<1>6. CASE SaysBool(c)
  <2>1. PICK v \in BOOLEAN : v = c.arg
    BY <1>6, SayableIs, Zenon
  <2>2. v \in Result /\ Owes(c) = <<v>>
    BY <1>6, <2>1, OwesIs, Zenon DEF Result
  <2> QED
    BY <1>1, <2>2, Zenon
<1>7. CASE SaysInt(c) \/ SaysLong(c) \/ SaysDate(c) \/ SaysString(c) \/ SaysRef(c)
           \/ SaysBinary(c) \/ SaysList(c)
  <2>1. c.arg \in Result
    BY <1>7, SayableIs DEF Result, Symbol
  <2>2. Owes(c) = <<c.arg>>
    BY <1>7, OwesIs
  <2> QED
    BY <1>1, <2>1, <2>2
<1> QED
  BY <1>4, <1>5, <1>6, <1>7, Zenon DEF Sayable

\* Reading one value, the calls of s after the first m.
IsReadOff(s, h, w, m, v, f, d, x) ==
  \E r, b, y : /\ Follows(s, m + Len(v), h[m + Len(v)], r, b, y)
               /\ ReadAll(Reading(w, Len(h[m].out), f, d, x, <<>>), v)
                    = Reading(w, Len(h[m + Len(v)].out), r, b, y, Owed(v))
LEMMA ReadOff ==
  ASSUME NEW s, IsScript(s), NEW h, NEW w, Wrote(h, s, w), NEW E, NEW v \in Seq(E), NEW m \in Nat,
         m + Len(v) <= Len(s), \A i \in 1 .. Len(v) : s[m + i] = v[i],
         NEW f, NEW d, NEW x, Follows(s, m, h[m], f, d, x)
  PROVE  IsReadOff(s, h, w, m, v, f, d, x)
<1> DEFINE n == Len(v)
           start == Reading(w, Len(h[m].out), f, d, x, <<>>)
           parts == [i \in DOMAIN v |-> Owes(v[i])]
<1>1. n \in Nat /\ Len(s) \in Nat /\ DOMAIN v = 1 .. n
  BY LenProperties DEF IsScript
<1>2. \A i \in 1 .. n : m + i \in 1 .. Len(s) /\ Sayable(s[m + i])
  BY <1>1 DEF IsScript, IsFit
<1>3. parts \in Seq(Seq(Result)) /\ Len(parts) = n /\ \A i \in 1 .. n : parts[i] = Owes(v[i])
  <2>1. \A i \in 1 .. n : Owes(v[i]) \in Seq(Result)
    BY <1>2, OwesAre
  <2>2. parts = [i \in 1 .. n |-> Owes(v[i])]
    BY <1>1
  <2>3. n \in Nat
    BY <1>1
  <2> HIDE DEF parts, n
  <2>4. parts \in [1 .. n -> Seq(Result)] /\ \A i \in 1 .. n : parts[i] = Owes(v[i])
    BY <2>1, <2>2, Zenon
  <2> DEFINE R == Seq(Result)
  <2>5. parts \in [1 .. n -> R]
    BY <2>4
  <2> HIDE DEF R
  <2>6. parts \in Seq(R) /\ Len(parts) = n
    BY <2>3, <2>5
  <2> QED
    BY <2>4, <2>6 DEF R
<1>4. Owed(v) = FlattenSeq(parts)
  BY DEF Owed
<1> HIDE DEF parts
<1>5. PICK a \in [0 .. Len(parts) -> Seq(Result)] : Joins(a, parts)
  BY <1>3, JoinSteps
<1>6. PICK at : Reads(at, start, v)
  BY <1>1, ReadSteps
<1> HIDE DEF start
<1> DEFINE OK(i) == \E r, b, y : /\ Follows(s, m + i, h[m + i], r, b, y)
                                 /\ at[i] = Reading(w, Len(h[m + i].out), r, b, y, a[i])
           S == {i \in 0 .. n : OK(i)}
<1>7. 0 \in S
  <2>1. at[0] = start /\ a[0] = <<>>
    BY <1>5, <1>6 DEF Reads, Joins
  <2>2. m + 0 = m
    OBVIOUS
  <2>3. at[0] = Reading(w, Len(h[m + 0].out), f, d, x, a[0])
    BY <2>1, <2>2 DEF start
  <2>4. Follows(s, m + 0, h[m + 0], f, d, x)
    BY <2>2
  <2>5. OK(0)
    BY <2>3, <2>4, Zenon
  <2>6. 0 \in 0 .. n
    BY <1>1
  <2> HIDE DEF OK
  <2> QED
    BY <2>5, <2>6
<1>8. ASSUME NEW i \in 1 .. n, i - 1 \in S PROVE i \in S
  <2>1. PICK j \in Int : j = m + i
    OBVIOUS
  <2>2. j \in 1 .. Len(s) /\ j - 1 = m + (i - 1) /\ i - 1 \in 0 .. n /\ i \in 0 .. n
    BY <1>1, <2>1
  <2>3. s[j] = v[i]
    BY <2>1
  <2>4. PICK r, b, y : /\ Follows(s, m + (i - 1), h[m + (i - 1)], r, b, y)
                       /\ at[i - 1] = Reading(w, Len(h[m + (i - 1)].out), r, b, y, a[i - 1])
    BY <1>8, Zenon
  <2>5. /\ Follows(s, j - 1, h[j - 1], r, b, y)
        /\ at[i - 1] = Reading(w, Len(h[j - 1].out), r, b, y, a[i - 1])
    BY <2>2, <2>4
  <2>6. a[i - 1] \in Seq(Result) /\ a[i] = a[i - 1] \o Owes(v[i])
    BY <1>3, <1>5, <2>2 DEF Joins
  <2>7. Reaches(s, j, w, h[j - 1], h[j], r, b, y, a[i - 1])
    <3> DEFINE g == a[i - 1]
    <3>1. g \in Seq(Result)
      BY <2>6
    <3> HIDE DEF g
    <3>2. Reaches(s, j, w, h[j - 1], h[j], r, b, y, g)
      BY <2>2, <2>5, <3>1, ReadStep
    <3> QED
      BY <3>2 DEF g
  <2>8. PICK p, q, z : /\ Follows(s, j, h[j], p, q, z)
                       /\ Read(Reading(w, Len(h[j - 1].out), r, b, y, a[i - 1]), s[j])
                            = Reading(w, Len(h[j].out), p, q, z, a[i - 1] \o Owes(s[j]))
    BY <2>7, Zenon DEF Reaches
  <2>9. at[i] = Read(at[i - 1], v[i])
    BY <1>6 DEF Reads
  <2>10. at[i] = Reading(w, Len(h[j].out), p, q, z, a[i])
    BY <2>3, <2>5, <2>6, <2>8, <2>9
  <2>11. /\ Follows(s, m + i, h[m + i], p, q, z)
         /\ at[i] = Reading(w, Len(h[m + i].out), p, q, z, a[i])
    BY <2>1, <2>8, <2>10
  <2>12. OK(i)
    BY <2>11, Zenon
  <2> HIDE DEF OK
  <2> QED
    BY <2>2, <2>12
<1> HIDE DEF S
<1>9. \A i \in 0 .. n : i \in S
  BY <1>1, <1>7, <1>8, InductionUpTo
<1>10. OK(n)
  <2>1. n \in S
    BY <1>1, <1>9
  <2> QED
    BY <2>1, Zenon DEF S
<1>11. a[n] = Owed(v)
  BY <1>3, <1>4, <1>5 DEF Joins
<1>12. ReadAll(start, v) = at[n]
  BY <1>6 DEF Reads
<1> QED
  BY <1>10, <1>11, <1>12, Zenon DEF IsReadOff, start

-----------------------------------------------------------------------------
(* The values of a document.                                               *)

Operations == {"null", "bool", "int", "long", "date", "double", "string", "ref", "binary", "list",
               "map", "end", "define", "redefine", "object", "own"}
CallArguments == {{}} \cup BOOLEAN \cup Int \cup Double \cup Text \cup Known
Calls == {c \in [op : Operations, arg : CallArguments] : Sayable(c)}
Simple == {c \in Calls : ~SaysThing(c) /\ ~SaysRedefine(c)}
Whole(v) == v \in Seq(Calls) /\ Framed(v)

LEMMA CallIs ==
  ASSUME NEW o \in Operations, NEW a \in CallArguments
  PROVE  /\ Call(o, a) \in [op : Operations, arg : CallArguments]
         /\ Call(o, a).op = o /\ Call(o, a).arg = a
  BY DEF Call

LEMMA NumbersAre ==
  ASSUME NEW n \in Number
  PROVE  n \in Int /\ IsWord(Upper(n))
  BY HessianAssumption

LEMMA SimpleCalls ==
  /\ \A o \in {"null", "map", "end"} : Call(o, {}) \in Simple
  /\ \A b \in BOOLEAN : Call("bool", b) \in Simple
  /\ \A n \in Int : IsWord(n) => Call("int", n) \in Simple
  /\ \A n \in Int : IsWord(Upper(n)) => Call("long", n) \in Simple /\ Call("date", n) \in Simple
  /\ \A x \in Double : Call("double", x) \in Simple
  /\ \A t \in Text : \A o \in {"string", "ref", "binary"} : Call(o, t) \in Simple
  /\ \A n \in 0 .. 7 : Call("list", n) \in Simple
<1>1. ASSUME NEW o \in {"null", "map", "end"} PROVE Call(o, {}) \in Simple
  <2>1. o \in Operations /\ {} \in CallArguments
    BY DEF Operations, CallArguments
  <2>2. Call(o, {}) \in [op : Operations, arg : CallArguments] /\ Call(o, {}).op = o
    BY <2>1, CallIs
  <2> QED
    BY <2>2 DEF Simple, Calls, Sayable, SaysNull, SaysMap, SaysEnd, SaysThing, SaysRedefine, SaysObject, SaysOwn
<1>2. ASSUME NEW b \in BOOLEAN PROVE Call("bool", b) \in Simple
  <2>1. "bool" \in Operations /\ b \in CallArguments
    BY DEF Operations, CallArguments
  <2>2. Call("bool", b) \in [op : Operations, arg : CallArguments] /\ Call("bool", b).op = "bool" /\ Call("bool", b).arg = b
    BY <2>1, CallIs
  <2> QED
    BY <2>2 DEF Simple, Calls, Sayable, SaysBool, SaysThing, SaysRedefine, SaysObject, SaysOwn
<1>3. ASSUME NEW n \in Int, IsWord(n) PROVE Call("int", n) \in Simple
  <2>1. "int" \in Operations /\ n \in CallArguments
    BY DEF Operations, CallArguments
  <2>2. Call("int", n) \in [op : Operations, arg : CallArguments] /\ Call("int", n).op = "int" /\ Call("int", n).arg = n
    BY <2>1, CallIs
  <2> QED
    BY <1>3, <2>2 DEF Simple, Calls, Sayable, SaysInt, SaysThing, SaysRedefine, SaysObject, SaysOwn
<1>4. ASSUME NEW n \in Int, IsWord(Upper(n)), NEW o \in {"long", "date"} PROVE Call(o, n) \in Simple
  <2>1. o \in Operations /\ n \in CallArguments
    BY DEF Operations, CallArguments
  <2>2. Call(o, n) \in [op : Operations, arg : CallArguments] /\ Call(o, n).op = o /\ Call(o, n).arg = n
    BY <2>1, CallIs
  <2> QED
    BY <1>4, <2>2 DEF Simple, Calls, Sayable, SaysLong, SaysDate, SaysThing, SaysRedefine, SaysObject, SaysOwn
<1>5. ASSUME NEW x \in Double PROVE Call("double", x) \in Simple
  <2>1. "double" \in Operations /\ x \in CallArguments
    BY DEF Operations, CallArguments
  <2>2. Call("double", x) \in [op : Operations, arg : CallArguments] /\ Call("double", x).op = "double"
        /\ Call("double", x).arg = x
    BY <2>1, CallIs
  <2> QED
    BY <2>2 DEF Simple, Calls, Sayable, SaysDouble, SaysThing, SaysRedefine, SaysObject, SaysOwn
<1>6. ASSUME NEW t \in Text, NEW o \in {"string", "ref", "binary"} PROVE Call(o, t) \in Simple
  <2>1. o \in Operations /\ t \in CallArguments
    BY DEF Operations, CallArguments
  <2>2. Call(o, t) \in [op : Operations, arg : CallArguments] /\ Call(o, t).op = o /\ Call(o, t).arg = t
    BY <2>1, CallIs
  <2> QED
    BY <2>2 DEF Simple, Calls, Sayable, SaysString, SaysRef, SaysBinary, SaysThing, SaysRedefine, SaysObject, SaysOwn
<1>7. ASSUME NEW n \in 0 .. 7 PROVE Call("list", n) \in Simple
  <2>1. "list" \in Operations /\ n \in CallArguments
    BY DEF Operations, CallArguments
  <2>2. Call("list", n) \in [op : Operations, arg : CallArguments] /\ Call("list", n).op = "list" /\ Call("list", n).arg = n
    BY <2>1, CallIs
  <2> QED
    BY <2>2 DEF Simple, Calls, Sayable, SaysList, SaysThing, SaysRedefine, SaysObject, SaysOwn
<1>8. ASSUME NEW n \in Int, IsWord(Upper(n)) PROVE Call("long", n) \in Simple /\ Call("date", n) \in Simple
  BY <1>4, <1>8
<1> QED
  BY <1>1, <1>2, <1>3, <1>8, <1>5, <1>6, <1>7

LEMMA SimpleWhole ==
  ASSUME NEW v \in Seq(Simple)
  PROVE  Whole(v)
<1>1. Simple \subseteq Calls
  BY DEF Simple
<1>2. v \in Seq(Calls)
  BY <1>1
<1>3. \A k \in 1 .. Len(v) : v[k] \in Simple
  OBVIOUS
<1> QED
  BY <1>2, <1>3, SMT DEF Whole, Framed, Simple, SaysThing

\* A class, and the object or exception of it.
LEMMA PairWhole ==
  ASSUME NEW class \in Known
  PROVE  /\ Whole(<<Call("define", class), Call("object", class)>>)
         /\ Whole(<<Call("redefine", class), Call("own", class)>>)
<1>1. ASSUME NEW o \in {"define", "redefine", "object", "own"}
      PROVE  Call(o, class) \in Calls /\ Call(o, class).op = o /\ Call(o, class).arg = class
  <2>1. o \in Operations /\ class \in CallArguments
    BY DEF Operations, CallArguments
  <2>2. Call(o, class) \in [op : Operations, arg : CallArguments] /\ Call(o, class).op = o /\ Call(o, class).arg = class
    BY <2>1, CallIs
  <2> QED
    BY <2>2 DEF Calls, Sayable, SaysDefine, SaysRedefine, SaysObject, SaysOwn
<1>2. ASSUME NEW a \in Calls, NEW b \in Calls, a.arg = b.arg,
             ~SaysObject(a), ~SaysOwn(a), ~SaysRedefine(b),
             SaysObject(b) => SaysDefine(a), SaysOwn(b) => SaysRedefine(a), SaysRedefine(a) => SaysOwn(b)
      PROVE  Whole(<<a, b>>)
  <2> DEFINE v == <<a, b>>
  <2>1. v \in Seq(Calls) /\ Len(v) = 2 /\ v[1] = a /\ v[2] = b
    OBVIOUS
  <2> HIDE DEF v
  <2>2. Framed(v)
    BY <1>2, <2>1 DEF Framed
  <2> QED
    BY <2>1, <2>2 DEF Whole, v
<1>3. Whole(<<Call("define", class), Call("object", class)>>)
  <2>1. Call("define", class) \in Calls /\ Call("define", class).op = "define" /\ Call("define", class).arg = class
    BY <1>1
  <2>2. Call("object", class) \in Calls /\ Call("object", class).op = "object" /\ Call("object", class).arg = class
    BY <1>1
  <2> DEFINE a == Call("define", class)
             b == Call("object", class)
  <2>3. /\ ~SaysObject(a) /\ ~SaysOwn(a) /\ ~SaysRedefine(b) /\ SaysDefine(a) /\ ~SaysOwn(b) /\ ~SaysRedefine(a)
        /\ a \in Calls /\ b \in Calls /\ a.arg = b.arg
    BY <2>1, <2>2 DEF SaysObject, SaysOwn, SaysRedefine, SaysDefine
  <2> HIDE DEF a, b
  <2>4. Whole(<<a, b>>)
    BY <1>2, <2>3
  <2> QED
    BY <2>4 DEF a, b
<1>4. Whole(<<Call("redefine", class), Call("own", class)>>)
  <2>1. Call("redefine", class) \in Calls /\ Call("redefine", class).op = "redefine"
        /\ Call("redefine", class).arg = class
    BY <1>1
  <2>2. Call("own", class) \in Calls /\ Call("own", class).op = "own" /\ Call("own", class).arg = class
    BY <1>1
  <2> DEFINE a == Call("redefine", class)
             b == Call("own", class)
  <2>3. /\ ~SaysObject(a) /\ ~SaysOwn(a) /\ ~SaysRedefine(b) /\ ~SaysObject(b) /\ SaysOwn(b) /\ SaysRedefine(a)
        /\ a \in Calls /\ b \in Calls /\ a.arg = b.arg
    BY <2>1, <2>2 DEF SaysObject, SaysOwn, SaysRedefine
  <2> HIDE DEF a, b
  <2>4. Whole(<<a, b>>)
    BY <1>2, <2>3
  <2> QED
    BY <2>4 DEF a, b
<1> QED
  BY <1>3, <1>4

\* Whole values after each other.
LEMMA BothWhole ==
  ASSUME NEW s, Whole(s), NEW t, Whole(t)
  PROVE  Whole(s \o t)
<1> DEFINE st == s \o t
           m == Len(s)
           n == Len(t)
<1>1. IsBoth(Calls, s, t, st)
  BY OneAfterOther DEF Whole
<1>2. m \in Nat /\ n \in Nat /\ Len(st) = m + n /\ st \in Seq(Calls)
  BY <1>1, LenProperties DEF IsBoth, Whole
<1>3. (\A i \in 1 .. m : st[i] = s[i]) /\ \A i \in 1 .. n : st[m + i] = t[i]
  BY <1>1 DEF IsBoth
<1> DEFINE OK(v, k) ==
    /\ SaysObject(v[k]) => k > 1 /\ SaysDefine(v[k - 1]) /\ v[k - 1].arg = v[k].arg
    /\ SaysOwn(v[k]) => k > 1 /\ SaysRedefine(v[k - 1]) /\ v[k - 1].arg = v[k].arg
    /\ SaysRedefine(v[k]) => k < Len(v) /\ SaysOwn(v[k + 1])
<1>4. (\A k \in 1 .. m : OK(s, k)) /\ \A k \in 1 .. n : OK(t, k)
  BY Zenon DEF Whole, Framed
<1> HIDE DEF st, m, n
<1>5. ASSUME NEW k \in 1 .. m PROVE OK(st, k)
  <2>1. st[k] = s[k] /\ OK(s, k)
    BY <1>3, <1>4
  <2>2. k > 1 => st[k - 1] = s[k - 1]
    <3>1. k > 1 => k - 1 \in 1 .. m
      BY <1>2
    <3> QED
      BY <1>3, <3>1
  <2>3. k < m => st[k + 1] = s[k + 1]
    <3>1. k < m => k + 1 \in 1 .. m
      BY <1>2
    <3> QED
      BY <1>3, <3>1
  <2>4. k < m => k < Len(st)
    BY <1>2
  <2> QED
    BY <2>1, <2>2, <2>3, <2>4 DEF m
<1>6. ASSUME NEW k \in 1 .. n PROVE OK(st, m + k)
  <2>0. PICK j \in Int : j = m + k
    BY <1>2
  <2>1. st[j] = t[k] /\ OK(t, k)
    BY <1>3, <1>4, <2>0
  <2>2. k > 1 => st[j - 1] = t[k - 1]
    <3>1. k > 1 => k - 1 \in 1 .. n /\ m + (k - 1) = j - 1
      BY <1>2, <2>0
    <3> QED
      BY <1>3, <3>1
  <2>3. k < n => st[j + 1] = t[k + 1]
    <3>1. k < n => k + 1 \in 1 .. n /\ m + (k + 1) = j + 1
      BY <1>2, <2>0
    <3> QED
      BY <1>3, <3>1
  <2>4. (k < n => j < Len(st)) /\ (k > 1 => j > 1)
    BY <1>2, <2>0
  <2>5. OK(st, j)
    BY <2>1, <2>2, <2>3, <2>4 DEF n
  <2> QED
    BY <2>0, <2>5
<1>7. \A k \in 1 .. Len(st) : OK(st, k)
  <2> SUFFICES ASSUME NEW k \in 1 .. Len(st) PROVE OK(st, k)
    OBVIOUS
  <2>1. CASE k <= m
    BY <1>2, <1>5, <2>1
  <2>2. CASE k > m
    <3>1. PICK i \in 1 .. n : k = m + i
      <4>1. k - m \in 1 .. n /\ k = m + (k - m)
        BY <1>2, <2>2
      <4> QED
        BY <4>1
    <3> QED
      BY <1>6, <3>1
  <2> QED
    BY <1>2, <2>1, <2>2
<1> QED
  BY <1>2, <1>7, Zenon DEF Whole, Framed, st

\* A document of whole values is whole.
LEMMA AllWhole ==
  ASSUME NEW seqs \in Seq(Seq(Calls)), \A i \in 1 .. Len(seqs) : Whole(seqs[i])
  PROVE  Whole(FlattenSeq(seqs))
<1> DEFINE n == Len(seqs)
<1>1. n \in Nat
  BY LenProperties
<1>2. PICK joined \in [0 .. Len(seqs) -> Seq(Calls)] : Joins(joined, seqs)
  BY JoinSteps
<1> DEFINE S == {i \in 0 .. n : Whole(joined[i])}
<1>3. 0 \in S
  <2>1. Whole(<<>>)
    BY DEF Whole, Framed
  <2>2. joined[0] = <<>>
    BY <1>2 DEF Joins
  <2> QED
    BY <1>1, <2>1, <2>2
<1>4. ASSUME NEW i \in 1 .. n, i - 1 \in S PROVE i \in S
  <2>1. joined[i] = joined[i - 1] \o seqs[i]
    BY <1>2 DEF Joins
  <2>2. Whole(joined[i - 1]) /\ Whole(seqs[i])
    BY <1>4
  <2>3. Whole(joined[i])
    BY <2>1, <2>2, BothWhole
  <2> QED
    BY <2>3
<1> HIDE DEF S
<1>5. \A i \in 0 .. n : i \in S
  BY <1>1, <1>3, <1>4, InductionUpTo
<1>6. Whole(joined[n])
  BY <1>1, <1>5 DEF S
<1> QED
  BY <1>2, <1>6 DEF Joins

LEMMA StringsWhole ==
  ASSUME NEW args \in Seq(Text)
  PROVE  Whole(Each("string", args))
<1> DEFINE n == Len(args)
           v == [i \in 1 .. n |-> Call("string", args[i])]
<1>1. n \in Nat /\ DOMAIN args = 1 .. n /\ \A i \in 1 .. n : args[i] \in Text
  BY LenProperties, ElementOfSeq
<1>2. \A i \in 1 .. n : Call("string", args[i]) \in Simple
  BY <1>1, SimpleCalls
<1>3. v = Each("string", args)
  BY <1>1 DEF Each
<1> HIDE DEF n
<1>4. v \in [1 .. n -> Simple]
  BY <1>2
<1> HIDE DEF v
<1>5. v \in Seq(Simple)
  BY <1>1, <1>4
<1>6. Whole(v)
  BY <1>5, SimpleWhole
<1> QED
  BY <1>3, <1>6

LEMMA OneWhole ==
  ASSUME NEW c \in Simple
  PROVE  Whole(<<c>>)
<1>1. <<c>> \in Seq(Simple)
  OBVIOUS
<1> QED
  BY <1>1, SimpleWhole

LEMMA ScalarsWhole ==
  ASSUME NEW v \in Scalars
  PROVE  Whole(v)
<1>1. ASSUME NEW n \in Words PROVE n \in Int /\ IsWord(n)
  BY NumbersAre DEF Words
<1>2. \A t \in TextValue : t \in Text
  BY HessianAssumption
<1>3. PICK c \in Simple : v = <<c>>
  <2>1. Call("null", {}) \in Simple
    BY SimpleCalls
  <2>2. \A b \in BOOLEAN : Call("bool", b) \in Simple
    BY SimpleCalls
  <2>3. \A n \in Words : Call("int", n) \in Simple
    BY <1>1, SimpleCalls
  <2>4. \A n \in Number : \A o \in {"long", "date"} : Call(o, n) \in Simple
    BY NumbersAre, SimpleCalls
  <2>5. \A x \in Double : Call("double", x) \in Simple
    BY SimpleCalls
  <2>6. \A t \in TextValue : \A o \in {"string", "ref", "binary"} : Call(o, t) \in Simple
    BY <1>2, SimpleCalls
  <2> HIDE DEF Simple
  <2> QED
    BY <2>1, <2>2, <2>3, <2>4, <2>5, <2>6 DEF Scalars
<1> QED
  BY <1>3, OneWhole

LEMMA ListsWhole ==
  ASSUME NEW t \in Text
  PROVE  Whole(List(<<t, t>>))
<1> DEFINE items == <<t, t>>
           head == <<Call("list", Len(items))>>
<1>1. items \in Seq(Text) /\ Len(items) \in 0 .. 7
  OBVIOUS
<1> HIDE DEF items
<1>2. Whole(head)
  BY <1>1, SimpleCalls, OneWhole
<1>3. Whole(Each("string", items))
  BY <1>1, StringsWhole
<1> HIDE DEF head
<1>4. Whole(head \o Each("string", items))
  BY <1>2, <1>3, BothWhole
<1> QED
  BY <1>4, Zenon DEF List, items, head

LEMMA DecimalsWhole ==
  ASSUME NEW n \in Words, NEW t \in Text
  PROVE  Whole(BigDecimal(n, t))
<1> DEFINE a == Call("map", {})
           b == Call("string", ScaleKey)
           c == Call("int", n)
           d == Call("string", ValueKey)
           e == Call("string", t)
           f == Call("end", {})
<1>1. a \in Simple /\ f \in Simple
  BY SimpleCalls
<1>2. b \in Simple /\ d \in Simple /\ e \in Simple
  BY HessianAssumption, SimpleCalls
<1>3. c \in Simple
  BY NumbersAre, SimpleCalls DEF Words
<1>4. BigDecimal(n, t) = <<a, b, c, d, e, f>>
  BY Zenon DEF BigDecimal
<1> HIDE DEF a, b, c, d, e, f
<1>5. <<a, b, c, d, e, f>> \in Seq(Simple)
  BY <1>1, <1>2, <1>3
<1> QED
  BY <1>4, <1>5, SimpleWhole

LEMMA RegisteredWhole ==
  ASSUME NEW class \in Class, NEW t \in Text
  PROVE  Whole(Registered(class, [i \in DOMAIN class.fields |-> t]))
<1> DEFINE values == [i \in DOMAIN class.fields |-> t]
           n == Len(class.fields)
           pair == <<Call("define", class), Call("object", class)>>
<1>1. class \in Known /\ class.fields \in Seq(Text)
  BY HessianAssumption DEF Known
<1>2. values \in Seq(Text)
  <2>1. n \in Nat /\ values = [i \in 1 .. n |-> t]
    BY <1>1, LenProperties
  <2> HIDE DEF n, values
  <2>2. values \in [1 .. n -> Text]
    BY <2>1
  <2> QED
    BY <2>1, <2>2
<1>3. Whole(pair)
  BY <1>1, PairWhole
<1> HIDE DEF values, pair
<1>4. Whole(Each("string", values))
  BY <1>2, StringsWhole
<1>5. Whole(pair \o Each("string", values))
  BY <1>3, <1>4, BothWhole
<1> QED
  BY <1>5, Zenon DEF Registered, values, pair

LEMMA ElementWhole ==
  ASSUME NEW t \in Text, NEW line \in {-1, 7}
  PROVE  Whole(TraceElement(t, line))
<1> DEFINE pair == <<Call("redefine", Frame), Call("own", Frame)>>
           items == <<t, t, t>>
           last == <<Call("int", line)>>
<1>1. Whole(pair)
  BY PairWhole DEF Known
<1>2. items \in Seq(Text)
  OBVIOUS
<1>3. Whole(last)
  <2>1. line \in Int /\ IsWord(line)
    BY DEF IsWord
  <2> QED
    BY <2>1, SimpleCalls, OneWhole
<1> HIDE DEF pair, items, last
<1>4. Whole(Each("string", items))
  BY <1>2, StringsWhole
<1>5. Whole((pair \o Each("string", items)) \o last)
  BY <1>1, <1>3, <1>4, BothWhole
<1> QED
  BY <1>5, Zenon DEF TraceElement, pair, items, last

LEMMA ExceptionWhole ==
  ASSUME NEW t \in Text, NEW trace \in {<<>>, <<TraceElement(t, -1)>>, <<TraceElement(t, 7)>>}, NEW cause, Whole(cause)
  PROVE  Whole(Exception(t, trace, cause))
<1> DEFINE pair == <<Call("redefine", Thrown), Call("own", Thrown)>>
           rest == <<Call("string", t), Call("list", Len(trace))>>
           head == <<Call("redefine", Thrown), Call("own", Thrown), Call("string", t), Call("list", Len(trace))>>
<1>1. Whole(pair)
  BY PairWhole DEF Known
<1>2. Len(trace) \in 0 .. 7 /\ trace \in Seq(Seq(Calls)) /\ \A i \in 1 .. Len(trace) : Whole(trace[i])
  <2>1. CASE trace = <<>>
    BY <2>1
  <2>2. ASSUME NEW line \in {-1, 7}, trace = <<TraceElement(t, line)>>
        PROVE  Len(trace) \in 0 .. 7 /\ trace \in Seq(Seq(Calls)) /\ \A i \in 1 .. Len(trace) : Whole(trace[i])
    <3> DEFINE e == TraceElement(t, line)
    <3>1. Whole(e) /\ e \in Seq(Calls)
      BY ElementWhole DEF Whole
    <3>2. trace = <<e>>
      BY <2>2
    <3> HIDE DEF e
    <3>3. Len(<<e>>) = 1 /\ (<<e>>)[1] = e /\ <<e>> \in Seq(Seq(Calls))
      BY <3>1
    <3> QED
      BY <3>1, <3>2, <3>3
  <2> QED
    BY <2>1, <2>2
<1>3. Whole(rest)
  <2>1. Call("string", t) \in Simple /\ Call("list", Len(trace)) \in Simple
    BY <1>2, SimpleCalls
  <2>2. rest \in Seq(Simple)
    BY <2>1
  <2> QED
    BY <2>2, SimpleWhole
<1>4. head = pair \o rest
  <2> DEFINE a == Call("redefine", Thrown)
             b == Call("own", Thrown)
             c == Call("string", t)
             d == Call("list", Len(trace))
  <2>1. <<a, b, c, d>> = <<a, b>> \o <<c, d>>
    <3> HIDE DEF a, b, c, d
    <3> QED
      OBVIOUS
  <2> QED
    BY <2>1, Zenon
<1> HIDE DEF pair, rest
<1>5. Whole(head)
  BY <1>1, <1>3, <1>4, BothWhole
<1>6. Whole(FlattenSeq(trace))
  BY <1>2, AllWhole
<1> HIDE DEF head
<1>7. Whole((head \o FlattenSeq(trace)) \o cause)
  BY <1>5, <1>6, BothWhole
<1> QED
  BY <1>7, Zenon DEF Exception, head

LEMMA ValuesWhole ==
  ASSUME NEW v \in Values
  PROVE  Whole(v)
<1>1. \A t \in TextValue : t \in Text
  BY HessianAssumption
<1>2. ASSUME NEW t \in Text, NEW e \in Exceptions(t) PROVE Whole(e)
  <2>1. Whole(NoCause)
    <3>1. NoCause = <<Call("null", {})>> /\ Call("null", {}) \in Simple
      BY SimpleCalls DEF NoCause
    <3> QED
      BY <3>1, OneWhole
  <2> DEFINE nested == Exception(t, <<TraceElement(t, -1)>>, NoCause)
  <2>2. Whole(nested)
    BY <2>1, ExceptionWhole
  <2>3. PICK trace \in {<<>>, <<TraceElement(t, 7)>>}, cause \in {NoCause, nested} : e = Exception(t, trace, cause)
    BY DEF Exceptions
  <2> HIDE DEF nested
  <2>4. Whole(cause)
    BY <2>1, <2>2
  <2> QED
    BY <2>3, <2>4, ExceptionWhole
<1>3. CASE v \in Scalars
  BY <1>3, ScalarsWhole
<1>4. CASE v \in {List(<<t, t>>) : t \in TextValue}
  BY <1>1, <1>4, ListsWhole
<1>5. CASE v \in {BigDecimal(n, t) : n \in Words, t \in TextValue}
  <2>1. PICK n \in Words, t \in TextValue : v = BigDecimal(n, t)
    BY <1>5
  <2> QED
    BY <1>1, <2>1, DecimalsWhole
<1>6. CASE v \in {Registered(c, [i \in DOMAIN c.fields |-> t]) : c \in Class, t \in TextValue}
  <2>1. PICK c \in Class, t \in TextValue : v = Registered(c, [i \in DOMAIN c.fields |-> t])
    BY <1>6
  <2> QED
    BY <1>1, <2>1, RegisteredWhole
<1>7. CASE v \in UNION {Exceptions(t) : t \in TextValue}
  BY <1>1, <1>2, <1>7, Zenon
<1> QED
  BY <1>3, <1>4, <1>5, <1>6, <1>7 DEF Values

-----------------------------------------------------------------------------
(* What a plain document makes an Encoder write.                           *)

LEMMA DocumentIs ==
  ASSUME document \in Seq(Values)
  PROVE  /\ document \in Seq(Seq(Calls)) /\ Whole(Written)
         /\ \A i \in 1 .. Len(document) : document[i] \in Seq(Calls)
<1>1. \A v \in Values : v \in Seq(Calls) /\ Whole(v)
  BY ValuesWhole DEF Whole
<1>2. \A i \in 1 .. Len(document) : document[i] \in Values
  BY ElementOfSeq
<1>3. document \in Seq(Seq(Calls))
  BY <1>1
<1>4. Whole(FlattenSeq(document))
  BY <1>1, <1>2, <1>3, AllWhole
<1> QED
  BY <1>1, <1>2, <1>3, <1>4 DEF Written

LEMMA KnownIs ==
  ASSUME NEW class \in Known
  PROVE  class \in [name : Text, fields : Seq(Text)]
  BY HessianAssumption DEF Known

LEMMA ScriptIs ==
  ASSUME document \in Seq(Values), PlainDocument
  PROVE  IsScript(Written)
<1> DEFINE s == Written
<1>1. s \in Seq(Calls) /\ Framed(s)
  BY DocumentIs DEF Whole
<1>2. Len(s) \in Nat /\ DOMAIN s = 1 .. Len(s) /\ \A k \in 1 .. Len(s) : Sayable(s[k])
  <2>1. Len(s) \in Nat /\ DOMAIN s = 1 .. Len(s) /\ \A k \in 1 .. Len(s) : s[k] \in Calls
    BY <1>1, LenProperties, ElementOfSeq
  <2> QED
    BY <2>1 DEF Calls
<1>3. IsWord(Len(s))
  BY DEF PlainDocument, Countable
<1>4. ASSUME NEW k \in 1 .. Len(s) PROVE IsFit(s[k])
  <2> DEFINE c == s[k]
  <2>1. Sayable(c) /\ k \in DOMAIN Written
    BY <1>2
  <2>2. SaysString(c) \/ SaysRef(c) \/ SaysBinary(c) => k \in Uses({"string", "ref", "binary"})
    BY <2>1 DEF Uses, SaysString, SaysRef, SaysBinary
  <2>3. SaysClass(c) => k \in Uses({"define", "redefine"})
    BY <2>1 DEF Uses, SaysClass, SaysDefine, SaysRedefine
  <2>4. SaysString(c) \/ SaysRef(c) \/ SaysBinary(c) => IsCounted(c.arg)
    BY <2>2, Zenon DEF PlainDocument, Countable
  <2>5. SaysClass(c) => IsClass(c.arg)
    <3> SUFFICES ASSUME SaysClass(c) PROVE IsClass(c.arg)
      OBVIOUS
    <3>1. c.arg \in Known
      BY <2>1, SayableIs DEF SaysClass
    <3>2. c.arg \in [name : Text, fields : Seq(Text)]
      BY <3>1, KnownIs
    <3>3. /\ IsCounted(c.arg.name) /\ IsWord(Len(c.arg.fields))
          /\ \A j \in DOMAIN c.arg.fields : IsCounted(c.arg.fields[j])
      BY <2>3, Zenon DEF PlainDocument, Countable
    <3> QED
      BY <3>2, <3>3, Zenon DEF IsClass
  <2> QED
    BY <2>1, <2>4, <2>5, Zenon DEF IsFit
<1>5. ASSUME Refers(s), NEW k \in 1 .. Len(s) PROVE ~SaysString(s[k]) /\ ~SaysClass(s[k])
  <2>1. PICK j \in 1 .. Len(s) : SaysRef(s[j])
    BY <1>5 DEF Refers
  <2>2. j \in Uses({"ref"})
    BY <1>2, <2>1 DEF Uses, SaysRef
  <2>3. Uses({"string", "define", "redefine"}) = {}
    BY <2>2, Zenon DEF PlainDocument
  <2>4. SaysString(s[k]) \/ SaysClass(s[k]) => k \in Uses({"string", "define", "redefine"})
    BY <1>2 DEF Uses, SaysString, SaysClass, SaysDefine, SaysRedefine
  <2> QED
    BY <2>3, <2>4
<1>6. ASSUME NEW j \in 1 .. Len(s), NEW k \in 1 .. Len(s), SaysClass(s[j]), SaysClass(s[k])
      PROVE  /\ s[j].arg.name = s[k].arg.name => s[j].arg = s[k].arg
             /\ SaysDefine(s[j]) /\ s[j].arg = s[k].arg => j = k
  <2>1. j \in Uses({"define", "redefine"}) /\ k \in Uses({"define", "redefine"})
    BY <1>2, <1>6 DEF Uses, SaysClass, SaysDefine, SaysRedefine
  <2> QED
    BY <2>1, Zenon DEF PlainDocument, SaysDefine
<1> HIDE DEF s
<1>7. IsScript(s)
  BY <1>1, <1>2, <1>3, <1>4, <1>5, <1>6 DEF IsScript
<1> QED
  BY <1>7 DEF s

-----------------------------------------------------------------------------
(* The invariant.                                                          *)

\* The reader stands where the value after the k-th begins.
StandsBy(s, seqs, w, r, k, h, joined, f, d, x, g) ==
  LET m == Len(joined[k])
  IN  /\ History(h, s) /\ w = h[Len(s)] /\ Joins(joined, seqs)
      /\ Follows(s, m, h[m], f, d, x)
      /\ r = Reading(w.out, Len(h[m].out), f, d, x, g)
Stands(s, seqs, w, r, k) ==
  \E h : \E joined \in [0 .. Len(seqs) -> Seq(Calls)] :
    \E f, d, x, g : StandsBy(s, seqs, w, r, k, h, joined, f, d, x, g)

HessianInv ==
  /\ document \in Seq(Values)
  /\ wire = WriteAll(Blank, Written)
  /\ back \in Seq(Range(back)) /\ Len(back) <= Len(document)
  /\ back = <<>> => reader = Decoder(<<>>, <<>>, <<>>, 0, <<>>)
  /\ PlainDocument => /\ \A i \in 1 .. Len(back) : back[i] = Owed(document[i])
                      /\ back # <<>> => Stands(Written, document, wire, reader, Len(back))

LEMMA HessianStarts == HessianInit => HessianInv
<1> SUFFICES ASSUME HessianInit PROVE HessianInv
  OBVIOUS
<1>1. document = <<>> /\ back = <<>> /\ wire = Blank
      /\ reader = Decoder(<<>>, <<>>, <<>>, 0, <<>>)
  BY DEF HessianInit, Blank, Encoder, Decoder, NoFailure
<1>2. Written = <<>>
  <2>1. FlattenSeq(<<>>) = <<>>
    BY DEF FlattenSeq
  <2> QED
    BY <1>1, <2>1 DEF Written
<1>3. WriteAll(Blank, <<>>) = Blank
  <2>1. Len(<<>>) = 0
    OBVIOUS
  <2>2. PICK at : Writes(at, Blank, <<>>)
    BY <2>1, WriteSteps
  <2> QED
    BY <2>1, <2>2 DEF Writes
<1>4. document \in Seq(Values) /\ back \in Seq(Range(back)) /\ Len(back) = 0 /\ Len(document) = 0
  BY <1>1
<1> QED
  BY <1>1, <1>2, <1>3, <1>4 DEF HessianInv

LEMMA HessianWrites ==
  ASSUME HessianInv, WriteValue
  PROVE  HessianInv'
<1>1. PICK v \in Values : /\ back = <<>> /\ document' = Append(document, v) /\ wire' = WriteAll(wire, v)
                          /\ reader' = reader /\ back' = back
  BY DEF WriteValue
<1>2. document \in Seq(Values) /\ wire = WriteAll(Blank, Written)
  BY DEF HessianInv
<1>3. document \in Seq(Seq(Calls)) /\ Written \in Seq(Calls)
  BY <1>2, DocumentIs DEF Whole
<1>4. v \in Seq(Calls)
  BY ValuesWhole DEF Whole
<1>5. Written' = Written \o v
  <2>1. FlattenSeq(Append(document, v)) = FlattenSeq(document) \o v
    BY <1>3, <1>4, FlattenAppend
  <2> QED
    BY <1>1, <2>1 DEF Written
<1>6. wire' = WriteAll(Blank, Written')
  BY <1>1, <1>2, <1>3, <1>4, <1>5, MoreWrites
<1>7. document' \in Seq(Values)
  BY <1>1, <1>2
<1>8. back' = <<>> /\ back' \in Seq(Range(back')) /\ Len(back') = 0 /\ Len(back') <= Len(document')
  BY <1>1, <1>7, LenProperties
<1>9. reader' = Decoder(<<>>, <<>>, <<>>, 0, <<>>)
  BY <1>1 DEF HessianInv
<1> QED
  BY <1>6, <1>7, <1>8, <1>9 DEF HessianInv

\* The Decoder that the next value is read with.
Opened == [reader EXCEPT !.rest = IF Len(back) = 0 THEN wire.out ELSE @, !.got = <<>>]

LEMMA HistoryIs ==
  ASSUME HessianInv, PlainDocument
  PROVE  /\ Len(Written) \in Nat /\ IsScript(Written)
         /\ \E h : History(h, Written) /\ wire = h[Len(Written)]
<1>1. IsScript(Written) /\ Len(Written) \in Nat
  BY ScriptIs DEF HessianInv, IsScript
<1>2. PICK h : Writes(h, Blank, Written)
  BY <1>1, WriteSteps
<1>3. History(h, Written) /\ WriteAll(Blank, Written) = h[Len(Written)]
  BY <1>2, Zenon DEF Writes, History
<1>4. wire = WriteAll(Blank, Written)
  BY DEF HessianInv
<1> QED
  BY <1>1, <1>3, <1>4

LEMMA NothingKnown ==
  ASSUME NEW s, NEW h, h[0] = Blank
  PROVE  Follows(s, 0, h[0], <<>>, <<>>, 0)
<1> DEFINE e == h[0]
           z == <<>>
<1>1. e.tracked = z /\ e.defined = z /\ Len(z) = 0 /\ z \in Seq(Known)
  BY DEF Blank, Encoder
<1> HIDE DEF z, e
<1>2. KnowsClasses(s, 0, e, z)
  BY <1>1 DEF KnowsClasses
<1>3. Follows(s, 0, e, z, z, 0)
  BY <1>1, <1>2 DEF Follows
<1> QED
  BY <1>3 DEF z, e

LEMMA StandsReady ==
  ASSUME HessianInv, PlainDocument, Len(back) < Len(document)
  PROVE  Stands(Written, document, wire, Opened, Len(back)) /\ Opened.got = <<>>
<1> DEFINE n == Len(back)
           s == Written
<1>1. n \in Nat /\ (n = 0 => back = <<>>) /\ (back = <<>> => n = 0)
  BY EmptySeq, LenProperties DEF HessianInv
<1>2. IsScript(s) /\ Len(s) \in Nat
  BY HistoryIs
<1>3. CASE n = 0
  <2>1. PICK h : History(h, s) /\ wire = h[Len(s)]
    BY HistoryIs
  <2>2. PICK joined \in [0 .. Len(document) -> Seq(Calls)] : Joins(joined, document)
    BY DocumentIs, JoinSteps DEF HessianInv
  <2>3. h[0] = Blank /\ joined[0] = <<>>
    BY <2>1, <2>2 DEF History, Joins
  <2>4. Len(joined[n]) = 0
    BY <1>3, <2>3
  <2>5. Wrote(h, s, wire.out)
    BY <1>2, <2>1, WroteIs
  <2>6. wire.out \in Seq(Symbol)
    BY <2>5 DEF Wrote
  <2>7. Len(h[0].out) = 0
    BY <2>3 DEF Blank, Encoder
  <2> DEFINE w == wire.out
             z == <<>>
  <2>8. Rest(w, 0) = w
    <3> HIDE DEF w
    <3> QED
      BY <2>6, SubSeqProperties, LenProperties DEF Rest, w
  <2>9. reader = Decoder(z, z, z, 0, z)
    BY <1>1, <1>3 DEF HessianInv
  <2>10. Opened = Reading(w, 0, z, z, 0, z)
    <3> HIDE DEF w, z
    <3>1. Opened = [reader EXCEPT !.rest = w, !.got = z]
      BY <1>3 DEF Opened, w, z
    <3>2. [Decoder(z, z, z, 0, z) EXCEPT !.rest = w, !.got = z] = Decoder(w, z, z, 0, z)
      BY DEF Decoder
    <3> QED
      BY <2>8, <2>9, <3>1, <3>2 DEF Reading
  <2>11. Follows(s, 0, h[0], z, z, 0)
    BY <2>3, NothingKnown
  <2>12. Opened.got = z
    <3> HIDE DEF w, z
    <3> QED
      BY <2>10 DEF Reading, Decoder
  <2> HIDE DEF n, s, z
  <2>13. /\ Follows(s, Len(joined[n]), h[Len(joined[n])], z, z, 0)
         /\ Opened = Reading(wire.out, Len(h[Len(joined[n])].out), z, z, 0, z)
    BY <2>4, <2>7, <2>10, <2>11
  <2>14. Stands(s, document, wire, Opened, n)
    BY <2>1, <2>2, <2>13, Zenon DEF Stands, StandsBy
  <2> QED
    BY <2>12, <2>14 DEF n, s, z
<1>4. CASE n # 0
  <2>1. Stands(s, document, wire, reader, n)
    BY <1>1, <1>4 DEF HessianInv
  <2> HIDE DEF n, s
  <2>21. PICK h : \E joined \in [0 .. Len(document) -> Seq(Calls)] :
           \E f, d, x, g : StandsBy(s, document, wire, reader, n, h, joined, f, d, x, g)
    BY <2>1 DEF Stands
  <2>22. PICK joined \in [0 .. Len(document) -> Seq(Calls)] :
           \E f, d, x, g : StandsBy(s, document, wire, reader, n, h, joined, f, d, x, g)
    BY <2>21
  <2>23. PICK f, d, x, g : StandsBy(s, document, wire, reader, n, h, joined, f, d, x, g)
    BY <2>22
  <2>24. /\ History(h, s) /\ wire = h[Len(s)] /\ Joins(joined, document)
          /\ Follows(s, Len(joined[n]), h[Len(joined[n])], f, d, x)
          /\ reader = Reading(wire.out, Len(h[Len(joined[n])].out), f, d, x, g)
    BY <2>23, Zenon DEF StandsBy
  <2> DEFINE p == Len(h[Len(joined[n])].out)
             z == <<>>
  <2>3. Opened = Reading(wire.out, p, f, d, x, z) /\ Opened.got = z
    <3>1. Opened = [reader EXCEPT !.rest = @, !.got = <<>>]
      BY <1>4 DEF Opened, n
    <3> HIDE DEF p
    <3>2. reader = Reading(wire.out, p, f, d, x, g)
      BY <2>24 DEF p
    <3> QED
      BY <3>1, <3>2 DEF Reading, Decoder
  <2> HIDE DEF z
  <2>4. Stands(s, document, wire, Opened, n)
    BY <2>24, <2>3, Zenon DEF Stands, StandsBy
  <2> QED
    BY <2>3, <2>4 DEF n, s, z
<1> QED
  BY <1>3, <1>4

\* The k-th value, read.
IsValueRead(s, seqs, w, r, k) == ~r.failed /\ r.got = Owed(seqs[k]) /\ Stands(s, seqs, w, r, k)

LEMMA NextRead ==
  ASSUME HessianInv, PlainDocument, NEW n, n = Len(back), n < Len(document),
         NEW v, v = document[n + 1], NEW r, r = ReadAll(Opened, v)
  PROVE  IsValueRead(Written, document, wire, r, n + 1)
<1> DEFINE s == Written
           w == wire.out
<1>1. n \in Nat /\ Len(document) \in Nat /\ n + 1 \in 1 .. Len(document) /\ n \in 0 .. Len(document)
      /\ n + 1 \in 0 .. Len(document)
  BY LenProperties DEF HessianInv
<1>2. IsScript(s)
  BY HistoryIs
<1>3. Stands(s, document, wire, Opened, n) /\ Opened.got = <<>>
  BY StandsReady
<1> HIDE DEF s, w
<1>41. PICK h : \E joined \in [0 .. Len(document) -> Seq(Calls)] :
           \E f, d, x, g : StandsBy(s, document, wire, Opened, n, h, joined, f, d, x, g)
  BY <1>3 DEF Stands
<1>42. PICK joined \in [0 .. Len(document) -> Seq(Calls)] :
           \E f, d, x, g : StandsBy(s, document, wire, Opened, n, h, joined, f, d, x, g)
  BY <1>41
<1>43. PICK f, d, x, g : StandsBy(s, document, wire, Opened, n, h, joined, f, d, x, g)
  BY <1>42
<1>44. /\ History(h, s) /\ wire = h[Len(s)] /\ Joins(joined, document)
          /\ Follows(s, Len(joined[n]), h[Len(joined[n])], f, d, x)
          /\ Opened = Reading(wire.out, Len(h[Len(joined[n])].out), f, d, x, g)
  BY <1>43, Zenon DEF StandsBy
<1> DEFINE m == Len(joined[n])
<1>5. g = <<>>
  <2> DEFINE p == Len(h[m].out)
  <2> HIDE DEF p
  <2>1. Opened = Reading(wire.out, p, f, d, x, g)
    BY <1>44 DEF p
  <2> QED
    BY <1>3, <2>1 DEF Reading, Decoder
<1>6. Wrote(h, s, w)
  BY <1>2, <1>44, WroteIs DEF w
<1>7. document \in Seq(Seq(Calls)) /\ v \in Seq(Calls)
  BY <1>1, DocumentIs DEF HessianInv
<1>0. PICK k \in 1 .. Len(document) : k = n + 1
  BY <1>1
<1>8. /\ Len(joined[k]) = Len(joined[k - 1]) + Len(document[k])
      /\ Len(joined[k]) <= Len(FlattenSeq(document))
      /\ Placed(document, joined, k)
  BY <1>44, <1>7, JoinPlaces
<1>9. k - 1 = n /\ document[k] = v
  BY <1>0, <1>1
<1>10. Len(joined[k]) = m + Len(v) /\ m + Len(v) <= Len(s) /\ m \in Nat
  <2>1. joined[n] \in Seq(Calls)
    BY <1>1
  <2> QED
    BY <1>8, <1>9, <2>1, LenProperties DEF Written, s
<1>11. \A i \in 1 .. Len(v) : s[m + i] = v[i]
  BY <1>8, <1>9 DEF Placed, Written, s
<1>12. /\ Follows(s, m, h[m], f, d, x)
       /\ Opened = Reading(w, Len(h[m].out), f, d, x, <<>>)
  BY <1>44, <1>5 DEF w
<1> HIDE DEF m
<1>13. IsReadOff(s, h, w, m, v, f, d, x)
  BY <1>2, <1>6, <1>7, <1>10, <1>11, <1>12, ReadOff
<1>14. PICK p, b, y : /\ Follows(s, m + Len(v), h[m + Len(v)], p, b, y)
                      /\ ReadAll(Reading(w, Len(h[m].out), f, d, x, <<>>), v)
                           = Reading(w, Len(h[m + Len(v)].out), p, b, y, Owed(v))
  BY <1>13, Zenon DEF IsReadOff
<1> DEFINE l == Len(joined[k])
<1>15. Follows(s, l, h[l], p, b, y) /\ r = Reading(w, Len(h[l].out), p, b, y, Owed(v))
  BY <1>10, <1>12, <1>14
<1>16. ~r.failed /\ r.got = Owed(v)
  <2> DEFINE q == Len(h[l].out)
             a == Owed(v)
  <2> HIDE DEF q, a
  <2>1. r = Reading(w, q, p, b, y, a)
    BY <1>15 DEF q, a
  <2> QED
    BY <2>1 DEF Reading, Decoder, NoFailure, a
<1>17. Stands(s, document, wire, r, k)
  BY <1>44, <1>15, Zenon DEF Stands, StandsBy, w
<1> QED
  <2>1. Stands(s, document, wire, r, n + 1) /\ document[n + 1] = v
    BY <1>0, <1>17, Zenon
  <2> QED
    BY <1>16, <2>1, Zenon DEF IsValueRead, s

LEMMA HessianReads ==
  ASSUME HessianInv, ReadValue
  PROVE  HessianInv'
<1> DEFINE n == Len(back)
           v == document[n + 1]
           r == ReadAll(Opened, v)
<1>1. /\ n < Len(document) /\ reader' = r /\ back' = Append(back, IF r.failed THEN Failure ELSE r.got)
      /\ document' = document /\ wire' = wire
  BY Zenon DEF ReadValue, Opened
<1>2. n \in Nat /\ Len(document) \in Nat /\ back \in Seq(Range(back)) /\ document \in Seq(Values)
  BY LenProperties DEF HessianInv
<1>3. PICK u : u = IF r.failed THEN Failure ELSE r.got
  OBVIOUS
<1>4. back' = Append(back, u)
  BY <1>1, <1>3
<1>5. /\ back' \in Seq(Range(back) \cup {u}) /\ Len(back') = n + 1
      /\ (\A i \in 1 .. n : back'[i] = back[i]) /\ back'[n + 1] = u
  <2> DEFINE E == Range(back) \cup {u}
  <2>1. back \in Seq(E) /\ u \in E
    BY <1>2
  <2> HIDE DEF E
  <2> QED
    BY <1>2, <1>4, <2>1, AppendProperties DEF E
<1>6. back' \in Seq(Range(back')) /\ back' # <<>> /\ Len(back') <= Len(document')
  <2>1. Len(back') \in Nat /\ back' = [i \in 1 .. Len(back') |-> back'[i]] /\ DOMAIN back' = 1 .. Len(back')
    BY <1>5, LenProperties
  <2>2. \A i \in 1 .. Len(back') : back'[i] \in Range(back')
    BY <2>1 DEF Range
  <2>3. back' # <<>> /\ Len(back') <= Len(document')
    BY <1>1, <1>2, <1>5
  <2> QED
    BY <2>1, <2>2, <2>3
<1>7. Written' = Written /\ (PlainDocument' <=> PlainDocument)
  BY <1>1 DEF PlainDocument, Countable, Uses, Written
<1>8. wire' = WriteAll(Blank, Written')
  BY <1>1, <1>7 DEF HessianInv
<1>9. ASSUME PlainDocument
      PROVE  /\ \A i \in 1 .. Len(back') : back'[i] = Owed(document'[i])
             /\ Stands(Written', document', wire', reader', Len(back'))
  <2>1. ~r.failed /\ r.got = Owed(v) /\ Stands(Written, document, wire, r, n + 1)
    <3>1. IsValueRead(Written, document, wire, r, n + 1)
      BY <1>1, <1>9, NextRead
    <3> HIDE DEF r, n
    <3> QED
      BY <3>1, Zenon DEF IsValueRead
  <2>2. \A i \in 1 .. n : back[i] = Owed(document[i])
    BY <1>9 DEF HessianInv
  <2>3. u = Owed(document[n + 1])
    BY <1>3, <2>1
  <2> HIDE DEF n, r
  <2>4. ASSUME NEW i \in 1 .. Len(back') PROVE back'[i] = Owed(document[i])
    <3>1. i \in 1 .. n \/ i = n + 1
      BY <1>2, <1>5
    <3> QED
      BY <1>5, <2>2, <2>3, <3>1
  <2> QED
    BY <1>1, <1>5, <1>7, <2>1, <2>4
<1> HIDE DEF r
<1> QED
  BY <1>1, <1>2, <1>6, <1>7, <1>8, <1>9 DEF HessianInv

LEMMA HessianKept ==
  ASSUME HessianInv, HessianNext \/ UNCHANGED hessianVars
  PROVE  HessianInv'
<1>1. CASE WriteValue
  BY <1>1, HessianWrites
<1>2. CASE ReadValue
  BY <1>2, HessianReads
<1>3. CASE UNCHANGED hessianVars
  <2>1. document' = document /\ wire' = wire /\ reader' = reader /\ back' = back
    BY <1>3 DEF hessianVars
  <2>2. Written' = Written /\ (PlainDocument' <=> PlainDocument)
    BY <2>1 DEF PlainDocument, Countable, Uses, Written
  <2> QED
    BY <2>1, <2>2 DEF HessianInv
<1> QED
  BY <1>1, <1>2, <1>3 DEF HessianNext

LEMMA HessianShows == HessianInv => StreamRoundTrips
<1>1. HessianInv => DOMAIN back = 1 .. Len(back)
  BY LenProperties DEF HessianInv
<1> QED
  BY <1>1 DEF HessianInv, StreamRoundTrips

\* Hessian2: a plain document is read back value by value as it was written, whatever the
\* values are and however many there are.
THEOREM DocumentsRoundTrip == HessianSpec => []StreamRoundTrips
<1>1. HessianInv /\ [HessianNext]_hessianVars => HessianInv'
  BY HessianKept
<1> QED
  BY <1>1, HessianStarts, HessianShows, PTL DEF HessianSpec

-----------------------------------------------------------------------------
(* DubboMessages: a list of types, told apart where each of them ends.     *)

\* If end says of the beginning of each list where the next one begins, Split finds the lists.
LEMMA SplitJoined ==
  ASSUME NEW E, NEW seqs \in Seq(Seq(E)), NEW joined \in [0 .. Len(seqs) -> Seq(E)],
         Joins(joined, seqs), \A k \in 1 .. Len(seqs) : seqs[k] # <<>>,
         NEW end,
         \A k \in 1 .. Len(seqs) : end[1 + Len(joined[k - 1])] = 1 + Len(joined[k])
  PROVE  Split(FlattenSeq(seqs), end) = seqs
<1> DEFINE n == Len(seqs)
           s == FlattenSeq(seqs)
           l == Len(s)
           at == CHOOSE g : g = [k \in 0 .. Len(s) |->
                   IF k = 0 THEN 1 ELSE IF g[k - 1] \in DOMAIN s THEN end[g[k - 1]] ELSE g[k - 1]]
           beyond == {m \in 0 .. Len(s) : at[m] \notin DOMAIN s}
           count == CHOOSE k \in 0 .. Len(s) : IsFirst(k, beyond)
           Def(v, k) == IF v \in DOMAIN s THEN end[v] ELSE v
<1>1. Split(s, end) = [k \in 1 .. count |-> SubSeq(s, at[k - 1], at[k] - 1)]
  BY Zenon DEF Split, Onward
<1>2. n \in Nat /\ s = joined[n] /\ s \in Seq(E) /\ l \in Nat /\ DOMAIN s = 1 .. l
  <2>1. n \in Nat /\ s = joined[n]
    BY LenProperties DEF Joins
  <2>2. s \in Seq(E)
    BY <2>1
  <2> QED
    BY <2>1, <2>2, LenProperties
<1>3. /\ at[0] = 1
      /\ \A k \in 1 .. l : at[k] = IF at[k - 1] \in DOMAIN s THEN end[at[k - 1]] ELSE at[k - 1]
  <2>1. FiniteNatInductiveDefHypothesis(at, 1, Def, 0, Len(s))
    BY Zenon DEF FiniteNatInductiveDefHypothesis
  <2>2. FiniteNatInductiveDefConclusion(at, 1, Def, 0, Len(s))
    <3>1. 0 \in Nat /\ Len(s) \in Nat
      BY <1>2
    <3> HIDE DEF at, s
    <3> QED
      BY <3>1, <2>1, FiniteNatInductiveDef, Zenon
  <2>3. at = [k \in 0 .. Len(s) |-> IF k = 0 THEN 1 ELSE Def(at[k - 1], k)]
    BY <2>2, Zenon DEF FiniteNatInductiveDefConclusion
  <2> HIDE DEF at
  <2>4. 0 \in 0 .. l /\ \A k \in 1 .. l : k \in 0 .. l /\ k # 0
    BY <1>2
  <2>5. at[0] = 1
    BY <2>3, <2>4, Zenon
  <2>6. \A k \in 1 .. l : at[k] = Def(at[k - 1], k)
    BY <2>3, <2>4, Zenon
  <2> QED
    BY <2>5, <2>6
<1> HIDE DEF at
<1>4. /\ \A k \in 0 .. n : Len(joined[k]) \in Nat
      /\ Len(joined[0]) = 0
      /\ \A k \in 1 .. n : /\ k - 1 \in 0 .. n /\ k \in 0 .. n
                           /\ Len(seqs[k]) \in Nat /\ Len(seqs[k]) >= 1 /\ seqs[k] \in Seq(E)
                           /\ Len(joined[k]) = Len(joined[k - 1]) + Len(seqs[k])
                           /\ Len(joined[k]) <= l
  <2>1. \A k \in 0 .. n : Len(joined[k]) \in Nat
    BY LenProperties
  <2>2. Len(joined[0]) = 0
    BY EmptySeq DEF Joins
  <2>3. ASSUME NEW k \in 1 .. n
        PROVE  /\ Len(seqs[k]) \in Nat /\ Len(seqs[k]) >= 1 /\ seqs[k] \in Seq(E)
               /\ k - 1 \in 0 .. n /\ k \in 0 .. n
    <3>1. seqs[k] \in Seq(E) /\ seqs[k] # <<>>
      BY ElementOfSeq
    <3>2. Len(seqs[k]) \in Nat \ {0}
      BY <3>1, EmptySeq
    <3> QED
      BY <1>2, <3>1, <3>2
  <2>4. \A k \in 1 .. n : Len(joined[k]) = Len(joined[k - 1]) + Len(seqs[k]) /\ Len(joined[k]) <= l
    BY JoinPlaces
  <2> QED
    BY <2>1, <2>2, <2>3, <2>4
<1>12. \A k \in 1 .. n : \A i \in 1 .. Len(seqs[k]) : s[Len(joined[k - 1]) + i] = seqs[k][i]
  <2> SUFFICES ASSUME NEW k \in 1 .. n
               PROVE  \A i \in 1 .. Len(seqs[k]) :
                        FlattenSeq(seqs)[Len(joined[k - 1]) + i] = seqs[k][i]
    OBVIOUS
  <2>1. k \in 1 .. Len(seqs)
    OBVIOUS
  <2> HIDE DEF n, s
  <2>2. /\ Len(joined[k]) = Len(joined[k - 1]) + Len(seqs[k])
        /\ Len(joined[k]) <= Len(FlattenSeq(seqs))
        /\ Placed(seqs, joined, k)
    BY <2>1, JoinPlaces
  <2> QED
    BY <2>2 DEF Placed
<1>13. ASSUME NEW k \in 1 .. n
       PROVE  /\ Len(joined[k - 1]) \in Nat /\ Len(joined[k]) \in Nat
              /\ Len(joined[k]) >= Len(joined[k - 1]) + 1 /\ Len(joined[k]) <= l
              /\ k - 1 \in 0 .. n /\ k \in 0 .. n
  <2>1. k - 1 \in 0 .. n /\ k \in 0 .. n
    BY <1>4
  <2>2. Len(joined[k - 1]) \in Nat /\ Len(joined[k]) \in Nat
    BY <1>4, <2>1
  <2>3. /\ Len(joined[k]) = Len(joined[k - 1]) + Len(seqs[k]) /\ Len(joined[k]) <= l
        /\ Len(seqs[k]) \in Nat /\ Len(seqs[k]) >= 1
    BY <1>4
  <2> DEFINE a == Len(joined[k - 1])
             b == Len(joined[k])
             c == Len(seqs[k])
  <2>4. a \in Nat /\ b \in Nat /\ b = a + c /\ b <= l /\ c \in Nat /\ c >= 1
    BY <2>2, <2>3
  <2> HIDE DEF a, b, c
  <2>5. b >= a + 1
    BY <2>4
  <2> QED
    BY <2>1, <2>4, <2>5 DEF a, b
<1> HIDE DEF s
<1>5. \A k \in 0 .. n : k <= Len(joined[k]) /\ (k <= l => at[k] = 1 + Len(joined[k]))
  <2> DEFINE S == {k \in 0 .. n : k <= Len(joined[k]) /\ (k <= l => at[k] = 1 + Len(joined[k]))}
  <2>1. 0 \in S
    <3>1. 0 \in 0 .. n
      BY <1>2
    <3>2. 0 <= Len(joined[0]) /\ at[0] = 1 + Len(joined[0])
      BY <1>3, <1>4
    <3> QED
      BY <3>1, <3>2
  <2>2. ASSUME NEW k \in 1 .. n, k - 1 \in S PROVE k \in S
    <3> DEFINE a == Len(joined[k - 1])
               b == Len(joined[k])
    <3>1. a \in Nat /\ b \in Nat /\ b >= a + 1 /\ b <= l /\ k \in 0 .. n
      BY <1>13
    <3>2. k - 1 <= a /\ (k - 1 <= l => at[k - 1] = 1 + a)
      BY <2>2
    <3>3. end[1 + a] = 1 + b
      OBVIOUS
    <3> HIDE DEF a, b
    <3>4. k <= b
      BY <3>1, <3>2
    <3>5. ASSUME k <= l PROVE at[k] = 1 + b
      <4>1. k - 1 <= l /\ k \in 1 .. l
        BY <3>5, <1>2
      <4>2. at[k - 1] = 1 + a /\ 1 + a \in DOMAIN s
        BY <3>1, <3>2, <4>1, <1>2
      <4> QED
        BY <1>3, <3>3, <4>1, <4>2
    <3> QED
      BY <3>1, <3>4, <3>5 DEF b
  <2> HIDE DEF S
  <2>3. \A k \in 0 .. n : k \in S
    BY <1>2, <2>1, <2>2, InductionUpTo
  <2> QED
    BY <2>3 DEF S
<1>6. n <= l /\ \A k \in 0 .. n : at[k] = 1 + Len(joined[k])
  <2>1. n \in 0 .. n /\ n <= Len(joined[n]) /\ Len(joined[n]) = l
    BY <1>2, <1>5
  <2>2. \A k \in 0 .. n : k <= l
    BY <1>2, <2>1
  <2> QED
    BY <1>5, <2>1, <2>2
<1>7. IsFirst(n, beyond) /\ n \in 0 .. l
  <2>1. at[n] = 1 + l /\ n \in 0 .. l
    BY <1>2, <1>6
  <2>2. n \in beyond
    BY <1>2, <2>1
  <2>3. ASSUME NEW k \in beyond PROVE n <= k
    <3>1. SUFFICES ASSUME k < n PROVE FALSE
      BY <1>2
    <3>2. k + 1 \in 1 .. n /\ k + 1 - 1 = k /\ k \in 0 .. n
      BY <1>2, <3>1
    <3>3. at[k] = 1 + Len(joined[k])
      BY <1>6, <3>2
    <3>4. /\ Len(joined[k + 1 - 1]) \in Nat /\ Len(joined[k + 1]) \in Nat
          /\ Len(joined[k + 1]) >= Len(joined[k + 1 - 1]) + 1 /\ Len(joined[k + 1]) <= l
      BY <1>13, <3>2
    <3>5. Len(joined[k]) \in Nat /\ Len(joined[k]) + 1 <= l
      BY <1>2, <3>2, <3>4
    <3> QED
      BY <1>2, <3>3, <3>5
  <2> QED
    BY <2>1, <2>2, <2>3 DEF IsFirst
<1>8. count = n
  <2>1. IsFirst(count, beyond) /\ count \in 0 .. l
    BY <1>7
  <2>2. count <= n /\ n <= count
    BY <1>7, <2>1 DEF IsFirst
  <2> QED
    BY <1>2, <2>1, <2>2
<1> HIDE DEF count, beyond
<1>9. ASSUME NEW k \in 1 .. n
      PROVE  SubSeq(s, at[k - 1], at[k] - 1) = seqs[k]
  <2> DEFINE a == Len(joined[k - 1])
             b == Len(joined[k])
             m == a + 1
             t == SubSeq(s, m, b)
  <2>1. /\ a \in Nat /\ b \in Nat /\ b = a + Len(seqs[k]) /\ b <= l
        /\ Len(seqs[k]) \in Nat /\ Len(seqs[k]) >= 1 /\ seqs[k] \in Seq(E)
        /\ \A i \in 1 .. Len(seqs[k]) : s[a + i] = seqs[k][i]
    BY <1>4, <1>12
  <2>2. at[k - 1] = 1 + a /\ at[k] = 1 + b
    BY <1>4, <1>6
  <2> HIDE DEF a, b
  <2>3. at[k - 1] = m /\ at[k] - 1 = b
    BY <2>1, <2>2
  <2>4. m \in Int /\ \A i \in m .. b : s[i] \in E
    <3>1. \A i \in m .. b : i \in 1 .. l
      BY <1>2, <2>1
    <3> QED
      BY <1>2, <2>1, <3>1, ElementOfSeq
  <2>5. /\ t \in Seq(E) /\ Len(t) = IF m <= b THEN b - m + 1 ELSE 0
        /\ \A i \in 1 .. b - m + 1 : t[i] = s[m + i - 1]
    <3>1. m \in Int /\ b \in Int /\ \A i \in m .. b : s[i] \in E
      BY <2>1, <2>4
    <3> HIDE DEF m
    <3> QED
      BY <3>1, SubSeqProperties
  <2>6. b - m + 1 = Len(seqs[k]) /\ m <= b
    <3>1. /\ a \in Nat /\ b \in Nat /\ b = a + Len(seqs[k])
          /\ Len(seqs[k]) \in Nat /\ Len(seqs[k]) >= 1
      BY <2>1
    <3> QED
      BY <3>1
  <2>7. \A i \in 1 .. Len(seqs[k]) : m + i - 1 = a + i
    BY <2>1
  <2> HIDE DEF t
  <2>8. Len(t) = Len(seqs[k]) /\ \A i \in 1 .. Len(t) : t[i] = seqs[k][i]
    BY <2>1, <2>5, <2>6, <2>7
  <2>9. t = seqs[k]
    BY <2>1, <2>5, <2>8, SeqEqual
  <2> QED
    BY <2>3, <2>9 DEF t
<1>10. Split(s, end) = [k \in 1 .. n |-> seqs[k]]
  BY <1>1, <1>8, <1>9
<1>11. [k \in 1 .. n |-> seqs[k]] = seqs
  BY LenProperties
<1> QED
  BY <1>10, <1>11 DEF s

-----------------------------------------------------------------------------
(* A descriptor, and where it ends.                                        *)

Glyph == Letter \cup Primitive \cup {"L", ";", "[", "/"}
IsEnd(c) == c = ";"
IsStart(c) == c = "L"
IsBracket(c) == c = "["
IsPrimitive(c) == c \in Primitive

LEMMA GlyphsDiffer ==
  /\ \A c : IsPrimitive(c) => ~IsStart(c) /\ ~IsBracket(c) /\ c \in Glyph
  /\ \A c : IsStart(c) => ~IsEnd(c) /\ ~IsBracket(c) /\ c \in Glyph
  /\ \A c \in Letter : ~IsEnd(c) /\ c \in Glyph
  /\ \A c : IsEnd(c) => c \in Glyph
  /\ "/" \in Glyph /\ ~IsEnd("/") /\ "[" \in Glyph /\ IsBracket("[") /\ IsEnd(";") /\ IsStart("L")
<1>1. ";" \notin Letter
  BY MessagesAssumption
<1> QED
  BY <1>1 DEF Glyph, IsEnd, IsStart, IsBracket, IsPrimitive, Primitive

(* The element of a type: one character, or an L, a name and a semicolon.  *)
ElementText(type) ==
  IF Element(type)[1] = "object" THEN <<"L">> \o Slashed(Element(type)[2]) \o <<";">>
  ELSE Element(type)
IsElement(e) ==
  /\ e \in Seq(Glyph) /\ Len(e) \in Nat /\ Len(e) >= 1
  /\ \/ Len(e) = 1 /\ IsPrimitive(e[1])
     \/ /\ Len(e) >= 2 /\ IsStart(e[1]) /\ IsEnd(e[Len(e)])
        /\ \A j \in 1 .. Len(e) - 1 : ~IsEnd(e[j])

\* One element before and one after.
LEMMA Enclosed ==
  ASSUME NEW E, NEW a \in E, NEW b \in E, NEW s \in Seq(E)
  PROVE  /\ <<a>> \o s \o <<b>> \in Seq(E) /\ Len(<<a>> \o s \o <<b>>) = Len(s) + 2
         /\ (<<a>> \o s \o <<b>>)[1] = a /\ (<<a>> \o s \o <<b>>)[Len(s) + 2] = b
         /\ \A i \in 1 .. Len(s) : (<<a>> \o s \o <<b>>)[i + 1] = s[i]
  OBVIOUS

LEMMA ElementIs ==
  ASSUME NEW type \in Type
  PROVE  IsElement(ElementText(type))
<1>1. \/ type[2] \in {<<c>> : c \in Primitive}
      \/ type[2][1] = "object" /\ type[2][2] \in Seq(Letter)
  BY MessagesAssumption
<1>2. CASE type[2] \in {<<c>> : c \in Primitive}
  <2>1. PICK c \in Primitive : type[2] = <<c>>
    BY <1>2
  <2>2. c # "object" /\ IsPrimitive(c)
    BY DEF Primitive, IsPrimitive
  <2>3. ElementText(type) = <<c>>
    BY <2>1, <2>2 DEF ElementText, Element
  <2>4. c \in Glyph
    BY <2>2, GlyphsDiffer
  <2> QED
    BY <2>2, <2>3, <2>4 DEF IsElement
<1>3. CASE type[2][1] = "object" /\ type[2][2] \in Seq(Letter)
  <2> DEFINE name == type[2][2]
             slashed == Slashed(name)
             n == Len(name)
             e == <<"L">> \o slashed \o <<";">>
  <2>1. ElementText(type) = e
    BY <1>3 DEF ElementText, Element
  <2>2. name \in Seq(Letter)
    BY <1>3
  <2> HIDE DEF name
  <2>3. n \in Nat /\ DOMAIN name = 1 .. n /\ \A i \in 1 .. n : name[i] \in Letter
    BY <2>2, LenProperties, ElementOfSeq
  <2>4. slashed = [i \in 1 .. n |-> IF name[i] = "." THEN "/" ELSE name[i]]
    BY <2>3 DEF Slashed
  <2>5. \A i \in 1 .. n : slashed[i] \in {"/"} \cup Letter
    BY <2>3, <2>4
  <2>6. DOMAIN slashed = 1 .. n /\ slashed = [i \in 1 .. n |-> slashed[i]]
    BY <2>4
  <2> HIDE DEF slashed, n
  <2>7. \A i \in 1 .. n : slashed[i] \in Glyph /\ ~IsEnd(slashed[i])
    BY <2>5, GlyphsDiffer
  <2>8. slashed \in Seq(Glyph) /\ Len(slashed) = n
    BY <2>3, <2>6, <2>7
  <2>9. /\ "L" \in Glyph /\ ";" \in Glyph /\ IsStart("L") /\ IsEnd(";") /\ ~IsEnd("L")
    BY GlyphsDiffer
  <2>10. \E a, b \in Glyph : e = <<a>> \o slashed \o <<b>> /\ IsStart(a) /\ IsEnd(b) /\ ~IsEnd(a)
    BY <2>9, Zenon
  <2>11. PICK a \in Glyph, b \in Glyph :
           e = <<a>> \o slashed \o <<b>> /\ IsStart(a) /\ IsEnd(b) /\ ~IsEnd(a)
    BY <2>10
  <2> HIDE DEF e
  <2>12. /\ e \in Seq(Glyph) /\ Len(e) = n + 2 /\ e[1] = a /\ e[n + 2] = b
         /\ \A i \in 1 .. n : e[i + 1] = slashed[i]
    BY <2>8, <2>11, Enclosed
  <2>13. \A j \in 1 .. n + 1 : ~IsEnd(e[j])
    <3> SUFFICES ASSUME NEW j \in 1 .. n + 1, j # 1 PROVE ~IsEnd(e[j])
      BY <2>11, <2>12
    <3>1. j - 1 \in 1 .. n /\ j - 1 + 1 = j
      BY <2>3
    <3> QED
      BY <2>7, <2>12, <3>1
  <2>14. Len(e) >= 2 /\ Len(e) \in Nat /\ Len(e) >= 1 /\ Len(e) - 1 = n + 1
    BY <2>3, <2>12
  <2> QED
    BY <2>1, <2>11, <2>12, <2>13, <2>14 DEF IsElement
<1> QED
  BY <1>1, <1>2, <1>3

(* A descriptor that is no array of arrays, at its place i in a text.      *)
IsAt(d, s, i) == i + Len(d) <= Len(s) + 1 /\ \A j \in 1 .. Len(d) : s[i - 1 + j] = d[j]

LEMMA AfterObjectIs ==
  ASSUME NEW s \in Seq(Glyph), NEW p \in 1 .. Len(s), NEW q \in p .. Len(s),
         IsEnd(s[q]), \A j \in p .. q - 1 : ~IsEnd(s[j])
  PROVE  AfterObject(s, p) = q + 1
<1> DEFINE ends == {j \in p .. Len(s) : IsEnd(s[j])}
           first == CHOOSE j \in ends : IsFirst(j, ends)
<1>1. Len(s) \in Nat /\ p \in Nat /\ q \in Nat
  BY LenProperties
<1>2. q \in ends
  OBVIOUS
<1>3. \A j \in ends : j \in Nat /\ q <= j
  BY <1>1
<1>4. IsFirst(q, ends)
  BY <1>2, <1>3 DEF IsFirst
<1>5. first \in ends /\ IsFirst(first, ends)
  BY <1>2, <1>4, Zenon
<1>6. AfterObject(s, p) = IF ends = {} THEN 0 ELSE 1 + first
  BY Zenon DEF AfterObject, IsEnd
<1> HIDE DEF ends, first
<1>7. first = q
  BY <1>1, <1>2, <1>3, <1>5 DEF IsFirst
<1> QED
  BY <1>1, <1>2, <1>6, <1>7

LEMMA DescriptorIs ==
  ASSUME NEW type \in Type, Dimensions(type) <= 1
  PROVE  /\ Descriptor(type) \in Seq(Glyph)
         /\ Len(Descriptor(type)) = Dimensions(type) + Len(ElementText(type))
         /\ Dimensions(type) \in {0, 1}
         /\ Dimensions(type) = 1 => IsBracket(Descriptor(type)[1])
         /\ \A j \in 1 .. Len(ElementText(type)) :
              Descriptor(type)[Dimensions(type) + j] = ElementText(type)[j]
<1> DEFINE n == Dimensions(type)
           e == ElementText(type)
           b == [i \in 1 .. n |-> "["]
           d == b \o e
<1>1. Descriptor(type) = d
  BY DEF Descriptor, ElementText
<1>2. n \in Nat
  BY MessagesAssumption DEF Dimensions
<1>3. n \in {0, 1}
  BY <1>2
<1>4. IsElement(e)
  BY ElementIs
<1> HIDE DEF e, n
<1>5. e \in Seq(Glyph) /\ Len(e) \in Nat /\ Len(e) >= 1
  BY <1>4 DEF IsElement
<1>6. DOMAIN b = 1 .. n /\ b = [i \in 1 .. n |-> b[i]] /\ \A i \in 1 .. n : b[i] = "["
  BY Zenon
<1>7. \A i \in 1 .. n : IsBracket(b[i]) /\ b[i] \in Glyph
  BY <1>6, GlyphsDiffer
<1> HIDE DEF b
<1>8. b \in Seq(Glyph) /\ Len(b) = n
  BY <1>2, <1>6, <1>7
<1>9. /\ d \in Seq(Glyph) /\ Len(d) = n + Len(e)
      /\ \A i \in 1 .. n + Len(e) : d[i] = IF i <= n THEN b[i] ELSE e[i - n]
  BY <1>5, <1>8, ConcatProperties
<1> HIDE DEF d
<1>10. n = 1 => IsBracket(d[1])
  BY <1>5, <1>7, <1>9
<1>11. ASSUME NEW j \in 1 .. Len(e) PROVE d[n + j] = e[j]
  <2>1. PICK k \in Int : k = n + j
    BY <1>2, <1>5
  <2>2. k \in 1 .. n + Len(e) /\ ~(k <= n) /\ k - n = j
    BY <1>2, <1>5, <2>1
  <2>3. d[k] = e[k - n]
    BY <1>9, <2>2
  <2> QED
    BY <2>1, <2>2, <2>3
<1> QED
  BY <1>1, <1>3, <1>9, <1>10, <1>11 DEF n, e

LEMMA EndsAre ==
  ASSUME NEW s, NEW i
  PROVE  /\ ParameterEnd(s, i) =
              LET j == IF IsBracket(s[i]) THEN i + 1 ELSE i
              IN IF j > Len(s) THEN j
                 ELSE IF ~IsStart(s[j]) THEN j + 1
                 ELSE IF AfterObject(s, j) = 0 THEN Len(s) + 1 ELSE AfterObject(s, j)
         /\ TypeEnd(s, i) =
              LET rest == {j \in i .. Len(s) : ~IsBracket(s[j])}
                  j == CHOOSE first \in rest : IsFirst(first, rest)
              IN IF rest = {} THEN 0
                 ELSE IF IsPrimitive(s[j]) THEN j + 1
                 ELSE IF IsStart(s[j]) THEN AfterObject(s, j) ELSE 0
  BY Zenon DEF ParameterEnd, TypeEnd, IsBracket, IsStart, IsPrimitive

LEMMA EndsAfter ==
  ASSUME NEW type \in Type, Dimensions(type) <= 1, NEW s \in Seq(Glyph), NEW i \in 1 .. Len(s),
         IsAt(Descriptor(type), s, i)
  PROVE  /\ ParameterEnd(s, i) = i + Len(Descriptor(type))
         /\ TypeEnd(s, i) = i + Len(Descriptor(type))
<1> DEFINE n == Dimensions(type)
           e == ElementText(type)
           d == Descriptor(type)
           p == i + n
           q == p + Len(e) - 1
<1>1. /\ d \in Seq(Glyph) /\ Len(d) = n + Len(e) /\ n \in {0, 1}
      /\ n = 1 => IsBracket(d[1])
      /\ \A j \in 1 .. Len(e) : d[n + j] = e[j]
  BY DescriptorIs
<1>2. IsElement(e)
  BY ElementIs
<1>3. i + Len(d) <= Len(s) + 1 /\ \A j \in 1 .. Len(d) : s[i - 1 + j] = d[j]
  BY DEF IsAt
<1> HIDE DEF e, d, n
<1>4. Len(e) \in Nat /\ Len(e) >= 1
  BY <1>2 DEF IsElement
<1>4a. Len(s) \in Nat /\ i \in Nat /\ i >= 1
  BY LenProperties
<1>5. p \in 1 .. Len(s) /\ q \in p .. Len(s) /\ q + 1 = i + Len(d)
  <2> DEFINE ld == Len(d)
             le == Len(e)
             ls == Len(s)
  <2>1. /\ ld = n + le /\ n \in {0, 1} /\ i + ld <= ls + 1 /\ le \in Nat /\ le >= 1
        /\ ls \in Nat /\ i \in Nat /\ i >= 1
    BY <1>1, <1>3, <1>4, <1>4a
  <2> HIDE DEF ld, le, ls
  <2>2. i + n \in 1 .. ls /\ i + n + le - 1 \in i + n .. ls /\ i + n + le - 1 + 1 = i + ld
    BY <2>1
  <2> QED
    BY <2>2 DEF ld, le, ls
<1>6. \A j \in 1 .. Len(e) : s[p + j - 1] = e[j]
  <2> SUFFICES ASSUME NEW j \in 1 .. Len(e) PROVE s[p + j - 1] = e[j]
    OBVIOUS
  <2>1. n + j \in 1 .. Len(d) /\ i - 1 + (n + j) = p + j - 1
    BY <1>1, <1>4, <1>4a
  <2>2. s[i - 1 + (n + j)] = d[n + j]
    BY <1>3, <2>1
  <2> QED
    BY <1>1, <2>1, <2>2
<1>7. n = 1 => IsBracket(s[i])
  <2>1. n = 1 => 1 \in 1 .. Len(d) /\ i - 1 + 1 = i
    BY <1>1, <1>4, <1>4a
  <2> QED
    BY <1>1, <1>3, <2>1
<1>8. s[p] = e[1] /\ s[q] = e[Len(e)]
  <2>1. 1 \in 1 .. Len(e) /\ p + 1 - 1 = p /\ Len(e) \in 1 .. Len(e) /\ p + Len(e) - 1 = q
    BY <1>4, <1>4a, <1>1
  <2>2. s[p + 1 - 1] = e[1] /\ s[p + Len(e) - 1] = e[Len(e)]
    BY <1>6, <2>1
  <2> QED
    BY <2>1, <2>2
<1>9. ~IsBracket(e[1])
  BY <1>2, GlyphsDiffer DEF IsElement
<1>10. IF IsBracket(s[i]) THEN i + 1 = p ELSE i = p
  BY <1>1, <1>4a, <1>7, <1>8, <1>9
<1>11. ParameterEnd(s, i) =
         IF ~IsStart(s[p]) THEN p + 1
         ELSE IF AfterObject(s, p) = 0 THEN Len(s) + 1 ELSE AfterObject(s, p)
  <2>1. ~(p > Len(s)) /\ p = IF IsBracket(s[i]) THEN i + 1 ELSE i
    BY <1>4, <1>4a, <1>5, <1>10
  <2> HIDE DEF p
  <2> QED
    BY <2>1, EndsAre
<1>12. TypeEnd(s, i) =
         IF IsPrimitive(s[p]) THEN p + 1 ELSE IF IsStart(s[p]) THEN AfterObject(s, p) ELSE 0
  <2> DEFINE rest == {j \in i .. Len(s) : ~IsBracket(s[j])}
             j == CHOOSE first \in rest : IsFirst(first, rest)
  <2>1. p \in rest /\ \A k \in rest : k \in Nat /\ p <= k
    <3>1. p \in rest
      BY <1>1, <1>4a, <1>5, <1>8, <1>9
    <3>2. ASSUME NEW k \in rest PROVE k \in Nat /\ p <= k
      <4>1. k \in Nat /\ i <= k /\ ~IsBracket(s[k])
        BY <1>4a
      <4> QED
        BY <1>1, <1>4a, <1>7, <4>1
    <3> QED
      BY <3>1, <3>2
  <2>2. IsFirst(p, rest)
    BY <2>1 DEF IsFirst
  <2>3. j \in rest /\ IsFirst(j, rest)
    BY <2>2, <2>1, Zenon
  <2>4. TypeEnd(s, i) = IF rest = {} THEN 0 ELSE IF IsPrimitive(s[j]) THEN j + 1
                        ELSE IF IsStart(s[j]) THEN AfterObject(s, j) ELSE 0
    BY EndsAre, Zenon
  <2> HIDE DEF rest, j
  <2>5. j = p
    BY <2>1, <2>3, <1>5 DEF IsFirst
  <2> QED
    BY <2>1, <2>4, <2>5
<1>13. CASE Len(e) = 1 /\ IsPrimitive(e[1])
  <2>0. p + 1 = i + Len(d)
    BY <1>13, <1>1, <1>4a
  <2>1. IsPrimitive(s[p]) /\ ~IsStart(s[p]) /\ p + 1 = i + Len(d)
    BY <1>13, <1>8, <2>0, GlyphsDiffer
  <2> QED
    BY <2>1, <1>11, <1>12 DEF d
<1>14. CASE /\ Len(e) >= 2 /\ IsStart(e[1]) /\ IsEnd(e[Len(e)])
            /\ \A j \in 1 .. Len(e) - 1 : ~IsEnd(e[j])
  <2>1. \A j \in p .. q - 1 : ~IsEnd(s[j])
    <3> SUFFICES ASSUME NEW j \in p .. q - 1 PROVE ~IsEnd(s[j])
      OBVIOUS
    <3> DEFINE m == j - p + 1
    <3>1. m \in 1 .. Len(e) /\ m \in 1 .. Len(e) - 1 /\ p + m - 1 = j
      BY <1>4, <1>5, <1>4a, <1>1
    <3>2. s[p + m - 1] = e[m] /\ ~IsEnd(e[m])
      BY <3>1, <1>6, <1>14
    <3> QED
      BY <3>1, <3>2
  <2>2. AfterObject(s, p) = q + 1
    <3>1. IsEnd(s[q])
      BY <1>8, <1>14
    <3> HIDE DEF p, q
    <3> QED
      BY <1>5, <3>1, <2>1, AfterObjectIs
  <2>3. q + 1 # 0 /\ IsStart(s[p]) /\ ~IsPrimitive(s[p])
    <3>1. q + 1 # 0
      BY <1>4, <1>4a, <1>1
    <3> QED
      BY <3>1, <1>8, <1>14, GlyphsDiffer
  <2> HIDE DEF p, q
  <2> QED
    BY <2>2, <2>3, <1>5, <1>11, <1>12 DEF d
<1> QED
  BY <1>2, <1>13, <1>14 DEF IsElement

-----------------------------------------------------------------------------
(* Lists at known places.                                                  *)

(* Lists of one length, joined, are found at multiples of it.              *)
Even(seqs, n, w) == \A k \in 1 .. n : Len(seqs[k]) = w
EvenlyPlaced(joined, n, w) == \A k \in 0 .. n : Len(joined[k]) = w * k

LEMMA EvenlyJoined ==
  ASSUME NEW E, NEW seqs \in Seq(Seq(E)), NEW joined \in [0 .. Len(seqs) -> Seq(E)],
         Joins(joined, seqs), NEW w \in Nat, NEW n \in 0 .. Len(seqs),
         Even(seqs, n, w)
  PROVE  EvenlyPlaced(joined, n, w)
<1> DEFINE S == {k \in 0 .. n : Len(joined[k]) = w * k}
<1>1. n \in Nat /\ Len(seqs) \in Nat /\ n <= Len(seqs)
  BY LenProperties
<1>2. 0 \in S
  BY <1>1, EmptySeq DEF Joins
<1>3. ASSUME NEW k \in 1 .. n, k - 1 \in S PROVE k \in S
  <2>1. k \in 1 .. Len(seqs) /\ k \in 0 .. n
    BY <1>1
  <2>2. Len(joined[k]) = Len(joined[k - 1]) + w
    BY <2>1, JoinPlaces DEF Even
  <2>3. Len(joined[k - 1]) = w * (k - 1)
    BY <1>3
  <2>4. w * (k - 1) + w = w * k
    BY <1>1
  <2> QED
    BY <2>1, <2>2, <2>3, <2>4
<1> HIDE DEF S
<1>4. \A k \in 0 .. n : k \in S
  BY <1>1, <1>2, <1>3, InductionUpTo
<1> QED
  BY <1>4 DEF S, EvenlyPlaced

LEMMA SinglesJoined ==
  ASSUME NEW E, NEW seqs \in Seq(Seq(E)), \A k \in 1 .. Len(seqs) : Len(seqs[k]) = 1
  PROVE  /\ FlattenSeq(seqs) \in Seq(E) /\ Len(FlattenSeq(seqs)) = Len(seqs)
         /\ \A k \in 1 .. Len(seqs) : FlattenSeq(seqs)[k] = seqs[k][1]
<1> DEFINE n == Len(seqs)
<1>1. PICK joined \in [0 .. Len(seqs) -> Seq(E)] : Joins(joined, seqs)
  BY JoinSteps
<1>2. n \in Nat /\ n \in 0 .. n
  BY LenProperties
<1>3. \A k \in 0 .. n : Len(joined[k]) = 1 * k
  <2>1. PICK w \in Nat : w = 1
    OBVIOUS
  <2>2. n \in 0 .. Len(seqs) /\ Even(seqs, n, w)
    BY <1>2, <2>1 DEF Even
  <2> HIDE DEF n
  <2>3. EvenlyPlaced(joined, n, w)
    BY <1>1, <2>1, <2>2, EvenlyJoined
  <2> QED
    BY <2>1, <2>3 DEF EvenlyPlaced
<1>4. FlattenSeq(seqs) = joined[n]
  BY <1>1 DEF Joins
<1>5. ASSUME NEW k \in 1 .. Len(seqs) PROVE FlattenSeq(seqs)[k] = seqs[k][1]
  <2>1. Placed(seqs, joined, k)
    BY <1>1, JoinPlaces
  <2>2. k - 1 \in 0 .. n /\ 1 \in 1 .. Len(seqs[k])
    <3>1. k - 1 \in 0 .. n
      BY <1>2
    <3>2. Len(seqs[k]) = 1
      OBVIOUS
    <3> QED
      BY <3>1, <3>2
  <2>3. Len(joined[k - 1]) + 1 = k
    BY <1>2, <1>3, <2>2
  <2> QED
    BY <2>1, <2>2, <2>3 DEF Placed
<1>6. FlattenSeq(seqs) \in Seq(E) /\ Len(FlattenSeq(seqs)) = n
  <2>1. Len(joined[n]) = 1 * n /\ joined[n] \in Seq(E)
    BY <1>1, <1>2, <1>3
  <2> QED
    BY <1>2, <1>4, <2>1
<1> QED
  BY <1>5, <1>6

LEMMA PairsJoined ==
  ASSUME NEW E, NEW seqs \in Seq(Seq(E)), \A k \in 1 .. Len(seqs) : Len(seqs[k]) = 2
  PROVE  /\ FlattenSeq(seqs) \in Seq(E) /\ Len(FlattenSeq(seqs)) = 2 * Len(seqs)
         /\ \A k \in 1 .. Len(seqs) : /\ FlattenSeq(seqs)[2 * k - 1] = seqs[k][1]
                                      /\ FlattenSeq(seqs)[2 * k] = seqs[k][2]
<1> DEFINE n == Len(seqs)
<1>1. PICK joined \in [0 .. Len(seqs) -> Seq(E)] : Joins(joined, seqs)
  BY JoinSteps
<1>2. n \in Nat /\ n \in 0 .. n
  BY LenProperties
<1>3. \A k \in 0 .. n : Len(joined[k]) = 2 * k
  <2>1. PICK w \in Nat : w = 2
    OBVIOUS
  <2>2. n \in 0 .. Len(seqs) /\ Even(seqs, n, w)
    BY <1>2, <2>1 DEF Even
  <2> HIDE DEF n
  <2>3. EvenlyPlaced(joined, n, w)
    BY <1>1, <2>1, <2>2, EvenlyJoined
  <2> QED
    BY <2>1, <2>3 DEF EvenlyPlaced
<1>4. FlattenSeq(seqs) = joined[n]
  BY <1>1 DEF Joins
<1>5. ASSUME NEW k \in 1 .. Len(seqs)
      PROVE  FlattenSeq(seqs)[2 * k - 1] = seqs[k][1] /\ FlattenSeq(seqs)[2 * k] = seqs[k][2]
  <2>1. Placed(seqs, joined, k)
    BY <1>1, JoinPlaces
  <2>2. k - 1 \in 0 .. n /\ 1 \in 1 .. Len(seqs[k]) /\ 2 \in 1 .. Len(seqs[k])
    <3>1. k - 1 \in 0 .. n
      BY <1>2
    <3>2. Len(seqs[k]) = 2
      OBVIOUS
    <3> QED
      BY <3>1, <3>2
  <2>3. Len(joined[k - 1]) + 1 = 2 * k - 1 /\ Len(joined[k - 1]) + 2 = 2 * k
    <3>1. Len(joined[k - 1]) = 2 * (k - 1) /\ k \in Int
      BY <1>3, <2>2
    <3> QED
      BY <3>1
  <2> QED
    BY <2>1, <2>2, <2>3 DEF Placed
<1> QED
  BY <1>2, <1>3, <1>4, <1>5

(* The types of a call, each found where it is, are told apart again.      *)
LEMMA TypesAreRead ==
  ASSUME NEW types \in Seq(Type), Flat(types)
  PROVE  LET descriptors == [i \in DOMAIN types |-> Descriptor(types[i])]
         IN /\ ParseParameters(FlattenSeq(descriptors)) = descriptors
            /\ ParseArguments(FlattenSeq(descriptors)) = descriptors
<1> DEFINE n == Len(types)
           seqs == [i \in 1 .. n |-> Descriptor(types[i])]
           s == FlattenSeq(seqs)
           param == [i \in DOMAIN s |-> ParameterEnd(s, i)]
           arg == [i \in DOMAIN s |-> TypeEnd(s, i)]
<1>1. n \in Nat /\ DOMAIN types = 1 .. n
  BY LenProperties
<1>2. ASSUME NEW k \in 1 .. n
      PROVE  /\ types[k] \in Type /\ Dimensions(types[k]) <= 1
             /\ seqs[k] = Descriptor(types[k])
             /\ seqs[k] \in Seq(Glyph) /\ Len(seqs[k]) \in Nat /\ Len(seqs[k]) >= 1
  <2>1. types[k] \in Type /\ Dimensions(types[k]) <= 1
    BY <1>1, ElementOfSeq DEF Flat
  <2> DEFINE d == Descriptor(types[k])
             e == ElementText(types[k])
  <2>2. d \in Seq(Glyph) /\ Len(d) = Dimensions(types[k]) + Len(e) /\ Dimensions(types[k]) \in {0, 1}
    BY <2>1, DescriptorIs
  <2>3. Len(e) \in Nat /\ Len(e) >= 1
    BY <2>1, ElementIs DEF IsElement
  <2>4. Len(d) \in Nat /\ Len(d) >= 1
    BY <2>2, <2>3
  <2> QED
    BY <2>1, <2>2, <2>4
<1> HIDE DEF n
<1>3. seqs \in Seq(Seq(Glyph)) /\ Len(seqs) = n
  <2>1. seqs \in [1 .. n -> Seq(Glyph)]
    BY <1>2
  <2> HIDE DEF seqs
  <2> QED
    BY <1>1, <2>1
<1>4. [i \in DOMAIN types |-> Descriptor(types[i])] = seqs
  BY <1>1
<1> HIDE DEF seqs
<1>5. PICK joined \in [0 .. Len(seqs) -> Seq(Glyph)] : Joins(joined, seqs)
  BY <1>3, JoinSteps
<1>6. \A k \in 1 .. Len(seqs) : seqs[k] # <<>>
  <2> SUFFICES ASSUME NEW k \in 1 .. Len(seqs), seqs[k] = <<>> PROVE FALSE
    OBVIOUS
  <2>1. seqs[k] \in Seq(Glyph) /\ Len(seqs[k]) >= 1
    BY <1>2, <1>3
  <2> QED
    BY <2>1, EmptySeq
<1>7. s \in Seq(Glyph) /\ Len(s) \in Nat /\ DOMAIN s = 1 .. Len(s)
  <2>1. s = joined[Len(seqs)] /\ Len(seqs) \in 0 .. Len(seqs)
    BY <1>1, <1>3, <1>5 DEF Joins
  <2>2. s \in Seq(Glyph)
    BY <2>1
  <2> QED
    BY <2>2, LenProperties
<1>8. ASSUME NEW k \in 1 .. Len(seqs)
      PROVE  /\ param[1 + Len(joined[k - 1])] = 1 + Len(joined[k])
             /\ arg[1 + Len(joined[k - 1])] = 1 + Len(joined[k])
  <2>1. /\ Len(joined[k]) = Len(joined[k - 1]) + Len(seqs[k])
        /\ Len(joined[k]) <= Len(s)
        /\ \A i \in 1 .. Len(seqs[k]) : s[Len(joined[k - 1]) + i] = seqs[k][i]
    <3>1. /\ Len(joined[k]) = Len(joined[k - 1]) + Len(seqs[k])
          /\ Len(joined[k]) <= Len(s)
          /\ Placed(seqs, joined, k)
      BY <1>3, <1>5, JoinPlaces
    <3> QED
      BY <3>1 DEF Placed
  <2>2. Len(joined[k - 1]) \in Nat
    <3>1. joined[k - 1] \in Seq(Glyph)
      BY <1>1, <1>3, <1>5
    <3> QED
      BY <3>1, LenProperties
  <2>3. /\ types[k] \in Type /\ Dimensions(types[k]) <= 1
        /\ seqs[k] = Descriptor(types[k]) /\ Len(seqs[k]) \in Nat /\ Len(seqs[k]) >= 1
    BY <1>2, <1>3
  <2> DEFINE a == Len(joined[k - 1])
             b == Len(joined[k])
             l == Len(seqs[k])
             i == 1 + a
  <2>4. a \in Nat /\ l \in Nat /\ l >= 1 /\ b = a + l /\ b <= Len(s)
    BY <2>1, <2>2, <2>3
  <2>5. \A j \in 1 .. l : s[i - 1 + j] = seqs[k][j]
    <3> SUFFICES ASSUME NEW j \in 1 .. l PROVE s[i - 1 + j] = seqs[k][j]
      OBVIOUS
    <3>1. i - 1 + j = a + j
      BY <2>4
    <3> QED
      BY <2>1, <3>1
  <2> HIDE DEF a, b, l
  <2>6. i \in 1 .. Len(s) /\ i + l <= Len(s) + 1 /\ i + l = 1 + b
    BY <1>7, <2>4
  <2> HIDE DEF i
  <2>7. IsAt(Descriptor(types[k]), s, i)
    BY <2>3, <2>5, <2>6 DEF IsAt, l
  <2>8. ParameterEnd(s, i) = i + l /\ TypeEnd(s, i) = i + l
    <3> HIDE DEF s
    <3> QED
      BY <1>7, <2>3, <2>6, <2>7, EndsAfter DEF l
  <2>9. param[i] = 1 + b /\ arg[i] = 1 + b
    BY <1>7, <2>6, <2>8
  <2> QED
    BY <2>9 DEF i, a, b
<1> HIDE DEF param, arg
<1>9. Split(s, param) = seqs /\ Split(s, arg) = seqs
  BY <1>3, <1>5, <1>6, <1>8, SplitJoined
<1>10. ParseParameters(s) = seqs /\ ParseArguments(s) = seqs
  BY <1>9 DEF ParseParameters, ParseArguments, param, arg
<1> QED
  BY <1>4, <1>10

-----------------------------------------------------------------------------
(* The items of a body, and the body of a request.                         *)

IsStr(x) == x.op = "string"
IsLst(x) == x.op = "list"
IsBin(x) == x.op = "binary"
IsMap(x) == x.op = "map"
IsFin(x) == x.op = "end"
IsInt(x) == x.op = "int"

LEMMA ItemsDiffer ==
  /\ \A x : IsStr(Item("string", x)) /\ Item("string", x).arg = x
  /\ \A x : IsLst(Item("list", x)) /\ Item("list", x).arg = x
  /\ \A x : IsBin(Item("binary", x)) /\ Item("binary", x).arg = x
  /\ \A x : IsMap(Item("map", x)) /\ IsFin(Item("end", x))
  /\ \A x : IsInt(Item("int", x)) /\ Item("int", x).arg = x
  /\ ~IsBin(Stray) /\ ~IsMap(Stray)
  /\ \A x : ~IsStr(Item("null", x)) /\ ~IsBin(Item("null", x))
  BY DEF IsStr, IsLst, IsBin, IsMap, IsFin, IsInt, Item, Stray

LEMMA AllAreIs ==
  ASSUME NEW body, NEW from, NEW to, NEW op, op # "nothing"
  PROVE  AllAre(body, from, to, op) <=> \A i \in from .. to : i <= Len(body) /\ body[i].op = op
<1> DEFINE ops == [i \in from .. to |-> IF i <= Len(body) THEN body[i].op ELSE "nothing"]
<1>1. AllAre(body, from, to, op) <=> \A i \in from .. to : ops[i] = op
  BY Zenon DEF AllAre, Ops, Range
<1>2. \A i \in from .. to : ops[i] = op <=> i <= Len(body) /\ body[i].op = op
  BY Zenon
<1> HIDE DEF ops
<1> QED
  BY <1>1, <1>2

LEMMA DecodesIs ==
  ASSUME NEW body
  PROVE  Decodes(body) <=>
           /\ \A i \in 1 .. 5 : i <= Len(body) /\ IsStr(body[i])
           /\ \A i \in 6 .. 6 : i <= Len(body) /\ IsLst(body[i])
           /\ LET count == body[6].arg
              IN /\ \A i \in 7 .. 6 + count : i <= Len(body) /\ IsBin(body[i])
                 /\ \A i \in 7 + count .. 7 + count : i <= Len(body) /\ IsMap(body[i])
                 /\ \A i \in 8 + count .. Len(body) - 1 : i <= Len(body) /\ IsStr(body[i])
                 /\ \A i \in Len(body) .. Len(body) : i <= Len(body) /\ IsFin(body[i])
<1>1. ASSUME NEW from, NEW to
      PROVE  /\ AllAre(body, from, to, "string") <=>
                  \A i \in from .. to : i <= Len(body) /\ IsStr(body[i])
             /\ AllAre(body, from, to, "list") <=>
                  \A i \in from .. to : i <= Len(body) /\ IsLst(body[i])
             /\ AllAre(body, from, to, "binary") <=>
                  \A i \in from .. to : i <= Len(body) /\ IsBin(body[i])
             /\ AllAre(body, from, to, "map") <=>
                  \A i \in from .. to : i <= Len(body) /\ IsMap(body[i])
             /\ AllAre(body, from, to, "end") <=>
                  \A i \in from .. to : i <= Len(body) /\ IsFin(body[i])
  <2>1. /\ "string" # "nothing" /\ "list" # "nothing" /\ "binary" # "nothing"
        /\ "map" # "nothing" /\ "end" # "nothing"
    OBVIOUS
  <2>2. \A op : op # "nothing" =>
          (AllAre(body, from, to, op) <=> \A i \in from .. to : i <= Len(body) /\ body[i].op = op)
    BY AllAreIs
  <2> QED
    BY <2>1, <2>2, Zenon DEF IsStr, IsLst, IsBin, IsMap, IsFin
<1> QED
  BY <1>1, Zenon DEF Decodes

(* Where the parts of a body are.                                          *)
IsLaidOut(E, a, l, b, m, c, e, body) ==
  /\ body \in Seq(E) /\ Len(body) = Len(a) + Len(b) + Len(c) + 3
  /\ \A i \in 1 .. Len(a) : body[i] = a[i]
  /\ body[Len(a) + 1] = l
  /\ \A i \in 1 .. Len(b) : body[Len(a) + 1 + i] = b[i]
  /\ body[Len(a) + Len(b) + 2] = m
  /\ \A i \in 1 .. Len(c) : body[Len(a) + Len(b) + 2 + i] = c[i]
  /\ body[Len(a) + Len(b) + Len(c) + 3] = e

LEMMA LaidOut ==
  ASSUME NEW E, NEW a \in Seq(E), NEW b \in Seq(E), NEW c \in Seq(E),
         NEW l \in E, NEW m \in E, NEW e \in E
  PROVE  IsLaidOut(E, a, l, b, m, c, e, a \o <<l>> \o b \o <<m>> \o c \o <<e>>)
<1> DEFINE b1 == a \o <<l>>
           b2 == b1 \o b
           b3 == b2 \o <<m>>
           b4 == b3 \o c
           b5 == b4 \o <<e>>
           la == Len(a)
           lb == Len(b)
           lc == Len(c)
<1>1. la \in Nat /\ lb \in Nat /\ lc \in Nat
  BY LenProperties
<1>2. /\ b1 \in Seq(E) /\ Len(b1) = la + 1
      /\ \A i \in 1 .. la : b1[i] = a[i]
      /\ b1[la + 1] = l
  BY OneElementAfter
<1> HIDE DEF b1
<1>3. /\ b2 \in Seq(E) /\ Len(b2) = la + 1 + lb
      /\ \A i \in 1 .. la + 1 : b2[i] = b1[i]
      /\ \A i \in 1 .. lb : b2[la + 1 + i] = b[i]
  <2>1. /\ b2 \in Seq(E) /\ Len(b2) = Len(b1) + lb
        /\ \A i \in 1 .. Len(b1) : b2[i] = b1[i]
        /\ \A i \in 1 .. lb : b2[Len(b1) + i] = b[i]
    <3>1. IsBoth(E, b1, b, b2)
      BY <1>2, OneAfterOther
    <3> QED
      BY <3>1 DEF IsBoth
  <2> QED
    BY <1>2, <2>1
<1> HIDE DEF b2
<1>4. /\ b3 \in Seq(E) /\ Len(b3) = la + 2 + lb
      /\ \A i \in 1 .. la + 1 + lb : b3[i] = b2[i]
      /\ b3[la + lb + 2] = m
  <2>1. /\ b3 \in Seq(E) /\ Len(b3) = Len(b2) + 1
        /\ \A i \in 1 .. Len(b2) : b3[i] = b2[i]
        /\ b3[Len(b2) + 1] = m
    BY <1>3, OneElementAfter
  <2>2. Len(b2) + 1 = la + lb + 2 /\ la + 1 + lb + 1 = la + lb + 2 /\ la + lb + 2 = la + 2 + lb
    BY <1>1, <1>3
  <2> QED
    BY <1>3, <2>1, <2>2
<1> HIDE DEF b3
<1>5. /\ b4 \in Seq(E) /\ Len(b4) = la + 2 + lb + lc
      /\ \A i \in 1 .. la + 2 + lb : b4[i] = b3[i]
      /\ \A i \in 1 .. lc : b4[la + lb + 2 + i] = c[i]
  <2>1. /\ b4 \in Seq(E) /\ Len(b4) = Len(b3) + lc
        /\ \A i \in 1 .. Len(b3) : b4[i] = b3[i]
        /\ \A i \in 1 .. lc : b4[Len(b3) + i] = c[i]
    <3>1. IsBoth(E, b3, c, b4)
      BY <1>4, OneAfterOther
    <3> QED
      BY <3>1 DEF IsBoth
  <2>2. la + lb + 2 = la + 2 + lb
    BY <1>1
  <2> QED
    BY <1>4, <2>1, <2>2
<1> HIDE DEF b4
<1>6. /\ b5 \in Seq(E) /\ Len(b5) = la + lb + lc + 3
      /\ \A i \in 1 .. la + 2 + lb + lc : b5[i] = b4[i]
      /\ b5[la + lb + lc + 3] = e
  <2>1. /\ b5 \in Seq(E) /\ Len(b5) = Len(b4) + 1
        /\ \A i \in 1 .. Len(b4) : b5[i] = b4[i]
        /\ b5[Len(b4) + 1] = e
    BY <1>5, OneElementAfter
  <2>2. Len(b4) + 1 = la + lb + lc + 3
    BY <1>1, <1>5
  <2> QED
    BY <1>5, <2>1, <2>2
<1> HIDE DEF b5, la, lb, lc
<1>7. \A i \in 1 .. la : b5[i] = a[i]
  BY <1>1, <1>2, <1>3, <1>4, <1>5, <1>6
<1>8. b5[la + 1] = l
  BY <1>1, <1>2, <1>3, <1>4, <1>5, <1>6
<1>9. ASSUME NEW i \in 1 .. lb PROVE b5[la + 1 + i] = b[i]
  <2>1. PICK j \in Int : j = la + 1 + i
    BY <1>1
  <2>2. j \in 1 .. la + 1 + lb /\ j \in 1 .. la + 2 + lb /\ j \in 1 .. la + 2 + lb + lc
    BY <1>1, <2>1
  <2>3. b5[j] = b4[j] /\ b4[j] = b3[j] /\ b3[j] = b2[j]
    BY <1>4, <1>5, <1>6, <2>2
  <2> QED
    BY <1>3, <2>1, <2>3
<1>10. b5[la + lb + 2] = m
  <2>1. PICK j \in Int : j = la + lb + 2
    BY <1>1
  <2>2. j \in 1 .. la + 2 + lb /\ j \in 1 .. la + 2 + lb + lc
    BY <1>1, <2>1
  <2> QED
    BY <1>4, <1>5, <1>6, <2>1, <2>2
<1>11. ASSUME NEW i \in 1 .. lc PROVE b5[la + lb + 2 + i] = c[i]
  <2>1. PICK j \in Int : j = la + lb + 2 + i
    BY <1>1
  <2>2. j \in 1 .. la + 2 + lb + lc
    BY <1>1, <2>1
  <2>3. b5[j] = b4[j]
    BY <1>6, <2>2
  <2> QED
    BY <1>5, <2>1, <2>3
<1>12. a \o <<l>> \o b \o <<m>> \o c \o <<e>> = b5
  BY Zenon DEF b5, b4, b3, b2, b1
<1> QED
  BY <1>6, <1>7, <1>8, <1>9, <1>10, <1>11, <1>12 DEF la, lb, lc, IsLaidOut

Types(ctx) == FlattenSeq([i \in DOMAIN ctx.types |-> Descriptor(ctx.types[i])])
ArgumentItems(args) == [i \in DOMAIN args |-> WriteItem(args[i])]
Named(attachments) == [i \in DOMAIN attachments |-> Strings(<<attachments[i], attachments[i]>>)]

\* What is written to the body of a request.
Texts(ctx) == {"2.0.2", "path", "version", ctx.method, Types(ctx)} \cup Attachment
Items(ctx) ==
  {Item("string", x) : x \in Texts(ctx)}
  \cup {Item("binary", p) : p \in Payload} \cup {Item("binary", <<"cut", p>>) : p \in Payload}
  \cup {Item("list", Len(ctx.arguments)), Item("map", Missing), Item("end", Missing), Stray}

LEMMA ContextIs ==
  ASSUME NEW ctx \in Contexts
  PROVE  /\ ctx.types \in Seq(Type) /\ ctx.arguments \in Seq(Payload)
         /\ ctx.attachments \in Seq(Attachment)
<1>1. \A S : SeqOf(S, MaxList) \subseteq Seq(S)
  <2> SUFFICES ASSUME NEW S, NEW s \in SeqOf(S, MaxList) PROVE s \in Seq(S)
    OBVIOUS
  <2>1. MaxList \in Nat
    BY MessagesAssumption
  <2>2. PICK n \in 0 .. MaxList : s \in [1 .. n -> S]
    BY DEF SeqOf
  <2>3. n \in Nat
    BY <2>1
  <2> QED
    BY <2>2, <2>3
<1>2. /\ ctx.types \in SeqOf(Type, MaxList) /\ ctx.arguments \in SeqOf(Payload, MaxList)
      /\ ctx.attachments \in SeqOf(Attachment, MaxList)
  BY DEF Contexts
<1> QED
  BY <1>1, <1>2

Short(p) == Size[p] < 65536
IsItemOf(ctx, p, s) ==
  /\ s \in Seq(Items(ctx))
  /\ Short(p) => Len(s) = 1 /\ s[1] = Item("binary", p)
  /\ ~Short(p) => Len(s) = 2 /\ s[2] = Stray

LEMMA BinaryIs ==
  ASSUME NEW ctx, NEW p \in Payload
  PROVE  IsItemOf(ctx, p, WriteItem(p))
<1>1. /\ Item("binary", p) \in Items(ctx) /\ Item("binary", <<"cut", p>>) \in Items(ctx)
      /\ Stray \in Items(ctx)
  BY Zenon DEF Items
<1>2. PICK a, b, c \in Items(ctx) :
        a = Item("binary", p) /\ b = Item("binary", <<"cut", p>>) /\ c = Stray
  BY <1>1, Zenon
<1>3. WriteItem(p) = IF Short(p) THEN <<a>> ELSE <<b, c>>
  <2>1. WriteItem(p) =
          IF Short(p) THEN <<Item("binary", p)>> ELSE <<Item("binary", <<"cut", p>>), Stray>>
    BY SMT DEF WriteItem, Short
  <2> QED
    BY <1>2, <2>1, Zenon
<1>4. /\ <<a>> \in Seq(Items(ctx)) /\ Len(<<a>>) = 1 /\ <<a>>[1] = a
      /\ <<b, c>> \in Seq(Items(ctx)) /\ Len(<<b, c>>) = 2 /\ <<b, c>>[1] = b /\ <<b, c>>[2] = c
  OBVIOUS
<1> QED
  BY <1>2, <1>3, <1>4 DEF IsItemOf

LEMMA ArgumentsAre ==
  ASSUME NEW ctx \in Contexts
  PROVE  /\ ArgumentItems(ctx.arguments) \in Seq(Seq(Items(ctx)))
         /\ Len(ArgumentItems(ctx.arguments)) = Len(ctx.arguments)
         /\ FlattenSeq(ArgumentItems(ctx.arguments)) \in Seq(Items(ctx))
<1> DEFINE args == ctx.arguments
           n == Len(args)
           seqs == ArgumentItems(args)
<1>1. args \in Seq(Payload) /\ n \in Nat /\ DOMAIN args = 1 .. n /\ \A i \in 1 .. n : args[i] \in Payload
  <2>1. args \in Seq(Payload)
    BY ContextIs
  <2> QED
    BY <2>1, LenProperties, ElementOfSeq
<1>2. seqs \in [1 .. n -> Seq(Items(ctx))]
  <2>1. seqs = [i \in 1 .. n |-> WriteItem(args[i])]
    BY <1>1 DEF ArgumentItems
  <2>2. \A i \in 1 .. n : WriteItem(args[i]) \in Seq(Items(ctx))
    BY <1>1, BinaryIs DEF IsItemOf
  <2> QED
    BY <2>1, <2>2, Zenon
<1>3. seqs \in Seq(Seq(Items(ctx))) /\ Len(seqs) = n
  <2> HIDE DEF seqs, n
  <2> QED
    BY <1>1, <1>2
<1>4. PICK joined \in [0 .. Len(seqs) -> Seq(Items(ctx))] : Joins(joined, seqs)
  BY <1>3, JoinSteps
<1>5. n \in 0 .. n /\ FlattenSeq(seqs) = joined[n]
  BY <1>1, <1>3, <1>4 DEF Joins
<1>6. FlattenSeq(seqs) \in Seq(Items(ctx))
  BY <1>3, <1>4, <1>5
<1> QED
  BY <1>3, <1>6

\* All arguments fit their length: each one is an item.
LEMMA ArgumentsFit ==
  ASSUME NEW ctx \in Contexts, Fits(ctx.arguments)
  PROVE  /\ Len(FlattenSeq(ArgumentItems(ctx.arguments))) = Len(ctx.arguments)
         /\ \A i \in 1 .. Len(ctx.arguments) :
              FlattenSeq(ArgumentItems(ctx.arguments))[i] = Item("binary", ctx.arguments[i])
<1> DEFINE args == ctx.arguments
           seqs == ArgumentItems(args)
<1>1. DOMAIN args = 1 .. Len(args) /\ \A i \in 1 .. Len(args) : args[i] \in Payload
  <2>1. args \in Seq(Payload)
    BY ContextIs
  <2> QED
    BY <2>1, LenProperties, ElementOfSeq
<1>2. seqs \in Seq(Seq(Items(ctx))) /\ Len(seqs) = Len(args)
  BY ArgumentsAre
<1>3. ASSUME NEW i \in 1 .. Len(seqs)
      PROVE  Len(seqs[i]) = 1 /\ seqs[i][1] = Item("binary", args[i])
  <2>1. i \in DOMAIN args /\ args[i] \in Payload
    BY <1>1, <1>2
  <2>2. seqs[i] = WriteItem(args[i]) /\ Short(args[i])
    <3>1. Short(args[i])
      BY <2>1, SMT DEF Fits, Short
    <3> QED
      BY <2>1, <3>1 DEF ArgumentItems
  <2> QED
    BY <2>1, <2>2, BinaryIs DEF IsItemOf
<1>4. \A i \in 1 .. Len(seqs) : Len(seqs[i]) = 1 /\ seqs[i][1] = Item("binary", args[i])
  BY <1>3
<1> HIDE DEF seqs
<1>5. /\ Len(FlattenSeq(seqs)) = Len(seqs)
      /\ \A i \in 1 .. Len(seqs) : FlattenSeq(seqs)[i] = seqs[i][1]
  BY <1>2, <1>4, SinglesJoined
<1> QED
  BY <1>2, <1>4, <1>5 DEF seqs

\* One does not: what is left of the first such strays into the next item.
LEMMA ArgumentsStray ==
  ASSUME NEW ctx \in Contexts, ~Fits(ctx.arguments)
  PROVE  \E k \in 1 .. Len(ctx.arguments) :
           /\ k + 1 <= Len(FlattenSeq(ArgumentItems(ctx.arguments)))
           /\ FlattenSeq(ArgumentItems(ctx.arguments))[k + 1] = Stray
<1> DEFINE args == ctx.arguments
           n == Len(args)
           seqs == ArgumentItems(args)
           big == {k \in 1 .. n : ~Short(args[k])}
<1>1. args \in Seq(Payload) /\ n \in Nat /\ DOMAIN args = 1 .. n /\ \A i \in 1 .. n : args[i] \in Payload
  <2>1. args \in Seq(Payload)
    BY ContextIs
  <2> QED
    BY <2>1, LenProperties, ElementOfSeq
<1>2. seqs \in Seq(Seq(Items(ctx))) /\ Len(seqs) = n /\ \A i \in 1 .. n : seqs[i] = WriteItem(args[i])
  <2>1. seqs \in Seq(Seq(Items(ctx))) /\ Len(seqs) = n
    BY ArgumentsAre
  <2> QED
    BY <1>1, <2>1 DEF ArgumentItems
<1>3. big \in SUBSET Nat /\ big # {}
  BY <1>1 DEF Fits, Short
<1>4. PICK k \in big : \A m \in big : k <= m
  <2> HIDE DEF big
  <2> QED
    BY <1>3, LeastNat
<1>5. k \in 1 .. n /\ k - 1 \in 0 .. n /\ k \in Nat /\ k - 1 \in 0 .. k - 1
  BY <1>1
<1>6. ASSUME NEW i \in 1 .. k - 1 PROVE Len(seqs[i]) = 1
  <2>1. i \in 1 .. n /\ i \notin big
    BY <1>1, <1>4, <1>5
  <2>2. Short(args[i])
    BY <2>1
  <2>3. seqs[i] = WriteItem(args[i]) /\ args[i] \in Payload
    BY <1>1, <1>2, <2>1
  <2> QED
    BY <2>2, <2>3, BinaryIs DEF IsItemOf
<1>7. Len(seqs[k]) = 2 /\ seqs[k][2] = Stray
  <2>1. seqs[k] = WriteItem(args[k]) /\ args[k] \in Payload /\ ~Short(args[k])
    BY <1>1, <1>2, <1>4, <1>5
  <2> QED
    BY <2>1, BinaryIs DEF IsItemOf
<1> HIDE DEF seqs, big
<1>8. PICK joined \in [0 .. Len(seqs) -> Seq(Items(ctx))] : Joins(joined, seqs)
  BY <1>2, JoinSteps
<1>9. Len(joined[k - 1]) = k - 1
  <2>1. Even(seqs, k - 1, 1)
    BY <1>6 DEF Even
  <2>2. PICK w \in Nat : w = 1
    OBVIOUS
  <2>3. EvenlyPlaced(joined, k - 1, w)
    BY <1>2, <1>5, <1>8, <2>1, <2>2, EvenlyJoined
  <2> QED
    BY <1>5, <2>2, <2>3 DEF EvenlyPlaced
<1>10. /\ Len(joined[k]) = Len(joined[k - 1]) + Len(seqs[k])
       /\ Len(joined[k]) <= Len(FlattenSeq(seqs))
       /\ Placed(seqs, joined, k)
  BY <1>2, <1>5, <1>8, JoinPlaces
<1>11. 2 \in 1 .. Len(seqs[k])
  BY <1>7
<1>12. FlattenSeq(seqs)[Len(joined[k - 1]) + 2] = Stray
  BY <1>7, <1>10, <1>11 DEF Placed
<1>13. k - 1 + 2 = k + 1 /\ k + 1 <= Len(FlattenSeq(seqs))
  <2>1. Len(joined[k]) = k + 1
    BY <1>5, <1>7, <1>9, <1>10
  <2> QED
    BY <1>5, <1>10, <2>1
<1> QED
  BY <1>5, <1>9, <1>12, <1>13 DEF seqs

LEMMA AttachmentsAre ==
  ASSUME NEW ctx \in Contexts
  PROVE  LET c == FlattenSeq(Named(ctx.attachments))
         IN /\ c \in Seq(Items(ctx)) /\ Len(c) = 2 * Len(ctx.attachments)
            /\ \A i \in 1 .. Len(c) : IsStr(c[i])
            /\ \A i \in 1 .. Len(ctx.attachments) : c[2 * i - 1].arg = ctx.attachments[i]
<1> DEFINE att == ctx.attachments
           n == Len(att)
           seqs == Named(att)
           c == FlattenSeq(seqs)
<1>1. att \in Seq(Attachment) /\ n \in Nat /\ DOMAIN att = 1 .. n /\ \A i \in 1 .. n : att[i] \in Attachment
  <2>1. att \in Seq(Attachment)
    BY ContextIs
  <2> QED
    BY <2>1, LenProperties, ElementOfSeq
<1>2. ASSUME NEW i \in 1 .. n
      PROVE  /\ seqs[i] \in Seq(Items(ctx)) /\ Len(seqs[i]) = 2
             /\ seqs[i][1] = Item("string", att[i]) /\ seqs[i][2] = Item("string", att[i])
  <2>1. Item("string", att[i]) \in Items(ctx)
    BY <1>1, Zenon DEF Items, Texts
  <2>2. PICK x \in Items(ctx) : x = Item("string", att[i])
    BY <2>1
  <2>3. seqs[i] = Strings(<<att[i], att[i]>>)
    BY <1>1 DEF Named
  <2>4. Strings(<<att[i], att[i]>>) = <<x, x>>
    BY <2>2 DEF Strings
  <2>5. <<x, x>> \in Seq(Items(ctx)) /\ Len(<<x, x>>) = 2 /\ <<x, x>>[1] = x /\ <<x, x>>[2] = x
    OBVIOUS
  <2> QED
    BY <2>2, <2>3, <2>4, <2>5
<1>3. DOMAIN seqs = 1 .. n /\ seqs = [i \in 1 .. n |-> seqs[i]]
  BY <1>1 DEF Named
<1> HIDE DEF n, seqs
<1>4. seqs \in Seq(Seq(Items(ctx))) /\ Len(seqs) = n
  BY <1>1, <1>2, <1>3
<1>5. \A k \in 1 .. Len(seqs) : Len(seqs[k]) = 2
  BY <1>2, <1>4
<1>6. /\ c \in Seq(Items(ctx)) /\ Len(c) = 2 * Len(seqs)
      /\ \A k \in 1 .. Len(seqs) : c[2 * k - 1] = seqs[k][1] /\ c[2 * k] = seqs[k][2]
  BY <1>4, <1>5, PairsJoined
<1> HIDE DEF c
<1>7. ASSUME NEW i \in 1 .. Len(c) PROVE IsStr(c[i])
  <2>1. \E k \in 1 .. n : i = 2 * k - 1 \/ i = 2 * k
    <3>1. i \in Nat /\ i >= 1 /\ i <= 2 * n
      BY <1>1, <1>4, <1>6
    <3>2. (i + 1) \div 2 \in 1 .. n /\ (i = 2 * ((i + 1) \div 2) - 1 \/ i = 2 * ((i + 1) \div 2))
      BY <1>1, <3>1, SMTT(30)
    <3> QED
      BY <3>2
  <2>2. PICK k \in 1 .. n : i = 2 * k - 1 \/ i = 2 * k
    BY <2>1
  <2>3. c[i] = Item("string", att[k])
    BY <1>2, <1>4, <1>6, <2>2
  <2> QED
    BY <2>3, ItemsDiffer
<1>8. ASSUME NEW i \in 1 .. n PROVE c[2 * i - 1].arg = att[i]
  BY <1>2, <1>4, <1>6, ItemsDiffer
<1> QED
  BY <1>4, <1>6, <1>7, <1>8 DEF c, seqs, n

\* Where in a body the parts of a request are, when its arguments are b.
IsBody(ctx, b, body) ==
  /\ Len(body) = Len(b) + 2 * Len(ctx.attachments) + 8
  /\ \A i \in 1 .. 5 : IsStr(body[i])
  /\ body[4].arg = ctx.method /\ body[5].arg = Types(ctx)
  /\ IsLst(body[6]) /\ body[6].arg = Len(ctx.arguments)
  /\ \A i \in 1 .. Len(b) : body[6 + i] = b[i]
  /\ IsMap(body[Len(b) + 7])
  /\ \A i \in 1 .. 2 * Len(ctx.attachments) : IsStr(body[Len(b) + 7 + i])
  /\ \A i \in 1 .. Len(ctx.attachments) : body[Len(b) + 6 + 2 * i].arg = ctx.attachments[i]
  /\ IsFin(body[Len(b) + 2 * Len(ctx.attachments) + 8])

LEMMA BodyIs ==
  ASSUME NEW ctx \in Contexts
  PROVE  IsBody(ctx, FlattenSeq(ArgumentItems(ctx.arguments)), RequestBody(ctx))
<1> DEFINE E == Items(ctx)
           texts == <<"2.0.2", "path", "version", ctx.method, Types(ctx)>>
           a == Strings(texts)
           l == Item("list", Len(ctx.arguments))
           b == FlattenSeq(ArgumentItems(ctx.arguments))
           m == Item("map", Missing)
           c == FlattenSeq(Named(ctx.attachments))
           e == Item("end", Missing)
           body == a \o <<l>> \o b \o <<m>> \o c \o <<e>>
<1>1. RequestBody(ctx) = body
  BY Zenon DEF RequestBody, Types, ArgumentItems, Named
<1>2. /\ a \in Seq(E) /\ Len(a) = 5
      /\ \A i \in 1 .. 5 : IsStr(a[i])
      /\ a[4].arg = ctx.method /\ a[5].arg = Types(ctx)
  <2>1. \A x \in Texts(ctx) : Item("string", x) \in E
    BY Zenon DEF Items
  <2>2. /\ "2.0.2" \in Texts(ctx) /\ "path" \in Texts(ctx) /\ "version" \in Texts(ctx)
        /\ ctx.method \in Texts(ctx) /\ Types(ctx) \in Texts(ctx)
    BY Zenon DEF Texts
  <2>3. PICK t1, t2, t3 \in Texts(ctx) : t1 = "2.0.2" /\ t2 = "path" /\ t3 = "version"
    BY <2>2, Zenon
  <2>4. texts = <<t1, t2, t3, ctx.method, Types(ctx)>>
    BY <2>3
  <2> HIDE DEF texts, E
  <2>5. /\ DOMAIN texts = 1 .. 5 /\ \A i \in 1 .. 5 : texts[i] \in Texts(ctx)
        /\ texts[4] = ctx.method /\ texts[5] = Types(ctx)
    BY <2>2, <2>4
  <2>6. a = [i \in 1 .. 5 |-> Item("string", texts[i])]
    BY <2>5, Zenon DEF Strings
  <2>7. \A i \in 1 .. 5 : a[i] = Item("string", texts[i])
    BY <2>6, Zenon
  <2>8. \A i \in 1 .. 5 : a[i] \in E /\ IsStr(a[i]) /\ a[i].arg = texts[i]
    <3> SUFFICES ASSUME NEW i \in 1 .. 5 PROVE a[i] \in E /\ IsStr(a[i]) /\ a[i].arg = texts[i]
      OBVIOUS
    <3>1. a[i] = Item("string", texts[i]) /\ texts[i] \in Texts(ctx)
      BY <2>5, <2>7
    <3>2. Item("string", texts[i]) \in E
      BY <2>1, <3>1
    <3>3. IsStr(Item("string", texts[i])) /\ Item("string", texts[i]).arg = texts[i]
      BY ItemsDiffer
    <3> QED
      BY <3>1, <3>2, <3>3
  <2>9. a = [i \in 1 .. 5 |-> a[i]]
    BY <2>6, Zenon
  <2> HIDE DEF a
  <2>10. a \in Seq(E) /\ Len(a) = 5
    BY <2>8, <2>9
  <2>11. 4 \in 1 .. 5 /\ 5 \in 1 .. 5
    OBVIOUS
  <2> QED
    BY <2>5, <2>8, <2>10, <2>11
<1>3. l \in E /\ m \in E /\ e \in E /\ IsLst(l) /\ l.arg = Len(ctx.arguments) /\ IsMap(m) /\ IsFin(e)
  <2>1. l \in E /\ m \in E /\ e \in E
    BY Zenon DEF Items
  <2> QED
    BY <2>1, ItemsDiffer
<1>4. b \in Seq(E) /\ Len(b) \in Nat
  <2>1. b \in Seq(E)
    BY ArgumentsAre
  <2> QED
    BY <2>1, LenProperties
<1>5. /\ c \in Seq(E) /\ Len(c) = 2 * Len(ctx.attachments)
      /\ \A i \in 1 .. Len(c) : IsStr(c[i])
      /\ \A i \in 1 .. Len(ctx.attachments) : c[2 * i - 1].arg = ctx.attachments[i]
  BY AttachmentsAre
<1>6. Len(ctx.attachments) \in Nat
  <2>1. ctx.attachments \in Seq(Attachment)
    BY ContextIs
  <2> QED
    BY <2>1, LenProperties
<1> HIDE DEF E, a, l, b, m, c, e
<1>7. /\ Len(body) = Len(a) + Len(b) + Len(c) + 3
      /\ \A i \in 1 .. Len(a) : body[i] = a[i]
      /\ body[Len(a) + 1] = l
      /\ \A i \in 1 .. Len(b) : body[Len(a) + 1 + i] = b[i]
      /\ body[Len(a) + Len(b) + 2] = m
      /\ \A i \in 1 .. Len(c) : body[Len(a) + Len(b) + 2 + i] = c[i]
      /\ body[Len(a) + Len(b) + Len(c) + 3] = e
  <2>1. IsLaidOut(E, a, l, b, m, c, e, body)
    BY <1>2, <1>3, <1>4, <1>5, LaidOut
  <2> QED
    BY <2>1 DEF IsLaidOut
<1> HIDE DEF body
<1> DEFINE lb == Len(b)
           n == Len(ctx.attachments)
<1>8. lb \in Nat /\ n \in Nat /\ Len(a) = 5 /\ Len(c) = 2 * n
  BY <1>2, <1>4, <1>5, <1>6
<1>9. \A i \in 1 .. 5 : body[i] = a[i]
  BY <1>7, <1>8
<1>10. body[6] = l
  <2>1. Len(a) + 1 = 6
    BY <1>8
  <2> QED
    BY <1>7, <2>1
<1>11. \A i \in 1 .. lb : body[6 + i] = b[i]
  <2> SUFFICES ASSUME NEW i \in 1 .. lb PROVE body[6 + i] = b[i]
    OBVIOUS
  <2>1. Len(a) + 1 + i = 6 + i
    BY <1>8
  <2> QED
    BY <1>7, <2>1
<1>12. body[lb + 7] = m
  <2>1. Len(a) + Len(b) + 2 = lb + 7
    BY <1>8
  <2> QED
    BY <1>7, <2>1
<1>13. \A i \in 1 .. 2 * n : body[lb + 7 + i] = c[i]
  <2> SUFFICES ASSUME NEW i \in 1 .. 2 * n PROVE body[lb + 7 + i] = c[i]
    OBVIOUS
  <2>1. Len(a) + Len(b) + 2 + i = lb + 7 + i /\ i \in 1 .. Len(c)
    BY <1>8
  <2> QED
    BY <1>7, <2>1
<1>14. body[lb + 2 * n + 8] = e /\ Len(body) = lb + 2 * n + 8
  <2>1. PICK k \in Int : k = 2 * n
    BY <1>8
  <2>2. Len(a) + Len(b) + Len(c) + 3 = lb + k + 8
    <3>1. Len(a) = 5 /\ Len(c) = k /\ lb \in Int
      BY <1>8, <2>1
    <3>2. k \in Int /\ lb \in Int
      BY <2>1, <3>1
    <3> HIDE DEF lb
    <3>3. 5 + lb + k + 3 = lb + k + 8
      BY <3>2
    <3> QED
      BY <3>1, <3>3 DEF lb
  <2> QED
    BY <1>7, <2>1, <2>2
<1>15. \A i \in 1 .. n : body[lb + 6 + 2 * i].arg = ctx.attachments[i]
  <2> SUFFICES ASSUME NEW i \in 1 .. n PROVE body[lb + 6 + 2 * i].arg = ctx.attachments[i]
    OBVIOUS
  <2>1. 2 * i - 1 \in 1 .. 2 * n /\ lb + 7 + (2 * i - 1) = lb + 6 + 2 * i
    BY <1>8
  <2>2. body[lb + 7 + (2 * i - 1)] = c[2 * i - 1]
    BY <1>13, <2>1
  <2> QED
    BY <1>5, <2>1, <2>2
<1>16. \A i \in 1 .. 2 * n : IsStr(body[lb + 7 + i])
  BY <1>5, <1>8, <1>13
<1>17. \A i \in 1 .. 5 : IsStr(body[i])
  BY <1>2, <1>9
<1>18. body[4].arg = ctx.method /\ body[5].arg = Types(ctx)
  BY <1>2, <1>9
<1>19. IsBody(ctx, b, body)
  BY <1>3, <1>10, <1>11, <1>12, <1>14, <1>15, <1>16, <1>17, <1>18 DEF IsBody
<1> QED
  BY <1>1, <1>19 DEF b

(* A request whose arguments fit is read as it was meant, any other is not *)
(* read at all.                                                            *)
IsRead(ctx, d) ==
  /\ d.method = ctx.method /\ d.types = ParseParameters(Types(ctx))
  /\ d.arguments = ctx.arguments /\ d.attachments = ctx.attachments

LEMMA RequestIsRead ==
  ASSUME NEW ctx \in Contexts
  PROVE  /\ Decodes(RequestBody(ctx)) <=> Fits(ctx.arguments)
         /\ Fits(ctx.arguments) => IsRead(ctx, Decoded(RequestBody(ctx)))
<1> DEFINE b == FlattenSeq(ArgumentItems(ctx.arguments))
           body == RequestBody(ctx)
           n == Len(ctx.arguments)
           m == Len(ctx.attachments)
           lb == Len(b)
<1>1. IsBody(ctx, b, body)
  BY BodyIs
<1>2. /\ n \in Nat /\ m \in Nat /\ DOMAIN ctx.arguments = 1 .. n /\ DOMAIN ctx.attachments = 1 .. m
      /\ ctx.arguments = [i \in 1 .. n |-> ctx.arguments[i]]
      /\ ctx.attachments = [i \in 1 .. m |-> ctx.attachments[i]]
  <2>1. ctx.arguments \in Seq(Payload) /\ ctx.attachments \in Seq(Attachment)
    BY ContextIs
  <2> QED
    BY <2>1, LenProperties
<1>3. lb \in Nat
  <2>1. b \in Seq(Items(ctx))
    BY ArgumentsAre
  <2> QED
    BY <2>1, LenProperties
<1>4. CASE Fits(ctx.arguments)
  <2>1. lb = n /\ \A i \in 1 .. n : b[i] = Item("binary", ctx.arguments[i])
    BY <1>4, ArgumentsFit
  <2> HIDE DEF b, body, lb
  <2>2. /\ Len(body) = n + 2 * m + 8
        /\ \A i \in 1 .. 5 : IsStr(body[i])
        /\ body[4].arg = ctx.method /\ body[5].arg = Types(ctx)
        /\ IsLst(body[6]) /\ body[6].arg = n
        /\ \A i \in 1 .. n : body[6 + i] = b[i]
        /\ IsMap(body[n + 7])
        /\ \A i \in 1 .. 2 * m : IsStr(body[n + 7 + i])
        /\ \A i \in 1 .. m : body[n + 6 + 2 * i].arg = ctx.attachments[i]
        /\ IsFin(body[n + 2 * m + 8])
    BY <1>1, <2>1 DEF IsBody, lb
  <2>3. \A i \in 1 .. n : IsBin(body[6 + i]) /\ body[6 + i].arg = ctx.arguments[i]
    <3> SUFFICES ASSUME NEW i \in 1 .. n
                 PROVE  IsBin(body[6 + i]) /\ body[6 + i].arg = ctx.arguments[i]
      OBVIOUS
    <3>1. body[6 + i] = Item("binary", ctx.arguments[i])
      BY <2>1, <2>2
    <3> QED
      BY <3>1, ItemsDiffer
  <2> HIDE DEF n, m
  <2>4. \A i \in 7 .. 6 + n : i <= Len(body) /\ IsBin(body[i])
    <3> SUFFICES ASSUME NEW i \in 7 .. 6 + n PROVE i <= Len(body) /\ IsBin(body[i])
      OBVIOUS
    <3>1. PICK j \in 1 .. n : i = 6 + j
      <4>1. i - 6 \in 1 .. n /\ i = 6 + (i - 6)
        BY <1>2
      <4> QED
        BY <4>1
    <3>2. i <= Len(body)
      BY <1>2, <2>2
    <3> QED
      BY <2>3, <3>1, <3>2
  <2>5. \A i \in 8 + n .. Len(body) - 1 : i <= Len(body) /\ IsStr(body[i])
    <3> SUFFICES ASSUME NEW i \in 8 + n .. Len(body) - 1 PROVE i <= Len(body) /\ IsStr(body[i])
      OBVIOUS
    <3>1. PICK j \in 1 .. 2 * m : i = n + 7 + j
      <4>1. i - (n + 7) \in 1 .. 2 * m /\ i = n + 7 + (i - (n + 7))
        BY <1>2, <2>2
      <4> QED
        BY <4>1
    <3>2. i <= Len(body)
      BY <1>2, <2>2
    <3> QED
      BY <2>2, <3>1, <3>2
  <2>6. /\ \A i \in 1 .. 5 : i <= Len(body) /\ IsStr(body[i])
        /\ \A i \in 6 .. 6 : i <= Len(body) /\ IsLst(body[i])
    BY <1>2, <2>2
  <2>7. \A i \in 7 + n .. 7 + n : i <= Len(body) /\ IsMap(body[i])
    <3>1. 7 + n = n + 7 /\ n + 7 <= Len(body) /\ \A i \in 7 + n .. 7 + n : i = n + 7
      BY <1>2, <2>2
    <3> QED
      BY <2>2, <3>1
  <2>8. \A i \in Len(body) .. Len(body) : i <= Len(body) /\ IsFin(body[i])
    <3>1. \A i \in Len(body) .. Len(body) : i = n + 2 * m + 8 /\ i <= Len(body)
      BY <1>2, <2>2
    <3> QED
      BY <2>2, <3>1
  <2>9. Decodes(body)
    BY <2>2, <2>4, <2>5, <2>6, <2>7, <2>8, DecodesIs, Zenon
  <2>10. (Len(body) - n - 8) \div 2 = m
    <3>1. Len(body) - n - 8 = 2 * m
      BY <1>2, <2>2
    <3> QED
      BY <1>2, <3>1
  <2>11. IsRead(ctx, Decoded(body))
    <3> DEFINE arguments == [i \in 1 .. n |-> body[6 + i].arg]
               attachments == [i \in 1 .. m |-> body[6 + n + 2 * i].arg]
    <3>1. Decoded(body) =
            [method |-> body[4].arg, types |-> ParseParameters(body[5].arg),
             arguments |-> arguments,
             attachments |-> [i \in 1 .. (Len(body) - n - 8) \div 2 |-> body[6 + n + 2 * i].arg]]
      BY <2>2, Zenon DEF Decoded
    <3>2. Decoded(body) =
            [method |-> body[4].arg, types |-> ParseParameters(body[5].arg),
             arguments |-> arguments, attachments |-> attachments]
      BY <2>10, <3>1, Zenon
    <3>3. arguments = ctx.arguments
      BY <1>2, <2>3
    <3>4. attachments = ctx.attachments
      <4>1. ASSUME NEW i \in 1 .. m PROVE body[6 + n + 2 * i].arg = ctx.attachments[i]
        <5>1. 6 + n + 2 * i = n + 6 + 2 * i
          BY <1>2
        <5> QED
          BY <2>2, <5>1
      <4> QED
        BY <1>2, <4>1, Zenon
    <3> QED
      BY <2>2, <3>2, <3>3, <3>4 DEF IsRead
  <2> QED
    BY <1>4, <2>9, <2>11 DEF body
<1>5. CASE ~Fits(ctx.arguments)
  <2>1. PICK k \in 1 .. n : k + 1 <= lb /\ b[k + 1] = Stray
    BY <1>5, ArgumentsStray
  <2> HIDE DEF b, body, lb
  <2>2. body[6].arg = n /\ \A i \in 1 .. lb : body[6 + i] = b[i]
    BY <1>1 DEF IsBody, lb
  <2> HIDE DEF n
  <2>3. PICK i \in Int : i = 6 + (k + 1)
    BY <1>2
  <2>4. body[i] = Stray
    BY <1>2, <1>3, <2>1, <2>2, <2>3
  <2>5. i \in 7 .. 6 + n \/ i \in 7 + n .. 7 + n
    BY <1>2, <2>1, <2>3
  <2>6. ~Decodes(body)
    BY <2>2, <2>4, <2>5, DecodesIs, ItemsDiffer, Zenon
  <2> QED
    BY <1>5, <2>6 DEF body
<1> QED
  BY <1>4, <1>5

-----------------------------------------------------------------------------
(* Answers.                                                                *)

(* What invoke() makes of each answer.                                     *)
LEMMA ResponseIsTaken ==
  ASSUME NEW id, NEW status, NEW body, Len(body) \in Nat
  PROVE  FromFrame(EncodeResponse(id, status, body)) =
           IF status # OkStatus THEN Returned("error", FromStatusCode(status)) ELSE FromBody(body)
<1> DEFINE f == EncodeResponse(id, status, body)
<1>1. /\ f.magic = Magic /\ f.flags = 2 /\ f.status = status /\ f.length = Len(body) /\ f.body = body
  BY DEF EncodeResponse, Header
<1>2. ~Bit(2, 128)
  BY DEF Bit
<1>3. Accepted(f, FALSE)
  BY <1>1, <1>2 DEF Accepted
<1> QED
  BY <1>1, <1>3 DEF FromFrame

LEMMA CodesAre ==
  /\ StatusCode("BadRequest") # OkStatus /\ FromStatusCode(StatusCode("BadRequest")) = "BadRequest"
  /\ StatusCode("ServerError") # OkStatus /\ FromStatusCode(StatusCode("ServerError")) = "ServerError"
<1>1. DOMAIN Statuses = RPCErrors
  BY DEF Statuses, RPCErrors
<1>2. /\ "BadRequest" \in RPCErrors /\ Statuses["BadRequest"] = 40
      /\ "ServerError" \in RPCErrors /\ Statuses["ServerError"] = 80
  BY DEF Statuses, RPCErrors
<1>3. \A e \in RPCErrors : /\ Statuses[e] = 40 => e = "BadRequest"
                           /\ Statuses[e] = 80 => e = "ServerError"
  BY DEF Statuses, RPCErrors
<1>4. 40 # OkStatus /\ 80 # OkStatus
  BY DEF OkStatus
<1> HIDE DEF Statuses, RPCErrors
<1>5. Range(Statuses) = {Statuses[e] : e \in RPCErrors}
  BY <1>1 DEF Range
<1>6. ASSUME NEW e \in RPCErrors, \A s \in RPCErrors : Statuses[s] = Statuses[e] => s = e
      PROVE  FromStatusCode(Statuses[e]) = e
  <2> DEFINE t == Statuses[e]
  <2>1. t \in Range(Statuses)
    BY <1>5
  <2>2. FromStatusCode(t) = CHOOSE s \in RPCErrors : t \in Range(Statuses) => Statuses[s] = t
    BY <2>1 DEF FromStatusCode, Inverse
  <2>3. \E s \in RPCErrors : t \in Range(Statuses) => Statuses[s] = t
    OBVIOUS
  <2> HIDE DEF t
  <2>4. FromStatusCode(t) \in RPCErrors /\ Statuses[FromStatusCode(t)] = t
    BY <2>1, <2>2, <2>3
  <2> QED
    BY <1>6, <2>4 DEF t
<1> QED
  BY <1>2, <1>3, <1>4, <1>6 DEF StatusCode

LEMMA EmptyIsTaken ==
  ASSUME NEW id
  PROVE  /\ FromFrame(EncodeResponse(id, OkStatus, <<>>)) = Returned("err", Missing)
         /\ FromFrame(EncodeResponse(id, StatusCode("BadRequest"), <<>>)) =
              Returned("error", "BadRequest")
<1>1. Len(<<>>) = 0 /\ Len(<<>>) \in Nat
  OBVIOUS
<1>2. ~AllAre(<<>>, 1, 1, "int")
  <2>1. "int" # "nothing" /\ 1 \in 1 .. 1 /\ ~(1 <= Len(<<>>))
    OBVIOUS
  <2> QED
    BY <2>1, AllAreIs
<1>3. FromBody(<<>>) = Returned("err", Missing)
  BY <1>2 DEF FromBody
<1> QED
  BY <1>1, <1>3, ResponseIsTaken, CodesAre

\* What a service returned, and what invoke() returns for it.
Means(o, r) ==
  /\ r # Returned("error", "BadRequest")
  /\ r.kind = "error" => o.kind \in {"err", "error"}
  /\ r.kind = "value" => \/ o.kind = "null" /\ r.arg = <<>>
                         \/ o.kind = "value" /\ (Size[o.arg] < 65536 => r = o)
  /\ r.kind # "err"

\* The first item of the body of an answer, and the second.
LEMMA AnswerIsTaken ==
  ASSUME NEW body, Len(body) \in Nat, Len(body) >= 2, IsInt(body[1]), body[1].arg \in 0 .. 2
  PROVE  FromBody(body) =
           CASE body[1].arg = 2 /\ IsBin(body[2]) -> Returned("value", body[2].arg)
             [] body[1].arg = 1 -> Returned("value", <<>>)
             [] body[1].arg = 0 /\ IsStr(body[2]) -> Returned("error", "ServiceError")
             [] body[1].arg \notin 0 .. 2 -> Returned("error", "ServerError")
             [] OTHER -> Returned("err", Missing)
<1>1. /\ "string" # "nothing" /\ "int" # "nothing" /\ "binary" # "nothing"
      /\ \A i \in 1 .. 1 : i = 1 /\ i <= Len(body)
      /\ \A i \in 2 .. 2 : i = 2 /\ i <= Len(body)
      /\ 1 \in 1 .. 1 /\ 2 \in 2 .. 2
  OBVIOUS
<1>2. /\ AllAre(body, 1, 1, "int") <=> \A i \in 1 .. 1 : i <= Len(body) /\ body[i].op = "int"
      /\ AllAre(body, 2, 2, "binary") <=> \A i \in 2 .. 2 : i <= Len(body) /\ body[i].op = "binary"
      /\ AllAre(body, 2, 2, "string") <=> \A i \in 2 .. 2 : i <= Len(body) /\ body[i].op = "string"
  BY <1>1, AllAreIs
<1>3. /\ AllAre(body, 1, 1, "int")
      /\ AllAre(body, 2, 2, "binary") <=> IsBin(body[2])
      /\ AllAre(body, 2, 2, "string") <=> IsStr(body[2])
  BY <1>1, <1>2, Zenon DEF IsInt, IsBin, IsStr
<1> QED
  BY <1>3, Zenon DEF FromBody

LEMMA OutcomeIsTaken ==
  ASSUME NEW o \in Outcomes, NEW id
  PROVE  Means(o, FromFrame(EncodeResponse(id, StatusOf(o), BodyOf(o))))
<1> DEFINE r == FromFrame(EncodeResponse(id, StatusOf(o), BodyOf(o)))
<1>1. CASE o = Returned("err", Missing)
  <2>1. o.kind = "err"
    BY <1>1 DEF Returned
  <2>2. StatusOf(o) = StatusCode("ServerError") /\ BodyOf(o) = <<>>
    BY <2>1 DEF StatusOf, BodyOf
  <2>3. Len(<<>>) \in Nat
    OBVIOUS
  <2>4. r = Returned("error", "ServerError")
    BY <2>2, <2>3, ResponseIsTaken, CodesAre
  <2> HIDE DEF r
  <2> QED
    BY <2>1, <2>4 DEF Means, Returned, r
<1>2. ASSUME o.kind # "err", Len(ResponseBody(o)) \in Nat
      PROVE  r = FromBody(ResponseBody(o))
  BY <1>2, ResponseIsTaken DEF StatusOf, BodyOf, OkStatus
<1>3. CASE o = Returned("null", Missing)
  <2>1. o.kind = "null"
    BY <1>3 DEF Returned
  <2> DEFINE x == Item("int", 1)
             y == Item("null", Missing)
  <2>2. ResponseBody(o) = <<x, y>>
    BY <2>1, Zenon DEF ResponseBody
  <2>3. IsInt(x) /\ x.arg = 1 /\ ~IsBin(y) /\ ~IsStr(y)
    BY ItemsDiffer
  <2> HIDE DEF x, y
  <2>4. Len(<<x, y>>) = 2 /\ <<x, y>>[1] = x /\ <<x, y>>[2] = y
    OBVIOUS
  <2>5. FromBody(<<x, y>>) = Returned("value", <<>>)
    BY <2>3, <2>4, AnswerIsTaken
  <2>6. r = Returned("value", <<>>)
    BY <1>2, <2>1, <2>2, <2>4, <2>5
  <2> HIDE DEF r
  <2> QED
    BY <2>1, <2>6 DEF Means, Returned, r
<1>4. ASSUME NEW e \in RPCErrors, o = Returned("error", e) PROVE Means(o, r)
  <2>1. o.kind = "error" /\ o.arg = e
    BY <1>4 DEF Returned
  <2> DEFINE x == Item("int", 0)
             y == Item("string", e)
  <2>2. ResponseBody(o) = <<x, y>>
    BY <2>1, Zenon DEF ResponseBody
  <2>3. IsInt(x) /\ x.arg = 0 /\ IsStr(y)
    BY ItemsDiffer
  <2> HIDE DEF x, y
  <2>4. Len(<<x, y>>) = 2 /\ <<x, y>>[1] = x /\ <<x, y>>[2] = y
    OBVIOUS
  <2>5. FromBody(<<x, y>>) = Returned("error", "ServiceError")
    BY <2>3, <2>4, AnswerIsTaken
  <2>6. r = Returned("error", "ServiceError")
    BY <1>2, <2>1, <2>2, <2>4, <2>5
  <2> HIDE DEF r
  <2> QED
    BY <2>1, <2>6 DEF Means, Returned, r
<1>5. ASSUME NEW p \in Payload, o = Returned("value", p) PROVE Means(o, r)
  <2>1. o.kind = "value" /\ o.arg = p
    BY <1>5 DEF Returned
  <2> DEFINE x == Item("int", 2)
             y == IF Short(p) THEN Item("binary", p) ELSE Item("binary", <<"cut", p>>)
  <2>2. ResponseBody(o) = <<x>> \o WriteItem(p)
    BY <2>1, Zenon DEF ResponseBody
  <2>3. IsInt(x) /\ x.arg = 2 /\ IsBin(y) /\ (Short(p) => y.arg = p)
    BY ItemsDiffer
  <2>4. WriteItem(p) = IF Short(p) THEN <<y>> ELSE <<y, Stray>>
    BY SMT DEF WriteItem, Short
  <2> HIDE DEF x, y
  <2> DEFINE s == <<x>>
             t == WriteItem(p)
             E == {x, y, Stray}
  <2>5. /\ s \in Seq(E) /\ Len(s) = 1 /\ s[1] = x
        /\ t \in Seq(E) /\ Len(t) \in Nat /\ Len(t) >= 1 /\ t[1] = y
    <3>1. t = <<y>> \/ t = <<y, Stray>>
      BY <2>4
    <3>2. /\ <<x>> \in Seq(E) /\ Len(<<x>>) = 1 /\ <<x>>[1] = x
          /\ <<y>> \in Seq(E) /\ Len(<<y>>) = 1 /\ <<y>>[1] = y
      OBVIOUS
    <3>3. <<y, Stray>> \in Seq(E) /\ Len(<<y, Stray>>) = 2 /\ <<y, Stray>>[1] = y
      OBVIOUS
    <3>4. s = <<x>>
      OBVIOUS
    <3> HIDE DEF s, t, E
    <3>5. CASE t = <<y>>
      BY <3>2, <3>4, <3>5
    <3>6. CASE t = <<y, Stray>>
      BY <3>2, <3>3, <3>4, <3>6
    <3> QED
      BY <3>1, <3>5, <3>6
  <2> HIDE DEF s, t, E
  <2>6. Len(ResponseBody(o)) \in Nat /\ Len(ResponseBody(o)) >= 2
        /\ ResponseBody(o)[1] = x /\ ResponseBody(o)[2] = y
    <3>1. IsBoth(E, s, t, s \o t)
      BY <2>5, OneAfterOther
    <3>2. ResponseBody(o) = s \o t /\ 1 \in 1 .. Len(s) /\ 1 \in 1 .. Len(t) /\ Len(s) + 1 = 2
      BY <2>2, <2>5 DEF s, t
    <3> QED
      BY <2>5, <3>1, <3>2 DEF IsBoth
  <2>7. FromBody(ResponseBody(o)) = Returned("value", y.arg)
    BY <2>3, <2>6, AnswerIsTaken
  <2>8. r = Returned("value", y.arg)
    BY <1>2, <2>1, <2>6, <2>7
  <2> HIDE DEF r
  <2>9. Short(p) => r = o
    BY <1>5, <2>3, <2>8
  <2>10. r.kind = "value"
    BY <2>8 DEF Returned
  <2>11. r # Returned("error", "BadRequest")
    BY <2>10 DEF Returned
  <2>12. Size[o.arg] < 65536 => r = o
    BY <2>1, <2>9, SMT DEF Short
  <2> QED
    BY <2>1, <2>10, <2>11, <2>12, SMT DEF Means, r
<1> QED
  BY <1>1, <1>3, <1>4, <1>5 DEF Outcomes

-----------------------------------------------------------------------------
(* The invariant.                                                          *)

\* The service has been given the call that fits its lengths, or nothing has been decoded.
Reached == Fits(asked.arguments) /\ IsRead(asked, seen)
Answered ==
  \E id :
    \/ outcome = Returned("nobody", Missing) /\ seen = Missing
       /\ frame = EncodeResponse(id, OkStatus, <<>>)
    \/ outcome = Missing /\ seen = Missing /\ ~Fits(asked.arguments)
       /\ frame = EncodeResponse(id, StatusCode("BadRequest"), <<>>)
    \/ outcome \in Outcomes /\ Reached
       /\ frame = EncodeResponse(id, StatusOf(outcome), BodyOf(outcome))
MessageInv ==
  /\ asked = Missing \/ asked \in Contexts
  /\ stage = "idle" => asked = Missing /\ seen = Missing /\ outcome = Missing
  /\ asked # Missing =>
       /\ stage \in {"sent", "serving", "answered", "done"}
       /\ stage = "sent" =>
            /\ seen = Missing /\ outcome = Missing
            /\ \E id : frame = EncodeRequest(id, TRUE, FALSE, RequestBody(asked))
       /\ stage = "serving" => outcome = Missing /\ Reached
       /\ stage \in {"answered", "done"} => Answered
       /\ stage = "done" => reply = FromFrame(frame)
  /\ stage = "done" => asked # Missing

\* A request that was sent is accepted, with its body as it was written.
LEMMA RequestIsTaken ==
  ASSUME NEW id, NEW ctx \in Contexts
  PROVE  LET f == EncodeRequest(id, TRUE, FALSE, RequestBody(ctx))
         IN Accepted(f, TRUE) /\ DecodeRequest(f).data = RequestBody(ctx)
<1> DEFINE f == EncodeRequest(id, TRUE, FALSE, RequestBody(ctx))
           body == RequestBody(ctx)
<1>1. f.magic = Magic /\ f.flags = 194 /\ f.length = Len(body) /\ f.body = body
  BY DEF EncodeRequest, Header, Flagged
<1>2. Bit(194, 128) = TRUE
  BY DEF Bit
<1>3. Len(body) \in Nat
  <2> DEFINE b == FlattenSeq(ArgumentItems(ctx.arguments))
             n == Len(ctx.attachments)
  <2>1. b \in Seq(Items(ctx)) /\ ctx.attachments \in Seq(Attachment)
    BY ArgumentsAre, ContextIs
  <2>2. Len(b) \in Nat /\ n \in Nat
    BY <2>1, LenProperties
  <2>3. Len(body) = Len(b) + 2 * n + 8
    BY BodyIs DEF IsBody
  <2> HIDE DEF b, n, body
  <2> QED
    BY <2>2, <2>3
<1>4. Accepted(f, TRUE)
  <2>1. Bit(f.flags, 128) = TRUE
    BY <1>1, <1>2, Zenon
  <2>2. f.length <= Len(f.body)
    <3>1. PICK n \in Nat : n = Len(body)
      BY <1>3
    <3>2. f.length = n /\ Len(f.body) = n
      BY <1>1, <3>1
    <3> HIDE DEF f
    <3> QED
      BY <3>2
  <2> HIDE DEF f
  <2> QED
    BY <1>1, <2>1, <2>2, Zenon DEF Accepted
<1>5. DecodeRequest(f).data = body
  BY <1>1 DEF DecodeRequest
<1> QED
  BY <1>4, <1>5

LEMMA InitMessageInv ==
  ASSUME MessageInit
  PROVE  MessageInv
  BY DEF MessageInit, MessageInv

LEMMA NextMessageInv ==
  ASSUME MessageInv, [MessageNext]_messageVars
  PROVE  MessageInv'
<1>1. Missing \notin Contexts
  BY MessagesAssumption
<1>2. ASSUME NEW ctx \in Contexts, NEW id \in Id, AskService(ctx, id) PROVE MessageInv'
  <2>1. asked' = ctx /\ stage' = "sent" /\ seen' = Missing /\ outcome' = Missing
    BY <1>2 DEF AskService, MessageInv
  <2>2. frame' = EncodeRequest(id, TRUE, FALSE, RequestBody(asked'))
    BY <1>2, <2>1 DEF AskService
  <2> QED
    BY <2>1, <2>2 DEF MessageInv
<1>3. ASSUME NEW f \in Strange, Stranger(f) PROVE MessageInv'
  BY <1>3 DEF Stranger, MessageInv
<1>4. ASSUME asked # Missing, stage = "sent"
      PROVE  /\ Accepted(frame, TRUE)
             /\ Decodes(DecodeRequest(frame).data) <=> Fits(asked.arguments)
             /\ Fits(asked.arguments) => IsRead(asked, Decoded(DecodeRequest(frame).data))
  <2>1. asked \in Contexts
    BY <1>4 DEF MessageInv
  <2>2. PICK id : frame = EncodeRequest(id, TRUE, FALSE, RequestBody(asked))
    BY <1>4 DEF MessageInv
  <2>3. Accepted(frame, TRUE) /\ DecodeRequest(frame).data = RequestBody(asked)
    BY <2>1, <2>2, RequestIsTaken
  <2> QED
    BY <2>1, <2>3, RequestIsRead
<1>5. ASSUME Hang PROVE MessageInv'
  <2>1. asked = Missing
    BY <1>4, <1>5 DEF Hang
  <2> QED
    BY <1>5, <2>1 DEF Hang, MessageInv
<1>6. ASSUME AnswerEmpty PROVE MessageInv'
  <2>1. asked' = asked /\ seen' = seen /\ outcome' = Returned("nobody", Missing) /\ stage' = "answered"
        /\ frame' = EncodeResponse(frame.id, OkStatus, <<>>)
    BY <1>6 DEF AnswerEmpty, Respond
  <2>2. asked # Missing => seen = Missing
    BY <1>6 DEF AnswerEmpty, MessageInv
  <2>3. asked' # Missing => Answered'
    BY <2>1, <2>2 DEF Answered
  <2> QED
    BY <2>1, <2>3 DEF MessageInv
<1>7. ASSUME Refuse PROVE MessageInv'
  <2>1. asked' = asked /\ seen' = seen /\ outcome' = outcome /\ stage' = "answered"
        /\ frame' = EncodeResponse(frame.id, StatusCode("BadRequest"), <<>>)
    BY <1>7 DEF Refuse, Respond
  <2>2. asked # Missing => seen = Missing /\ outcome = Missing /\ ~Fits(asked.arguments)
    BY <1>4, <1>7 DEF Refuse, MessageInv
  <2>3. asked' # Missing => Answered'
    BY <2>1, <2>2 DEF Answered
  <2> QED
    BY <2>1, <2>3 DEF MessageInv
<1>8. ASSUME ServeRequest PROVE MessageInv'
  <2>1. asked' = asked /\ seen' = Decoded(DecodeRequest(frame).data) /\ outcome' = outcome
        /\ stage' = "serving"
    BY <1>8 DEF ServeRequest
  <2>2. asked # Missing => /\ outcome = Missing /\ Fits(asked.arguments)
                        /\ IsRead(asked, Decoded(DecodeRequest(frame).data))
    BY <1>4, <1>8 DEF ServeRequest, MessageInv
  <2>3. asked' # Missing => Reached'
    BY <2>1, <2>2 DEF Reached
  <2> QED
    BY <2>1, <2>2, <2>3 DEF MessageInv
<1>9. ASSUME NEW o \in Outcomes, Complete(o) PROVE MessageInv'
  <2>1. asked' = asked /\ seen' = seen /\ outcome' = o /\ stage' = "answered"
        /\ frame' = EncodeResponse(frame.id, StatusOf(o), BodyOf(o))
    BY <1>9 DEF Complete, Respond, Status
  <2>2. asked # Missing => Reached
    BY <1>9 DEF Complete, MessageInv
  <2>3. asked' # Missing => Answered'
    BY <2>1, <2>2 DEF Answered, Reached
  <2> QED
    BY <2>1, <2>3 DEF MessageInv
<1>10. ASSUME Receive PROVE MessageInv'
  <2>1. asked' = asked /\ seen' = seen /\ outcome' = outcome /\ stage' = "done" /\ frame' = frame
        /\ asked # Missing /\ stage \in {"answered", "closed"}
    BY <1>10 DEF Receive
  <2>2. stage = "answered" /\ Answered
    BY <2>1 DEF MessageInv
  <2>3. reply' = FromFrame(frame')
    BY <1>10, <2>1, <2>2 DEF Receive
  <2>4. Answered'
    BY <2>1, <2>2 DEF Answered, Reached
  <2> QED
    BY <2>1, <2>3, <2>4 DEF MessageInv
<1>11. ASSUME UNCHANGED messageVars PROVE MessageInv'
  BY <1>11 DEF messageVars, MessageInv, Answered, Reached
<1> QED
  BY <1>2, <1>3, <1>5, <1>6, <1>7, <1>8, <1>9, <1>10, <1>11 DEF MessageNext

LEMMA MessageInvSuffices ==
  ASSUME MessageInv
  PROVE  MeaningIsKept
<1>1. CASE stage # "done"
  BY <1>1 DEF MeaningIsKept
<1>2. CASE stage = "done"
  <2>1. asked # Missing /\ Answered /\ asked \in Contexts /\ reply = FromFrame(frame)
    BY <1>2 DEF MessageInv
  <2> DEFINE types == asked.types
             descriptors == [i \in DOMAIN types |-> Descriptor(types[i])]
  <2>2. Reached => /\ seen.method = asked.method /\ seen.attachments = asked.attachments
                   /\ Fits(asked.arguments) /\ seen.arguments = asked.arguments
                   /\ Flat(types) => /\ seen.types = descriptors
                                     /\ seen.types = ParseArguments(FlattenSeq(seen.types))
    <3> SUFFICES ASSUME Reached
                 PROVE  /\ seen.method = asked.method /\ seen.attachments = asked.attachments
                        /\ Fits(asked.arguments) /\ seen.arguments = asked.arguments
                        /\ Flat(types) => /\ seen.types = descriptors
                                          /\ seen.types = ParseArguments(FlattenSeq(seen.types))
      OBVIOUS
    <3>1. /\ seen.method = asked.method /\ seen.attachments = asked.attachments
          /\ Fits(asked.arguments) /\ seen.arguments = asked.arguments
          /\ seen.types = ParseParameters(FlattenSeq(descriptors))
      BY Zenon DEF Reached, IsRead, Types
    <3>2. types \in Seq(Type)
      BY <2>1, ContextIs
    <3>3. Flat(types) => /\ ParseParameters(FlattenSeq(descriptors)) = descriptors
                         /\ ParseArguments(FlattenSeq(descriptors)) = descriptors
      BY <3>2, TypesAreRead
    <3> HIDE DEF descriptors, types
    <3> QED
      BY <3>1, <3>3
  <2>3. Missing \notin Outcomes /\ Missing # Returned("nobody", Missing)
    BY MessagesAssumption
  <2>4. PICK id :
          \/ outcome = Returned("nobody", Missing) /\ seen = Missing
             /\ frame = EncodeResponse(id, OkStatus, <<>>)
          \/ outcome = Missing /\ seen = Missing /\ ~Fits(asked.arguments)
             /\ frame = EncodeResponse(id, StatusCode("BadRequest"), <<>>)
          \/ outcome \in Outcomes /\ Reached
             /\ frame = EncodeResponse(id, StatusOf(outcome), BodyOf(outcome))
    BY <2>1 DEF Answered
  <2> HIDE DEF descriptors
  <2>5. CASE outcome = Returned("nobody", Missing) /\ seen = Missing
             /\ frame = EncodeResponse(id, OkStatus, <<>>)
    <3>1. reply = Returned("err", Missing)
      BY <2>1, <2>5, EmptyIsTaken
    <3>2. reply.kind = "err" /\ outcome.kind = "nobody" /\ outcome # Missing
          /\ reply # Returned("error", "BadRequest")
      BY <2>3, <2>5, <3>1 DEF Returned
    <3> QED
      BY <2>5, <3>2 DEF MeaningIsKept
  <2>6. CASE outcome = Missing /\ seen = Missing /\ ~Fits(asked.arguments)
             /\ frame = EncodeResponse(id, StatusCode("BadRequest"), <<>>)
    <3>1. reply = Returned("error", "BadRequest")
      BY <2>1, <2>6, EmptyIsTaken
    <3>2. reply.kind = "error" /\ reply.arg = "BadRequest"
      BY <3>1 DEF Returned
    <3> QED
      BY <2>6, <3>1, <3>2 DEF MeaningIsKept
  <2>7. CASE outcome \in Outcomes /\ Reached
             /\ frame = EncodeResponse(id, StatusOf(outcome), BodyOf(outcome))
    <3>1. Means(outcome, reply)
      BY <2>1, <2>7, OutcomeIsTaken
    <3>2. outcome # Missing /\ Fits(asked.arguments)
      BY <2>2, <2>3, <2>7
    <3>3. /\ reply # Returned("error", "BadRequest")
          /\ reply.kind = "error" => outcome.kind \in {"err", "error"}
          /\ reply.kind = "value" => \/ outcome.kind = "null" /\ reply.arg = <<>>
                                     \/ outcome.kind = "value" /\ (Size[outcome.arg] < 65536 => reply = outcome)
          /\ reply.kind # "err"
      BY <3>1, SMT DEF Means
    <3> QED
      BY <2>2, <2>7, <3>2, <3>3, SMT DEF MeaningIsKept, descriptors, types
  <2> QED
    BY <2>4, <2>5, <2>6, <2>7
<1> QED
  BY <1>1, <1>2

\* DubboMessages: a call whose arguments fit their length is the call that the service sees,
\* one that does not is refused, and what the service returned is what invoke() returns.
THEOREM MessageMeaningKept == MessageSpec => []MeaningIsKept
<1>1. MessageInit => MessageInv
  BY InitMessageInv
<1>2. MessageInv /\ [MessageNext]_messageVars => MessageInv'
  BY NextMessageInv
<1>3. MessageInv => MeaningIsKept
  BY MessageInvSuffices
<1> QED
  BY <1>1, <1>2, <1>3, PTL DEF MessageSpec

-----------------------------------------------------------------------------
(* HttpProtocols: the invariant.                                           *)

\* What has come back is what the protocol makes of what the service did.
Came == wireAnswer = Lost \/ (did \in ServiceResults /\ wireAnswer \in Wire(peer.protocol, did))
\* invoke() returned Err at once, or what it made of what had come back.
Made ==
  \/ result = Err /\ sent = Nil /\ did = Nil
  \/ wireAnswer # Nil /\ result = FromWire(peer.protocol, wireAnswer)
HttpInv ==
  /\ peer.protocol \in {"triple", "grpc", "jsonrpc", "rest"}
  /\ ask = Nil => sent = Nil /\ result = Nil
  /\ did = Nil => wireAnswer = Nil
  /\ sent = Nil => did = Nil
  /\ wireAnswer # Nil => Came
  /\ result # Nil => Made
  /\ emitted \in Seq(Bytes) /\ taken \in Seq(Bytes) /\ transit \in Seq(Bytes)
  /\ taken \o transit = SubSeq(emitted, 1, Len(taken) + Len(transit))
  /\ Len(taken) + Len(transit) <= Len(emitted)
  /\ closing = "open" => Len(taken) + Len(transit) = Len(emitted)

-----------------------------------------------------------------------------
(* Sequences and their beginnings.                                         *)

(* A sequence with another one in front.                                   *)
LEMMA Behind ==
  ASSUME NEW S, NEW s \in Seq(S), NEW t \in Seq(S)
  PROVE  /\ s \o t \in Seq(S) /\ Len(s \o t) = Len(s) + Len(t)
         /\ Len(s) \in Nat /\ Len(t) \in Nat
         /\ \A i \in 1 .. Len(s) : (s \o t)[i] = s[i]
         /\ SubSeq(s \o t, Len(s) + 1, Len(s) + Len(t)) = t
<1>1. /\ s \o t \in Seq(S) /\ Len(s \o t) = Len(s) + Len(t)
      /\ \A i \in 1 .. Len(s) + Len(t) :
           (s \o t)[i] = IF i <= Len(s) THEN s[i] ELSE t[i - Len(s)]
  BY ConcatProperties
<1>2. Len(s) \in Nat /\ Len(t) \in Nat
  BY LenProperties
<1>3. \A i \in 1 .. Len(s) : (s \o t)[i] = s[i]
  BY <1>1, <1>2
<1>4. SubSeq(s \o t, Len(s) + 1, Len(s) + Len(t)) = t
  <2>1. CASE Len(t) = 0
    <3>1. t = <<>>
      BY <2>1, EmptySeq
    <3> QED
      BY <3>1, <2>1, <1>2, SubSeqEmpty
  <2>2. CASE Len(t) # 0
    <3> DEFINE m == Len(s) + 1
               n == Len(s) + Len(t)
    <3>1. m \in Len(s) + 1 .. Len(s) + Len(t) /\ n \in Len(s) + 1 .. Len(s) + Len(t)
      BY <2>2, <1>2
    <3>2. m - Len(s) = 1 /\ n - Len(s) = Len(t)
      BY <1>2
    <3> HIDE DEF m, n
    <3>3. SubSeq(s \o t, m, n) = SubSeq(t, m - Len(s), n - Len(s))
      BY <3>1, SubSeqOfConcat2
    <3>4. SubSeq(s \o t, m, n) = t
      BY <3>2, <3>3, SubSeqFull
    <3> QED
      BY <3>4 DEF m, n
  <2> QED
    BY <2>1, <2>2
<1> QED
  BY <1>1, <1>2, <1>3, <1>4

(* The beginning of a sequence.                                            *)
LEMMA Beginning ==
  ASSUME NEW S, NEW s \in Seq(S), NEW n \in 0 .. Len(s)
  PROVE  /\ SubSeq(s, 1, n) \in Seq(S) /\ Len(SubSeq(s, 1, n)) = n
         /\ \A i \in 1 .. n : SubSeq(s, 1, n)[i] = s[i]
<1>1. Len(s) \in Nat /\ n \in Nat /\ n <= Len(s)
  BY LenProperties
<1>2. \A i \in 1 .. n : s[i] \in S
  BY <1>1, ElementOfSeq
<1>3. /\ SubSeq(s, 1, n) \in Seq(S)
      /\ Len(SubSeq(s, 1, n)) = IF 1 <= n THEN n - 1 + 1 ELSE 0
      /\ \A i \in 1 .. n - 1 + 1 : SubSeq(s, 1, n)[i] = s[1 + i - 1]
  BY <1>1, <1>2, SubSeqProperties
<1>4. \A i \in 1 .. n : SubSeq(s, 1, n)[i] = s[1 + i - 1] /\ 1 + i - 1 = i
  BY <1>1, <1>3
<1> QED
  BY <1>1, <1>3, <1>4

(* The beginning of the beginning, and of two sequences.                   *)
LEMMA BeginningOfBeginning ==
  ASSUME NEW S, NEW s \in Seq(S), NEW n \in 0 .. Len(s), NEW m \in 0 .. n
  PROVE  SubSeq(SubSeq(s, 1, n), 1, m) = SubSeq(s, 1, m)
<1> DEFINE t == SubSeq(s, 1, n)
<1>1. Len(s) \in Nat /\ n \in Nat /\ m \in Nat /\ n <= Len(s) /\ m <= n /\ m \in 0 .. Len(s)
  BY LenProperties
<1>2. t \in Seq(S) /\ Len(t) = n /\ \A i \in 1 .. n : t[i] = s[i]
  BY Beginning
<1>3. /\ SubSeq(s, 1, m) \in Seq(S) /\ Len(SubSeq(s, 1, m)) = m
      /\ \A i \in 1 .. m : SubSeq(s, 1, m)[i] = s[i]
  BY <1>1, Beginning
<1> HIDE DEF t
<1>4. /\ SubSeq(t, 1, m) \in Seq(S) /\ Len(SubSeq(t, 1, m)) = m
      /\ \A i \in 1 .. m : SubSeq(t, 1, m)[i] = t[i]
  BY <1>1, <1>2, Beginning
<1>5. SubSeq(t, 1, m) = SubSeq(s, 1, m)
  BY <1>1, <1>2, <1>3, <1>4, SeqEqual
<1> QED
  BY <1>5 DEF t

LEMMA BeginningOfBoth ==
  ASSUME NEW S, NEW s \in Seq(S), NEW t \in Seq(S), NEW n \in 0 .. Len(t)
  PROVE  s \o SubSeq(t, 1, n) = SubSeq(s \o t, 1, Len(s) + n)
<1> DEFINE u == SubSeq(t, 1, n)
           m == Len(s) + n
<1>1. Len(s) \in Nat /\ Len(t) \in Nat /\ n \in Nat /\ n <= Len(t)
  BY LenProperties
<1>2. u \in Seq(S) /\ Len(u) = n /\ \A i \in 1 .. n : u[i] = t[i]
  BY Beginning
<1>3. /\ s \o t \in Seq(S) /\ Len(s \o t) = Len(s) + Len(t)
      /\ \A i \in 1 .. Len(s) + Len(t) : (s \o t)[i] = IF i <= Len(s) THEN s[i] ELSE t[i - Len(s)]
  BY ConcatProperties
<1>4. m \in 0 .. Len(s \o t)
  BY <1>1, <1>3
<1> HIDE DEF u
<1>5. /\ s \o u \in Seq(S) /\ Len(s \o u) = m
      /\ \A i \in 1 .. m : (s \o u)[i] = IF i <= Len(s) THEN s[i] ELSE u[i - Len(s)]
  BY <1>2, ConcatProperties
<1>6. /\ SubSeq(s \o t, 1, m) \in Seq(S) /\ Len(SubSeq(s \o t, 1, m)) = m
      /\ \A i \in 1 .. m : SubSeq(s \o t, 1, m)[i] = (s \o t)[i]
  BY <1>3, <1>4, Beginning
<1>7. \A i \in 1 .. m : (s \o u)[i] = (s \o t)[i]
  BY <1>1, <1>2, <1>3, <1>5
<1>8. s \o u = SubSeq(s \o t, 1, m)
  BY <1>5, <1>6, <1>7, SeqEqual
<1> QED
  BY <1>8 DEF u

(* A sequence is its first element and the rest.                           *)
LEMMA OneInFront ==
  ASSUME NEW S, NEW s \in Seq(S), s # <<>>
  PROVE  s = <<s[1]>> \o Tail(s)
<1>1. Len(s) \in Nat \ {0}
  BY EmptySeq
<1>2. SubSeq(s, 1, Len(s)) = <<s[1]>> \o SubSeq(s, 1 + 1, Len(s))
  BY <1>1, SubSeqRecursiveFirst
<1> QED
  BY <1>2, SubSeqFull, TailIsSubSeq

-----------------------------------------------------------------------------
(* What the invokers make of an answer.                                    *)

(* What a gRPC invoker makes of a frame, or of the beginning of one.       *)
LEMMA FrameDecodes ==
  ASSUME NEW v \in Bytes \cup {<<>>}, NEW n \in 0 .. Len(v) + 5
  PROVE  LET r == DecodeFrame(SubSeq(EncodeFrame(v), 1, n))
         IN r = Value(v) \/ r = Value(<<>>)
<1> DEFINE h == BigEndian4(0, Len(v))
           f == h \o v
           data == SubSeq(f, 1, n)
<1>1. v \in Seq(Nat) /\ Len(v) \in Nat /\ IsWord(Len(v))
  <2>1. CASE v = <<>>
    <3>1. IsWord(0)
      BY SMT DEF IsWord
    <3> QED
      BY <2>1, <3>1
  <2>2. CASE v \in Bytes
    <3>1. v \in Seq(0 .. 255) /\ IsWord(Len(v))
      BY <2>2, HttpAssumption
    <3> QED
      BY <3>1, SeqMonotonic, LenProperties, 0 .. 255 \subseteq Nat
  <2> QED
    BY <2>1, <2>2
<1>2. h \in Seq(Nat) /\ Len(h) = 5 /\ h[1] = 0 /\ FromBytes4(h, 2) = Len(v)
  <2>1. FromBytes4(h, 2) = Len(v)
    BY SMT, <1>1, FourBytes
  <2> DEFINE a == Low(Shift(Len(v), 16777216))
             b == Low(Shift(Len(v), 65536))
             c == Low(Shift(Len(v), 256))
             d == Low(Len(v))
  <2>2. h = <<0, a, b, c, d>>
    BY SMT DEF BigEndian4
  <2>3. a \in Nat /\ b \in Nat /\ c \in Nat /\ d \in Nat
    BY SMT, <1>1 DEF Low, Shift
  <2> HIDE DEF h, a, b, c, d
  <2> QED
    BY <2>1, <2>2, <2>3
<1>3. EncodeFrame(v) = f
  BY SMT DEF EncodeFrame
<1> HIDE DEF h
<1>4. f \in Seq(Nat) /\ Len(f) = 5 + Len(v) /\ SubSeq(f, 6, 5 + Len(v)) = v
      /\ \A i \in 1 .. 5 : f[i] = h[i]
  <2>1. /\ h \o v \in Seq(Nat) /\ Len(h \o v) = Len(h) + Len(v)
        /\ \A i \in 1 .. Len(h) : (h \o v)[i] = h[i]
        /\ SubSeq(h \o v, Len(h) + 1, Len(h) + Len(v)) = v
    BY <1>1, <1>2, Behind
  <2>2. Len(h) = 5 /\ 5 + 1 = 6
    BY <1>2
  <2> QED
    BY <2>1, <2>2
<1> HIDE DEF f
<1>5. n \in Nat /\ n <= 5 + Len(v) /\ n \in 0 .. Len(f)
  BY <1>1, <1>4
<1>6. Len(data) = n /\ \A i \in 1 .. n : data[i] = f[i]
  BY <1>4, <1>5, Beginning
<1>7. n = 5 + Len(v) => data = f
  BY <1>4, SubSeqFull
<1> HIDE DEF data
<1> SUFFICES DecodeFrame(data) = Value(v) \/ DecodeFrame(data) = Value(<<>>)
  BY <1>3 DEF data
<1>8. CASE n < 5
  BY <1>8, <1>6 DEF DecodeFrame, HeadLength
<1>9. CASE n >= 5
  <2>1. \A i \in 1 .. 5 : data[i] = h[i]
    BY <1>4, <1>5, <1>6, <1>9
  <2>2. data[1] = 0 /\ FromBytes4(data, 2) = Len(v)
    <3>1. FromBytes4(data, 2) = FromBytes4(h, 2)
      BY SMT, <2>1 DEF FromBytes4, FromBytes2
    <3> QED
      BY <3>1, <2>1, <1>2
  <2>3. CASE n < 5 + Len(v)
    BY <2>2, <2>3, <1>9, <1>6, <1>1, <1>5 DEF DecodeFrame, HeadLength
  <2>4. CASE n = 5 + Len(v)
    <3>1. FrameMessage(data, Len(v)) = v
      BY <1>7, <1>4, <2>4, HeadLength + 1 = 6, HeadLength = 5 DEF FrameMessage, HeadLength
    <3> QED
      BY <3>1, <2>2, <2>4, <1>6, <1>1 DEF DecodeFrame, HeadLength
  <2> QED
    BY <2>3, <2>4, <1>5, <1>1
<1> QED
  BY <1>8, <1>9, <1>5

(* The invoker has a success for what the service returned, and an         *)
(* RPCError for its failure.                                               *)
LEMMA WireIsRead ==
  ASSUME NEW protocol \in {"triple", "grpc", "jsonrpc", "rest"}, NEW o \in ServiceResults,
         NEW w \in Wire(protocol, o)
  PROVE  LET r == FromWire(protocol, w)
         IN \/ r = Err /\ (o.kind = "failure" \/ protocol \in {"jsonrpc", "grpc"} \/ w = Lost)
            \/ o.kind \in {"value", "null"} /\ r = Value(o.arg)
            \/ protocol = "grpc" /\ r = Value(<<>>)
            \/ o.kind = "failure" /\ \E e : r = RPCError(e)
<1>1. \/ \E v \in Bytes : o = Value(v)
      \/ o = Null
      \/ \E c \in Code : o = Fails(c)
  BY DEF ServiceResults
<1>2. CASE protocol = "triple"
  <2>1. o.kind = "failure" => w = [ok |-> FALSE]
    BY <1>2 DEF Wire
  <2>2. ASSUME o.kind # "failure"
        PROVE  w.ok /\ w.data = o.arg /\ w # Lost
    <3>1. \E type : w = [ok |-> TRUE, type |-> type, data |-> o.arg]
      BY <1>2, <2>2 DEF Wire
    <3> QED
      BY <3>1 DEF Lost
  <2>3. o.kind \in {"failure", "value", "null"}
    BY <1>1 DEF Value, Null, Fails
  <2> QED
    BY <1>2, <2>1, <2>2, <2>3 DEF FromWire, FromTriple, Err, Lost
<1>3. CASE protocol = "jsonrpc"
  <2>1. PICK r, e : /\ w = [result |-> r, error |-> e]
                    /\ o.kind = "value" => r = o.arg
                    /\ o.kind # "value" => r = Nil
                    /\ o.kind # "failure" => e = Nil
    BY <1>3 DEF Wire
  <2>2. w # Lost /\ w.result = r /\ w.error = e
    BY <2>1 DEF Lost
  <2>3. o.kind \in {"failure", "value", "null"}
    BY <1>1 DEF Value, Null, Fails
  <2>4. FromWire(protocol, w) = FromJson(w)
    BY <2>2, <1>3 DEF FromWire
  <2> QED
    BY <1>3, <2>1, <2>2, <2>3, <2>4 DEF FromJson
<1>4. CASE protocol = "rest"
  BY <1>1, <1>4 DEF Wire, FromWire, FromRest, Value, Null, Fails, Err, Lost
<1>5. CASE protocol = "grpc"
  <2>1. CASE o.kind = "failure"
    BY <2>1, <1>5 DEF Wire, FromWire, FromGrpc, DecodeFrame, HeadLength, Err, Lost
  <2>2. CASE o.kind # "failure"
    <3>1. o.kind \in {"value", "null"} /\ (o.kind = "value" => o.arg \in Bytes) /\ (o.kind = "null" => o.arg = <<>>)
      BY <1>1, <2>2 DEF Value, Null, Fails
    <3>2. \/ w = [http |-> 200, body |-> <<1, 0, 0, 0, 0>>]
          \/ \E n \in 0 .. Len(o.arg) + 5 :
               w = [http |-> 200, body |-> SubSeq(EncodeFrame(o.arg), 1, n)]
      BY <1>5, <2>2 DEF Wire
    <3>3. CASE w = [http |-> 200, body |-> <<1, 0, 0, 0, 0>>]
      BY <3>3, <1>5 DEF FromWire, FromGrpc, DecodeFrame, HeadLength, Lost
    <3>4. CASE \E n \in 0 .. Len(o.arg) + 5 :
                 w = [http |-> 200, body |-> SubSeq(EncodeFrame(o.arg), 1, n)]
      <4>1. PICK n \in 0 .. Len(o.arg) + 5 :
                   w = [http |-> 200, body |-> SubSeq(EncodeFrame(o.arg), 1, n)]
        BY <3>4
      <4>2. FromWire(protocol, w) = DecodeFrame(SubSeq(EncodeFrame(o.arg), 1, n))
        BY <4>1, <1>5 DEF FromWire, FromGrpc, Lost
      <4> QED
        BY <4>2, <3>1, <1>5, FrameDecodes
    <3> QED
      BY <3>2, <3>3, <3>4
  <2> QED
    BY <2>1, <2>2
<1> QED
  BY <1>2, <1>3, <1>4, <1>5

-----------------------------------------------------------------------------
(* The steps.                                                              *)

LEMMA InitHttpInv == HttpInit => HttpInv
<1> SUFFICES ASSUME HttpInit PROVE HttpInv
  OBVIOUS
<1>1. SubSeq(emitted, 1, Len(taken) + Len(transit)) = <<>> /\ taken \o transit = <<>>
      /\ Len(taken) + Len(transit) = 0
  BY SubSeqEmpty DEF HttpInit
<1> QED
  BY <1>1 DEF HttpInit, HttpInv

(* The streams are left alone by most steps.                               *)
StreamOK ==
  /\ emitted \in Seq(Bytes) /\ taken \in Seq(Bytes) /\ transit \in Seq(Bytes)
  /\ taken \o transit = SubSeq(emitted, 1, Len(taken) + Len(transit))
  /\ Len(taken) + Len(transit) <= Len(emitted)
  /\ closing = "open" => Len(taken) + Len(transit) = Len(emitted)

LEMMA NextHttpInv == HttpInv /\ [HttpNext]_httpVars => HttpInv'
<1> SUFFICES ASSUME HttpInv, [HttpNext]_httpVars PROVE HttpInv'
  OBVIOUS
<1>1. CASE Connect
  BY <1>1 DEF HttpInv, Connect, Came, Made, callVars, streamVars
<1>2. CASE Silence
  BY <1>2 DEF HttpInv, Silence, Came, Made, callVars, streamVars
<1>3. ASSUME NEW kind \in Kinds, NEW verb \in Verb, NEW args \in Arguments, InvokeRemote(kind, verb, args)
      PROVE  HttpInv'
  <2>1. ask' # Nil
    BY <1>3, HttpAssumption DEF InvokeRemote
  <2> QED
    BY <1>3, <2>1 DEF HttpInv, InvokeRemote, Came, Made, streamVars
<1>4. ASSUME NEW o \in ServiceResults, Act(o)
      PROVE  HttpInv'
  <2>1. o # Nil
    BY HttpAssumption
  <2> QED
    BY <1>4, <2>1 DEF HttpInv, Act, Waiting, Came, Made, streamVars
<1>5. CASE NoticeSilence
  <2>1. Unknown # Nil
    BY HttpAssumption
  <2> QED
    BY <1>5, <2>1 DEF HttpInv, NoticeSilence, Waiting, Came, Made
<1>6. CASE ReturnResult
  BY <1>6 DEF HttpInv, ReturnResult, Came, Made, streamVars
<1>7. ASSUME NEW v \in Bytes, Emit(v)
      PROVE  HttpInv'
  <2>1. \A s \in Seq(Bytes) :
          /\ Append(s, v) \in Seq(Bytes) /\ Len(Append(s, v)) = Len(s) + 1 /\ Append(s, v) = s \o <<v>>
    BY AppendProperties, AppendIsConcat
  <2>2. /\ emitted \in Seq(Bytes) /\ taken \in Seq(Bytes) /\ transit \in Seq(Bytes)
        /\ taken \o transit = SubSeq(emitted, 1, Len(taken) + Len(transit))
        /\ Len(taken) + Len(transit) = Len(emitted)
        /\ Len(taken) \in Nat /\ Len(transit) \in Nat /\ Len(emitted) \in Nat
    BY <1>7, LenProperties DEF HttpInv, Emit
  <2>3. taken \o transit = emitted
    BY <2>2, SubSeqFull
  <2>4. taken \o Append(transit, v) = Append(emitted, v)
    <3>1. <<v>> \in Seq(Bytes)
      OBVIOUS
    <3>2. (taken \o transit) \o <<v>> = taken \o (transit \o <<v>>)
      <4>1. taken \in Seq(Bytes) /\ transit \in Seq(Bytes)
        BY <2>2
      <4> QED
        BY <4>1, <3>1, ConcatAssociative
    <3> QED
      BY <2>1, <2>2, <2>3, <3>2
  <2>5. SubSeq(Append(emitted, v), 1, Len(Append(emitted, v))) = Append(emitted, v)
    BY <2>1, <2>2, SubSeqFull
  <2>6. StreamOK'
    BY <1>7, <2>1, <2>2, <2>4, <2>5 DEF Emit, StreamOK, callVars
  <2> QED
    BY <1>7, <2>6 DEF HttpInv, Emit, StreamOK, Came, Made, callVars
<1>8. CASE EndStream
  <2>1. StreamOK'
    <3>1. CASE UNCHANGED transit
      BY <1>8, <3>1 DEF HttpInv, EndStream, StreamOK
    <3>2. ASSUME NEW n \in 0 .. Len(transit), transit' = SubSeq(transit, 1, n), closing' = "broken"
          PROVE  StreamOK'
      <4>1. transit' \in Seq(Bytes) /\ Len(transit') = n /\ n \in Nat /\ n <= Len(transit)
        BY <3>2, Beginning, LenProperties DEF HttpInv
      <4>2. taken \o transit' = SubSeq(taken \o transit, 1, Len(taken) + n)
        BY <3>2, BeginningOfBoth DEF HttpInv
      <4>3. SubSeq(SubSeq(emitted, 1, Len(taken) + Len(transit)), 1, Len(taken) + n)
            = SubSeq(emitted, 1, Len(taken) + n)
        <5>1. /\ Len(taken) \in Nat /\ Len(transit) \in Nat /\ Len(emitted) \in Nat
              /\ Len(taken) + Len(transit) <= Len(emitted)
          BY LenProperties DEF HttpInv
        <5> QED
          BY <5>1, <4>1, BeginningOfBeginning DEF HttpInv
      <4> QED
        BY <1>8, <3>2, <4>1, <4>2, <4>3, LenProperties DEF HttpInv, EndStream, StreamOK
    <3> QED
      BY <1>8, <3>1, <3>2 DEF EndStream
  <2> QED
    BY <1>8, <2>1 DEF HttpInv, EndStream, StreamOK, Came, Made, callVars
<1>9. CASE Next
  <2>1. StreamOK'
    <3>1. /\ emitted \in Seq(Bytes) /\ taken \in Seq(Bytes) /\ transit \in Seq(Bytes)
          /\ transit # <<>>
      BY <1>9 DEF HttpInv, Next
    <3>2. transit[1] \in Bytes /\ Tail(transit) \in Seq(Bytes)
          /\ Len(Tail(transit)) = Len(transit) - 1 /\ Len(transit) \in Nat
      BY <3>1, HeadTailProperties, LenProperties, ElementOfSeq, EmptySeq
    <3>3. /\ taken' \in Seq(Bytes) /\ Len(taken') = Len(taken) + 1 /\ taken' = taken \o <<transit[1]>>
      BY <1>9, <3>1, <3>2, AppendProperties, AppendIsConcat DEF Next
    <3>4. transit = <<transit[1]>> \o Tail(transit)
      BY <3>1, OneInFront
    <3>5. taken' \o transit' = taken \o transit
      <4>1. <<transit[1]>> \in Seq(Bytes)
        BY <3>2
      <4>2. (taken \o <<transit[1]>>) \o Tail(transit) = taken \o (<<transit[1]>> \o Tail(transit))
        BY <3>1, <3>2, <4>1, ConcatAssociative
      <4> QED
        BY <1>9, <3>3, <3>4, <4>2 DEF Next
    <3>6. Len(taken') + Len(transit') = Len(taken) + Len(transit)
      BY <1>9, <3>1, <3>2, <3>3, LenProperties DEF Next
    <3> QED
      BY <1>9, <3>2, <3>3, <3>5, <3>6 DEF HttpInv, Next, StreamOK
  <2> QED
    BY <1>9, <2>1 DEF HttpInv, Next, StreamOK, Came, Made, callVars
<1>10. CASE FinishStream
  BY <1>10 DEF HttpInv, FinishStream, Came, Made, callVars
<1>11. CASE UNCHANGED httpVars
  BY <1>11 DEF HttpInv, Came, Made, httpVars, callVars, streamVars
<1> QED
  BY <1>1, <1>2, <1>3, <1>4, <1>5, <1>6, <1>7, <1>8, <1>9, <1>10, <1>11 DEF HttpNext

LEMMA HttpInvSuffices == HttpInv => RemoteResultsAreKept
<1> SUFFICES ASSUME HttpInv PROVE RemoteResultsAreKept
  OBVIOUS
<1>1. taken \o transit = SubSeq(emitted, 1, Len(taken) + Len(transit))
  BY DEF HttpInv
<1>2. ASSUME result # Nil
      PROVE  /\ result.kind = "value" =>
                  \/ did.kind \in {"value", "null"} /\ result.arg = did.arg
                  \/ peer.protocol = "grpc" /\ result.arg = <<>>
             /\ result.kind = "error" => did.kind = "failure"
             /\ result.kind = "err" =>
                  \/ did = Nil \/ wireAnswer = Lost
                  \/ did.kind = "failure" \/ peer.protocol \in {"jsonrpc", "grpc"}
  <2>1. CASE result = Err /\ did = Nil
    BY <2>1 DEF Err
  <2>2. CASE wireAnswer = Lost /\ result = FromWire(peer.protocol, wireAnswer)
    <3>1. result = Err
      BY <2>2 DEF FromWire
    <3> QED
      BY <3>1, <2>2 DEF Err
  <2>3. CASE /\ did \in ServiceResults /\ wireAnswer \in Wire(peer.protocol, did)
             /\ result = FromWire(peer.protocol, wireAnswer)
    <3>1. \/ result = Err /\ \/ did.kind = "failure" \/ peer.protocol \in {"jsonrpc", "grpc"}
                             \/ wireAnswer = Lost
          \/ did.kind \in {"value", "null"} /\ result = Value(did.arg)
          \/ peer.protocol = "grpc" /\ result = Value(<<>>)
          \/ did.kind = "failure" /\ \E e : result = RPCError(e)
      <4>1. peer.protocol \in {"triple", "grpc", "jsonrpc", "rest"}
        BY DEF HttpInv
      <4> QED
        BY <2>3, <4>1, WireIsRead
    <3>2. CASE result = Err
      BY <3>1, <3>2 DEF Err, Value, RPCError
    <3>3. CASE did.kind \in {"value", "null"} /\ result = Value(did.arg)
      BY <3>3 DEF Value
    <3>4. CASE peer.protocol = "grpc" /\ result = Value(<<>>)
      BY <3>4 DEF Value
    <3>5. CASE did.kind = "failure" /\ \E e : result = RPCError(e)
      BY <3>5 DEF RPCError
    <3> QED
      BY <3>1, <3>2, <3>3, <3>4, <3>5
  <2> QED
    BY <1>2, <2>1, <2>2, <2>3 DEF HttpInv, Made, Came
<1> QED
  BY <1>1, <1>2 DEF RemoteResultsAreKept

\* HttpProtocols: no invoker over HTTP returns a value where the service failed, nor an
\* RPCError where it did not, and a stream hands over what was emitted, in order.
THEOREM RemoteResultsKept == HttpSpec => []RemoteResultsAreKept
<1>1. HttpInv /\ [HttpNext]_httpVars => HttpInv'
  BY NextHttpInv
<1> QED
  BY <1>1, InitHttpInv, HttpInvSuffices, PTL DEF HttpSpec

-----------------------------------------------------------------------------
(* The three parts, side by side.                                          *)

\* Wire: whatever stream, Dubbo exchange or call over HTTP is under way, what it carries
\* means at its end what it meant at its beginning.
THEOREM WireMeaningKept == HessianSpec /\ MessageSpec /\ HttpSpec => []WireKeepsMeaning
  BY DocumentsRoundTrip, MessageMeaningKept, RemoteResultsKept, PTL DEF WireKeepsMeaning
=============================================================================
