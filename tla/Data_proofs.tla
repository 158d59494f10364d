---------------------------- MODULE Data_proofs -----------------------------
(***************************************************************************)
(* What the helpers compute that other proofs build on: the parts of a     *)
(* list that filter() and retain() leave, and the numbers of the Hessian2  *)
(* codec, where what the Decoder reads from the bytes the Encoder wrote is *)
(* the number that was written, for every int and every long.              *)
(*                                                                         *)
(* Induction is stated with a set in the place of a predicate: a set that  *)
(* has zero and every successor has every number, and one that has the     *)
(* empty list and whatever is appended to its members has every list.      *)
(***************************************************************************)
EXTENDS Lists, HessianNumbers, TLAPS, WellFoundedInduction, FiniteSetTheorems

-----------------------------------------------------------------------------
(* Numbers and lists by induction.                                         *)

LEMMA LeastNat ==
  ASSUME NEW T \in SUBSET Nat, T # {}
  PROVE  \E n \in T : \A m \in T : n <= m
<1> DEFINE less == {ss \in Nat \X Nat : ss[1] < ss[2]}
<1>1. IsWellFoundedOn(less, Nat)
  BY NatLessThanWellFounded, Zenon DEF OpToRel
<1>2. \A i, j \in Nat : i < j => <<i, j>> \in less
  OBVIOUS
<1> HIDE DEF less
<1>3. PICK n \in T : \A m \in T : ~ (<<m, n>> \in less)
  BY <1>1, WFMin
<1>4. \A m \in T : ~(m < n)
  BY <1>2, <1>3
<1>5. \A m \in T : n <= m
  BY <1>4
<1> QED
  BY <1>5

\* Induction on the natural numbers, for a set of them.
LEMMA Induction ==
  ASSUME NEW S, 0 \in S, \A n \in Nat : n \in S => n + 1 \in S
  PROVE  Nat \subseteq S
<1> SUFFICES ASSUME Nat \ S # {} PROVE FALSE
  OBVIOUS
<1>1. PICK n \in Nat \ S : \A m \in Nat \ S : n <= m
  BY LeastNat
<1>2. n # 0 /\ n - 1 \in Nat
  BY <1>1
<1>3. n - 1 \in S
  BY <1>1, <1>2
<1> QED
  BY <1>1, <1>2, <1>3

\* The recursive function in Keep, one element at a time.
Keeps(kept, seq, set) ==
  /\ Keep(seq, set) = kept[Len(seq)]
  /\ kept[0] = <<>>
  /\ \A i \in 1 .. Len(seq) :
       kept[i] = IF seq[i] \in set THEN Append(kept[i - 1], seq[i]) ELSE kept[i - 1]

LEMMA KeepSteps ==
  ASSUME NEW E, NEW seq \in Seq(E), NEW set
  PROVE  \E kept : Keeps(kept, seq, set)
<1> DEFINE f == CHOOSE g : g = [i \in 0 .. Len(seq) |->
                  IF i = 0 THEN <<>>
                  ELSE IF seq[i] \in set THEN Append(g[i - 1], seq[i]) ELSE g[i - 1]]
           Def(v, i) == IF seq[i] \in set THEN Append(v, seq[i]) ELSE v
<1>1. Keep(seq, set) = f[Len(seq)]
  BY Zenon DEF Keep
<1>2. FiniteNatInductiveDefHypothesis(f, <<>>, Def, 0, Len(seq))
  BY Zenon DEF FiniteNatInductiveDefHypothesis
<1>3. 0 \in Nat /\ Len(seq) \in Nat /\ 0 <= Len(seq)
  OBVIOUS
<1>4. FiniteNatInductiveDefConclusion(f, <<>>, Def, 0, Len(seq))
  BY <1>2, <1>3, FiniteNatInductiveDef, Zenon
<1>5. f = [i \in 0 .. Len(seq) |-> IF i = 0 THEN <<>> ELSE Def(f[i - 1], i)]
  BY <1>4, Zenon DEF FiniteNatInductiveDefConclusion
<1> HIDE DEF f
<1>6. f[0] = <<>>
  BY <1>3, <1>5
<1>7. ASSUME NEW i \in 1 .. Len(seq)
      PROVE  f[i] = IF seq[i] \in set THEN Append(f[i - 1], seq[i]) ELSE f[i - 1]
  <2>1. i \in 0 .. Len(seq) /\ i # 0
    BY <1>3
  <2>2. f[i] = IF i = 0 THEN <<>> ELSE Def(f[i - 1], i)
    BY <1>5, <2>1, Zenon
  <2> QED
    BY <2>1, <2>2, Zenon
<1>8. Keeps(f, seq, set)
  BY <1>1, <1>6, <1>7, Zenon DEF Keeps
<1> QED
  BY <1>8

LEMMA AppendFacts ==
  ASSUME NEW E, NEW seq \in Seq(E), NEW e \in E
  PROVE  /\ Append(seq, e) \in Seq(E)
         /\ Len(Append(seq, e)) = Len(seq) + 1
         /\ \A i \in 1 .. Len(seq) : Append(seq, e)[i] = seq[i]
         /\ Append(seq, e)[Len(seq) + 1] = e
         /\ ToSet(Append(seq, e)) = ToSet(seq) \cup {e}
<1>1. /\ Append(seq, e) \in Seq(E)
      /\ Len(Append(seq, e)) = Len(seq) + 1
      /\ \A i \in 1 .. Len(seq) : Append(seq, e)[i] = seq[i]
      /\ Append(seq, e)[Len(seq) + 1] = e
  OBVIOUS
<1>2. DOMAIN Append(seq, e) = 1 .. Len(seq) + 1 /\ DOMAIN seq = 1 .. Len(seq)
  OBVIOUS
<1>3. ToSet(Append(seq, e)) \subseteq ToSet(seq) \cup {e}
  BY <1>1, <1>2 DEF ToSet
<1>4. ToSet(seq) \cup {e} \subseteq ToSet(Append(seq, e))
  BY <1>1, <1>2 DEF ToSet
<1> QED
  BY <1>1, <1>3, <1>4

\* Induction on lists, for a set of them.
LEMMA ListInduction ==
  ASSUME NEW E, NEW S, <<>> \in S,
         \A seq \in Seq(E), e \in E : seq \in S => Append(seq, e) \in S
  PROVE  Seq(E) \subseteq S
<1> DEFINE T == {n \in Nat : \A seq \in Seq(E) : Len(seq) = n => seq \in S}
<1>1. 0 \in T
  <2>1. \A seq \in Seq(E) : Len(seq) = 0 => seq = <<>>
    OBVIOUS
  <2> QED
    BY <2>1
<1>2. ASSUME NEW n \in Nat, n \in T PROVE n + 1 \in T
  <2> SUFFICES ASSUME NEW seq \in Seq(E), Len(seq) = n + 1 PROVE seq \in S
    OBVIOUS
  <2> DEFINE front == SubSeq(seq, 1, n)
  <2>1. front \in Seq(E) /\ Len(front) = n /\ seq[n + 1] \in E
    OBVIOUS
  <2>2. seq = Append(front, seq[n + 1])
    OBVIOUS
  <2>3. front \in S
    BY <1>2, <2>1
  <2> QED
    BY <2>1, <2>2, <2>3
<1> HIDE DEF T
<1>3. Nat \subseteq T
  BY <1>1, <1>2, Induction
<1> QED
  BY <1>3 DEF T

LEMMA KeepEmpty ==
  ASSUME NEW set
  PROVE  Keep(<<>>, set) = <<>>
<1>1. <<>> \in Seq({})
  OBVIOUS
<1>2. PICK kept : Keeps(kept, <<>>, set)
  BY <1>1, KeepSteps
<1>3. Len(<<>>) = 0
  OBVIOUS
<1> QED
  BY <1>2, <1>3, Zenon DEF Keeps

LEMMA KeepAppend ==
  ASSUME NEW E, NEW seq \in Seq(E), NEW e \in E, NEW set
  PROVE  Keep(Append(seq, e), set) =
           IF e \in set THEN Append(Keep(seq, set), e) ELSE Keep(seq, set)
<1> DEFINE longer == Append(seq, e)
<1>1. PICK f : Keeps(f, seq, set)
  BY KeepSteps
<1>2. longer \in Seq(E)
  BY AppendFacts
<1> PICK g : Keeps(g, longer, set)
  BY <1>2, KeepSteps
<1>3. /\ Len(longer) = Len(seq) + 1 /\ Len(seq) \in Nat
      /\ \A i \in 1 .. Len(seq) : longer[i] = seq[i]
      /\ longer[Len(seq) + 1] = e
  BY AppendFacts
<1> HIDE DEF longer
<1> DEFINE S == {i \in Nat : i <= Len(seq) => f[i] = g[i]}
<1>4. 0 \in S
  BY <1>1 DEF Keeps
<1>5. ASSUME NEW i \in Nat, i \in S PROVE i + 1 \in S
  <2> SUFFICES ASSUME i + 1 <= Len(seq) PROVE f[i + 1] = g[i + 1]
    OBVIOUS
  <2>1. f[i] = g[i] /\ (i + 1) - 1 = i /\ i + 1 \in 1 .. Len(seq) /\ i + 1 \in 1 .. Len(longer)
    BY <1>3, <1>5
  <2>2. f[i + 1] = IF seq[i + 1] \in set THEN Append(f[i], seq[i + 1]) ELSE f[i]
    BY <1>1, <2>1 DEF Keeps
  <2>3. g[i + 1] = IF longer[i + 1] \in set THEN Append(g[i], longer[i + 1]) ELSE g[i]
    BY <2>1 DEF Keeps
  <2> QED
    BY <1>3, <2>1, <2>2, <2>3
<1>6. Nat \subseteq S
  <2> HIDE DEF S
  <2> QED
    BY <1>4, <1>5, Induction
<1>7. f[Len(seq)] = g[Len(seq)]
  BY <1>3, <1>6
<1>8. Len(longer) \in 1 .. Len(longer) /\ Len(longer) - 1 = Len(seq)
  BY <1>3
<1>9. g[Len(longer)] = IF e \in set THEN Append(g[Len(seq)], e) ELSE g[Len(seq)]
  BY <1>3, <1>8 DEF Keeps
<1> QED
  BY <1>1, <1>7, <1>9 DEF Keeps, longer

-----------------------------------------------------------------------------
(* What Keep returns.                                                      *)

\* It is a list of the elements of the list that are in the set.
LEMMA KeepElements ==
  ASSUME NEW E, NEW seq \in Seq(E), NEW set
  PROVE  /\ Keep(seq, set) \in Seq(E)
         /\ ToSet(Keep(seq, set)) = ToSet(seq) \cap set
         /\ Len(Keep(seq, set)) <= Len(seq)
<1> DEFINE S == {s \in Seq(E) : /\ Keep(s, set) \in Seq(E)
                                /\ ToSet(Keep(s, set)) = ToSet(s) \cap set
                                /\ Len(Keep(s, set)) <= Len(s)}
<1>1. <<>> \in S
  <2>1. <<>> \in Seq(E) /\ ToSet(<<>>) = {} /\ Len(<<>>) <= Len(<<>>)
    BY DEF ToSet
  <2> QED
    BY <2>1, KeepEmpty, Zenon
<1>2. ASSUME NEW s \in Seq(E), NEW e \in E, s \in S PROVE Append(s, e) \in S
  <2>1. /\ Keep(s, set) \in Seq(E)
        /\ ToSet(Keep(s, set)) = ToSet(s) \cap set
        /\ Len(Keep(s, set)) <= Len(s)
    BY <1>2
  <2>2. /\ Append(s, e) \in Seq(E) /\ ToSet(Append(s, e)) = ToSet(s) \cup {e}
        /\ Len(Append(s, e)) = Len(s) + 1
    BY AppendFacts
  <2>3. CASE e \in set
    <3>1. Keep(Append(s, e), set) = Append(Keep(s, set), e)
      BY <2>3, KeepAppend
    <3>2. /\ Append(Keep(s, set), e) \in Seq(E)
          /\ ToSet(Append(Keep(s, set), e)) = ToSet(Keep(s, set)) \cup {e}
          /\ Len(Append(Keep(s, set), e)) = Len(Keep(s, set)) + 1
      BY <2>1, AppendFacts
    <3>3. Len(Append(Keep(s, set), e)) <= Len(s) + 1
      BY <2>1, <3>2
    <3>4. ToSet(Append(Keep(s, set), e)) = (ToSet(s) \cup {e}) \cap set
      BY <2>1, <2>3, <3>2
    <3> QED
      BY <2>2, <3>1, <3>2, <3>3, <3>4, Zenon
  <2>4. CASE e \notin set
    <3>1. Keep(Append(s, e), set) = Keep(s, set)
      BY <2>4, KeepAppend
    <3> QED
      BY <2>1, <2>2, <2>4, <3>1
  <2> QED
    BY <2>3, <2>4
<1> HIDE DEF S
<1>3. seq \in S
  BY <1>1, <1>2, ListInduction
<1> QED
  BY <1>3 DEF S

LEMMA InjectiveAppend ==
  ASSUME NEW E, NEW seq \in Seq(E), NEW e \in E
  PROVE  IsInjective(Append(seq, e)) <=> IsInjective(seq) /\ e \notin ToSet(seq)
<1>1. /\ DOMAIN seq = 1 .. Len(seq) /\ DOMAIN Append(seq, e) = 1 .. Len(seq) + 1
      /\ \A i \in 1 .. Len(seq) : Append(seq, e)[i] = seq[i]
      /\ Append(seq, e)[Len(seq) + 1] = e
      /\ Len(seq) \in Nat
  OBVIOUS
<1>2. ASSUME IsInjective(Append(seq, e)) PROVE IsInjective(seq) /\ e \notin ToSet(seq)
  BY <1>1, <1>2 DEF IsInjective, ToSet
<1>3. ASSUME IsInjective(seq), e \notin ToSet(seq) PROVE IsInjective(Append(seq, e))
  BY <1>1, <1>3 DEF IsInjective, ToSet
<1> QED
  BY <1>2, <1>3

\* A list without repetitions is left without any.
LEMMA KeepInjective ==
  ASSUME NEW E, NEW seq \in Seq(E), NEW set, IsInjective(seq)
  PROVE  IsInjective(Keep(seq, set))
<1> DEFINE S == {s \in Seq(E) : IsInjective(s) => IsInjective(Keep(s, set))}
<1>1. <<>> \in S
  BY KeepEmpty DEF IsInjective
<1>2. ASSUME NEW s \in Seq(E), NEW e \in E, s \in S PROVE Append(s, e) \in S
  <2>1. Append(s, e) \in Seq(E)
    BY AppendFacts
  <2> SUFFICES ASSUME IsInjective(Append(s, e)) PROVE IsInjective(Keep(Append(s, e), set))
    BY <2>1
  <2>2. IsInjective(s) /\ e \notin ToSet(s) /\ IsInjective(Keep(s, set))
    BY <1>2, InjectiveAppend
  <2>3. Keep(s, set) \in Seq(E) /\ e \notin ToSet(Keep(s, set))
    BY <2>2, KeepElements
  <2>4. IsInjective(Append(Keep(s, set), e))
    BY <2>2, <2>3, InjectiveAppend
  <2> QED
    BY <2>2, <2>4, KeepAppend
<1> HIDE DEF S
<1>3. seq \in S
  BY <1>1, <1>2, ListInduction
<1> QED
  BY <1>3 DEF S

\* A list of numbers that rises, and what it keeps of one.
Rising(seq) == \A i, j \in DOMAIN seq : i < j => seq[i] < seq[j]

LEMMA RisingAppend ==
  ASSUME NEW seq \in Seq(Int), NEW e \in Int
  PROVE  Rising(Append(seq, e)) <=> Rising(seq) /\ \A x \in ToSet(seq) : x < e
<1> DEFINE longer == Append(seq, e)
<1>1. /\ DOMAIN seq = 1 .. Len(seq) /\ DOMAIN longer = 1 .. Len(seq) + 1
      /\ \A i \in 1 .. Len(seq) : longer[i] = seq[i]
      /\ longer[Len(seq) + 1] = e
      /\ Len(seq) \in Nat
      /\ \A i \in 1 .. Len(seq) : seq[i] \in Int
  OBVIOUS
<1>2. ToSet(seq) = {seq[i] : i \in 1 .. Len(seq)}
  BY <1>1 DEF ToSet
<1> HIDE DEF longer
<1>3. ASSUME Rising(longer) PROVE Rising(seq) /\ \A x \in ToSet(seq) : x < e
  BY <1>1, <1>2, <1>3 DEF Rising
<1>4. ASSUME Rising(seq), \A x \in ToSet(seq) : x < e PROVE Rising(longer)
  <2> SUFFICES ASSUME NEW i \in DOMAIN longer, NEW j \in DOMAIN longer, i < j
               PROVE  longer[i] < longer[j]
    BY DEF Rising
  <2>1. i \in 1 .. Len(seq) /\ longer[i] = seq[i] /\ seq[i] \in ToSet(seq)
    BY <1>1, <1>2
  <2>2. CASE j = Len(seq) + 1
    BY <1>1, <1>4, <2>1, <2>2
  <2>3. CASE j \in 1 .. Len(seq)
    BY <1>1, <1>4, <2>1, <2>3 DEF Rising
  <2> QED
    BY <1>1, <2>2, <2>3
<1> QED
  BY <1>3, <1>4 DEF longer

LEMMA KeepRising ==
  ASSUME NEW seq \in Seq(Int), NEW set, Rising(seq)
  PROVE  Rising(Keep(seq, set))
<1> DEFINE S == {s \in Seq(Int) : Rising(s) => Rising(Keep(s, set))}
<1>1. <<>> \in S
  BY KeepEmpty DEF Rising
<1>2. ASSUME NEW s \in Seq(Int), NEW e \in Int, s \in S PROVE Append(s, e) \in S
  <2>1. Append(s, e) \in Seq(Int)
    BY AppendFacts
  <2> SUFFICES ASSUME Rising(Append(s, e)) PROVE Rising(Keep(Append(s, e), set))
    BY <2>1
  <2>2. Rising(s) /\ (\A x \in ToSet(s) : x < e) /\ Rising(Keep(s, set))
    BY <1>2, RisingAppend
  <2>3. Keep(s, set) \in Seq(Int) /\ \A x \in ToSet(Keep(s, set)) : x < e
    BY <2>2, KeepElements
  <2>4. Rising(Append(Keep(s, set), e))
    BY <2>2, <2>3, RisingAppend
  <2> QED
    BY <2>2, <2>4, KeepAppend
<1> HIDE DEF S
<1>3. seq \in S
  BY <1>1, <1>2, ListInduction
<1> QED
  BY <1>3 DEF S

\* Of two lists one after the other it keeps what it keeps of each.
LEMMA KeepConcat ==
  ASSUME NEW E, NEW left \in Seq(E), NEW right \in Seq(E), NEW set
  PROVE  Keep(left \o right, set) = Keep(left, set) \o Keep(right, set)
<1> DEFINE S == {s \in Seq(E) : Keep(left \o s, set) = Keep(left, set) \o Keep(s, set)}
<1>0. Keep(left, set) \in Seq(E)
  BY KeepElements
<1>1. <<>> \in S
  <2>1. left \o <<>> = left /\ Keep(left, set) \o <<>> = Keep(left, set) /\ <<>> \in Seq(E)
    BY <1>0
  <2> QED
    BY <2>1, KeepEmpty, Zenon
<1>2. ASSUME NEW s \in Seq(E), NEW e \in E, s \in S PROVE Append(s, e) \in S
  <2>1. /\ Append(s, e) \in Seq(E) /\ left \o s \in Seq(E) /\ Keep(s, set) \in Seq(E)
        /\ left \o Append(s, e) = Append(left \o s, e)
    BY KeepElements
  <2>2. Keep(left, set) \o Append(Keep(s, set), e) = Append(Keep(left, set) \o Keep(s, set), e)
    BY <1>0, <2>1
  <2>3. Keep(Append(left \o s, e), set) =
          IF e \in set THEN Append(Keep(left \o s, set), e) ELSE Keep(left \o s, set)
    BY <2>1, KeepAppend
  <2>4. Keep(Append(s, e), set) = IF e \in set THEN Append(Keep(s, set), e) ELSE Keep(s, set)
    BY KeepAppend
  <2> QED
    BY <1>2, <2>1, <2>2, <2>3, <2>4
<1> HIDE DEF S
<1>3. right \in S
  BY <1>1, <1>2, ListInduction
<1> QED
  BY <1>3 DEF S

\* A list whose elements are all different has as many as its set.
LEMMA InjectiveLength ==
  ASSUME NEW E, NEW seq \in Seq(E), IsInjective(seq)
  PROVE  IsFiniteSet(ToSet(seq)) /\ Cardinality(ToSet(seq)) = Len(seq)
<1> DEFINE S == {s \in Seq(E) : IsInjective(s) =>
                                  IsFiniteSet(ToSet(s)) /\ Cardinality(ToSet(s)) = Len(s)}
<1>1. <<>> \in S
  <2>1. <<>> \in Seq(E) /\ Len(<<>>) = 0 /\ ToSet(<<>>) = {}
    BY DEF ToSet
  <2> QED
    BY <2>1, FS_EmptySet
<1>2. ASSUME NEW s \in Seq(E), NEW e \in E, s \in S PROVE Append(s, e) \in S
  <2>1. Append(s, e) \in Seq(E) /\ Len(Append(s, e)) = Len(s) + 1
        /\ ToSet(Append(s, e)) = ToSet(s) \cup {e}
    BY AppendFacts
  <2>2. ASSUME IsInjective(Append(s, e))
        PROVE  /\ IsFiniteSet(ToSet(Append(s, e)))
               /\ Cardinality(ToSet(Append(s, e))) = Len(Append(s, e))
    <3>1. IsInjective(s) /\ e \notin ToSet(s)
      BY <2>2, InjectiveAppend
    <3>2. IsFiniteSet(ToSet(s)) /\ Cardinality(ToSet(s)) = Len(s)
      BY <1>2, <3>1
    <3>3. IsFiniteSet(ToSet(s) \cup {e}) /\ Cardinality(ToSet(s) \cup {e}) = Cardinality(ToSet(s)) + 1
      BY <3>1, <3>2, FS_AddElement
    <3> QED
      BY <2>1, <3>2, <3>3, Zenon
  <2> QED
    BY <2>1, <2>2
<1> HIDE DEF S
<1>3. Seq(E) \subseteq S
  BY <1>1, <1>2, ListInduction
<1> QED
  BY <1>3 DEF S

\* Reverse() of the community modules, by its elements.
LEMMA ReverseFacts ==
  ASSUME NEW E, NEW s \in Seq(E)
  PROVE  /\ Reverse(s) \in Seq(E) /\ Len(Reverse(s)) = Len(s)
         /\ \A i \in 1 .. Len(s) : Reverse(s)[i] = s[Len(s) - i + 1]
<1>1. Reverse(s) = [i \in 1 .. Len(s) |-> s[Len(s) - i + 1]]
  BY DEF Reverse
<1>2. \A i \in 1 .. Len(s) : Len(s) - i + 1 \in 1 .. Len(s)
  OBVIOUS
<1> QED
  BY <1>1, <1>2

-----------------------------------------------------------------------------
(* The numbers of the Hessian2 codec.                                      *)

(* Two bytes give back the number they were cut from, the first one signed. *)
LEMMA TwoBytes ==
    ASSUME NEW v \in Int, IsShort(v)
    PROVE  /\ Shift(v, 256) \in -8..7 /\ Low(v) \in 0..255
           /\ v = Shift(v, 256) * 256 + Low(v)
           /\ Shift(v, 256) % 16 =
                (IF Shift(v, 256) < 0 THEN Shift(v, 256) + 16 ELSE Shift(v, 256))
  BY SMTT(30) DEF Shift, Low, IsShort

(* The same of three bytes.                                                *)
LEMMA ThreeBytes ==
    ASSUME NEW v \in Int, IsMedium(v)
    PROVE  /\ Shift(v, 65536) \in -4..3
           /\ Low(Shift(v, 256)) \in 0..255 /\ Low(v) \in 0..255
           /\ v = Shift(v, 65536) * 65536 + Low(Shift(v, 256)) * 256 + Low(v)
           /\ Shift(v, 65536) % 8 =
                (IF Shift(v, 65536) < 0 THEN Shift(v, 65536) + 8 ELSE Shift(v, 65536))
  BY SMTT(30) DEF Shift, Low, IsMedium

(* A shift by two bytes is two shifts by one.                              *)
LEMMA Nested ==
    ASSUME NEW v \in Int
    PROVE  /\ Shift(v, 16777216) = Shift(Shift(v, 65536), 256)
           /\ Shift(v, 65536) = Shift(Shift(v, 256), 256)
  BY SMTT(30) DEF Shift

(* The lowest byte and the rest.                                           *)
LEMMA CutByte ==
    ASSUME NEW v \in Int
    PROVE  /\ Shift(v, 256) \in Int /\ Low(v) \in 0..255
           /\ v = Shift(v, 256) * 256 + Low(v)
  BY SMTT(30) DEF Shift, Low

(* The four bytes of a word give back the word.                            *)
LEMMA FourBytes ==
    ASSUME NEW v \in Int, IsWord(v), NEW tag
    PROVE  FromBytes4(BigEndian4(tag, v), 2) = v
<1> DEFINE h == Shift(v, 16777216)
           m == Shift(v, 65536)
           l == Shift(v, 256)
<1>1. /\ h \in Int /\ m \in Int /\ l \in Int
      /\ v = l * 256 + Low(v) /\ l = m * 256 + Low(l) /\ m = h * 256 + Low(m)
      /\ Low(v) \in 0..255 /\ Low(l) \in 0..255 /\ Low(m) \in 0..255
  <2>1. l \in Int /\ v = l * 256 + Low(v) /\ Low(v) \in 0..255
    BY SMTT(30), CutByte
  <2>2. m \in Int /\ l = m * 256 + Low(l) /\ Low(l) \in 0..255
    BY SMTT(30), <2>1, CutByte, Nested
  <2>3. h \in Int /\ m = h * 256 + Low(m) /\ Low(m) \in 0..255
    BY SMTT(30), <2>2, CutByte, Nested
  <2> QED
    BY SMTT(30), <2>1, <2>2, <2>3
<1>2. h \in -128..127
  BY SMTT(30) DEF IsWord, Shift
<1>3. Signed(Low(h)) = h
  BY SMTT(30), <1>2 DEF Signed, Low
<1>4. BigEndian4(tag, v) = <<tag, Low(h), Low(m), Low(l), Low(v)>>
  BY SMTT(30) DEF BigEndian4
<1> HIDE DEF h, m, l
<1>5. FromBytes4(BigEndian4(tag, v), 2) =
        (Signed(Low(h)) * 256 + Low(m)) * 65536 + (Low(l) * 256 + Low(v))
  BY SMTT(30), <1>4 DEF FromBytes4, FromBytes2
<1>6. m = Signed(Low(h)) * 256 + Low(m)
  BY SMTT(30), <1>1, <1>3
<1>7. v = m * 65536 + (Low(l) * 256 + Low(v))
  <2> DEFINE a == Low(l)
             b == Low(v)
  <2>1. a \in Int /\ b \in Int /\ l \in Int /\ m \in Int
        /\ v = l * 256 + b /\ l = m * 256 + a
    BY SMTT(30), <1>1
  <2> HIDE DEF a, b
  <2>2. v = m * 65536 + (a * 256 + b)
    BY SMTT(30), <2>1
  <2> QED
    BY SMTT(10), <2>2 DEF a, b
<1> QED
  BY SMTT(30), <1>5, <1>6, <1>7

(* The eight bytes of a long give back the long.                           *)
LEMMA EightBytes ==
    ASSUME NEW v \in Int, IsWord(Upper(v)), NEW tag
    PROVE  FromBytes8(BigEndian8(tag, v), 2) = v
<1> DEFINE h == BigEndian4(tag, Upper(v))
           n == Shift(v, 65536)
           m == Shift(v, 16777216)
           l == Shift(v, 256)
<1>1. /\ Upper(v) \in Int
      /\ n = Upper(v) * 65536 + (n % 65536) /\ v = n * 65536 + (v % 65536)
      /\ n \in Int
  BY SMTT(30) DEF Shift, Upper
<1>2. FromBytes4(h, 2) = Upper(v)
  BY SMTT(30), <1>1, FourBytes
<1>3. n % 65536 = Low(m) * 256 + Low(n) /\ Low(m) \in Int /\ Low(n) \in Int
  BY SMTT(60) DEF Low, Shift
<1>4. v % 65536 = Low(l) * 256 + Low(v) /\ Low(l) \in Int /\ Low(v) \in Int
  BY SMTT(60) DEF Low, Shift
<1>5. BigEndian8(tag, v) = <<tag, h[2], h[3], h[4], h[5], Low(m), Low(n), Low(l), Low(v)>>
  BY SMTT(30) DEF BigEndian8, BigEndian4
<1>6. FromBytes4(BigEndian8(tag, v), 2) = FromBytes4(h, 2)
  <2> HIDE DEF h, m, n, l
  <2> QED
    BY SMTT(30), <1>5 DEF FromBytes4, FromBytes2
<1> HIDE DEF h, m, n, l
<1>7. FromBytes8(BigEndian8(tag, v), 2) =
        ((Upper(v) * 65536) + (Low(m) * 256 + Low(n))) * 65536 + (Low(l) * 256 + Low(v))
  BY SMTT(30), <1>2, <1>5, <1>6 DEF FromBytes8
<1>8. n = Upper(v) * 65536 + (Low(m) * 256 + Low(n))
  BY SMTT(30), <1>1, <1>3
<1>9. v = n * 65536 + (Low(l) * 256 + Low(v))
  <2> DEFINE r == v % 65536
  <2>1. v = n * 65536 + r
    BY SMTT(10), <1>1
  <2>2. r = Low(l) * 256 + Low(v)
    BY SMTT(10), <1>4
  <2> HIDE DEF r
  <2> QED
    BY SMTT(10), <2>1, <2>2
<1> QED
  BY SMTT(30), <1>7, <1>8, <1>9

(* write_int then read_int: every int of 32 bits comes back.               *)
THEOREM IntRoundTrip ==
    ASSUME NEW v \in Int, IsWord(v)
    PROVE  ReadInt(WriteInt(v)) = Got(v, Len(WriteInt(v)))
<1>1. CASE IntIsTiny(v)
  BY SMTT(30), <1>1 DEF ReadInt, WriteInt, IntIsTiny
<1>2. CASE ~IntIsTiny(v) /\ IsShort(v)
  <2>1. WriteInt(v) = <<200 + Shift(v, 256), Low(v)>>
    BY SMTT(30), <1>2 DEF WriteInt
  <2> QED
    BY SMTT(30), <1>2, <2>1, TwoBytes DEF ReadInt, Wrapped, IsShort
<1>3. CASE ~IntIsTiny(v) /\ ~IsShort(v) /\ IsMedium(v)
  <2> DEFINE h == Shift(v, 65536)
             l == Low(Shift(v, 256))
             b == Low(v)
  <2>1. WriteInt(v) = <<208 + (h % 8), l, b>>
    BY SMTT(30), <1>3 DEF WriteInt
  <2>2. /\ h \in -4..3 /\ l \in 0..255 /\ b \in 0..255
        /\ v = h * 65536 + l * 256 + b
        /\ h % 8 = (IF h < 0 THEN h + 8 ELSE h)
    BY SMTT(30), <1>3, ThreeBytes
  <2> HIDE DEF h, l, b
  <2>3. ReadInt(<<208 + (h % 8), l, b>>) = Got(Wrapped((h % 8) * 65536 + l * 256 + b, 262144), 3)
    BY SMTT(30), <2>2 DEF ReadInt
  <2>4. Wrapped((h % 8) * 65536 + l * 256 + b, 262144) = v
    BY SMTT(30), <2>2 DEF Wrapped
  <2> QED
    BY SMTT(30), <2>1, <2>3, <2>4
<1>4. CASE ~IntIsTiny(v) /\ ~IsShort(v) /\ ~IsMedium(v)
  <2>1. WriteInt(v) = BigEndian4(73, v)
    BY SMTT(30), <1>4 DEF WriteInt
  <2>2. BigEndian4(73, v)[1] = 73 /\ Len(BigEndian4(73, v)) = 5
    BY SMTT(30) DEF BigEndian4
  <2>3. FromBytes4(BigEndian4(73, v), 2) = v
    BY SMTT(30), FourBytes
  <2>4. ReadInt(BigEndian4(73, v)) = Got(v, 5)
    BY SMTT(30), <2>2, <2>3 DEF ReadInt
  <2> QED
    BY Zenon, <2>1, <2>2, <2>4
<1> QED
  BY SMTT(30), <1>1, <1>2, <1>3, <1>4

(* write_long then read_long: every long whose upper half fits 32 bits,    *)
(* that is every one of 64 bits, comes back.                               *)
THEOREM LongRoundTrip ==
    ASSUME NEW v \in Int, IsWord(Upper(v))
    PROVE  ReadLong(WriteLong(v)) = Got(v, Len(WriteLong(v)))
<1>1. CASE LongIsTiny(v)
  BY SMTT(30), <1>1 DEF ReadLong, WriteLong, LongIsTiny
<1>2. CASE ~LongIsTiny(v) /\ IsShort(v)
  <2> DEFINE h == Shift(v, 256)
             b == Low(v)
  <2>1. WriteLong(v) = <<240 + (h % 16), b>>
    BY SMTT(30), <1>2 DEF WriteLong
  <2>2. /\ h \in -8..7 /\ b \in 0..255 /\ v = h * 256 + b
        /\ h % 16 = (IF h < 0 THEN h + 16 ELSE h)
    BY SMTT(30), <1>2, TwoBytes
  <2> HIDE DEF h, b
  <2>3. ReadLong(<<240 + (h % 16), b>>) = Got(Wrapped((h % 16) * 256 + b, 2048), 2)
    BY SMTT(30), <2>2 DEF ReadLong
  <2>4. Wrapped((h % 16) * 256 + b, 2048) = v
    BY SMTT(30), <2>2 DEF Wrapped
  <2> QED
    BY SMTT(30), <2>1, <2>3, <2>4
<1>3. CASE ~LongIsTiny(v) /\ ~IsShort(v) /\ IsMedium(v)
  <2> DEFINE h == Shift(v, 65536)
             l == Low(Shift(v, 256))
             b == Low(v)
  <2>1. WriteLong(v) = <<56 + (h % 8), l, b>>
    BY SMTT(30), <1>3 DEF WriteLong
  <2>2. /\ h \in -4..3 /\ l \in 0..255 /\ b \in 0..255
        /\ v = h * 65536 + l * 256 + b
        /\ h % 8 = (IF h < 0 THEN h + 8 ELSE h)
    BY SMTT(30), <1>3, ThreeBytes
  <2> HIDE DEF h, l, b
  <2>3. ReadLong(<<56 + (h % 8), l, b>>) = Got(Wrapped((h % 8) * 65536 + l * 256 + b, 262144), 3)
    BY SMTT(30), <2>2 DEF ReadLong
  <2>4. Wrapped((h % 8) * 65536 + l * 256 + b, 262144) = v
    BY SMTT(30), <2>2 DEF Wrapped
  <2> QED
    BY SMTT(30), <2>1, <2>3, <2>4
<1>4. CASE ~LongIsTiny(v) /\ ~IsShort(v) /\ ~IsMedium(v) /\ IsWord(v)
  <2>1. WriteLong(v) = BigEndian4(89, v)
    BY SMTT(30), <1>4 DEF WriteLong
  <2>2. BigEndian4(89, v)[1] = 89 /\ Len(BigEndian4(89, v)) = 5
    BY SMTT(30) DEF BigEndian4
  <2>3. FromBytes4(BigEndian4(89, v), 2) = v
    BY SMTT(30), <1>4, FourBytes
  <2>4. ReadLong(BigEndian4(89, v)) = Got(v, 5)
    BY SMTT(30), <2>2, <2>3 DEF ReadLong
  <2> QED
    BY Zenon, <2>1, <2>2, <2>4
<1>5. CASE ~LongIsTiny(v) /\ ~IsShort(v) /\ ~IsMedium(v) /\ ~IsWord(v)
  <2>1. WriteLong(v) = BigEndian8(76, v)
    BY SMTT(30), <1>5 DEF WriteLong
  <2>2. BigEndian8(76, v)[1] = 76 /\ Len(BigEndian8(76, v)) = 9
    BY SMTT(30) DEF BigEndian8
  <2>3. FromBytes8(BigEndian8(76, v), 2) = v
    BY SMTT(30), EightBytes
  <2>4. ReadLong(BigEndian8(76, v)) = Got(v, 9)
    BY SMTT(30), <2>2, <2>3 DEF ReadLong
  <2> QED
    BY Zenon, <2>1, <2>2, <2>4
<1> QED
  BY SMTT(30), <1>1, <1>2, <1>3, <1>4, <1>5
=============================================================================
