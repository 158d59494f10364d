---------------------------- MODULE LoadBalance -----------------------------
(***************************************************************************)
(* The load balancers of dubbo-loadbalance that choose by weight and by    *)
(* what the invokers' URLs say of them.  An invoker is its position in the *)
(* list that select() is given, which is not empty.  Only                  *)
(* RoundRobinLoadBalance keeps state: a counter per service, which wraps   *)
(* around.  What the others have chosen, and from what, is last.           *)
(***************************************************************************)
EXTENDS Integers, Sequences, FiniteSets, FiniteSetsExt, SequencesExt

CONSTANTS
  Offered,       \* how many invokers there are
  Configured,    \* the "weight" parameters considered
  Actives,       \* the "active" parameters considered
  ResponseTimes, \* the "rt" parameters considered
  NoData,        \* "rt" of an invoker without "rt" or "rt_count"
  Warmup,        \* the "warmup" parameter
  CounterSize    \* the counters are usize: they wrap at this value

ASSUME BalanceAssumption ==
  /\ Offered \in Nat \ {0} /\ CounterSize \in Nat /\ Offered <= CounterSize
  /\ Warmup \in Nat
  /\ Configured \subseteq Nat /\ Actives \subseteq Nat

Index == 1 .. Offered

VARIABLES
  weights,  \* the effective weight of each invoker, fixed at the start
  counter,  \* the counter of the service in weight_sequences
  idle,     \* the one in sequences, for invokers without any weight
  picks,    \* history: picks of round robin in a row, since a counter wrapped
  last      \* history: the choice of another balancer just made, and from what

balanceVars == <<weights, counter, idle, picks, last>>

NoPick == [by |-> "none", known |-> <<>>, index |-> 1]

-----------------------------------------------------------------------------
(* Weights.                                                                *)

\* calculate_warmup_weight(): the weight of an invoker that has been up for age.
BugWarmup(weight, age) ==
  IF age > 0 /\ age < Warmup THEN (weight * (Warmup - age)) \div Warmup ELSE weight
WarmupWeight(weight, age) ==
  IF age > 0 /\ age < Warmup THEN (weight * age) \div Warmup ELSE weight

BalanceInit ==
  /\ weights \in {[i \in Index |-> WarmupWeight(weight[i], age)] :
                    weight \in [Index -> Configured], age \in 0 .. Warmup}
  /\ counter = 0 /\ idle = 0
  /\ picks = <<>>
  /\ last = NoPick

\* The weight of the first i invokers.
UpTo[i \in 0 .. Offered] == IF i = 0 THEN 0 ELSE UpTo[i - 1] + weights[i]
Total == UpTo[Offered]

-----------------------------------------------------------------------------
(* RandomLoadBalance.                                                      *)

BugOffsets == 0 .. Total
Offsets == 0 .. Total - 1

\* The loop that takes the weights off the offset until it is less than one.
Reached(offset) ==
  LET hit == {i \in Index : offset < UpTo[i]}
  IN IF hit = {} THEN Offered ELSE Min(hit)

Chosen(by, known, index) ==
  /\ last' = [by |-> by, known |-> known, index |-> index]
  /\ picks' = <<>>
  /\ UNCHANGED <<weights, counter, idle>>

PickRandom ==
  \/ Total = 0 /\ \E i \in Index : Chosen("random", <<>>, i)
  \/ \E offset \in Offsets : Chosen("random", <<>>, Reached(offset))

-----------------------------------------------------------------------------
(* RoundRobinLoadBalance.                                                  *)

\* Euclid's algorithm, as the function gcd(): its arguments in each of its calls of itself.
\* The second one falls until it is zero, so that there are not more than that many.
Gcd(a, b) ==
  LET call[k \in 0 .. b] ==
        IF k = 0 THEN <<a, b>>
        ELSE IF call[k - 1][2] = 0 THEN call[k - 1]
        ELSE <<call[k - 1][2], call[k - 1][1] % call[k - 1][2]>>
  IN call[b][1]

MaxWeight == Max({weights[i] : i \in Index})

\* The test that makes the loop go on to the next invoker: current_weight > 0.
BugAccepts(i) == weights[i] \div MaxWeight > 0
Accepts(i) == weights[i] \div (MaxWeight \div Gcd(weights[i], MaxWeight)) > 0

InTurn(c) == ((c % CounterSize) % Offered) + 1

\* fetch_add(1), which wraps, until an invoker is accepted.
Rounds(c) == Min({k \in 0 .. 2 * Offered : Accepts(InTurn(c + k))})

Picked(i, wrapped) ==
  /\ picks' = IF wrapped THEN <<>> ELSE Append(picks, i)
  /\ last' = NoPick

BugNext(c, k) == c + k
After(c, k) == c + k + 1

PickRoundRobin ==
  /\ Total > 0
  /\ LET k == Rounds(counter)
     IN /\ counter' = After(counter, k) % CounterSize
        /\ Picked(InTurn(counter + k), After(counter, k) >= CounterSize)
  /\ UNCHANGED <<weights, idle>>

\* With no weight at all the invokers take turns by the other counter.
PickWithoutWeights ==
  /\ Total = 0
  /\ idle' = (idle + 1) % CounterSize
  /\ Picked(InTurn(idle), idle + 1 = CounterSize)
  /\ UNCHANGED <<weights, counter>>

-----------------------------------------------------------------------------
(* LeastActiveLoadBalance and ShortestResponseLoadBalance.                 *)

\* The loop over the invokers keeps the best one so far.
BugBetter(act, i, best) == act[i] < act[best] \/ weights[i] > weights[best]
Better(act, i, best) ==
  act[i] < act[best] \/ (act[i] = act[best] /\ weights[i] > weights[best])

LeastActive(act) ==
  LET best[i \in 0 .. Offered] ==
        IF i = 0 THEN 1 ELSE IF Better(act, i, best[i - 1]) THEN i ELSE best[i - 1]
  IN best[Offered]

PickLeastActive ==
  \E act \in [Index -> Actives] : Chosen("active", act, LeastActive(act))

\* The invokers with the shortest response time, and of them the heaviest.
Known(rt) == {i \in Index : rt[i] # NoData}
Shortest(rt) == {i \in Known(rt) : rt[i] = Min({rt[j] : j \in Known(rt)})}
Heaviest(S) == {i \in S : weights[i] = Max({weights[j] : j \in S})}

\* Without any data the choice is the one of RandomLoadBalance.
PickShortest ==
  \E rt \in [Index -> ResponseTimes \cup {NoData}] :
    \/ Known(rt) # {} /\ \E i \in Heaviest(Shortest(rt)) : Chosen("shortest", rt, i)
    \/ Known(rt) = {} /\ PickRandom

-----------------------------------------------------------------------------
(* ConsistentHashLoadBalance: the hash of the first argument, or of the    *)
(* method, by the number of invokers.  The virtual nodes are not used.     *)

HashIndex(hash, n) == (hash % n) + 1

PickHash == \E hash \in 0 .. 2 * Offered : Chosen("hash", <<hash>>, HashIndex(hash, Offered))

BalanceNext ==
  \/ PickRandom \/ PickRoundRobin \/ PickWithoutWeights
  \/ PickLeastActive \/ PickShortest \/ PickHash

BalanceSpec == BalanceInit /\ [][BalanceNext]_balanceVars

-----------------------------------------------------------------------------
(* Properties.                                                             *)

\* An invoker that is warming up gets no lighter with time, and never gets more
\* than its weight.
WarmupRises ==
  \A w \in Configured : \A age \in 1 .. Warmup :
    /\ WarmupWeight(w, age) <= w
    /\ WarmupWeight(w, age) <= WarmupWeight(w, age + 1)

\* Random selection is weighted: of the offsets that can be drawn, as many reach an
\* invoker as it has weight, and so none reaches an invoker without weight.
RandomIsWeighted ==
  \A i \in Index : Cardinality({o \in Offsets : Reached(o) = i}) = weights[i]

\* Round robin takes the invokers in turns: until the counter wraps, nobody who can
\* be picked at all is picked twice before all the others have been picked once.
TakingPart == IF Total = 0 THEN Index ELSE {i \in Index : Accepts(i)}
RoundRobinRotates ==
  \A i, j \in DOMAIN picks :
    i < j /\ picks[i] = picks[j] => {picks[k] : k \in i .. j - 1} = TakingPart

\* The loop for the best invoker ends with one that is: nobody has fewer active
\* calls, or as few and more weight.
LeastActiveIsBest ==
  last.by = "active" =>
    LET least == {i \in Index : \A j \in Index : last.known[i] <= last.known[j]}
    IN last.index = Min(Heaviest(least))
\* Weights rise through the warm-up, random picks are as many as the weights say, round
\* robin takes turns until its counter wraps, and the loop for the least active ends with
\* one that is.
BalancersAreTrue == WarmupRises /\ RandomIsWeighted /\ RoundRobinRotates /\ LeastActiveIsBest
=============================================================================
