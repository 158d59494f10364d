-------------------------------- MODULE P2C ---------------------------------
(***************************************************************************)
(* P2CLoadBalance of dubbo-loadbalance: calls that choose between two      *)
(* invokers by what the statistics say of them, and report how it went.    *)
(* Every access to a shared counter is a step, but for the two loads of a  *)
(* score, which are of different counters and are not compared.            *)
(***************************************************************************)
EXTENDS Integers, FiniteSets

CONSTANTS
  Caller,    \* those who call, each with one call at a time
  Invoker,   \* the invokers, known by ip and port
  Weight,    \* the effective weight of an invoker
  Latency,   \* latencies in milliseconds
  MaxReport, \* bound on the reports that are made
  MaxLost    \* bound on the calls that are dropped without a report

ASSUME P2CAssumption ==
  /\ IsFiniteSet(Caller)
  /\ Invoker # {}
  /\ Weight \in Nat
  /\ Latency \subseteq Nat /\ Latency # {}
  /\ MaxReport \in Nat /\ MaxLost \in Nat

FixedPoint == 1000    \* EWMA_FIXED_POINT
Alpha == 300          \* EWMA_ALPHA_FP
LoadFactor == 100     \* LOAD_FACTOR

VARIABLES
  active,   \* InvokerStats.active_requests
  ewma,     \* InvokerStats.ewma_latency_ms, in thousandths
  pc,       \* what each caller does next
  pair,     \* the invokers it has drawn
  score,    \* the scores it has computed of them
  target,   \* the invoker it has chosen
  loaded,   \* the average it has loaded
  latency,  \* the latency it reports
  reports,  \* how many reports there have been
  lost      \* history: the calls to an invoker that were never reported

stats == <<active, ewma>>
local == <<pair, score, target, loaded, latency>>
p2cVars == <<stats, pc, local, reports, lost>>

P2CTypeOK ==
  /\ active \in [Invoker -> Nat]
  /\ ewma \in [Invoker -> Nat]
  /\ pc \in [Caller -> {"idle", "first", "second", "choose", "calling", "load", "store"}]
  /\ pair \in [Caller -> Invoker \X Invoker]
  /\ score \in [Caller -> Nat \X Nat]
  /\ target \in [Caller -> Invoker]
  /\ loaded \in [Caller -> Nat]
  /\ latency \in [Caller -> Latency]
  /\ reports \in Nat
  /\ lost \in [Invoker -> Nat]

\* Locals that are not in use.
AnyOf(S) == CHOOSE x \in S : TRUE

P2CInit ==
  /\ active = [i \in Invoker |-> 0]
  /\ ewma = [i \in Invoker |-> 0]
  /\ pc = [c \in Caller |-> "idle"]
  /\ pair = [c \in Caller |-> <<AnyOf(Invoker), AnyOf(Invoker)>>]
  /\ target = [c \in Caller |-> AnyOf(Invoker)]
  /\ latency = [c \in Caller |-> AnyOf(Latency)]
  /\ score = [c \in Caller |-> <<0, 0>>]
  /\ loaded = [c \in Caller |-> 0]
  /\ reports = 0
  /\ lost = [i \in Invoker |-> 0]

Goto(c, next) == pc' = [pc EXCEPT ![c] = next]

\* compute_score(): the load by the weight, and the average latency.
Max1(n) == IF n = 0 THEN 1 ELSE n
Score(i) == ((LoadFactor * active[i]) \div Max1(Weight)) + (ewma[i] \div FixedPoint)

Draw(c) ==
  /\ pc[c] = "idle"
  /\ \E i, j \in Invoker :
       /\ i # j
       /\ pair' = [pair EXCEPT ![c] = <<i, j>>]
  /\ Goto(c, "first")
  /\ UNCHANGED <<stats, score, target, loaded, latency, reports, lost>>

ScoreFirst(c) ==
  /\ pc[c] = "first"
  /\ score' = [score EXCEPT ![c][1] = Score(pair[c][1])]
  /\ Goto(c, "second")
  /\ UNCHANGED <<stats, pair, target, loaded, latency, reports, lost>>

ScoreSecond(c) ==
  /\ pc[c] = "second"
  /\ score' = [score EXCEPT ![c][2] = Score(pair[c][2])]
  /\ Goto(c, "choose")
  /\ UNCHANGED <<stats, pair, target, loaded, latency, reports, lost>>

\* The lower score; between equals of the same weight the first.
Lighter(c) == IF score[c][1] <= score[c][2] THEN pair[c][1] ELSE pair[c][2]

BugCountLater(c, i) == active
CountIn(c, i) == [active EXCEPT ![i] = @ + 1]

Choose(c) ==
  /\ pc[c] = "choose"
  /\ target' = [target EXCEPT ![c] = Lighter(c)]
  /\ active' = CountIn(c, Lighter(c))
  /\ pair' = [pair EXCEPT ![c] = <<AnyOf(Invoker), AnyOf(Invoker)>>]
  /\ score' = [score EXCEPT ![c] = <<0, 0>>]
  /\ Goto(c, "calling")
  /\ UNCHANGED <<ewma, loaded, latency, reports, lost>>

\* A list of one invoker needs no score.
Single(c) ==
  /\ pc[c] = "idle"
  /\ \E i \in Invoker :
       /\ target' = [target EXCEPT ![c] = i]
       /\ active' = CountIn(c, i)
  /\ Goto(c, "calling")
  /\ UNCHANGED <<ewma, pair, score, loaded, latency, reports, lost>>

\* record_result(): count out, then load and store the average.
Report(c) ==
  /\ pc[c] = "calling"
  /\ reports < MaxReport
  /\ reports' = reports + 1
  /\ active' = [active EXCEPT ![target[c]] = @ - 1]
  /\ \E l \in Latency : latency' = [latency EXCEPT ![c] = l]
  /\ Goto(c, "load")
  /\ UNCHANGED <<ewma, pair, score, target, loaded, lost>>

LoadAverage(c) ==
  /\ pc[c] = "load"
  /\ loaded' = [loaded EXCEPT ![c] = ewma[target[c]]]
  /\ Goto(c, "store")
  /\ UNCHANGED <<stats, pair, score, target, latency, reports, lost>>

Average(old, new) == (Alpha * new * FixedPoint + (FixedPoint - Alpha) * old) \div FixedPoint

StoreAverage(c) ==
  /\ pc[c] = "store"
  /\ ewma' = [ewma EXCEPT ![target[c]] = Average(loaded[c], latency[c])]
  /\ target' = [target EXCEPT ![c] = AnyOf(Invoker)]
  /\ loaded' = [loaded EXCEPT ![c] = 0]
  /\ latency' = [latency EXCEPT ![c] = AnyOf(Latency)]
  /\ Goto(c, "idle")
  /\ UNCHANGED <<active, pair, score, reports, lost>>

\* A caller that is dropped, or fails to report, leaves its call counted.
Lose(c) ==
  /\ pc[c] = "calling"
  /\ lost[target[c]] < MaxLost
  /\ lost' = [lost EXCEPT ![target[c]] = @ + 1]
  /\ target' = [target EXCEPT ![c] = AnyOf(Invoker)]
  /\ Goto(c, "idle")
  /\ UNCHANGED <<stats, pair, score, loaded, latency, reports>>

P2CNext ==
  \E c \in Caller :
    \/ Draw(c) \/ ScoreFirst(c) \/ ScoreSecond(c) \/ Choose(c) \/ Single(c)
    \/ Report(c) \/ LoadAverage(c) \/ StoreAverage(c) \/ Lose(c)

P2CSpec == P2CInit /\ [][P2CNext]_p2cVars

-----------------------------------------------------------------------------
(* Properties.                                                             *)

Calling(i) == {c \in Caller : pc[c] = "calling" /\ target[c] = i}

\* The active count of an invoker is exactly the calls that were given to it and
\* have not been reported, those that never will be included: it never falls below
\* zero, where the unsigned counter would wrap and nobody would choose it again.
ActiveIsOutstanding ==
  \A i \in Invoker : active[i] = Cardinality(Calling(i)) + lost[i]
=============================================================================
