-------------------------- MODULE Consumer_proofs ---------------------------
(***************************************************************************)
(* Proofs about eight parts of a consumer that share no state, for any     *)
(* number of calls and callers and any values of their parameters.         *)
(*                                                                         *)
(* Cluster.  For any list of URLs and any interleaving of what the         *)
(* registry sends with calls that are under way.  What a call has tried is *)
(* not kept by the code: it is read off the answers, the position and the  *)
(* attempt.  The invariant says, for each strategy and each place of a     *)
(* call, which of its list the call has asked how often (Tries); that the  *)
(* list has whoever stayed a provider all the time; and that nothing       *)
(* counts as an outcome that no provider has answered.  Neither property   *)
(* is inductive without the others.                                        *)
(*                                                                         *)
(* Routing.  Each router's list is rising and of a set; so is what is left *)
(* after some of them (Lists).                                             *)
(*                                                                         *)
(* LoadBalance.  The weights are summed up from the left, and an offset    *)
(* reaches the invoker whose part of the sum it is in.  The picks of round *)
(* robin are in order: there is a rising list of values that the counter   *)
(* had at them, from which nobody's turn is missing (Taken).               *)
(*                                                                         *)
(* P2C.  The counter and the calls are apart in the code: the counter is   *)
(* an unsigned word that record_result() decrements without looking.  That *)
(* the count is exact is what keeps it from wrapping, so neither its type  *)
(* nor its value is inductive alone and the invariant is of both.          *)
(*                                                                         *)
(* SimplePool.  The invariant adds who holds the mutexes, the delay of an  *)
(* address while a failure is counted and its delay not yet stored, and    *)
(* how many users may still record a failure of an address (Waiters).      *)
(*                                                                         *)
(* Caches.  The invariant says by which list the history is longer than    *)
(* the order of a store.                                                   *)
(*                                                                         *)
(* CircuitBreaker.  Both properties are about the breaker at rest, and     *)
(* both are broken and repaired while a call passes through the filter:    *)
(* failures may be at the threshold while record_failure() is on its way   *)
(* to open the circuit, and a probe is counted long before its success is. *)
(* When calls do not overlap there is at most one on its way, so the       *)
(* invariant says of each place a call may be at what the counters are     *)
(* when it is the only one.                                                *)
(*                                                                         *)
(* Filters.  For chains of any filters, as long as they like.  The         *)
(* invariant says what each filter behind the call has seen to (Passed,    *)
(* Lets), what the first attempt says of the second, and that the          *)
(* signature in the context is the caller's own and not from the future.   *)
(***************************************************************************)
EXTENDS Cluster, Routing, LoadBalance, P2C, SimplePool, Caches, CircuitBreaker, Filters,
        Data_proofs, NaturalsInduction

-----------------------------------------------------------------------------
(* Cluster: the inductive invariant.                                       *)

\* Every variable keeps its type, and the directory lists what it can make of its URLs.
ClusterTypeOK ==
  /\ urls \in Seq(Provider) /\ IsInjective(urls)
  /\ invokers = Keep(urls, Makeable)
  /\ up \subseteq Provider
  /\ changes \in Nat
  /\ strategy \in [Call -> Strategies]
  /\ at \in [Call -> {"idle", "list", "invoke", "forked", "done"}]
  /\ list \in [Call -> Seq(Provider)]
  /\ pos \in [Call -> Nat]
  /\ attempt \in [Call -> Nat]
  /\ flying \in [Call -> SUBSET Nat]
  /\ channel \in [Call -> Seq(Answer)]
  /\ received \in [Call -> Nat]
  /\ firstErr \in [Call -> BOOLEAN]
  /\ outcome \in [Call -> {"none", "ok", "error", "fail", "mock"}]
  /\ pending \in Seq(Call)
  /\ answers \in [Call -> [Provider -> Seq(Answer)]]
  /\ current \in [Call -> SUBSET Provider]
  /\ steady \in [Call -> SUBSET Provider]

\* What a call holds, by where it is.
Placed(c) ==
  /\ outcome[c] = "none" <=> at[c] # "done"
  /\ IsInjective(list[c]) /\ ToSet(list[c]) \subseteq current[c]
  /\ at[c] = "idle" => list[c] = <<>> /\ attempt[c] = 0
  /\ at[c] = "invoke" => pos[c] \in DOMAIN list[c]
  /\ at[c] = "forked" => strategy[c] = "forking"
  /\ flying[c] # {} => strategy[c] = "forking" /\ at[c] \in {"forked", "done"}
  /\ flying[c] \subseteq DOMAIN list[c]
  /\ attempt[c] <= Retries
  /\ strategy[c] = "broadcast" => attempt[c] = 0

\* Who has been there all the time is there now, and on the list that is worked off.
Stayed(c) ==
  /\ Busy(c) => steady[c] \subseteq ToSet(invokers) \cap up
  /\ at[c] = "invoke" /\ strategy[c] # "forking" => steady[c] \subseteq ToSet(list[c])

\* How often one of them has been asked: once in each attempt that is over, and once
\* more if the list has been worked off beyond it.
Worked(c) == {list[c][i] : i \in 1 .. pos[c] - 1}
Counted(c) ==
  /\ at[c] = "idle" => answers[c] = [p \in Provider |-> <<>>]
  /\ strategy[c] \in {"failover", "broadcast"} =>
       \A p \in steady[c] :
         /\ at[c] \in {"idle", "list"} => Tries(c, p) = attempt[c]
         /\ at[c] = "invoke" => Tries(c, p) = attempt[c] + IF p \in Worked(c) THEN 1 ELSE 0
         /\ at[c] = "done" /\ strategy[c] = "broadcast" => Tries(c, p) = 1
         /\ Exhausted(c) => Tries(c, p) = Retries + 1

\* What the answers so far say of the outcome, by strategy.
OnlyOk(c) == \A p \in Provider : ToSet(answers[c][p]) \subseteq {"ok"}
Asker(c) ==
  strategy[c] \notin {"forking", "broadcast"} => (Succeeded(c) <=> outcome[c] = "ok")
Broadcaster(c) ==
  strategy[c] = "broadcast" =>
    /\ at[c] = "list" => answers[c] = [p \in Provider |-> <<>>] /\ ~firstErr[c]
    /\ at[c] = "idle" => ~firstErr[c]
    /\ at[c] = "invoke" /\ ~firstErr[c] => OnlyOk(c)
    /\ outcome[c] = "ok" => Succeeded(c) /\ OnlyOk(c)
Forker(c) ==
  strategy[c] = "forking" =>
    /\ at[c] \in {"idle", "list", "invoke"} => channel[c] = <<>> /\ received[c] = 0 /\ ~Succeeded(c)
    /\ at[c] = "forked" =>
         /\ Succeeded(c) <=> "ok" \in ToSet(channel[c])
         /\ received[c] + Len(channel[c]) + Cardinality(flying[c]) = Len(list[c])
         /\ Len(list[c]) <= Forks
    /\ outcome[c] = "ok" => Succeeded(c)
    /\ outcome[c] \in {"error", "fail"} => flying[c] = {} /\ ~Succeeded(c)
Pended(c) ==
  Cardinality({i \in DOMAIN pending : pending[i] = c})
    = IF strategy[c] = "failback" /\ outcome[c] = "mock" THEN 1 ELSE 0

CallInv(c) ==
  Placed(c) /\ Stayed(c) /\ Counted(c) /\ Asker(c) /\ Broadcaster(c) /\ Forker(c)

ClusterInv == ClusterTypeOK /\ \A c \in Call : CallInv(c) /\ Pended(c)

-----------------------------------------------------------------------------
(* The directory.                                                          *)

LEMMA ListedFacts ==
  ASSUME ClusterTypeOK
  PROVE  /\ Listed \in Seq(Provider) /\ IsInjective(Listed)
         /\ ToSet(Listed) = ToSet(invokers) \cap up
         /\ Len(Listed) \in Nat /\ DOMAIN Listed = 1 .. Len(Listed)
<1>1. urls \in Seq(Provider) /\ IsInjective(urls) /\ invokers = Keep(urls, Makeable)
  BY DEF ClusterTypeOK
<1>2. invokers \in Seq(Provider) /\ IsInjective(invokers)
  BY <1>1, KeepElements, KeepInjective
<1>3. Listed \in Seq(Provider) /\ IsInjective(Listed) /\ ToSet(Listed) = ToSet(invokers) \cap up
  BY <1>2, KeepElements, KeepInjective DEF Listed
<1> QED
  BY <1>3

LEMMA SelectedFacts ==
  ASSUME ClusterTypeOK
  PROVE  /\ Selected \in Seq(Provider) /\ IsInjective(Selected)
         /\ ToSet(Selected) \subseteq ToSet(Listed)
         /\ Len(Selected) \in Nat /\ Len(Selected) <= Forks
         /\ DOMAIN Selected = 1 .. Len(Selected)
         /\ Listed # <<>> => Len(Selected) >= 1
<1> DEFINE k == IF Len(Listed) < Forks THEN Len(Listed) ELSE Forks
<1>1. Listed \in Seq(Provider) /\ IsInjective(Listed) /\ DOMAIN Listed = 1 .. Len(Listed)
  BY ListedFacts
<1>2. k \in Nat /\ k <= Forks /\ k <= Len(Listed) /\ (Listed # <<>> => k >= 1)
  BY <1>1, ClusterAssumption
<1> HIDE DEF k
<1>3. /\ SubSeq(Listed, 1, k) \in Seq(Provider) /\ Len(SubSeq(Listed, 1, k)) = k
      /\ \A i \in 1 .. k : SubSeq(Listed, 1, k)[i] = Listed[i]
      /\ DOMAIN SubSeq(Listed, 1, k) = 1 .. k
  BY <1>1, <1>2
<1>4. IsInjective(SubSeq(Listed, 1, k))
  BY <1>1, <1>2, <1>3 DEF IsInjective
<1>5. ToSet(SubSeq(Listed, 1, k)) \subseteq ToSet(Listed)
  BY <1>1, <1>2, <1>3 DEF ToSet
<1> QED
  BY <1>2, <1>3, <1>4, <1>5 DEF Selected, k

-----------------------------------------------------------------------------
(* What a step leaves alone.                                               *)

\* A call that nothing happens to.
Untouched(d) ==
  /\ strategy'[d] = strategy[d] /\ at'[d] = at[d] /\ list'[d] = list[d] /\ pos'[d] = pos[d]
  /\ attempt'[d] = attempt[d] /\ flying'[d] = flying[d] /\ channel'[d] = channel[d]
  /\ received'[d] = received[d] /\ firstErr'[d] = firstErr[d] /\ outcome'[d] = outcome[d]
  /\ answers'[d] = answers[d] /\ current'[d] = current[d] /\ steady'[d] = steady[d]

LEMMA UntouchedKeeps ==
  ASSUME NEW d \in Call, CallInv(d), Untouched(d), UNCHANGED <<invokers, up>>
  PROVE  CallInv(d)'
<1>1. Placed(d)'
  BY DEF CallInv, Untouched, Placed
<1>2. Stayed(d)'
  BY DEF CallInv, Untouched, Stayed, Busy
<1>3. Counted(d)'
  BY DEF CallInv, Untouched, Counted, Worked, Tries, Exhausted
<1>4. Asker(d)'
  BY DEF CallInv, Untouched, Asker, Succeeded
<1>5. Broadcaster(d)'
  BY DEF CallInv, Untouched, Broadcaster, Succeeded, OnlyOk
<1>6. Forker(d)'
  BY DEF CallInv, Untouched, Forker, Succeeded
<1> QED
  BY <1>1, <1>2, <1>3, <1>4, <1>5, <1>6 DEF CallInv

\* A change of the directory or of availability.
LEMMA ChangeKeeps ==
  ASSUME ClusterInv, Change,
         urls' \in Seq(Provider), IsInjective(urls'), invokers' = Keep(urls', Makeable),
         up' \subseteq Provider
  PROVE  ClusterInv'
<1>1. ToSet(invokers') \subseteq Provider
  <2>1. invokers' \in Seq(Provider)
    BY KeepElements
  <2> QED
    BY <2>1 DEF ToSet
<1>2. /\ UNCHANGED <<strategy, at, list, pos, attempt, firstErr, flying, channel, received,
                     outcome, pending, answers>>
      /\ changes' = changes + 1
  BY DEF Change, Recall, cursor, forking
<1>3. ASSUME NEW c \in Call
      PROVE  /\ current'[c] = IF Busy(c) THEN current[c] \cup (ToSet(invokers') \cap up') ELSE current[c]
             /\ steady'[c] = IF Busy(c) THEN steady[c] \cap ToSet(invokers') \cap up' ELSE steady[c]
  BY DEF Change, Recall
<1>4. current' \in [Call -> SUBSET Provider] /\ steady' \in [Call -> SUBSET Provider]
  BY <1>1 DEF ClusterInv, ClusterTypeOK, Change, Recall
<1>5. ClusterTypeOK'
  BY <1>2, <1>4 DEF ClusterInv, ClusterTypeOK
<1>6. ASSUME NEW c \in Call PROVE CallInv(c)' /\ Pended(c)'
  <2>0. CallInv(c) /\ Pended(c)
    BY DEF ClusterInv
  <2>1. Placed(c)'
    BY <1>2, <1>3, <2>0 DEF CallInv, Placed
  <2>2. Stayed(c)'
    BY <1>2, <1>3, <2>0 DEF CallInv, Stayed, Busy
  <2>3. steady'[c] \subseteq steady[c]
    BY <1>3
  <2>4. Counted(c)'
    BY <1>2, <2>0, <2>3 DEF CallInv, Counted, Worked, Tries, Exhausted
  <2>5. Asker(c)'
    BY <1>2, <2>0 DEF CallInv, Asker, Succeeded
  <2>6. Broadcaster(c)'
    BY <1>2, <2>0 DEF CallInv, Broadcaster, Succeeded, OnlyOk
  <2>7. Forker(c)'
    BY <1>2, <2>0 DEF CallInv, Forker, Succeeded
  <2>8. Pended(c)'
    BY <1>2, <2>0 DEF Pended
  <2> QED
    BY <2>1, <2>2, <2>4, <2>5, <2>6, <2>7, <2>8 DEF CallInv
<1> QED
  BY <1>5, <1>6 DEF ClusterInv

-----------------------------------------------------------------------------
(* What a step of a call changes.                                          *)

LEMMA StepKeeps ==
  ASSUME ClusterInv, NEW c \in Call, ClusterTypeOK', UNCHANGED <<invokers, up>>,
         \A d \in Call \ {c} : Untouched(d),
         CallInv(c)', \A d \in Call : Pended(d)'
  PROVE  ClusterInv'
<1>1. ASSUME NEW d \in Call PROVE CallInv(d)'
  <2>1. CASE d = c
    BY <2>1
  <2>2. CASE d # c
    BY <2>2, UntouchedKeeps DEF ClusterInv
  <2> QED
    BY <2>1, <2>2
<1> QED
  BY <1>1 DEF ClusterInv

\* An answer is one more of its provider's.
LEMMA AnsweredFacts ==
  ASSUME ClusterTypeOK, NEW c \in Call, NEW i \in DOMAIN list[c], NEW a \in Answer,
         NEW q \in Provider, q = list[c][i], Answered(c, i, a)
  PROVE  /\ answers' \in [Call -> [Provider -> Seq(Answer)]]
         /\ \A d \in Call \ {c} : answers'[d] = answers[d]
         /\ Tries(c, q)' = Tries(c, q) + 1
         /\ \A p \in Provider \ {q} : Tries(c, p)' = Tries(c, p)
         /\ Succeeded(c)' <=> Succeeded(c) \/ a = "ok"
         /\ OnlyOk(c)' <=> OnlyOk(c) /\ a = "ok"
<1>2. answers' = [answers EXCEPT ![c][q] = Append(@, a)]
  BY DEF Answered
<1>3. answers[c] \in [Provider -> Seq(Answer)] /\ answers[c][q] \in Seq(Answer)
  BY DEF ClusterTypeOK
<1>4. /\ Append(answers[c][q], a) \in Seq(Answer)
      /\ Len(Append(answers[c][q], a)) = Len(answers[c][q]) + 1
      /\ ToSet(Append(answers[c][q], a)) = ToSet(answers[c][q]) \cup {a}
  BY <1>3, AppendFacts
<1>5. /\ answers' \in [Call -> [Provider -> Seq(Answer)]]
      /\ \A d \in Call \ {c} : answers'[d] = answers[d]
      /\ answers'[c][q] = Append(answers[c][q], a)
      /\ \A p \in Provider \ {q} : answers'[c][p] = answers[c][p]
  BY <1>2, <1>4 DEF ClusterTypeOK
<1>6. Tries(c, q)' = Tries(c, q) + 1
  BY <1>4, <1>5 DEF Tries
<1>7. \A p \in Provider \ {q} : Tries(c, p)' = Tries(c, p)
  BY <1>5 DEF Tries
<1>8. Succeeded(c)' <=> Succeeded(c) \/ a = "ok"
  BY <1>4, <1>5 DEF Succeeded
<1>9. OnlyOk(c)' <=> OnlyOk(c) /\ a = "ok"
  <2>1. ASSUME NEW p \in Provider, p # q PROVE ToSet(answers'[c][p]) = ToSet(answers[c][p])
    BY <1>5, <2>1
  <2>2. ToSet(answers'[c][q]) = ToSet(answers[c][q]) \cup {a}
    BY <1>4, <1>5
  <2>3. ASSUME OnlyOk(c)' PROVE OnlyOk(c) /\ a = "ok"
    <3>1. \A p \in Provider : ToSet(answers'[c][p]) \subseteq {"ok"}
      BY <2>3 DEF OnlyOk
    <3>2. \A p \in Provider : ToSet(answers[c][p]) \subseteq {"ok"}
      BY <2>1, <2>2, <3>1
    <3> QED
      BY <2>2, <3>1, <3>2 DEF OnlyOk
  <2>4. ASSUME OnlyOk(c), a = "ok" PROVE OnlyOk(c)'
    <3>1. \A p \in Provider : ToSet(answers'[c][p]) \subseteq {"ok"}
      BY <2>1, <2>2, <2>4 DEF OnlyOk
    <3> QED
      BY <3>1 DEF OnlyOk
  <2> QED
    BY <2>3, <2>4
<1> QED
  BY <1>5, <1>6, <1>7, <1>8, <1>9

\* The calls that are pending, when none is recorded and when one is.
LEMMA PendedSame ==
  ASSUME \A d \in Call : Pended(d), UNCHANGED <<pending, strategy>>,
         \A d \in Call : strategy[d] = "failback" => (outcome'[d] = "mock" <=> outcome[d] = "mock")
  PROVE  \A d \in Call : Pended(d)'
BY DEF Pended

LEMMA PendedMore ==
  ASSUME ClusterTypeOK, \A d \in Call : Pended(d), UNCHANGED strategy,
         NEW c \in Call, RecordPending(c), strategy[c] = "failback",
         outcome[c] # "mock", outcome'[c] = "mock",
         \A d \in Call \ {c} : outcome'[d] = outcome[d]
  PROVE  pending' \in Seq(Call) /\ \A d \in Call : Pended(d)'
<1>1. /\ pending \in Seq(Call) /\ pending' \in Seq(Call) /\ pending' = Append(pending, c)
      /\ DOMAIN pending = 1 .. Len(pending) /\ DOMAIN pending' = 1 .. Len(pending) + 1
      /\ \A i \in 1 .. Len(pending) : pending'[i] = pending[i]
      /\ pending'[Len(pending) + 1] = c /\ Len(pending) \in Nat
  BY DEF ClusterTypeOK, RecordPending
<1>2. ASSUME NEW d \in Call, d # c PROVE Pended(d)'
  <2>1. {i \in DOMAIN pending' : pending'[i] = d} = {i \in DOMAIN pending : pending[i] = d}
    BY <1>1, <1>2
  <2> QED
    BY <1>2, <2>1 DEF Pended
<1>3. Pended(c)'
  <2> DEFINE old == {i \in DOMAIN pending : pending[i] = c}
             new == {i \in DOMAIN pending' : pending'[i] = c}
  <2>1. new = old \cup {Len(pending) + 1}
    BY <1>1
  <2>2. IsFiniteSet(old) /\ Len(pending) + 1 \notin old
    <3>1. IsFiniteSet(1 .. Len(pending))
      BY <1>1, FS_Interval
    <3> QED
      BY <1>1, <3>1, FS_Subset
  <2>3. Cardinality(old \cup {Len(pending) + 1}) = Cardinality(old) + 1
    BY <2>2, FS_AddElement
  <2>4. Cardinality(old) = 0
    BY DEF Pended
  <2>5. Cardinality(new) = 1
    <3> HIDE DEF old, new
    <3> QED
      BY <2>1, <2>3, <2>4
  <2> QED
    BY <2>5 DEF Pended
<1> QED
  BY <1>1, <1>2, <1>3

\* A call returns in place of a provider, or of all.
LEMMA ReturnFacts ==
  ASSUME ClusterTypeOK, NEW c \in Call, NEW o \in {"ok", "error", "fail", "mock"}, Return(c, o)
  PROVE  /\ at' \in [Call -> {"idle", "list", "invoke", "forked", "done"}]
         /\ outcome' \in [Call -> {"none", "ok", "error", "fail", "mock"}]
         /\ at'[c] = "done" /\ outcome'[c] = o
         /\ \A d \in Call \ {c} : at'[d] = at[d] /\ outcome'[d] = outcome[d]
         /\ UNCHANGED <<strategy, list, pos, attempt, firstErr>>
BY DEF ClusterTypeOK, Return, cursor

-----------------------------------------------------------------------------
(* The steps.                                                              *)

LEMMA EmptyFacts ==
  /\ ToSet(<<>>) = {} /\ IsInjective(<<>>) /\ Len(<<>>) = 0
BY DEF ToSet, IsInjective

LEMMA InitClusterInv == ClusterInit => ClusterInv
<1> SUFFICES ASSUME ClusterInit PROVE ClusterInv
  OBVIOUS
<1>1. Keep(<<>>, Makeable) = <<>>
  BY KeepEmpty
<1>2. ClusterTypeOK
  BY <1>1, EmptyFacts, ClusterAssumption DEF ClusterInit, ClusterTypeOK
<1>3. ASSUME NEW c \in Call PROVE CallInv(c) /\ Pended(c)
  <2>1. ~Succeeded(c)
    BY EmptyFacts DEF ClusterInit, Succeeded
  <2>2. Placed(c) /\ Stayed(c)
    BY EmptyFacts, ClusterAssumption DEF ClusterInit, Placed, Stayed, Busy
  <2>3. Counted(c)
    BY DEF ClusterInit, Counted
  <2>4. Asker(c) /\ Broadcaster(c) /\ Forker(c)
    BY <2>1 DEF ClusterInit, Asker, Broadcaster, Forker
  <2>5. Pended(c)
    <3>1. {i \in DOMAIN pending : pending[i] = c} = {}
      BY DEF ClusterInit
    <3> QED
      BY <3>1, FS_EmptySet DEF ClusterInit, Pended
  <2> QED
    BY <2>2, <2>3, <2>4, <2>5 DEF CallInv
<1> QED
  BY <1>2, <1>3 DEF ClusterInv

LEMMA StartKeeps ==
  ASSUME ClusterInv, NEW c \in Call, Start(c)
  PROVE  ClusterInv'
<1>0. ClusterTypeOK /\ CallInv(c) /\ \A d \in Call : Pended(d)
  BY DEF ClusterInv
<1>1. /\ at[c] = "idle" /\ at' = [at EXCEPT ![c] = "list"]
      /\ steady' = [steady EXCEPT ![c] = ToSet(Listed)]
      /\ current' = [current EXCEPT ![c] = {}]
      /\ UNCHANGED <<urls, invokers, up, changes, strategy, list, pos, attempt, firstErr, flying,
                     channel, received, outcome, pending, answers>>
  BY DEF Start, directory, cursor, forking
<1>2. ToSet(Listed) \subseteq Provider /\ ToSet(Listed) = ToSet(invokers) \cap up
  BY <1>0, ListedFacts DEF ClusterTypeOK
<1>3. ClusterTypeOK'
  BY <1>0, <1>1, <1>2 DEF ClusterTypeOK
<1>4. \A d \in Call \ {c} : Untouched(d)
  BY <1>0, <1>1 DEF ClusterTypeOK, Untouched
<1>5. at'[c] = "list" /\ steady'[c] = ToSet(invokers) \cap up /\ current'[c] = {}
  BY <1>0, <1>1, <1>2 DEF ClusterTypeOK
<1>6. Placed(c)'
  BY <1>0, <1>1, <1>5, EmptyFacts DEF CallInv, Placed
<1>7. Stayed(c)'
  BY <1>1, <1>5 DEF Stayed
<1>8. Counted(c)'
  <2>1. answers[c] = [p \in Provider |-> <<>>] /\ attempt[c] = 0
    BY <1>0, <1>1 DEF CallInv, Counted, Placed
  <2>2. \A p \in steady'[c] : Tries(c, p)' = 0
    BY <1>1, <1>2, <1>5, <2>1, EmptyFacts DEF Tries
  <2> QED
    BY <1>1, <1>5, <2>1, <2>2 DEF Counted, Exhausted
<1>9. Asker(c)'
  BY <1>0, <1>1 DEF CallInv, Asker, Succeeded
<1>10. Broadcaster(c)'
  BY <1>0, <1>1, <1>5 DEF CallInv, Broadcaster, Counted, Placed
<1>11. Forker(c)'
  BY <1>0, <1>1, <1>5 DEF CallInv, Forker, Placed, Succeeded
<1>12. \A d \in Call : Pended(d)'
  BY <1>0, <1>1, PendedSame
<1>13. CallInv(c)'
  BY <1>6, <1>7, <1>8, <1>9, <1>10, <1>11 DEF CallInv
<1> QED
  BY <1>1, <1>3, <1>4, <1>12, <1>13, StepKeeps

\* A call returns without another answer.
LEMMA ReturnKeeps ==
  ASSUME ClusterInv, NEW c \in Call, NEW o \in {"ok", "error", "fail", "mock"},
         at[c] # "done", Return(c, o),
         UNCHANGED <<directory, history, flying>>,
         channel' \in [Call -> Seq(Answer)], received' \in [Call -> Nat], pending' \in Seq(Call),
         \A d \in Call \ {c} : channel'[d] = channel[d] /\ received'[d] = received[d],
         \A d \in Call : Pended(d)',
         strategy[c] \in {"failover", "broadcast"} => steady[c] = {} /\ o # "ok",
         strategy[c] \notin {"forking", "broadcast"} => o # "ok",
         strategy[c] = "forking" =>
           /\ o = "ok" => Succeeded(c)
           /\ o # "ok" => flying[c] = {} /\ ~Succeeded(c)
  PROVE  ClusterInv'
<1>0. ClusterTypeOK /\ CallInv(c)
  BY DEF ClusterInv
<1>1. /\ at' \in [Call -> {"idle", "list", "invoke", "forked", "done"}]
      /\ outcome' \in [Call -> {"none", "ok", "error", "fail", "mock"}]
      /\ at'[c] = "done" /\ outcome'[c] = o
      /\ \A d \in Call \ {c} : at'[d] = at[d] /\ outcome'[d] = outcome[d]
      /\ UNCHANGED <<strategy, list, pos, attempt, firstErr>>
  BY <1>0, ReturnFacts
<1>2. UNCHANGED <<urls, invokers, up, changes, answers, current, steady>>
  BY DEF directory, history
<1>3. ClusterTypeOK'
  BY <1>0, <1>1, <1>2 DEF ClusterTypeOK
<1>4. \A d \in Call \ {c} : Untouched(d)
  BY <1>1, <1>2 DEF Untouched
<1>5. Placed(c)'
  BY <1>0, <1>1, <1>2 DEF CallInv, Placed
<1>6. Stayed(c)'
  BY <1>1 DEF Stayed, Busy
<1>7. Counted(c)'
  BY <1>1, <1>2 DEF Counted
<1>8. outcome[c] = "none" /\ (Succeeded(c)' <=> Succeeded(c))
  BY <1>0, <1>2 DEF CallInv, Placed, Succeeded
<1>9. Asker(c)'
  BY <1>0, <1>1, <1>8 DEF CallInv, Asker
<1>10. Broadcaster(c)'
  BY <1>1 DEF Broadcaster
<1>11. Forker(c)'
  BY <1>1, <1>8 DEF Forker
<1>12. CallInv(c)'
  BY <1>5, <1>6, <1>7, <1>9, <1>10, <1>11 DEF CallInv
<1> QED
  BY <1>2, <1>3, <1>4, <1>12, StepKeeps

LEMMA ForceMockKeeps ==
  ASSUME ClusterInv, NEW c \in Call, ForceMock(c)
  PROVE  ClusterInv'
<1>0. ClusterTypeOK /\ CallInv(c) /\ \A d \in Call : Pended(d)
  BY DEF ClusterInv
<1>1. /\ at[c] = "idle" /\ strategy[c] = "mock" /\ Return(c, "mock")
      /\ UNCHANGED <<directory, history, flying, channel, received, pending>>
  BY DEF ForceMock, forking
<1>2. UNCHANGED strategy /\ \A d \in Call \ {c} : outcome'[d] = outcome[d]
  BY <1>0, <1>1, ReturnFacts
<1>3. \A d \in Call : Pended(d)'
  BY <1>0, <1>1, <1>2, PendedSame
<1> QED
  BY <1>0, <1>1, <1>3, ReturnKeeps DEF ClusterTypeOK

LEMMA NoInvokersKeeps ==
  ASSUME ClusterInv, NEW c \in Call, NoInvokers(c)
  PROVE  ClusterInv'
<1>0. ClusterTypeOK /\ CallInv(c) /\ \A d \in Call : Pended(d)
  BY DEF ClusterInv
<1> DEFINE o == IF strategy[c] \in {"failsafe", "failback", "mock"} THEN "mock" ELSE "fail"
<1>1. /\ at[c] = "list" /\ Listed = <<>> /\ Return(c, o)
      /\ UNCHANGED <<directory, history, flying, channel, received>>
      /\ IF strategy[c] = "failback" THEN RecordPending(c) ELSE UNCHANGED pending
  BY DEF NoInvokers, forking
<1>2. o \in {"fail", "mock"} /\ (strategy[c] \in {"failback"} => o = "mock")
  OBVIOUS
<1> HIDE DEF o
<1>3. /\ UNCHANGED strategy /\ outcome'[c] = o
      /\ \A d \in Call \ {c} : outcome'[d] = outcome[d]
  BY <1>0, <1>1, <1>2, ReturnFacts
<1>4. pending' \in Seq(Call) /\ \A d \in Call : Pended(d)'
  <2>1. CASE strategy[c] = "failback"
    <3>1. outcome[c] # "mock"
      BY <1>0, <1>1 DEF CallInv, Placed
    <3> QED
      BY <1>0, <1>1, <1>2, <1>3, <2>1, <3>1, PendedMore
  <2>2. CASE strategy[c] # "failback"
    <3>1. pending' = pending
      BY <1>1, <2>2
    <3> QED
      BY <1>0, <1>2, <1>3, <2>2, <3>1, PendedSame DEF ClusterTypeOK
  <2> QED
    BY <2>1, <2>2
<1>5. steady[c] = {}
  <2>1. ToSet(invokers) \cap up = {}
    BY <1>0, <1>1, ListedFacts, EmptyFacts
  <2> QED
    BY <1>0, <1>1, <2>1 DEF CallInv, Stayed, Busy
<1>6. strategy[c] = "forking" => flying[c] = {} /\ ~Succeeded(c)
  BY <1>0, <1>1 DEF CallInv, Placed, Forker
<1> QED
  BY <1>0, <1>1, <1>2, <1>4, <1>5, <1>6, ReturnKeeps DEF ClusterTypeOK

LEMMA NoneAvailableKeeps ==
  ASSUME ClusterInv, NEW c \in Call, NoneAvailable(c)
  PROVE  ClusterInv'
<1>0. ClusterTypeOK /\ CallInv(c) /\ \A d \in Call : Pended(d)
  BY DEF ClusterInv
<1>1. /\ at[c] = "invoke" /\ strategy[c] = "available" /\ Return(c, "fail")
      /\ UNCHANGED <<directory, history, flying, channel, received, pending>>
  BY DEF NoneAvailable, forking
<1>2. UNCHANGED strategy /\ \A d \in Call \ {c} : outcome'[d] = outcome[d]
  BY <1>0, <1>1, ReturnFacts
<1>3. \A d \in Call : Pended(d)'
  BY <1>0, <1>1, <1>2, PendedSame
<1> QED
  BY <1>0, <1>1, <1>3, ReturnKeeps DEF ClusterTypeOK

LEMMA ForksFailedKeeps ==
  ASSUME ClusterInv, NEW c \in Call, ForksFailed(c)
  PROVE  ClusterInv'
<1>0. ClusterTypeOK /\ CallInv(c) /\ \A d \in Call : Pended(d)
  BY DEF ClusterInv
<1>1. /\ at[c] = "forked" /\ channel[c] = <<>> /\ flying[c] = {} /\ Return(c, "fail")
      /\ UNCHANGED <<directory, history, flying, channel, received, pending>>
  BY DEF ForksFailed, ChannelClosed, forking
<1>2. strategy[c] = "forking" /\ ~Succeeded(c)
  BY <1>0, <1>1, EmptyFacts DEF CallInv, Placed, Forker
<1>3. UNCHANGED strategy /\ \A d \in Call \ {c} : outcome'[d] = outcome[d]
  BY <1>0, <1>1, ReturnFacts
<1>4. \A d \in Call : Pended(d)'
  BY <1>0, <1>1, <1>2, <1>3, PendedSame
<1> QED
  BY <1>0, <1>1, <1>2, <1>4, ReturnKeeps DEF ClusterTypeOK

\* The last answer that a caller waits for leaves nothing behind.
LEMMA LastReceived ==
  ASSUME NEW r \in Nat, NEW l \in Nat, NEW k \in Nat, NEW n \in Nat, NEW f \in Nat,
         r + l + k = n, n <= f, r + 1 >= f, l >= 1
  PROVE  l = 1 /\ k = 0
OBVIOUS

LEMMA OneForkLess ==
  ASSUME NEW r \in Nat, NEW l \in Nat, NEW k \in Nat, NEW n \in Nat, r + l + k = n
  PROVE  r + (l + 1) + (k - 1) = n
OBVIOUS

LEMMA ReceiveKeeps ==
  ASSUME ClusterInv, NEW c \in Call, Receive(c)
  PROVE  ClusterInv'
<1>0. ClusterTypeOK /\ CallInv(c) /\ \A d \in Call : Pended(d)
  BY DEF ClusterInv
<1>1. /\ at[c] = "forked" /\ channel[c] # <<>>
      /\ channel' = [channel EXCEPT ![c] = Tail(@)]
      /\ received' = [received EXCEPT ![c] = @ + 1]
      /\ UNCHANGED <<urls, invokers, up, changes, flying, pending, answers, current, steady>>
      /\ UNCHANGED <<directory, history>>
  BY DEF Receive, directory, history
<1>2. /\ channel[c] \in Seq(Answer) /\ Head(channel[c]) \in Answer /\ Tail(channel[c]) \in Seq(Answer)
      /\ Len(channel[c]) \in Nat /\ Len(channel[c]) >= 1
      /\ Len(Tail(channel[c])) = Len(channel[c]) - 1
      /\ ToSet(channel[c]) = {Head(channel[c])} \cup ToSet(Tail(channel[c]))
  <2>1. channel[c] \in Seq(Answer) /\ channel[c] # <<>>
    BY <1>0, <1>1 DEF ClusterTypeOK
  <2>2. /\ Head(channel[c]) \in Answer /\ Tail(channel[c]) \in Seq(Answer)
        /\ Len(channel[c]) \in Nat /\ Len(channel[c]) >= 1
        /\ Len(Tail(channel[c])) = Len(channel[c]) - 1
        /\ DOMAIN channel[c] = 1 .. Len(channel[c])
        /\ DOMAIN Tail(channel[c]) = 1 .. Len(channel[c]) - 1
        /\ Head(channel[c]) = channel[c][1]
        /\ \A i \in 1 .. Len(channel[c]) - 1 : Tail(channel[c])[i] = channel[c][i + 1]
    BY <2>1
  <2>3. ToSet(channel[c]) \subseteq {Head(channel[c])} \cup ToSet(Tail(channel[c]))
    <3> SUFFICES ASSUME NEW i \in 1 .. Len(channel[c]), i # 1
                 PROVE  channel[c][i] \in ToSet(Tail(channel[c]))
      BY <2>2 DEF ToSet
    <3>1. i - 1 \in 1 .. Len(channel[c]) - 1 /\ Tail(channel[c])[i - 1] = channel[c][i]
      BY <2>2
    <3> QED
      BY <2>2, <3>1 DEF ToSet
  <2>4. {Head(channel[c])} \cup ToSet(Tail(channel[c])) \subseteq ToSet(channel[c])
    BY <2>2 DEF ToSet
  <2> QED
    BY <2>1, <2>2, <2>3, <2>4
<1>3. /\ channel' \in [Call -> Seq(Answer)] /\ received' \in [Call -> Nat]
      /\ channel'[c] = Tail(channel[c]) /\ received'[c] = received[c] + 1
      /\ \A d \in Call \ {c} : channel'[d] = channel[d] /\ received'[d] = received[d]
  BY <1>0, <1>1, <1>2 DEF ClusterTypeOK
<1>4. /\ strategy[c] = "forking"
      /\ Succeeded(c) <=> "ok" \in ToSet(channel[c])
      /\ received[c] + Len(channel[c]) + Cardinality(flying[c]) = Len(list[c])
      /\ Len(list[c]) <= Forks
  BY <1>0, <1>1 DEF CallInv, Placed, Forker
<1>5. IsFiniteSet(flying[c]) /\ Cardinality(flying[c]) \in Nat
  <2>1. list[c] \in Seq(Provider) /\ flying[c] \subseteq 1 .. Len(list[c])
    BY <1>0 DEF CallInv, Placed, ClusterTypeOK
  <2>2. Len(list[c]) \in Nat
    BY <2>1
  <2>3. IsFiniteSet(1 .. Len(list[c]))
    BY <2>2, FS_Interval
  <2>4. IsFiniteSet(flying[c])
    BY <2>1, <2>3, FS_Subset
  <2> QED
    BY <2>4, FS_CardinalityType
<1>5a. received[c] \in Nat /\ Len(list[c]) \in Nat
  BY <1>0 DEF ClusterTypeOK
<1>6. CASE Head(channel[c]) = "ok"
  <2>1. Return(c, "ok")
    BY <1>6 DEF Receive
  <2>2. Succeeded(c)
    BY <1>2, <1>4, <1>6
  <2>3. UNCHANGED strategy /\ \A d \in Call \ {c} : outcome'[d] = outcome[d]
    BY <1>0, <2>1, ReturnFacts
  <2>4. \A d \in Call : Pended(d)'
    BY <1>0, <1>1, <1>4, <2>3, PendedSame
  <2> QED
    BY <1>0, <1>1, <1>3, <1>4, <2>1, <2>2, <2>4, ReturnKeeps DEF ClusterTypeOK
<1>7. CASE Head(channel[c]) # "ok" /\ received[c] + 1 >= Forks
  <2>1. Return(c, "fail")
    BY <1>7 DEF Receive
  <2>2. Len(channel[c]) = 1 /\ Cardinality(flying[c]) = 0
    <3>1. Forks \in Nat
      BY ClusterAssumption
    <3> QED
      BY <1>2, <1>4, <1>5, <1>5a, <1>7, <3>1, LastReceived
  <2>3. flying[c] = {}
    BY <1>5, <2>2, FS_EmptySet
  <2>4. ToSet(Tail(channel[c])) = {}
    BY <1>2, <2>2 DEF ToSet
  <2>5. ~Succeeded(c)
    BY <1>2, <1>4, <1>7, <2>4
  <2>6. UNCHANGED strategy /\ \A d \in Call \ {c} : outcome'[d] = outcome[d]
    BY <1>0, <2>1, ReturnFacts
  <2>7. \A d \in Call : Pended(d)'
    BY <1>0, <1>1, <1>4, <2>6, PendedSame
  <2> QED
    BY <1>0, <1>1, <1>3, <1>4, <2>1, <2>3, <2>5, <2>7, ReturnKeeps DEF ClusterTypeOK
<1>8. CASE Head(channel[c]) # "ok" /\ ~(received[c] + 1 >= Forks)
  <2>1. UNCHANGED <<strategy, at, list, pos, attempt, firstErr, outcome>>
    BY <1>8 DEF Receive, cursor
  <2>2. ClusterTypeOK'
    BY <1>0, <1>1, <1>3, <2>1 DEF ClusterTypeOK
  <2>3. \A d \in Call \ {c} : Untouched(d)
    BY <1>1, <1>3, <2>1 DEF Untouched
  <2>4. Placed(c)' /\ Stayed(c)'
    BY <1>0, <1>1, <2>1 DEF CallInv, Placed, Stayed, Busy
  <2>5. Counted(c)'
    BY <1>1, <1>4, <2>1 DEF Counted
  <2>6. Asker(c)' /\ Broadcaster(c)'
    BY <1>4, <2>1 DEF Asker, Broadcaster
  <2>7. Forker(c)'
    <3>1. Succeeded(c)' <=> "ok" \in ToSet(channel'[c])
      BY <1>1, <1>2, <1>3, <1>4, <1>8 DEF Succeeded
    <3>2. received'[c] + Len(channel'[c]) + Cardinality(flying'[c]) = Len(list'[c])
      <4>1. /\ received'[c] = received[c] + 1 /\ Len(channel'[c]) = Len(channel[c]) - 1
            /\ flying'[c] = flying[c] /\ list'[c] = list[c]
        BY <1>1, <1>2, <1>3, <2>1
      <4> QED
        BY <1>2, <1>4, <1>5, <1>5a, <4>1
    <3>3. outcome[c] = "none"
      BY <1>0, <1>1 DEF CallInv, Placed
    <3> QED
      BY <1>1, <1>4, <2>1, <3>1, <3>2, <3>3 DEF Forker
  <2>8. \A d \in Call : Pended(d)'
    BY <1>0, <1>1, <2>1, PendedSame
  <2>9. CallInv(c)'
    BY <2>4, <2>5, <2>6, <2>7 DEF CallInv
  <2> QED
    BY <1>1, <2>2, <2>3, <2>8, <2>9, StepKeeps
<1> QED
  BY <1>6, <1>7, <1>8

LEMMA ForkEndsKeeps ==
  ASSUME ClusterInv, NEW c \in Call, NEW i, NEW a \in Answer, ForkEnds(c, i, a)
  PROVE  ClusterInv'
<1>0. ClusterTypeOK /\ CallInv(c) /\ \A d \in Call : Pended(d)
  BY DEF ClusterInv
<1>1. /\ i \in flying[c] /\ flying' = [flying EXCEPT ![c] = @ \ {i}]
      /\ channel' = [channel EXCEPT ![c] = IF at[c] = "forked" THEN Append(@, a) ELSE @]
      /\ Answered(c, i, a)
      /\ UNCHANGED <<urls, invokers, up, changes, strategy, at, list, pos, attempt, firstErr,
                     received, outcome, pending, current, steady>>
  BY DEF ForkEnds, Answered, directory, cursor
<1>2. /\ strategy[c] = "forking" /\ at[c] \in {"forked", "done"}
      /\ list[c] \in Seq(Provider) /\ i \in DOMAIN list[c]
  BY <1>0, <1>1 DEF CallInv, Placed, ClusterTypeOK
<1>3. PICK q \in Provider : q = list[c][i]
  BY <1>2
<1>4. /\ answers' \in [Call -> [Provider -> Seq(Answer)]]
      /\ \A d \in Call \ {c} : answers'[d] = answers[d]
      /\ Succeeded(c)' <=> Succeeded(c) \/ a = "ok"
  BY <1>0, <1>1, <1>2, <1>3, AnsweredFacts
<1>5. channel[c] \in Seq(Answer)
  BY <1>0 DEF ClusterTypeOK
<1>6. /\ Append(channel[c], a) \in Seq(Answer) /\ Len(Append(channel[c], a)) = Len(channel[c]) + 1
      /\ ToSet(Append(channel[c], a)) = ToSet(channel[c]) \cup {a}
  BY <1>5, AppendFacts
<1>7. /\ channel' \in [Call -> Seq(Answer)] /\ flying' \in [Call -> SUBSET Nat]
      /\ channel'[c] = IF at[c] = "forked" THEN Append(channel[c], a) ELSE channel[c]
      /\ flying'[c] = flying[c] \ {i}
      /\ \A d \in Call \ {c} : channel'[d] = channel[d] /\ flying'[d] = flying[d]
  BY <1>0, <1>1, <1>5, <1>6 DEF ClusterTypeOK
<1>8. ClusterTypeOK'
  BY <1>0, <1>1, <1>4, <1>7 DEF ClusterTypeOK
<1>9. \A d \in Call \ {c} : Untouched(d)
  BY <1>1, <1>4, <1>7 DEF Untouched
<1>10. Placed(c)' /\ Stayed(c)'
  BY <1>0, <1>1, <1>2, <1>7 DEF CallInv, Placed, Stayed, Busy
<1>11. Counted(c)'
  BY <1>1, <1>2 DEF Counted
<1>12. Asker(c)' /\ Broadcaster(c)'
  BY <1>1, <1>2 DEF Asker, Broadcaster
<1>13. Forker(c)'
  <2>1. CASE at[c] = "forked"
    <3>1. /\ Succeeded(c) <=> "ok" \in ToSet(channel[c])
          /\ received[c] + Len(channel[c]) + Cardinality(flying[c]) = Len(list[c])
          /\ Len(list[c]) <= Forks /\ outcome[c] = "none"
      BY <1>0, <1>2, <2>1 DEF CallInv, Placed, Forker
    <3>2. Cardinality(flying'[c]) = Cardinality(flying[c]) - 1 /\ Cardinality(flying[c]) \in Nat
      <4>1. flying[c] \subseteq 1 .. Len(list[c]) /\ Len(list[c]) \in Int /\ 1 \in Int
        BY <1>0, <1>2 DEF CallInv, Placed
      <4>2. IsFiniteSet(flying[c])
        BY <4>1, FS_Interval, FS_Subset
      <4> QED
        BY <1>1, <1>7, <4>2, FS_RemoveElement, FS_CardinalityType
    <3>3. received'[c] + Len(channel'[c]) + Cardinality(flying'[c]) = Len(list'[c])
      <4>1. Len(list[c]) \in Nat /\ received[c] \in Nat /\ Len(channel[c]) \in Nat
        BY <1>0, <1>2, <1>5 DEF ClusterTypeOK
      <4>2. /\ received'[c] = received[c] /\ list'[c] = list[c]
            /\ Len(channel'[c]) = Len(channel[c]) + 1
        BY <1>1, <1>6, <1>7, <2>1
      <4>3. Cardinality(flying[c]) \in Nat /\ Cardinality(flying'[c]) = Cardinality(flying[c]) - 1
        BY <3>2
      <4>4. received[c] + (Len(channel[c]) + 1) + (Cardinality(flying[c]) - 1) = Len(list[c])
        BY <3>1, <4>1, <4>3, OneForkLess
      <4> QED
        BY <4>2, <4>3, <4>4
    <3>4. Succeeded(c)' <=> "ok" \in ToSet(channel'[c])
      BY <1>4, <1>6, <1>7, <2>1, <3>1
    <3> QED
      BY <1>1, <2>1, <3>1, <3>3, <3>4 DEF Forker
  <2>2. CASE at[c] = "done"
    <3>1. outcome[c] \notin {"error", "fail"}
      BY <1>0, <1>1, <1>2 DEF CallInv, Forker
    <3>2. outcome[c] = "ok" => Succeeded(c)
      BY <1>0, <1>2 DEF CallInv, Forker
    <3> QED
      BY <1>1, <1>4, <2>2, <3>1, <3>2 DEF Forker
  <2> QED
    BY <1>2, <2>1, <2>2
<1>14. \A d \in Call : Pended(d)'
  BY <1>0, <1>1, PendedSame
<1>15. CallInv(c)'
  BY <1>10, <1>11, <1>12, <1>13 DEF CallInv
<1> QED
  BY <1>1, <1>8, <1>9, <1>14, <1>15, StepKeeps

LEMMA ListKeeps ==
  ASSUME ClusterInv, NEW c \in Call, List(c)
  PROVE  ClusterInv'
<1>0. ClusterTypeOK /\ CallInv(c) /\ \A d \in Call : Pended(d)
  BY DEF ClusterInv
<1> DEFINE new == IF strategy[c] = "forking" THEN Selected ELSE Listed
           forks == strategy[c] = "forking" /\ Len(Selected) > 1
<1>1. /\ at[c] = "list" /\ Listed # <<>>
      /\ list' = [list EXCEPT ![c] = new] /\ pos' = [pos EXCEPT ![c] = 1]
      /\ current' = [current EXCEPT ![c] = ToSet(Listed)]
      /\ at' = [at EXCEPT ![c] = IF forks THEN "forked" ELSE "invoke"]
      /\ IF forks THEN flying' = [flying EXCEPT ![c] = DOMAIN Selected] ELSE UNCHANGED flying
      /\ UNCHANGED <<urls, invokers, up, changes, strategy, attempt, firstErr, channel, received,
                     outcome, pending, answers, steady>>
  BY DEF List, NewList, directory
<1>2. /\ Listed \in Seq(Provider) /\ IsInjective(Listed)
      /\ ToSet(Listed) = ToSet(invokers) \cap up /\ ToSet(Listed) \subseteq Provider
      /\ DOMAIN Listed = 1 .. Len(Listed) /\ Len(Listed) >= 1
  BY <1>0, <1>1, ListedFacts DEF ClusterTypeOK
<1>3. /\ Selected \in Seq(Provider) /\ IsInjective(Selected)
      /\ ToSet(Selected) \subseteq ToSet(Listed)
      /\ Len(Selected) \in Nat /\ Len(Selected) <= Forks /\ Len(Selected) >= 1
      /\ DOMAIN Selected = 1 .. Len(Selected)
  BY <1>0, <1>1, SelectedFacts
<1>4. /\ new \in Seq(Provider) /\ IsInjective(new) /\ ToSet(new) \subseteq ToSet(Listed)
      /\ 1 \in DOMAIN new
      /\ strategy[c] # "forking" => new = Listed
      /\ strategy[c] = "forking" => new = Selected
  BY <1>2, <1>3
<1>5. forks => strategy[c] = "forking"
  OBVIOUS
<1> HIDE DEF new, forks
<1>6. flying[c] = {} /\ outcome[c] = "none" /\ attempt[c] <= Retries
      /\ (strategy[c] = "broadcast" => attempt[c] = 0)
  BY <1>0, <1>1 DEF CallInv, Placed
<1>7. /\ flying' \in [Call -> SUBSET Nat]
      /\ flying'[c] = IF forks THEN DOMAIN Selected ELSE {}
      /\ \A d \in Call \ {c} : flying'[d] = flying[d]
  <2>1. CASE forks
    <3>1. DOMAIN Selected \in SUBSET Nat
      BY <1>3
    <3>2. flying' = [flying EXCEPT ![c] = DOMAIN Selected] /\ flying \in [Call -> SUBSET Nat]
      BY <1>0, <1>1, <2>1 DEF ClusterTypeOK
    <3> QED
      BY <2>1, <3>1, <3>2
  <2>2. CASE ~forks
    BY <1>0, <1>1, <1>6, <2>2 DEF ClusterTypeOK
  <2> QED
    BY <2>1, <2>2
<1>8. ClusterTypeOK'
  BY <1>0, <1>1, <1>2, <1>4, <1>7 DEF ClusterTypeOK
<1>9. /\ list'[c] = new /\ pos'[c] = 1 /\ current'[c] = ToSet(Listed)
      /\ at'[c] = IF forks THEN "forked" ELSE "invoke"
  BY <1>0, <1>1 DEF ClusterTypeOK
<1>10. \A d \in Call \ {c} : Untouched(d)
  BY <1>0, <1>1, <1>7 DEF ClusterTypeOK, Untouched
<1>11. Placed(c)'
  BY <1>1, <1>4, <1>5, <1>6, <1>7, <1>9 DEF Placed
<1>12. steady[c] \subseteq ToSet(Listed)
  BY <1>0, <1>1, <1>2 DEF CallInv, Stayed, Busy
<1>13. Stayed(c)'
  BY <1>1, <1>2, <1>4, <1>9, <1>12 DEF Stayed
<1>14. Counted(c)'
  <2>1. Worked(c)' = {}
    BY <1>9 DEF Worked
  <2>2. strategy[c] \in {"failover", "broadcast"} => \A p \in steady[c] : Tries(c, p) = attempt[c]
    BY <1>0, <1>1 DEF CallInv, Counted
  <2>3. \A p \in steady[c] : Tries(c, p)' = Tries(c, p)
    BY <1>1 DEF Tries
  <2>4. attempt[c] \in Nat
    BY <1>0 DEF ClusterTypeOK
  <2> QED
    BY <1>1, <1>5, <1>9, <2>1, <2>2, <2>3, <2>4 DEF Counted, Exhausted
<1>15. Succeeded(c)' <=> Succeeded(c)
  BY <1>1 DEF Succeeded
<1>16. Asker(c)'
  BY <1>0, <1>1, <1>15 DEF CallInv, Asker
<1>17. Broadcaster(c)'
  <2>1. strategy[c] = "broadcast" => answers[c] = [p \in Provider |-> <<>>] /\ ~firstErr[c]
    BY <1>0, <1>1 DEF CallInv, Broadcaster
  <2>2. strategy[c] = "broadcast" => OnlyOk(c)'
    BY <1>1, <2>1, EmptyFacts DEF OnlyOk
  <2> QED
    BY <1>1, <1>5, <1>6, <1>9, <2>2 DEF Broadcaster
<1>18. Forker(c)'
  <2> SUFFICES ASSUME strategy[c] = "forking" PROVE Forker(c)'
    BY <1>1 DEF Forker
  <2>1. channel[c] = <<>> /\ received[c] = 0 /\ ~Succeeded(c)
    BY <1>0, <1>1 DEF CallInv, Forker
  <2>2. CASE forks
    <3>1. Cardinality(DOMAIN Selected) = Len(Selected)
      BY <1>3, FS_Interval
    <3>2. new = Selected
      BY <1>4
    <3>3. received'[c] + Len(channel'[c]) + Cardinality(flying'[c]) = Len(list'[c])
      BY <1>1, <1>3, <1>7, <1>9, <2>1, <2>2, <3>1, <3>2, EmptyFacts
    <3> QED
      BY <1>1, <1>3, <1>6, <1>9, <1>15, <2>1, <2>2, <3>2, <3>3, EmptyFacts DEF Forker
  <2>3. CASE ~forks
    BY <1>1, <1>6, <1>9, <1>15, <2>1, <2>3 DEF Forker
  <2> QED
    BY <2>2, <2>3
<1>19. CallInv(c)'
  BY <1>11, <1>13, <1>14, <1>16, <1>17, <1>18 DEF CallInv
<1>20. \A d \in Call : Pended(d)'
  BY <1>0, <1>1, PendedSame
<1> QED
  BY <1>1, <1>8, <1>10, <1>19, <1>20, StepKeeps

-----------------------------------------------------------------------------
(* invoke() of an invoker of the list.                                     *)

LEMMA AskedFacts ==
  ASSUME ClusterInv, NEW c \in Call, at[c] = "invoke", Asked(c) # 0
  PROVE  /\ list[c] \in Seq(Provider) /\ pos[c] \in DOMAIN list[c] /\ Asked(c) \in DOMAIN list[c]
         /\ strategy[c] # "available" => Asked(c) = pos[c]
<1>1. list[c] \in Seq(Provider) /\ pos[c] \in DOMAIN list[c]
  BY DEF ClusterInv, ClusterTypeOK, CallInv, Placed
<1>2. CASE strategy[c] # "available"
  BY <1>1, <1>2 DEF Asked
<1>3. CASE strategy[c] = "available"
  <2> DEFINE free == {i \in pos[c] .. Len(list[c]) : list[c][i] \in up}
  <2>1. Asked(c) = IF free = {} THEN 0 ELSE Min(free)
    BY <1>3 DEF Asked, SkipsTo
  <2>2. free \subseteq DOMAIN list[c] /\ free \in SUBSET Nat
    BY <1>1
  <2> HIDE DEF free
  <2>3. free # {}
    BY <2>1
  <2>4. \E n \in free : \A m \in free : n <= m
    BY <2>2, <2>3, LeastNat
  <2>5. Min(free) \in free
    BY <2>4 DEF Min
  <2> QED
    BY <1>1, <1>3, <2>1, <2>2, <2>3, <2>5
<1> QED
  BY <1>2, <1>3

\* The invoker at the position of a call is asked for the first time in this round, and
\* when it is the last all have been.
LEMMA WorkedFacts ==
  ASSUME NEW c \in Call, list[c] \in Seq(Provider), IsInjective(list[c]), pos[c] \in DOMAIN list[c]
  PROVE  /\ list[c][pos[c]] \notin Worked(c)
         /\ {list[c][i] : i \in 1 .. pos[c]} = Worked(c) \cup {list[c][pos[c]]}
         /\ pos[c] = Len(list[c]) => ToSet(list[c]) = Worked(c) \cup {list[c][pos[c]]}
<1>1. DOMAIN list[c] = 1 .. Len(list[c]) /\ Len(list[c]) \in Nat /\ pos[c] \in 1 .. Len(list[c])
  OBVIOUS
<1>2. 1 .. pos[c] = (1 .. pos[c] - 1) \cup {pos[c]}
  BY <1>1
<1>3. \A i \in 1 .. pos[c] - 1 : i \in DOMAIN list[c] /\ i # pos[c]
  BY <1>1
<1>4. list[c][pos[c]] \notin Worked(c)
  BY <1>3 DEF Worked, IsInjective
<1>5. {list[c][i] : i \in 1 .. pos[c]} = Worked(c) \cup {list[c][pos[c]]}
  BY <1>2 DEF Worked
<1>6. pos[c] = Len(list[c]) => ToSet(list[c]) = {list[c][i] : i \in 1 .. pos[c]}
  BY <1>1 DEF ToSet
<1> QED
  BY <1>4, <1>5, <1>6

\* How often those who stayed have been asked, once the answer is there.
LEMMA CountedNow ==
  ASSUME ClusterInv, NEW c \in Call, NEW a \in Answer,
         at[c] = "invoke", strategy[c] \in {"failover", "broadcast"},
         Answered(c, pos[c], a)
  PROVE  /\ {list[c][i] : i \in 1 .. pos[c]} = Worked(c) \cup {list[c][pos[c]]}
         /\ \A p \in steady[c] :
              /\ Tries(c, p)' =
                   attempt[c] + IF p \in {list[c][i] : i \in 1 .. pos[c]} THEN 1 ELSE 0
              /\ pos[c] = Len(list[c]) => Tries(c, p)' = attempt[c] + 1
<1>1. /\ ClusterTypeOK /\ list[c] \in Seq(Provider) /\ pos[c] \in DOMAIN list[c]
      /\ IsInjective(list[c]) /\ steady[c] \subseteq ToSet(list[c])
      /\ attempt[c] \in Nat /\ steady[c] \subseteq Provider
  BY DEF ClusterInv, ClusterTypeOK, CallInv, Placed, Stayed
<1>2. \A p \in steady[c] : Tries(c, p) = attempt[c] + IF p \in Worked(c) THEN 1 ELSE 0
  BY DEF ClusterInv, CallInv, Counted
<1>3. PICK q \in Provider : q = list[c][pos[c]]
  BY <1>1
<1>4. /\ Tries(c, q)' = Tries(c, q) + 1
      /\ \A p \in Provider \ {q} : Tries(c, p)' = Tries(c, p)
  BY <1>1, <1>3, AnsweredFacts
<1>5. /\ q \notin Worked(c)
      /\ {list[c][i] : i \in 1 .. pos[c]} = Worked(c) \cup {q}
      /\ pos[c] = Len(list[c]) => ToSet(list[c]) = Worked(c) \cup {q}
  BY <1>1, <1>3, WorkedFacts
<1>6. ASSUME NEW p \in steady[c]
      PROVE  Tries(c, p)' = attempt[c] + IF p \in Worked(c) \cup {q} THEN 1 ELSE 0
  <2>1. CASE p = q
    <3>1. Tries(c, p) = attempt[c]
      BY <1>1, <1>2, <1>5, <2>1
    <3> QED
      BY <1>1, <1>4, <2>1, <3>1
  <2>2. CASE p # q
    BY <1>1, <1>2, <1>4, <1>6, <2>2
  <2> QED
    BY <2>1, <2>2
<1> QED
  BY <1>1, <1>3, <1>5, <1>6

\* A step that ends a call with the answer of one invoker.
LEMMA SingleKeeps ==
  ASSUME ClusterInv, NEW c \in Call, NEW a \in Answer, NEW o \in {"ok", "error", "fail", "mock"},
         at[c] = "invoke", strategy[c] \notin {"failover", "broadcast"}, Asked(c) # 0,
         Answered(c, Asked(c), a), Return(c, o), o = "ok" <=> a = "ok",
         UNCHANGED <<directory, forking>>,
         pending' \in Seq(Call), \A d \in Call : Pended(d)'
  PROVE  ClusterInv'
<1>0. ClusterTypeOK /\ CallInv(c)
  BY DEF ClusterInv
<1>1. /\ at' \in [Call -> {"idle", "list", "invoke", "forked", "done"}]
      /\ outcome' \in [Call -> {"none", "ok", "error", "fail", "mock"}]
      /\ at'[c] = "done" /\ outcome'[c] = o
      /\ \A d \in Call \ {c} : at'[d] = at[d] /\ outcome'[d] = outcome[d]
      /\ UNCHANGED <<strategy, list, pos, attempt, firstErr>>
  BY <1>0, ReturnFacts
<1>2. UNCHANGED <<urls, invokers, up, changes, flying, channel, received, current, steady>>
  BY DEF directory, forking, Answered
<1>3. list[c] \in Seq(Provider) /\ Asked(c) \in DOMAIN list[c]
  BY AskedFacts
<1>4. PICK q \in Provider : q = list[c][Asked(c)]
  BY <1>3
<1>5. /\ answers' \in [Call -> [Provider -> Seq(Answer)]]
      /\ \A d \in Call \ {c} : answers'[d] = answers[d]
      /\ Succeeded(c)' <=> Succeeded(c) \/ a = "ok"
  BY <1>0, <1>3, <1>4, AnsweredFacts
<1>6. ClusterTypeOK'
  BY <1>0, <1>1, <1>2, <1>5 DEF ClusterTypeOK
<1>7. \A d \in Call \ {c} : Untouched(d)
  BY <1>1, <1>2, <1>5 DEF Untouched
<1>8. Placed(c)'
  BY <1>0, <1>1, <1>2 DEF CallInv, Placed
<1>9. Stayed(c)'
  BY <1>1 DEF Stayed, Busy
<1>10. Counted(c)'
  BY <1>1 DEF Counted
<1>11. outcome[c] = "none" /\ flying[c] = {}
  BY <1>0 DEF CallInv, Placed
<1>12. Asker(c)'
  BY <1>0, <1>1, <1>5, <1>11 DEF CallInv, Asker
<1>13. Broadcaster(c)'
  BY <1>1 DEF Broadcaster
<1>14. Forker(c)'
  BY <1>0, <1>1, <1>2, <1>5, <1>11 DEF CallInv, Forker
<1>15. CallInv(c)'
  BY <1>8, <1>9, <1>10, <1>12, <1>13, <1>14 DEF CallInv
<1> QED
  BY <1>2, <1>6, <1>7, <1>15, StepKeeps

LEMMA FailoverKeeps ==
  ASSUME ClusterInv, NEW c \in Call, NEW a \in Answer,
         at[c] = "invoke", strategy[c] = "failover",
         Answered(c, pos[c], a), AfterFailover(c, a), UNCHANGED <<directory, forking>>
  PROVE  ClusterInv'
<1>0. ClusterTypeOK /\ CallInv(c) /\ \A d \in Call : Pended(d)
  BY DEF ClusterInv
<1>1. UNCHANGED <<urls, invokers, up, changes, flying, channel, received, current, steady,
                  firstErr, pending>>
  BY DEF directory, forking, Answered, AfterFailover
<1>2. /\ list[c] \in Seq(Provider) /\ pos[c] \in DOMAIN list[c] /\ pos[c] \in Nat
      /\ DOMAIN list[c] = 1 .. Len(list[c]) /\ Len(list[c]) \in Nat
      /\ attempt[c] \in Nat /\ attempt[c] <= Retries /\ Retries \in Nat
      /\ flying[c] = {} /\ outcome[c] = "none" /\ ~Succeeded(c)
  BY <1>0, ClusterAssumption DEF CallInv, Placed, Asker, ClusterTypeOK
<1>3. PICK q \in Provider : q = list[c][pos[c]]
  BY <1>2
<1>4. /\ answers' \in [Call -> [Provider -> Seq(Answer)]]
      /\ \A d \in Call \ {c} : answers'[d] = answers[d]
      /\ Succeeded(c)' <=> a = "ok"
  BY <1>0, <1>2, <1>3, AnsweredFacts
<1>5. \A p \in steady[c] :
        /\ Tries(c, p)' = attempt[c] + IF p \in {list[c][i] : i \in 1 .. pos[c]} THEN 1 ELSE 0
        /\ pos[c] = Len(list[c]) => Tries(c, p)' = attempt[c] + 1
  BY CountedNow
<1>6. ASSUME ClusterTypeOK', \A d \in Call \ {c} : Untouched(d), UNCHANGED strategy,
             Placed(c)', Stayed(c)', Counted(c)', Asker(c)',
             outcome'[c] # "mock"
      PROVE  ClusterInv'
  <2>1. Broadcaster(c)' /\ Forker(c)'
    BY <1>6 DEF Broadcaster, Forker
  <2>2. CallInv(c)'
    BY <1>6, <2>1 DEF CallInv
  <2>3. \A d \in Call : strategy[d] = "failback" => (outcome'[d] = "mock" <=> outcome[d] = "mock")
    BY <1>2, <1>6 DEF Untouched
  <2>4. \A d \in Call : Pended(d)'
    BY <1>0, <1>1, <1>6, <2>3, PendedSame
  <2> QED
    BY <1>1, <1>6, <2>2, <2>4, StepKeeps
<1>7. CASE a = "ok" /\ Return(c, "ok")
  <2>1. /\ at' \in [Call -> {"idle", "list", "invoke", "forked", "done"}]
        /\ outcome' \in [Call -> {"none", "ok", "error", "fail", "mock"}]
        /\ at'[c] = "done" /\ outcome'[c] = "ok"
        /\ \A d \in Call \ {c} : at'[d] = at[d] /\ outcome'[d] = outcome[d]
        /\ UNCHANGED <<strategy, list, pos, attempt>>
    BY <1>0, <1>7, ReturnFacts
  <2>2. ClusterTypeOK'
    BY <1>0, <1>1, <1>4, <2>1 DEF ClusterTypeOK
  <2>3. \A d \in Call \ {c} : Untouched(d)
    BY <1>1, <1>4, <2>1 DEF Untouched
  <2>4. Placed(c)' /\ Stayed(c)'
    BY <1>0, <1>1, <2>1 DEF CallInv, Placed, Stayed, Busy
  <2>5. Counted(c)' /\ Asker(c)'
    BY <1>4, <1>7, <2>1 DEF Counted, Exhausted, Asker
  <2> QED
    BY <1>6, <2>1, <2>2, <2>3, <2>4, <2>5
<1>8. CASE a # "ok" /\ pos[c] < Len(list[c]) /\ Step(c)
  <2>1. /\ pos' = [pos EXCEPT ![c] = @ + 1]
        /\ UNCHANGED <<strategy, at, list, attempt, outcome>>
    BY <1>8 DEF Step
  <2>2. /\ pos' \in [Call -> Nat] /\ pos'[c] = pos[c] + 1
        /\ \A d \in Call \ {c} : pos'[d] = pos[d]
    BY <1>0, <1>2, <2>1 DEF ClusterTypeOK
  <2>3. ClusterTypeOK'
    BY <1>0, <1>1, <1>4, <2>1, <2>2 DEF ClusterTypeOK
  <2>4. \A d \in Call \ {c} : Untouched(d)
    BY <1>1, <1>4, <2>1, <2>2 DEF Untouched
  <2>5. pos'[c] \in DOMAIN list'[c]
    BY <1>2, <1>8, <2>1, <2>2
  <2>6. Placed(c)' /\ Stayed(c)'
    BY <1>0, <1>1, <2>1, <2>5 DEF CallInv, Placed, Stayed, Busy
  <2>7. Worked(c)' = {list[c][i] : i \in 1 .. pos[c]}
    <3>1. pos'[c] - 1 = pos[c]
      BY <1>2, <2>2
    <3> QED
      BY <2>1, <3>1 DEF Worked
  <2>8. Counted(c)'
    BY <1>1, <1>5, <2>1, <2>7 DEF Counted, Exhausted
  <2>9. Asker(c)'
    BY <1>2, <1>4, <1>8, <2>1 DEF Asker
  <2>10. outcome'[c] # "mock"
    BY <1>2, <2>1
  <2> QED
    BY <1>6, <2>1, <2>3, <2>4, <2>6, <2>8, <2>9, <2>10
<1>9. CASE /\ a # "ok" /\ pos[c] = Len(list[c]) /\ AttemptsLeft(c)
           /\ at' = [at EXCEPT ![c] = "list"]
           /\ attempt' = [attempt EXCEPT ![c] = @ + 1]
           /\ UNCHANGED <<strategy, list, pos, outcome>>
  <2>1. /\ at' \in [Call -> {"idle", "list", "invoke", "forked", "done"}]
        /\ attempt' \in [Call -> Nat] /\ at'[c] = "list" /\ attempt'[c] = attempt[c] + 1
        /\ \A d \in Call \ {c} : at'[d] = at[d] /\ attempt'[d] = attempt[d]
    BY <1>0, <1>2, <1>9 DEF ClusterTypeOK
  <2>2. ClusterTypeOK'
    BY <1>0, <1>1, <1>4, <1>9, <2>1 DEF ClusterTypeOK
  <2>3. \A d \in Call \ {c} : Untouched(d)
    BY <1>1, <1>4, <1>9, <2>1 DEF Untouched
  <2>4. attempt'[c] <= Retries
    BY <1>2, <1>9, <2>1 DEF AttemptsLeft
  <2>5. Placed(c)' /\ Stayed(c)'
    BY <1>0, <1>1, <1>2, <1>9, <2>1, <2>4 DEF CallInv, Placed, Stayed, Busy
  <2>6. Counted(c)'
    BY <1>1, <1>5, <1>9, <2>1 DEF Counted, Exhausted
  <2>7. Asker(c)'
    BY <1>2, <1>4, <1>9 DEF Asker
  <2>8. outcome'[c] # "mock"
    BY <1>2, <1>9
  <2> QED
    BY <1>6, <1>9, <2>2, <2>3, <2>5, <2>6, <2>7, <2>8
<1>10. CASE a # "ok" /\ pos[c] = Len(list[c]) /\ ~AttemptsLeft(c) /\ Return(c, "fail")
  <2>1. /\ at' \in [Call -> {"idle", "list", "invoke", "forked", "done"}]
        /\ outcome' \in [Call -> {"none", "ok", "error", "fail", "mock"}]
        /\ at'[c] = "done" /\ outcome'[c] = "fail"
        /\ \A d \in Call \ {c} : at'[d] = at[d] /\ outcome'[d] = outcome[d]
        /\ UNCHANGED <<strategy, list, pos, attempt>>
    BY <1>0, <1>10, ReturnFacts
  <2>2. ClusterTypeOK'
    BY <1>0, <1>1, <1>4, <2>1 DEF ClusterTypeOK
  <2>3. \A d \in Call \ {c} : Untouched(d)
    BY <1>1, <1>4, <2>1 DEF Untouched
  <2>4. Placed(c)' /\ Stayed(c)'
    BY <1>0, <1>1, <2>1 DEF CallInv, Placed, Stayed, Busy
  <2>5. attempt[c] = Retries
    BY <1>2, <1>10 DEF AttemptsLeft
  <2>6. Counted(c)'
    BY <1>1, <1>5, <1>10, <2>1, <2>5 DEF Counted, Exhausted
  <2>7. Asker(c)'
    BY <1>4, <1>10, <2>1 DEF Asker
  <2> QED
    BY <1>6, <2>1, <2>2, <2>3, <2>4, <2>6, <2>7
<1> QED
  BY <1>7, <1>8, <1>9, <1>10 DEF AfterFailover

LEMMA BroadcastKeeps ==
  ASSUME ClusterInv, NEW c \in Call, NEW a \in Answer,
         at[c] = "invoke", strategy[c] = "broadcast",
         Answered(c, pos[c], a), AfterBroadcast(c, a), UNCHANGED <<directory, forking>>
  PROVE  ClusterInv'
<1>0. ClusterTypeOK /\ CallInv(c) /\ \A d \in Call : Pended(d)
  BY DEF ClusterInv
<1>1. UNCHANGED <<urls, invokers, up, changes, flying, channel, received, current, steady, pending>>
  BY DEF directory, forking, Answered, AfterBroadcast
<1>2. /\ list[c] \in Seq(Provider) /\ pos[c] \in DOMAIN list[c] /\ pos[c] \in Nat
      /\ DOMAIN list[c] = 1 .. Len(list[c]) /\ Len(list[c]) \in Nat
      /\ attempt[c] = 0 /\ flying[c] = {} /\ outcome[c] = "none"
      /\ firstErr[c] \in BOOLEAN /\ (~firstErr[c] => OnlyOk(c))
  BY <1>0 DEF CallInv, Placed, Broadcaster, ClusterTypeOK
<1>3. PICK q \in Provider : q = list[c][pos[c]]
  BY <1>2
<1>4. /\ answers' \in [Call -> [Provider -> Seq(Answer)]]
      /\ \A d \in Call \ {c} : answers'[d] = answers[d]
      /\ Succeeded(c)' <=> Succeeded(c) \/ a = "ok"
      /\ OnlyOk(c)' <=> OnlyOk(c) /\ a = "ok"
  BY <1>0, <1>2, <1>3, AnsweredFacts
<1>5. \A p \in steady[c] :
        /\ Tries(c, p)' = attempt[c] + IF p \in {list[c][i] : i \in 1 .. pos[c]} THEN 1 ELSE 0
        /\ pos[c] = Len(list[c]) => Tries(c, p)' = attempt[c] + 1
  BY CountedNow
<1>6. ASSUME ClusterTypeOK', \A d \in Call \ {c} : Untouched(d), UNCHANGED strategy,
             Placed(c)', Stayed(c)', Counted(c)', Broadcaster(c)',
             outcome'[c] # "mock"
      PROVE  ClusterInv'
  <2>1. Asker(c)' /\ Forker(c)'
    BY <1>6 DEF Asker, Forker
  <2>2. CallInv(c)'
    BY <1>6, <2>1 DEF CallInv
  <2>3. \A d \in Call : strategy[d] = "failback" => (outcome'[d] = "mock" <=> outcome[d] = "mock")
    BY <1>2, <1>6 DEF Untouched
  <2>4. \A d \in Call : Pended(d)'
    BY <1>0, <1>1, <1>6, <2>3, PendedSame
  <2> QED
    BY <1>1, <1>6, <2>2, <2>4, StepKeeps
<1>7. CASE pos[c] < Len(list[c])
  <2>1. /\ pos' = [pos EXCEPT ![c] = @ + 1] /\ firstErr' = [firstErr EXCEPT ![c] = @ \/ a # "ok"]
        /\ UNCHANGED <<strategy, at, list, attempt, outcome>>
    BY <1>7 DEF AfterBroadcast, Step
  <2>2. /\ pos' \in [Call -> Nat] /\ pos'[c] = pos[c] + 1
        /\ \A d \in Call \ {c} : pos'[d] = pos[d]
    BY <1>0, <1>2, <2>1 DEF ClusterTypeOK
  <2>3. /\ firstErr' \in [Call -> BOOLEAN] /\ firstErr'[c] = (firstErr[c] \/ a # "ok")
        /\ \A d \in Call \ {c} : firstErr'[d] = firstErr[d]
    BY <1>0, <1>2, <2>1 DEF ClusterTypeOK
  <2>4. ClusterTypeOK'
    BY <1>0, <1>1, <1>4, <2>1, <2>2, <2>3 DEF ClusterTypeOK
  <2>5. \A d \in Call \ {c} : Untouched(d)
    BY <1>1, <1>4, <2>1, <2>2, <2>3 DEF Untouched
  <2>6. pos'[c] \in DOMAIN list'[c]
    BY <1>2, <1>7, <2>1, <2>2
  <2>7. Placed(c)' /\ Stayed(c)'
    BY <1>0, <1>1, <2>1, <2>6 DEF CallInv, Placed, Stayed, Busy
  <2>8. Worked(c)' = {list[c][i] : i \in 1 .. pos[c]}
    <3>1. pos'[c] - 1 = pos[c]
      BY <1>2, <2>2
    <3> QED
      BY <2>1, <3>1 DEF Worked
  <2>9. Counted(c)'
    BY <1>1, <1>5, <2>1, <2>8 DEF Counted, Exhausted
  <2>10. Broadcaster(c)'
    BY <1>2, <1>4, <2>1, <2>3 DEF Broadcaster
  <2>11. outcome'[c] # "mock"
    BY <1>2, <2>1
  <2> QED
    BY <1>6, <2>1, <2>4, <2>5, <2>7, <2>9, <2>10, <2>11
<1>8. CASE ~(pos[c] < Len(list[c]))
  <2> DEFINE o == BroadcastOutcome(c, a)
  <2>1. Return(c, o) /\ pos[c] = Len(list[c])
    BY <1>2, <1>8 DEF AfterBroadcast
  <2>2. o \in {"ok", "fail"} /\ (o = "ok" <=> a = "ok" /\ ~firstErr[c])
    BY DEF BroadcastOutcome
  <2> HIDE DEF o
  <2>3. /\ at' \in [Call -> {"idle", "list", "invoke", "forked", "done"}]
        /\ outcome' \in [Call -> {"none", "ok", "error", "fail", "mock"}]
        /\ at'[c] = "done" /\ outcome'[c] = o
        /\ \A d \in Call \ {c} : at'[d] = at[d] /\ outcome'[d] = outcome[d]
        /\ UNCHANGED <<strategy, list, pos, attempt, firstErr>>
    BY <1>0, <2>1, <2>2, ReturnFacts
  <2>4. ClusterTypeOK'
    BY <1>0, <1>1, <1>4, <2>3 DEF ClusterTypeOK
  <2>5. \A d \in Call \ {c} : Untouched(d)
    BY <1>1, <1>4, <2>3 DEF Untouched
  <2>6. Placed(c)' /\ Stayed(c)'
    BY <1>0, <1>1, <2>2, <2>3 DEF CallInv, Placed, Stayed, Busy
  <2>7. Counted(c)'
    BY <1>0, <1>1, <1>2, <1>5, <2>1, <2>3 DEF Counted, Exhausted
  <2>8. Broadcaster(c)'
    BY <1>2, <1>4, <2>2, <2>3 DEF Broadcaster
  <2>9. outcome'[c] # "mock"
    BY <2>2, <2>3
  <2> QED
    BY <1>6, <2>3, <2>4, <2>5, <2>6, <2>7, <2>8, <2>9
<1> QED
  BY <1>7, <1>8

LEMMA InvokeKeeps ==
  ASSUME ClusterInv, NEW c \in Call, NEW a \in Answer, Invoke(c, a)
  PROVE  ClusterInv'
<1>0. ClusterTypeOK /\ CallInv(c) /\ \A d \in Call : Pended(d)
  BY DEF ClusterInv
<1>1. /\ at[c] = "invoke" /\ Asked(c) # 0 /\ Answered(c, Asked(c), a)
      /\ UNCHANGED <<directory, forking>>
  BY DEF Invoke
<1>2. outcome[c] = "none"
  BY <1>0, <1>1 DEF CallInv, Placed
<1>3. CASE strategy[c] = "failover"
  <2>1. AfterFailover(c, a)
    BY <1>3 DEF Invoke
  <2>2. Asked(c) = pos[c]
    BY <1>1, <1>3, AskedFacts
  <2> QED
    BY <1>1, <1>3, <2>1, <2>2, FailoverKeeps
<1>4. CASE strategy[c] = "broadcast"
  <2>1. AfterBroadcast(c, a)
    BY <1>4 DEF Invoke
  <2>2. Asked(c) = pos[c]
    BY <1>1, <1>4, AskedFacts
  <2> QED
    BY <1>1, <1>4, <2>1, <2>2, BroadcastKeeps
<1>5. ASSUME strategy[c] \notin {"failover", "broadcast", "failback"},
             NEW o \in {"ok", "error", "fail", "mock"}, Return(c, o), UNCHANGED pending,
             o = "ok" <=> a = "ok"
      PROVE  ClusterInv'
  <2>1. UNCHANGED strategy /\ \A d \in Call \ {c} : outcome'[d] = outcome[d]
    BY <1>0, <1>5, ReturnFacts
  <2>2. \A d \in Call : Pended(d)'
    BY <1>0, <1>5, <2>1, PendedSame
  <2> QED
    BY <1>0, <1>1, <1>5, <2>2, SingleKeeps DEF ClusterTypeOK
<1>6. Masked(a) \in {"ok", "mock"} /\ (Masked(a) = "ok" <=> a = "ok") /\ a \in {"ok", "error", "fail"}
  BY DEF Masked, Answer
<1>7. CASE strategy[c] = "failsafe"
  BY <1>5, <1>6, <1>7 DEF Invoke, AfterFailsafe
<1>8. CASE strategy[c] = "mock"
  <2>1. (Return(c, Masked(a)) \/ Return(c, a)) /\ UNCHANGED pending
    BY <1>8 DEF Invoke, AfterMock
  <2> QED
    BY <1>5, <1>6, <1>8, <2>1
<1>9. CASE strategy[c] \notin {"failover", "broadcast", "failsafe", "failback", "mock"}
  <2>1. AfterFailfast(c, a)
    BY <1>9 DEF Invoke
  <2> QED
    BY <1>5, <1>6, <1>9, <2>1 DEF AfterFailfast
<1>10. CASE strategy[c] = "failback"
  <2>1. /\ Return(c, Masked(a))
        /\ IF a = "ok" THEN UNCHANGED pending ELSE RecordPending(c)
    BY <1>10 DEF Invoke, AfterFailback
  <2>2. /\ UNCHANGED strategy /\ outcome'[c] = Masked(a)
        /\ \A d \in Call \ {c} : outcome'[d] = outcome[d]
    BY <1>0, <1>6, <2>1, ReturnFacts
  <2>3. pending' \in Seq(Call) /\ \A d \in Call : Pended(d)'
    <3>1. CASE a = "ok"
      BY <1>0, <1>2, <1>6, <2>1, <2>2, <3>1, PendedSame DEF ClusterTypeOK
    <3>2. CASE a # "ok"
      BY <1>0, <1>2, <1>6, <1>10, <2>1, <2>2, <3>2, PendedMore
    <3> QED
      BY <3>1, <3>2
  <2> QED
    BY <1>1, <1>6, <1>10, <2>1, <2>3, SingleKeeps
<1> QED
  BY <1>3, <1>4, <1>7, <1>8, <1>9, <1>10

-----------------------------------------------------------------------------

LEMMA DirectoryKeeps ==
  ASSUME ClusterInv, NEW p \in Provider, NotifyAdd(p) \/ NotifyRemove(p)
  PROVE  ClusterInv'
<1>0. urls \in Seq(Provider) /\ IsInjective(urls) /\ up \subseteq Provider
  BY DEF ClusterInv, ClusterTypeOK
<1>1. ASSUME NEW new \in Seq(Provider), IsInjective(new), RefreshInvokers(new), UNCHANGED up, Change
      PROVE  ClusterInv'
  BY <1>0, <1>1, ChangeKeeps DEF RefreshInvokers
<1>2. CASE NotifyAdd(p)
  <2>1. CASE p \in ToSet(urls)
    BY <1>0, <1>1, <1>2, <2>1 DEF NotifyAdd
  <2>2. CASE p \notin ToSet(urls)
    <3>1. Append(urls, p) \in Seq(Provider) /\ IsInjective(Append(urls, p))
      BY <1>0, <2>2, AppendFacts, InjectiveAppend
    <3> QED
      BY <1>1, <1>2, <2>2, <3>1 DEF NotifyAdd
  <2> QED
    BY <2>1, <2>2
<1>3. CASE NotifyRemove(p)
  <2>1. Keep(urls, Provider \ {p}) \in Seq(Provider) /\ IsInjective(Keep(urls, Provider \ {p}))
    BY <1>0, KeepElements, KeepInjective
  <2> QED
    BY <1>1, <1>3, <2>1 DEF NotifyRemove
<1> QED
  BY <1>2, <1>3

LEMMA FlipKeeps ==
  ASSUME ClusterInv, NEW p \in Makeable, Flip(p)
  PROVE  ClusterInv'
<1>1. /\ urls' = urls /\ invokers' = invokers /\ Change
      /\ up' = IF p \in up THEN up \ {p} ELSE up \cup {p}
  BY DEF Flip
<1>2. urls \in Seq(Provider) /\ IsInjective(urls) /\ invokers = Keep(urls, Makeable) /\ up \subseteq Provider
  BY DEF ClusterInv, ClusterTypeOK
<1>3. up' \subseteq Provider
  BY <1>1, <1>2, ClusterAssumption
<1> QED
  BY <1>1, <1>2, <1>3, ChangeKeeps

LEMMA NextClusterInv == ClusterInv /\ [ClusterNext]_clusterVars => ClusterInv'
<1> SUFFICES ASSUME ClusterInv, [ClusterNext]_clusterVars PROVE ClusterInv'
  OBVIOUS
<1>1. ASSUME NEW c \in Call, Work(c) PROVE ClusterInv'
  BY <1>1, ForceMockKeeps, NoInvokersKeeps, ListKeeps, NoneAvailableKeeps, InvokeKeeps,
     ForkEndsKeeps, ReceiveKeeps, ForksFailedKeeps DEF Work
<1>2. CASE UNCHANGED clusterVars
  <2>1. UNCHANGED <<urls, invokers, up, changes, strategy, at, list, pos, attempt, firstErr, flying,
                    channel, received, outcome, pending, answers, current, steady>>
    BY <1>2 DEF clusterVars, directory, cursor, forking, history
  <2>2. ClusterTypeOK'
    BY <2>1 DEF ClusterInv, ClusterTypeOK
  <2>3. \A d \in Call : Untouched(d)
    BY <2>1 DEF Untouched
  <2>4. \A d \in Call : CallInv(d)'
    BY <2>1, <2>3, UntouchedKeeps DEF ClusterInv
  <2>5. \A d \in Call : Pended(d)'
    BY <2>1, PendedSame DEF ClusterInv
  <2> QED
    BY <2>2, <2>4, <2>5 DEF ClusterInv
<1> QED
  BY <1>1, <1>2, DirectoryKeeps, FlipKeeps, StartKeeps DEF ClusterNext

-----------------------------------------------------------------------------

\* A failover call that gives up has asked every provider that was there from its start to
\* its end once per attempt, and a broadcast each of them once, for any directory, any
\* number of calls and retries and whatever changes around them.
THEOREM SteadyProvidersAreTried == ClusterSpec => []SteadyAreTried
<1>1. ClusterInit => ClusterInv
  BY InitClusterInv
<1>2. ClusterInv /\ [ClusterNext]_clusterVars => ClusterInv'
  BY NextClusterInv
<1>3. ClusterInv => SteadyAreTried
  BY DEF ClusterInv, CallInv, Counted, Exhausted, SteadyAreTried
<1> QED
  BY <1>1, <1>2, <1>3, PTL DEF ClusterSpec

\* What a call returns it has had from a provider, or says that it has not; forking fails
\* only when all its tasks have, and the calls that FailbackCluster has answered in a
\* provider's place are pending, each once.
THEOREM CallOutcomesAreEarned == ClusterSpec => []OutcomesAreEarned
<1>1. ClusterInit => ClusterInv
  BY InitClusterInv
<1>2. ClusterInv /\ [ClusterNext]_clusterVars => ClusterInv'
  BY NextClusterInv
<1>3. ClusterInv => OutcomesAreEarned
  <2> SUFFICES ASSUME ClusterInv, NEW c \in Call
               PROVE  /\ outcome[c] = "ok" => Succeeded(c)
                      /\ Succeeded(c) /\ at[c] = "done" =>
                           outcome[c] = "ok" \/ strategy[c] \in {"forking", "broadcast"}
                      /\ Exhausted(c) => \A p \in Provider : "ok" \notin ToSet(answers[c][p])
                      /\ strategy[c] = "forking" /\ outcome[c] \in {"error", "fail"} =>
                           flying[c] = {} /\ ~Succeeded(c)
                      /\ strategy[c] = "broadcast" /\ outcome[c] = "ok" =>
                           \A p \in Provider : ToSet(answers[c][p]) \subseteq {"ok"}
                      /\ Pended(c)
    BY DEF OutcomesAreEarned, Pended
  <2>1. Asker(c) /\ Broadcaster(c) /\ Forker(c) /\ Pended(c)
    BY DEF ClusterInv, CallInv
  <2>2. Exhausted(c) => ~Succeeded(c)
    BY <2>1 DEF Asker, Exhausted
  <2> QED
    BY <2>1, <2>2 DEF Asker, Broadcaster, Forker, Succeeded, OnlyOk
<1> QED
  BY <1>1, <1>2, <1>3, PTL DEF ClusterSpec

\* A provider that has been removed is asked no more once a call has listed the directory
\* again, for any directory and whatever the strategy.
THEOREM RemovedProvidersAreLetGo == ClusterSpec => RemovedAreLetGo
<1> DEFINE Goes == \A c \in Call, p \in Provider :
                     answers'[c][p] # answers[c][p] => p \in current[c]
<1>1. ClusterInit => ClusterInv
  BY InitClusterInv
<1>2. ClusterInv /\ [ClusterNext]_clusterVars => ClusterInv'
  BY NextClusterInv
<1>3. ClusterInv /\ [ClusterNext]_clusterVars => [Goes]_clusterVars
  <2> SUFFICES ASSUME ClusterInv, ClusterNext PROVE Goes
    OBVIOUS
  <2>1. ASSUME UNCHANGED answers PROVE Goes
    BY <2>1
  <2>2. ASSUME NEW c \in Call, NEW i \in DOMAIN list[c], NEW a, Answered(c, i, a) PROVE Goes
    <3>1. /\ list[c] \in Seq(Provider) /\ ToSet(list[c]) \subseteq current[c]
          /\ answers \in [Call -> [Provider -> Seq(Answer)]]
      BY DEF ClusterInv, ClusterTypeOK, CallInv, Placed
    <3>2. PICK q \in Provider : q = list[c][i]
      BY <3>1
    <3>3. q \in current[c]
      BY <3>1, <3>2 DEF ToSet
    <3>4. answers' = [answers EXCEPT ![c][q] = Append(@, a)]
      BY <2>2, <3>2 DEF Answered
    <3>5. \A d \in Call, p \in Provider : d # c \/ p # q => answers'[d][p] = answers[d][p]
      BY <3>1, <3>2, <3>4
    <3> QED
      BY <3>3, <3>5
  <2>3. ASSUME NEW c \in Call, NEW a \in Answer, Invoke(c, a) PROVE Goes
    BY <2>2, <2>3, AskedFacts DEF Invoke
  <2>4. ASSUME NEW c \in Call, NEW i, NEW a \in Answer, ForkEnds(c, i, a) PROVE Goes
    <3>1. i \in DOMAIN list[c]
      BY <2>4 DEF ForkEnds, ClusterInv, CallInv, Placed
    <3> QED
      BY <2>2, <2>4, <3>1 DEF ForkEnds
  <2> HIDE DEF Goes
  <2>5. ASSUME NEW c \in Call, Start(c) \/ Work(c) PROVE Goes
    BY <2>1, <2>3, <2>4, <2>5 DEF Start, Work, ForceMock, NoInvokers, List, NoneAvailable, Receive,
       ForksFailed, history
  <2>6. ASSUME NEW p \in Provider, NotifyAdd(p) \/ NotifyRemove(p) \/ Flip(p) PROVE Goes
    BY <2>1, <2>6 DEF NotifyAdd, NotifyRemove, Flip, Change, Recall
  <2> QED
    BY <2>5, <2>6, ClusterAssumption DEF ClusterNext
<1> QED
  BY <1>1, <1>2, <1>3, PTL DEF ClusterSpec, RemovedAreLetGo

-----------------------------------------------------------------------------
(* Routing.  A list of positions is known by its elements once it rises,   *)
(* so every router is described by the set that it leaves.                 *)

Router == [match : Seq(Pair), filter : Seq(Pair)]

RoutingInv ==
  /\ candidates \in [Position -> Properties]
  /\ chain \in [conditions : Seq(Router), tag : BOOLEAN,
                 script : Seq(Seq(Int) \cup {NoValue})]
  /\ Len(chain.script) <= 1
  /\ context \in Properties
  /\ routed = RouteChain(context)

\* A rising list of these positions.
Lists(seq, set) == seq \in Seq(Int) /\ Rising(seq) /\ ToSet(seq) = set

LEMMA EveryoneFacts == Lists(Everyone, Position)
<1>1. N \in Nat
  BY RoutingAssumption
<1>2. Everyone \in Seq(Int) /\ DOMAIN Everyone = 1 .. N /\ \A i \in 1 .. N : Everyone[i] = i
  BY <1>1 DEF Everyone, Position
<1>3. ToSet(Everyone) = Position
  BY <1>2 DEF ToSet, Position
<1>4. Rising(Everyone)
  BY <1>2 DEF Rising
<1> QED
  BY <1>2, <1>3, <1>4 DEF Lists

LEMMA KeepLists ==
  ASSUME NEW seq, NEW from, NEW set, Lists(seq, from)
  PROVE  Lists(Keep(seq, set), from \cap set)
BY KeepElements, KeepRising DEF Lists

LEMMA RetainLists ==
  ASSUME NEW seq, NEW from, NEW filtered, Lists(seq, from)
  PROVE  Lists(Retain(seq, filtered), from \cap ToSet(filtered))
BY KeepLists DEF Retain

LEMMA EmptyLists ==
  ASSUME NEW seq, NEW set, Lists(seq, set)
  PROVE  seq = <<>> <=> set = {}
<1>1. seq \in Seq(Int) /\ ToSet(seq) = set
  BY DEF Lists
<1>2. seq # <<>> => seq[1] \in ToSet(seq)
  BY <1>1 DEF ToSet
<1>3. ToSet(<<>>) = {}
  BY DEF ToSet
<1> QED
  BY <1>1, <1>2, <1>3

\* The recursive function in ByConditions, one router at a time.
LEMMA ByConditionsSteps ==
  ASSUME NEW c, RoutingInv
  PROVE  \E left :
           /\ ByConditions(c) = left[Len(chain.conditions)]
           /\ left[0] = Everyone
           /\ \A k \in 1 .. Len(chain.conditions) :
                left[k] = IF left[k - 1] # <<>> /\ MatchesInvocation(chain.conditions[k], c)
                          THEN Retain(left[k - 1], FilterInvokers(chain.conditions[k]))
                          ELSE left[k - 1]
<1> DEFINE n == Len(chain.conditions)
           f == CHOOSE g : g = [k \in 0 .. Len(chain.conditions) |->
                  IF k = 0 THEN Everyone
                  ELSE IF g[k - 1] # <<>> /\ MatchesInvocation(chain.conditions[k], c)
                  THEN Retain(g[k - 1], FilterInvokers(chain.conditions[k]))
                  ELSE g[k - 1]]
           Def(v, k) == IF v # <<>> /\ MatchesInvocation(chain.conditions[k], c)
                        THEN Retain(v, FilterInvokers(chain.conditions[k])) ELSE v
<1>1. ByConditions(c) = f[n]
  BY Zenon DEF ByConditions
<1>2. FiniteNatInductiveDefHypothesis(f, Everyone, Def, 0, n)
  BY Zenon DEF FiniteNatInductiveDefHypothesis
<1>3. n \in Nat /\ 0 \in Nat /\ 0 <= n
  BY DEF RoutingInv
<1>4. FiniteNatInductiveDefConclusion(f, Everyone, Def, 0, n)
  BY <1>2, <1>3, FiniteNatInductiveDef, Zenon
<1>5. f = [k \in 0 .. n |-> IF k = 0 THEN Everyone ELSE Def(f[k - 1], k)]
  BY <1>4, Zenon DEF FiniteNatInductiveDefConclusion
<1> HIDE DEF f, n
<1>6. f[0] = Everyone
  BY <1>3, <1>5
<1>7. ASSUME NEW k \in 1 .. n PROVE f[k] = Def(f[k - 1], k)
  <2>1. k \in 0 .. n /\ k # 0
    BY <1>3
  <2> HIDE DEF Def
  <2> QED
    BY <1>5, <2>1, Zenon
<1> WITNESS f
<1> QED
  BY <1>1, <1>6, <1>7, Zenon DEF n

\* Who is left after some of the condition routers.
PassedOn(c, m) ==
  {i \in Position : \A k \in 1 .. m :
     MatchesInvocation(chain.conditions[k], c)
       => Satisfies(candidates[i], chain.conditions[k].filter)}

LEMMA FilterLists ==
  ASSUME NEW router
  PROVE  ToSet(FilterInvokers(router)) =
           {i \in Position : Satisfies(candidates[i], router.filter)}
<1> DEFINE set == {i \in Position : Satisfies(candidates[i], router.filter)}
<1>1. Lists(Keep(Everyone, set), Position \cap set)
  BY EveryoneFacts, KeepLists
<1>2. Position \cap set = set
  OBVIOUS
<1> QED
  BY <1>1, <1>2, Zenon DEF Lists, FilterInvokers

LEMMA ByConditionsLists ==
  ASSUME NEW c, RoutingInv
  PROVE  Lists(ByConditions(c), {i \in Position : ConditionsAllow(c, i)})
<1> DEFINE n == Len(chain.conditions)
<1>1. n \in Nat /\ DOMAIN chain.conditions = 1 .. n
  BY DEF RoutingInv
<1>2. PICK left :
        /\ ByConditions(c) = left[n]
        /\ left[0] = Everyone
        /\ \A k \in 1 .. n :
             left[k] = IF left[k - 1] # <<>> /\ MatchesInvocation(chain.conditions[k], c)
                       THEN Retain(left[k - 1], FilterInvokers(chain.conditions[k]))
                       ELSE left[k - 1]
  BY ByConditionsSteps
<1> DEFINE S == {m \in Nat : m <= n => Lists(left[m], PassedOn(c, m))}
<1> HIDE DEF n
<1>3. 0 \in S
  <2>1. PassedOn(c, 0) = Position
    BY DEF PassedOn
  <2> QED
    BY <1>2, <2>1, EveryoneFacts
<1>4. ASSUME NEW m \in Nat, m \in S PROVE m + 1 \in S
  <2> SUFFICES ASSUME m + 1 <= n PROVE Lists(left[m + 1], PassedOn(c, m + 1))
    OBVIOUS
  <2> DEFINE router == chain.conditions[m + 1]
             set == {i \in Position : Satisfies(candidates[i], router.filter)}
  <2>1. Lists(left[m], PassedOn(c, m)) /\ m + 1 \in 1 .. n /\ m + 1 - 1 = m
    BY <1>1, <1>4
  <2>2. left[m + 1] = IF left[m] # <<>> /\ MatchesInvocation(router, c)
                      THEN Retain(left[m], FilterInvokers(router)) ELSE left[m]
    BY <1>2, <2>1
  <2>3. 1 .. m + 1 = (1 .. m) \cup {m + 1}
    OBVIOUS
  <2>4. PassedOn(c, m + 1) = IF MatchesInvocation(router, c) THEN PassedOn(c, m) \cap set
                           ELSE PassedOn(c, m)
    BY <2>3 DEF PassedOn
  <2>5. MatchesInvocation(router, c) => Lists(Retain(left[m], FilterInvokers(router)),
                                              PassedOn(c, m) \cap set)
    BY <2>1, RetainLists, FilterLists
  <2> HIDE DEF router, set
  <2>6. left[m] = <<>> => PassedOn(c, m) = {}
    BY <2>1, EmptyLists
  <2> QED
    BY <2>1, <2>2, <2>4, <2>5, <2>6
<1> HIDE DEF S
<1>5. n \in S
  BY <1>1, <1>3, <1>4, Induction
<1>6. PassedOn(c, n) = {i \in Position : ConditionsAllow(c, i)}
  BY <1>1 DEF PassedOn, ConditionsAllow
<1>7. Lists(left[n], PassedOn(c, n))
  BY <1>1, <1>5 DEF S
<1> QED
  BY <1>2, <1>6, <1>7, Zenon

LEMMA TagLists ==
  ASSUME NEW c
  PROVE  chain.tag => ToSet(RouteByTag(c)) = {i \in Position : TagAllows(c, i)}
<1> SUFFICES ASSUME chain.tag PROVE ToSet(RouteByTag(c)) = {i \in Position : TagAllows(c, i)}
  OBVIOUS
<1> DEFINE having(tag) == {i \in Position : candidates[i].tag = tag}
<1>1. ASSUME NEW tag PROVE Lists(Tagged(tag), having(tag))
  <2>1. Position \cap having(tag) = having(tag)
    OBVIOUS
  <2>2. Lists(Keep(Everyone, having(tag)), Position \cap having(tag))
    BY EveryoneFacts, KeepLists
  <2> QED
    BY <2>1, <2>2, Zenon DEF Tagged
<1>2. ASSUME NEW tag PROVE /\ ToSet(Tagged(tag)) = having(tag)
                           /\ Tagged(tag) = <<>> <=> having(tag) = {}
  BY <1>1, EmptyLists DEF Lists
<1>3. CASE c.tag = NoValue
  BY <1>3, EveryoneFacts DEF RouteByTag, TagAllows, Lists
<1>4. CASE c.tag # NoValue /\ Tagged(c.tag) # <<>>
  BY <1>2, <1>4 DEF RouteByTag, TagAllows
<1>5. CASE c.tag # NoValue /\ Tagged(c.tag) = <<>>
  BY <1>2, <1>5 DEF RouteByTag, TagAllows
<1> QED
  BY <1>3, <1>4, <1>5

LEMMA ScriptLists ==
  ASSUME RoutingInv, chain.script # <<>>
  PROVE  ToSet(RouteByScript(chain.script[1])) = {i \in Position : ScriptAllows(i)}
<1>1. chain.script[1] \in Seq(Int) \cup {NoValue}
  BY DEF RoutingInv
<1>2. CASE chain.script[1] = NoValue
  BY <1>2, EveryoneFacts DEF RouteByScript, ScriptAllows, Lists
<1>3. CASE chain.script[1] # NoValue
  <2>1. ToSet(Keep(chain.script[1], Position)) = ToSet(chain.script[1]) \cap Position
    BY <1>1, <1>3, KeepElements
  <2> QED
    BY <1>3, <2>1 DEF RouteByScript, ScriptAllows
<1> QED
  BY <1>2, <1>3

\* The whole chain leaves whom every router allows.
LEMMA RouteChainLists ==
  ASSUME NEW c, RoutingInv
  PROVE  Lists(RouteChain(c), {i \in Position : Allowed(c, i)})
<1> DEFINE conditions == {i \in Position : ConditionsAllow(c, i)}
           tags == {i \in Position : TagAllows(c, i)}
           scripts == {i \in Position : ScriptAllows(i)}
           tagged == AfterTag(c, ByConditions(c))
<1>1. Lists(ByConditions(c), conditions)
  BY ByConditionsLists
<1>2. {i \in Position : Allowed(c, i)} = (conditions \cap tags) \cap scripts
  BY DEF Allowed
<1>3. Lists(tagged, conditions \cap tags)
  <2>1. CASE chain.tag
    <3>1. Lists(Retain(ByConditions(c), RouteByTag(c)), conditions \cap tags)
      BY <1>1, <2>1, RetainLists, TagLists
    <3> QED
      BY <2>1, <3>1, Zenon DEF AfterTag
  <2>2. CASE ~chain.tag
    <3>1. conditions \cap tags = conditions
      BY <2>2 DEF TagAllows
    <3>2. tagged = ByConditions(c)
      BY <2>2, Zenon DEF AfterTag
    <3> QED
      BY <1>1, <3>1, <3>2, Zenon
  <2> QED
    BY <2>1, <2>2
<1> HIDE DEF tagged
<1>4. Lists(AfterScript(tagged), (conditions \cap tags) \cap scripts)
  <2>1. CASE chain.script # <<>>
    <3>1. Lists(Retain(tagged, RouteByScript(chain.script[1])), (conditions \cap tags) \cap scripts)
      BY <1>3, <2>1, RetainLists, ScriptLists
    <3> QED
      BY <2>1, <3>1, Zenon DEF AfterScript
  <2>2. CASE chain.script = <<>>
    <3>1. scripts = Position
      BY <2>2 DEF ScriptAllows
    <3>2. (conditions \cap tags) \cap scripts = conditions \cap tags
      BY <3>1
    <3>3. AfterScript(tagged) = tagged
      BY <2>2, Zenon DEF AfterScript
    <3> QED
      BY <1>3, <3>2, <3>3, Zenon
  <2> QED
    BY <2>1, <2>2
<1>5. CASE ByConditions(c) = <<>>
  <2>1. conditions = {}
    BY <1>1, <1>5, EmptyLists, Zenon
  <2>2. (conditions \cap tags) \cap scripts = {}
    BY <2>1
  <2>3. Lists(<<>>, {})
    BY DEF Lists, Rising, ToSet
  <2> QED
    BY <1>2, <1>5, <2>2, <2>3, Zenon DEF RouteChain
<1>6. CASE ByConditions(c) # <<>>
  BY <1>2, <1>4, <1>6, Zenon DEF RouteChain, tagged
<1> QED
  BY <1>5, <1>6

LEMMA ParseFacts ==
  ASSUME NEW rule \in Rule
  PROVE  Parse(rule) \in Router
<1>1. ASSUME NEW text \in Seq(Pair) PROVE Pairs(text) \in Seq(Pair)
  BY KeepElements DEF Pairs
<1>2. <<>> \in Seq(Pair)
  OBVIOUS
<1> QED
  BY <1>1, <1>2 DEF Parse, Rule, Router

LEMMA InitRoutingInv == RoutingInit => RoutingInv
<1> SUFFICES ASSUME RoutingInit PROVE RoutingInv
  OBVIOUS
<1>1. PICK rules \in Rulebooks, tag \in BOOLEAN, script \in Scripts :
        chain = [conditions |-> [k \in DOMAIN rules |-> Parse(rules[k])],
                 tag |-> tag, script |-> script]
  BY DEF RoutingInit
<1>2. rules \in Seq(Rule) /\ script \in Seq(Seq(Int) \cup {NoValue}) /\ Len(script) <= 1
  BY RoutingAssumption
<1>3. [k \in DOMAIN rules |-> Parse(rules[k])] \in Seq(Router)
  BY <1>2, ParseFacts
<1> QED
  BY <1>1, <1>2, <1>3 DEF RoutingInit, RoutingInv, Properties

LEMMA NextRoutingInv == RoutingInv /\ [RoutingNext]_routingVars => RoutingInv'
<1> SUFFICES ASSUME RoutingInv, [RoutingNext]_routingVars PROVE RoutingInv'
  OBVIOUS
<1>1. UNCHANGED <<candidates, chain>>
  BY DEF RoutingNext, Route, routingVars
<1>2. ASSUME NEW c PROVE RouteChain(c)' = RouteChain(c)
  BY <1>1 DEF RouteChain, AfterScript, AfterTag, ByConditions, Retain, RouteByScript, RouteByTag,
     Tagged, FilterInvokers, MatchesInvocation, Satisfies
<1>3. ASSUME NEW c \in Properties, Route(c) PROVE RoutingInv'
  <2>1. routed' = RouteChain(c) /\ context' = c
    BY <1>3 DEF Route
  <2> QED
    BY <1>1, <1>2, <2>1 DEF RoutingInv
<1>4. CASE UNCHANGED routingVars
  BY <1>2, <1>4 DEF RoutingInv, routingVars
<1> QED
  BY <1>3, <1>4 DEF RoutingNext

\* RouterChain::route() returns the invokers that every router allows, in their order and
\* each once, for any list of invokers, rules, tags and answers of a script.
THEOREM RoutesExactly == RoutingSpec => []RoutesAreExact
<1>1. RoutingInit => RoutingInv
  BY InitRoutingInv
<1>2. RoutingInv /\ [RoutingNext]_routingVars => RoutingInv'
  BY NextRoutingInv
<1>3. RoutingInv => RoutesAreExact
  <2> SUFFICES ASSUME RoutingInv PROVE RoutesAreExact
    OBVIOUS
  <2>1. /\ Rising(routed)
        /\ ToSet(routed) = {i \in Position : Allowed(context, i)}
    BY RouteChainLists DEF RoutingInv, Lists
  <2>2. RoutesWithinRules
    BY <2>1 DEF RoutesWithinRules, Rising, ToSet
  <2>3. NobodyIsLeftOut
    BY <2>1 DEF NobodyIsLeftOut
  <2> QED
    BY <2>2, <2>3 DEF RoutesAreExact
<1> QED
  BY <1>1, <1>2, <1>3, PTL DEF RoutingSpec
-----------------------------------------------------------------------------
(* LoadBalance.                                                            *)

BalanceTypeOK ==
  /\ weights \in [Index -> Nat]
  /\ counter \in 0 .. CounterSize - 1 /\ idle \in 0 .. CounterSize - 1
  /\ picks \in Seq(Index)

\* The counter in use.
Here == IF Total = 0 THEN idle ELSE counter

\* What the counter in use was at each pick since it wrapped.  From the first of them on,
\* every turn of one that takes part was a pick.
Taken(turns) ==
  /\ turns \in Seq(Nat) /\ Len(turns) = Len(picks)
  /\ \A i \in 1 .. Len(turns) :
       turns[i] < Here /\ picks[i] = InTurn(turns[i]) /\ picks[i] \in TakingPart
  /\ \A i, j \in 1 .. Len(turns) : i < j => turns[i] < turns[j]
  /\ \A i \in 1 .. Len(turns), c \in Nat :
       turns[i] <= c /\ c < Here /\ InTurn(c) \in TakingPart
         => \E j \in 1 .. Len(turns) : turns[j] = c

InOrder == \E turns : Taken(turns)

ActiveKnown ==
  last.by = "active" => last.known \in [Index -> Actives] /\ last.index = LeastActive(last.known)

BalanceInv == BalanceTypeOK /\ InOrder /\ ActiveKnown

-----------------------------------------------------------------------------
(* Division.                                                               *)

LEMMA QuotientBelow ==
  ASSUME NEW a \in Nat, NEW d \in Nat \ {0}, NEW k \in Nat, a < d * (k + 1)
  PROVE  a \div d <= k
<1> DEFINE q == a \div d
<1>1. q \in Nat /\ d * q <= a
  OBVIOUS
<1>2. ASSUME q >= k + 1 PROVE FALSE
  <2>1. d * q >= d * (k + 1)
    BY <1>1, <1>2
  <2> HIDE DEF q
  <2>2. d * q \in Int /\ d * (k + 1) \in Int
    BY <1>1
  <2> QED
    BY <1>1, <2>1, <2>2
<1> HIDE DEF q
<1>3. q <= k
  BY <1>1, <1>2
<1> QED
  BY <1>3 DEF q

LEMMA QuotientAbove ==
  ASSUME NEW a \in Nat, NEW d \in Nat \ {0}
  PROVE  a \div d \in Nat /\ a < d * ((a \div d) + 1) /\ a = d * (a \div d) + (a % d)
         /\ a % d \in 0 .. d - 1
  OBVIOUS

LEMMA RemainderIs ==
  ASSUME NEW d \in Nat \ {0}, NEW q \in Nat, NEW t \in 0 .. d - 1
  PROVE  (d * q + t) % d = t
  OBVIOUS

\* Of as many numbers in a row as there are remainders, each has one of them.
LEMMA EachHasATurn ==
  ASSUME NEW d \in Nat \ {0}, NEW x \in Nat, NEW t \in 0 .. d - 1
  PROVE  \E c \in x .. x + d - 1 : c % d = t
<1> DEFINE q == x \div d
           r == x % d
<1>1. q \in Nat /\ x = d * q + r /\ r \in 0 .. d - 1
  BY QuotientAbove
<1>2. d * q \in Nat /\ d * (q + 1) = d * q + d
  BY <1>1
<1>3. (d * q + t) % d = t /\ (d * (q + 1) + t) % d = t
  <2>1. q \in Nat /\ q + 1 \in Nat
    BY <1>1
  <2> HIDE DEF q
  <2> QED
    BY <2>1, RemainderIs
<1> HIDE DEF q, r
<1>4. CASE t >= r
  <2>1. d * q + t \in x .. x + d - 1
    BY <1>1, <1>2, <1>4
  <2> QED
    BY <1>3, <2>1
<1>5. CASE t < r
  <2>1. d * (q + 1) + t \in x .. x + d - 1
    BY <1>1, <1>2, <1>5
  <2> QED
    BY <1>3, <2>1
<1> QED
  BY <1>1, <1>4, <1>5

LEMMA NextTurn ==
  ASSUME NEW d \in Nat \ {0}, NEW x \in Nat, NEW y \in Nat, x < y, x % d = y % d
  PROVE  x + d <= y
<1> DEFINE q == x \div d
           p == y \div d
           r == x % d
<1>1. q \in Nat /\ p \in Nat /\ x = d * q + r /\ y = d * p + r /\ r \in 0 .. d - 1
  BY QuotientAbove
<1> HIDE DEF q, p, r
<1>2. d * q \in Nat /\ d * p \in Nat
  BY <1>1
<1>3. ASSUME p <= q PROVE FALSE
  <2>1. d * p <= d * q
    BY <1>1, <1>3
  <2> QED
    BY <1>1, <1>2, <2>1
<1>4. p >= q + 1
  BY <1>1, <1>3
<1>5. d * p >= d * (q + 1) /\ d * (q + 1) = d * q + d
  BY <1>1, <1>4
<1> QED
  BY <1>1, <1>2, <1>5

LEMMA LeastOf ==
  ASSUME NEW S \in SUBSET Nat, S # {}
  PROVE  Min(S) \in S /\ \A x \in S : Min(S) <= x
  BY LeastNat DEF Min

LEMMA LeastIs ==
  ASSUME NEW S \in SUBSET Nat, NEW m \in S, \A x \in S : m <= x
  PROVE  Min(S) = m
<1>1. Min(S) \in S /\ Min(S) <= m /\ m <= Min(S)
  BY LeastOf
<1>2. Min(S) \in Nat /\ m \in Nat
  BY <1>1
<1> HIDE DEF Min
<1> QED
  BY <1>1, <1>2

LEMMA GreatestIs ==
  ASSUME NEW S \in SUBSET Nat, NEW m \in S, \A x \in S : x <= m
  PROVE  Max(S) = m
<1>1. Max(S) \in S /\ \A x \in S : Max(S) >= x
  BY DEF Max
<1>2. Max(S) <= m /\ m <= Max(S) /\ Max(S) \in Nat /\ m \in Nat
  BY <1>1
<1> QED
  BY <1>1, <1>2

-----------------------------------------------------------------------------
(* Weights.                                                                *)

LEMMA WarmupFacts == WarmupRises
<1> SUFFICES ASSUME NEW w \in Configured, NEW age \in 1 .. Warmup
             PROVE  /\ WarmupWeight(w, age) <= w
                    /\ WarmupWeight(w, age) <= WarmupWeight(w, age + 1)
  BY DEF WarmupRises
<1>1. w \in Nat /\ age \in Nat \ {0} /\ Warmup \in Nat \ {0}
  BY BalanceAssumption
<1>2. w * age \in Nat /\ w * (age + 1) \in Nat /\ w * age <= w * (age + 1)
      /\ w * age <= Warmup * w /\ Warmup * w < Warmup * (w + 1)
  BY <1>1
<1>3. (w * age) \div Warmup <= w
  <2>1. Warmup * w \in Nat /\ Warmup * (w + 1) \in Nat
    BY <1>1
  <2>2. w * age < Warmup * (w + 1)
    BY <1>2, <2>1
  <2> QED
    BY <1>1, <1>2, <2>2, QuotientBelow
<1>4. (w * age) \div Warmup <= (w * (age + 1)) \div Warmup
  <2> DEFINE k == (w * (age + 1)) \div Warmup
  <2>1. k \in Nat /\ w * (age + 1) < Warmup * (k + 1)
    BY <1>1, <1>2, QuotientAbove
  <2> HIDE DEF k
  <2>2. Warmup * (k + 1) \in Nat
    BY <1>1, <2>1
  <2>3. w * age < Warmup * (k + 1)
    BY <1>2, <2>1, <2>2
  <2>4. (w * age) \div Warmup <= k
    BY <1>1, <1>2, <2>1, <2>3, QuotientBelow
  <2> QED
    BY <2>4 DEF k
<1>5. CASE age + 1 < Warmup
  <2>1. WarmupWeight(w, age) = (w * age) \div Warmup
        /\ WarmupWeight(w, age + 1) = (w * (age + 1)) \div Warmup
    BY <1>1, <1>5 DEF WarmupWeight
  <2> QED
    BY <1>3, <1>4, <2>1
<1>6. CASE age + 1 = Warmup
  <2>1. WarmupWeight(w, age) = (w * age) \div Warmup /\ WarmupWeight(w, age + 1) = w
    BY <1>1, <1>6 DEF WarmupWeight
  <2> QED
    BY <1>3, <2>1
<1>7. CASE age = Warmup
  <2>1. WarmupWeight(w, age) = w /\ WarmupWeight(w, age + 1) = w
    BY <1>1, <1>7 DEF WarmupWeight
  <2> QED
    BY <1>1, <2>1
<1> QED
  BY <1>1, <1>5, <1>6, <1>7

LEMMA WarmupIsNat ==
  ASSUME NEW w \in Nat, NEW age \in 0 .. Warmup
  PROVE  WarmupWeight(w, age) \in Nat
<1>1. Warmup \in Nat /\ w * age \in Nat
  BY BalanceAssumption
<1>2. CASE age > 0 /\ age < Warmup
  BY <1>1, <1>2, QuotientAbove DEF WarmupWeight
<1>3. CASE ~(age > 0 /\ age < Warmup)
  BY <1>3 DEF WarmupWeight
<1> QED
  BY <1>2, <1>3

Weighted == weights \in [Index -> Nat]

LEMMA UpToSteps ==
  /\ UpTo[0] = 0
  /\ \A i \in Index : UpTo[i] = UpTo[i - 1] + weights[i]
<1> DEFINE Def(v, i) == v + weights[i]
<1>1. FiniteNatInductiveDefHypothesis(UpTo, 0, Def, 0, Offered)
  BY Zenon DEF FiniteNatInductiveDefHypothesis, UpTo
<1>2. 0 \in Nat /\ Offered \in Nat /\ 0 <= Offered
  BY BalanceAssumption
<1>3. FiniteNatInductiveDefConclusion(UpTo, 0, Def, 0, Offered)
  BY <1>1, <1>2, FiniteNatInductiveDef, Zenon
<1>4. UpTo = [i \in 0 .. Offered |-> IF i = 0 THEN 0 ELSE Def(UpTo[i - 1], i)]
  BY <1>3, Zenon DEF FiniteNatInductiveDefConclusion
<1>5. UpTo[0] = 0
  BY <1>2, <1>4
<1>6. ASSUME NEW i \in Index PROVE UpTo[i] = Def(UpTo[i - 1], i)
  <2>1. i \in 0 .. Offered /\ i # 0
    BY <1>2 DEF Index
  <2> HIDE DEF Def
  <2> QED
    BY <1>4, <2>1, Zenon
<1> QED
  BY <1>5, <1>6, Zenon

LEMMA UpToRises ==
  ASSUME Weighted
  PROVE  \A j \in 0 .. Offered :
           UpTo[j] \in Nat /\ \A i \in 0 .. j : UpTo[i] \in Nat /\ UpTo[i] <= UpTo[j]
<1> DEFINE T == {n \in Nat : n <= Offered =>
                   UpTo[n] \in Nat /\ \A i \in 0 .. n : UpTo[i] \in Nat /\ UpTo[i] <= UpTo[n]}
<1>1. 0 \in T
  BY UpToSteps
<1>2. ASSUME NEW n \in Nat, n \in T PROVE n + 1 \in T
  <2> SUFFICES ASSUME n + 1 <= Offered
               PROVE  /\ UpTo[n + 1] \in Nat
                      /\ \A i \in 0 .. n + 1 : UpTo[i] \in Nat /\ UpTo[i] <= UpTo[n + 1]
    OBVIOUS
  <2>1. Offered \in Nat /\ n + 1 \in Index /\ (n + 1) - 1 = n
    BY BalanceAssumption DEF Index
  <2>2. UpTo[n + 1] = UpTo[n] + weights[n + 1] /\ weights[n + 1] \in Nat
    BY <2>1, UpToSteps DEF Weighted
  <2>3. UpTo[n] \in Nat /\ \A i \in 0 .. n : UpTo[i] \in Nat /\ UpTo[i] <= UpTo[n]
    BY <1>2, <2>1
  <2>4. \A i \in 0 .. n + 1 : i \in 0 .. n \/ i = n + 1
    OBVIOUS
  <2> QED
    BY <2>2, <2>3, <2>4
<1> HIDE DEF T
<1>3. Nat \subseteq T
  BY <1>1, <1>2, Induction
<1> QED
  BY <1>3, BalanceAssumption DEF T

LEMMA ReachedFacts ==
  ASSUME Weighted, NEW o \in 0 .. Total - 1, NEW i \in Index
  PROVE  Reached(o) = i <=> UpTo[i - 1] <= o /\ o < UpTo[i]
<1> DEFINE hit == {j \in Index : o < UpTo[j]}
<1>1. Offered \in Nat /\ Offered \in Index /\ i - 1 \in 0 .. Offered /\ Total = UpTo[Offered]
  BY BalanceAssumption DEF Index, Total
<1>2. \A j \in 0 .. Offered : UpTo[j] \in Nat
  BY UpToRises
<1>3. o \in Nat /\ o < UpTo[Offered]
  BY <1>1, <1>2 DEF Index
<1>4. hit # {} /\ hit \in SUBSET Nat /\ Reached(o) = Min(hit)
  BY <1>1, <1>3 DEF Reached, Index
<1>5. ASSUME UpTo[i - 1] <= o, o < UpTo[i] PROVE Reached(o) = i
  <2>1. ASSUME NEW j \in hit PROVE i <= j
    <3> SUFFICES ASSUME j < i PROVE FALSE
      BY DEF Index
    <3>1. j \in 0 .. i - 1
      BY DEF Index
    <3>2. UpTo[j] <= UpTo[i - 1]
      BY <1>1, <3>1, UpToRises
    <3> QED
      BY <1>1, <1>2, <1>3, <1>5, <3>2 DEF Index
  <2>2. i \in hit
    BY <1>5
  <2> QED
    BY <1>4, <2>1, <2>2, LeastIs
<1>6. ASSUME Reached(o) = i PROVE UpTo[i - 1] <= o /\ o < UpTo[i]
  <2>1. i \in hit /\ \A j \in hit : i <= j
    BY <1>4, <1>6, LeastOf
  <2>2. o < UpTo[i]
    BY <2>1
  <2>3. CASE i = 1
    BY <1>3, <2>2, <2>3, UpToSteps
  <2>4. CASE i # 1
    <3>1. i - 1 \in Index /\ ~(i <= i - 1)
      BY <1>1, <2>4 DEF Index
    <3>2. ~(o < UpTo[i - 1])
      BY <2>1, <3>1
    <3> QED
      BY <1>1, <1>2, <1>3, <2>2, <3>2
  <2> QED
    BY <2>3, <2>4
<1> QED
  BY <1>5, <1>6

LEMMA RandomFacts == ASSUME Weighted PROVE RandomIsWeighted
<1> SUFFICES ASSUME NEW i \in Index
             PROVE  Cardinality({o \in Offsets : Reached(o) = i}) = weights[i]
  BY DEF RandomIsWeighted
<1>1. /\ i - 1 \in 0 .. Offered /\ i \in 0 .. Offered /\ Offered \in 0 .. Offered
      /\ Offered \in Nat /\ i \in 0 .. Offered
  BY BalanceAssumption DEF Index
<1>2. /\ UpTo[i - 1] \in Nat /\ UpTo[i] \in Nat /\ weights[i] \in Nat
      /\ UpTo[i] = UpTo[i - 1] + weights[i]
  BY <1>1, UpToRises, UpToSteps DEF Weighted
<1>3. UpTo[i] <= Total /\ Total \in Nat
  BY <1>1, UpToRises DEF Total
<1>4. {o \in Offsets : Reached(o) = i} = UpTo[i - 1] .. (UpTo[i] - 1)
  <2>1. Offsets = 0 .. Total - 1
    BY DEF Offsets
  <2>2. \A o \in 0 .. Total - 1 : Reached(o) = i <=> UpTo[i - 1] <= o /\ o < UpTo[i]
    BY ReachedFacts
  <2> QED
    BY <1>2, <1>3, <2>1, <2>2
<1>5. Cardinality(UpTo[i - 1] .. (UpTo[i] - 1)) =
        IF UpTo[i - 1] > UpTo[i] - 1 THEN 0 ELSE (UpTo[i] - 1) - UpTo[i - 1] + 1
  <2>1. UpTo[i - 1] \in Int /\ UpTo[i] - 1 \in Int
    BY <1>2
  <2> QED
    BY <2>1, FS_Interval
<1>6. Cardinality(UpTo[i - 1] .. (UpTo[i] - 1)) = weights[i]
  <2> DEFINE a == UpTo[i - 1]
             b == UpTo[i]
  <2>1. a \in Nat /\ weights[i] \in Nat /\ b = a + weights[i]
    BY <1>2
  <2>2. Cardinality(a .. (b - 1)) = IF a > b - 1 THEN 0 ELSE (b - 1) - a + 1
    BY <1>5
  <2> HIDE DEF a, b
  <2>3. Cardinality(a .. (b - 1)) = weights[i]
    BY <2>1, <2>2
  <2> QED
    BY <2>3 DEF a, b
<1> QED
  BY <1>4, <1>6

-----------------------------------------------------------------------------
(* The turns of RoundRobinLoadBalance.                                     *)

LEMMA WithoutWeight ==
  ASSUME Weighted, \A i \in Index : weights[i] = 0
  PROVE  Total = 0
<1> DEFINE T == {n \in Nat : n <= Offered => UpTo[n] = 0}
<1>1. 0 \in T
  BY UpToSteps
<1>2. ASSUME NEW n \in Nat, n \in T PROVE n + 1 \in T
  <2> SUFFICES ASSUME n + 1 <= Offered PROVE UpTo[n + 1] = 0
    OBVIOUS
  <2>1. Offered \in Nat /\ n + 1 \in Index /\ (n + 1) - 1 = n
    BY BalanceAssumption DEF Index
  <2>2. UpTo[n + 1] = UpTo[n] + weights[n + 1] /\ weights[n + 1] = 0
    BY <2>1, UpToSteps
  <2>3. UpTo[n] = 0
    BY <1>2, <2>1
  <2> QED
    BY <2>2, <2>3
<1> HIDE DEF T
<1>3. Nat \subseteq T
  BY <1>1, <1>2, Induction
<1> QED
  BY <1>3, BalanceAssumption DEF T, Total

LEMMA SomeIsHeaviest ==
  ASSUME Weighted
  PROVE  \E m \in Index : MaxWeight = weights[m] /\ \A i \in Index : weights[i] <= weights[m]
<1> DEFINE T == {n \in Nat : \A i \in Index : weights[i] <= n}
<1>1. Offered \in Nat /\ 1 \in Index /\ Index \subseteq Nat /\ \A i \in Index : weights[i] \in Nat
  BY BalanceAssumption DEF Weighted, Index
<1>2. Total \in T
  <2>1. Total \in Nat
    BY <1>1, UpToRises DEF Total
  <2>2. ASSUME NEW i \in Index PROVE weights[i] <= Total
    <3>1. i \in 0 .. Offered /\ i - 1 \in 0 .. Offered /\ Offered \in 0 .. Offered
      BY <1>1 DEF Index
    <3>2. UpTo[i - 1] \in Nat /\ UpTo[i] = UpTo[i - 1] + weights[i] /\ UpTo[i] <= Total
      BY <3>1, UpToRises, UpToSteps DEF Total
    <3> QED
      BY <1>1, <2>1, <3>2
  <2> QED
    BY <2>1, <2>2
<1>3. PICK n \in T : \A k \in T : n <= k
  BY <1>2, LeastNat
<1>4. \E m \in Index : weights[m] = n
  <2> SUFFICES ASSUME \A m \in Index : weights[m] # n PROVE FALSE
    OBVIOUS
  <2>1. \A i \in Index : weights[i] < n
    BY <1>1, <1>3
  <2>2. n > 0
    BY <1>1, <2>1
  <2>3. n - 1 \in T
    BY <1>1, <1>3, <2>1, <2>2
  <2> QED
    BY <1>3, <2>3
<1>5. PICK m \in Index : weights[m] = n
  BY <1>4
<1>6. \A i \in Index : weights[i] <= weights[m]
  BY <1>3, <1>5
<1>7. MaxWeight = weights[m]
  <2> DEFINE S == {weights[i] : i \in Index}
  <2>1. S \in SUBSET Nat /\ weights[m] \in S /\ \A x \in S : x <= weights[m]
    BY <1>1, <1>6
  <2> HIDE DEF S
  <2>2. Max(S) = weights[m]
    BY <2>1, GreatestIs
  <2> QED
    BY <2>2 DEF S, MaxWeight
<1> QED
  BY <1>6, <1>7

\* The greatest common divisor of a number and itself, as gcd() finds it.
LEMMA GcdOfSame ==
  ASSUME NEW a \in Nat \ {0}
  PROVE  Gcd(a, a) = a
<1> DEFINE f == CHOOSE g : g = [k \in 0 .. a |->
                  IF k = 0 THEN <<a, a>>
                  ELSE IF g[k - 1][2] = 0 THEN g[k - 1]
                  ELSE <<g[k - 1][2], g[k - 1][1] % g[k - 1][2]>>]
           Def(v, k) == IF v[2] = 0 THEN v ELSE <<v[2], v[1] % v[2]>>
<1>1. Gcd(a, a) = f[a][1]
  BY Zenon DEF Gcd
<1>2. FiniteNatInductiveDefHypothesis(f, <<a, a>>, Def, 0, a)
  BY Zenon DEF FiniteNatInductiveDefHypothesis
<1>3. 0 \in Nat /\ a \in Nat /\ 0 <= a /\ 1 \in 0 .. a /\ a # 0
  OBVIOUS
<1>4. FiniteNatInductiveDefConclusion(f, <<a, a>>, Def, 0, a)
  BY <1>2, <1>3, FiniteNatInductiveDef, Zenon
<1>5. f = [k \in 0 .. a |-> IF k = 0 THEN <<a, a>> ELSE Def(f[k - 1], k)]
  BY <1>4, Zenon DEF FiniteNatInductiveDefConclusion
<1> HIDE DEF f
<1>6. f[0] = <<a, a>>
  BY <1>3, <1>5
<1>7. ASSUME NEW k \in 1 .. a PROVE f[k] = Def(f[k - 1], k)
  <2>1. k \in 0 .. a /\ k # 0
    BY <1>3
  <2> HIDE DEF Def
  <2> QED
    BY <1>5, <2>1, Zenon
<1>8. f[1] = <<a, 0>>
  <2>1. f[1] = Def(f[1 - 1], 1)
    BY <1>3, <1>7
  <2>2. f[1] = Def(<<a, a>>, 1)
    BY <1>6, <2>1
  <2>3. a % a = 0
    BY RemainderIs
  <2> QED
    BY <1>3, <2>2, <2>3
<1> DEFINE T == {n \in Nat : n + 1 <= a => f[n + 1] = <<a, 0>>}
<1>9. 0 \in T
  BY <1>8
<1>10. ASSUME NEW n \in Nat, n \in T PROVE n + 1 \in T
  <2> SUFFICES ASSUME (n + 1) + 1 <= a PROVE f[(n + 1) + 1] = <<a, 0>>
    OBVIOUS
  <2>1. (n + 1) + 1 \in 1 .. a /\ ((n + 1) + 1) - 1 = n + 1 /\ n + 1 <= a
    BY <1>3
  <2>2. f[(n + 1) + 1] = Def(f[n + 1], (n + 1) + 1)
    BY <1>7, <2>1
  <2>3. f[n + 1] = <<a, 0>>
    BY <1>10, <2>1
  <2> QED
    BY <2>2, <2>3
<1> HIDE DEF T
<1>11. a - 1 \in T
  BY <1>3, <1>9, <1>10, Induction
<1>12. f[a] = <<a, 0>>
  BY <1>3, <1>11 DEF T
<1> QED
  BY <1>1, <1>12

\* The heaviest invoker is accepted, as it is accepted with the weight it has.
LEMMA HeaviestAccepted ==
  ASSUME Weighted, Total # 0
  PROVE  \E m \in Index : Accepts(m)
<1>1. PICK m \in Index : MaxWeight = weights[m] /\ \A i \in Index : weights[i] <= weights[m]
  BY SomeIsHeaviest
<1>2. weights[m] \in Nat
  BY DEF Weighted
<1>3. weights[m] # 0
  <2> SUFFICES ASSUME weights[m] = 0 PROVE FALSE
    OBVIOUS
  <2>1. \A i \in Index : weights[i] = 0
    BY <1>1 DEF Weighted
  <2> QED
    BY <2>1, WithoutWeight
<1>4. Gcd(weights[m], MaxWeight) = MaxWeight /\ MaxWeight \in Nat \ {0}
  BY <1>1, <1>2, <1>3, GcdOfSame
<1>5. MaxWeight \div MaxWeight = 1 /\ MaxWeight \div 1 = MaxWeight
  BY <1>4
<1>6. weights[m] \div (MaxWeight \div Gcd(weights[m], MaxWeight)) = MaxWeight
  BY <1>1, <1>4, <1>5
<1>7. Accepts(m)
  BY <1>4, <1>6 DEF Accepts
<1> QED
  BY <1>7

Counters == 0 .. CounterSize - 1

LEMMA InTurnFacts ==
  /\ \A c \in Nat : InTurn(c) \in Index
  /\ \A c \in Counters : InTurn(c) = (c % Offered) + 1
<1>1. Offered \in Nat \ {0} /\ CounterSize \in Nat \ {0}
  BY BalanceAssumption
<1>2. ASSUME NEW c \in Nat PROVE InTurn(c) \in Index
  <2> DEFINE r == c % CounterSize
  <2>1. r \in Nat
    BY <1>1, QuotientAbove
  <2> HIDE DEF r
  <2>2. r % Offered \in 0 .. Offered - 1
    BY <1>1, <2>1, QuotientAbove
  <2>3. (r % Offered) + 1 \in Index
    BY <1>1, <2>2 DEF Index
  <2> QED
    BY <2>3 DEF InTurn, r
<1>3. ASSUME NEW c \in Counters PROVE InTurn(c) = (c % Offered) + 1
  <2>1. CounterSize * 0 + c = c /\ c \in 0 .. CounterSize - 1
    BY <1>1 DEF Counters
  <2>2. c % CounterSize = c
    BY <1>1, <2>1, RemainderIs
  <2> QED
    BY <2>2 DEF InTurn
<1> QED
  BY <1>2, <1>3

\* Wherever the counter is, and if it wraps meanwhile, everybody has a turn within twice as
\* many as there are.
LEMMA SoonItsTurn ==
  ASSUME NEW m \in Index, NEW c \in Counters
  PROVE  \E k \in 0 .. 2 * Offered : InTurn(c + k) = m
<1>1. /\ Offered \in Nat \ {0} /\ CounterSize \in Nat \ {0} /\ Offered <= CounterSize
      /\ c \in Nat /\ c < CounterSize /\ m \in Nat /\ m - 1 \in 0 .. Offered - 1
  BY BalanceAssumption DEF Counters, Index
<1>2. CASE c + Offered <= CounterSize
  <2>1. PICK d \in c .. c + Offered - 1 : d % Offered = m - 1
    BY <1>1, EachHasATurn
  <2>2. d - c \in 0 .. 2 * Offered /\ c + (d - c) = d /\ d \in Counters
    BY <1>1, <1>2 DEF Counters
  <2>3. InTurn(d) = m
    BY <1>1, <2>1, <2>2, InTurnFacts
  <2> QED
    BY <2>2, <2>3
<1>3. CASE ~(c + Offered <= CounterSize)
  <2> DEFINE k == (CounterSize - c) + (m - 1)
  <2>1. k \in 0 .. 2 * Offered /\ c + k = CounterSize * 1 + (m - 1)
    BY <1>1, <1>3
  <2>2. m - 1 \in 0 .. CounterSize - 1
    BY <1>1
  <2>3. (CounterSize * 1 + (m - 1)) % CounterSize = m - 1
    BY <1>1, <2>2, RemainderIs
  <2>4. (m - 1) % Offered = m - 1
    <3>1. Offered * 0 + (m - 1) = m - 1
      BY <1>1
    <3> QED
      BY <1>1, <3>1, RemainderIs
  <2>5. InTurn(c + k) = m
    BY <1>1, <2>1, <2>3, <2>4 DEF InTurn
  <2> HIDE DEF k
  <2> QED
    BY <2>1, <2>5
<1> QED
  BY <1>2, <1>3

LEMMA RoundsFacts ==
  ASSUME Weighted, Total # 0, NEW c \in Counters
  PROVE  /\ Rounds(c) \in 0 .. 2 * Offered
         /\ Accepts(InTurn(c + Rounds(c)))
         /\ \A d \in Nat : c <= d /\ d < c + Rounds(c) => ~Accepts(InTurn(d))
<1> DEFINE S == {k \in 0 .. 2 * Offered : Accepts(InTurn(c + k))}
<1>1. Offered \in Nat /\ c \in Nat
  BY BalanceAssumption DEF Counters
<1>2. S # {}
  <2>1. PICK m \in Index : Accepts(m)
    BY HeaviestAccepted
  <2>2. PICK k \in 0 .. 2 * Offered : InTurn(c + k) = m
    BY SoonItsTurn
  <2> QED
    BY <2>1, <2>2
<1>3. Rounds(c) = Min(S) /\ S \in SUBSET Nat
  BY <1>1 DEF Rounds
<1>4. Min(S) \in S /\ \A k \in S : Min(S) <= k
  BY <1>2, <1>3, LeastOf
<1>5. ASSUME NEW d \in Nat, c <= d, d < c + Rounds(c) PROVE ~Accepts(InTurn(d))
  <2>1. d - c \in 0 .. 2 * Offered /\ c + (d - c) = d /\ ~(Rounds(c) <= d - c)
    BY <1>1, <1>3, <1>4, <1>5
  <2>2. d - c \notin S
    BY <1>3, <1>4, <2>1
  <2> QED
    BY <2>1, <2>2
<1> QED
  BY <1>3, <1>4, <1>5

\* From the picks in a row, one turn after the other, it follows that they rotate.
LEMMA OrderRotates ==
  ASSUME BalanceTypeOK, NEW turns, Taken(turns)
  PROVE  RoundRobinRotates
<1>1. /\ Offered \in Nat \ {0} /\ CounterSize \in Nat /\ Index = 1 .. Offered
      /\ turns \in Seq(Nat) /\ picks \in Seq(Index) /\ Len(turns) = Len(picks)
  BY BalanceAssumption DEF BalanceTypeOK, Taken, Index
<1>2. Here \in Counters
  BY DEF Here, BalanceTypeOK, Counters
<1>3. ASSUME NEW i \in 1 .. Len(turns)
      PROVE  /\ turns[i] \in Nat /\ turns[i] < Here /\ turns[i] \in Counters
             /\ picks[i] = InTurn(turns[i]) /\ picks[i] = (turns[i] % Offered) + 1
             /\ picks[i] \in TakingPart
  <2>1. /\ turns[i] \in Nat /\ turns[i] < Here
        /\ picks[i] = InTurn(turns[i]) /\ picks[i] \in TakingPart
    BY <1>1 DEF Taken
  <2>2. turns[i] \in Counters
    BY <1>1, <1>2, <2>1 DEF Counters
  <2> QED
    BY <2>1, <2>2, InTurnFacts
<1>0. DOMAIN picks = 1 .. Len(turns)
  BY <1>1
<1> SUFFICES ASSUME NEW i \in 1 .. Len(turns), NEW j \in 1 .. Len(turns),
                    i < j, picks[i] = picks[j]
             PROVE  {picks[k] : k \in i .. j - 1} = TakingPart
  BY <1>0, Zenon DEF RoundRobinRotates
<1>4. \A k \in i .. j - 1 : k \in 1 .. Len(turns)
  BY <1>1
<1>5. {picks[k] : k \in i .. j - 1} \subseteq TakingPart
  BY <1>3, <1>4
<1>6. turns[i] + Offered <= turns[j]
  <2>1. turns[i] < turns[j]
    BY DEF Taken
  <2>2. turns[i] % Offered = turns[j] % Offered
    <3>1. \A x \in Nat : x % Offered \in Int
      BY <1>1, QuotientAbove
    <3>2. turns[i] % Offered \in Int /\ turns[j] % Offered \in Int
      BY <1>3, <3>1
    <3> QED
      BY <1>3, <3>2
  <2> QED
    BY <1>1, <1>3, <2>1, <2>2, NextTurn
<1>7. ASSUME NEW t \in TakingPart PROVE t \in {picks[k] : k \in i .. j - 1}
  <2>1. t \in Index /\ t \in Nat /\ t - 1 \in 0 .. Offered - 1
    BY <1>1 DEF TakingPart
  <2>2. PICK c \in turns[i] .. turns[i] + Offered - 1 : c % Offered = t - 1
    BY <1>1, <1>3, <2>1, EachHasATurn
  <2>0. turns[i] \in Nat /\ turns[j] \in Nat /\ turns[j] < Here /\ Here \in Nat /\ Here < CounterSize
    BY <1>1, <1>2, <1>3 DEF Counters
  <2>3. c \in Nat /\ turns[i] <= c /\ c < turns[j] /\ c < Here /\ c \in Counters
    <3> DEFINE x == turns[i]
               y == turns[j]
               here == Here
    <3>1. x \in Nat /\ y \in Nat /\ here \in Nat /\ y < here /\ here < CounterSize /\ x + Offered <= y
      BY <1>6, <2>0
    <3>2. c \in x .. x + Offered - 1 /\ Offered \in Nat /\ CounterSize \in Nat
      BY <1>1, <2>2
    <3> HIDE DEF x, y, here
    <3>3. c \in Nat /\ x <= c /\ c < y /\ c < here /\ c \in 0 .. CounterSize - 1
      BY <3>1, <3>2
    <3> QED
      BY <3>3 DEF x, y, here, Counters
  <2>4. InTurn(c) = t
    BY <2>1, <2>2, <2>3, InTurnFacts
  <2>5. PICK k \in 1 .. Len(turns) : turns[k] = c
    BY <2>3, <2>4 DEF Taken
  <2>6. ~(k < i) /\ ~(j < k) /\ k # j
    <3>1. k < i => turns[k] < turns[i]
      BY DEF Taken
    <3>2. j < k => turns[j] < turns[k]
      BY DEF Taken
    <3> QED
      BY <1>3, <2>3, <2>5, <3>1, <3>2
  <2>7. k \in i .. j - 1 /\ picks[k] = t
    BY <1>1, <1>3, <2>4, <2>5, <2>6
  <2> QED
    BY <2>7
<1> QED
  BY <1>5, <1>7

LEMMA SameWeights ==
  ASSUME weights' = weights
  PROVE  Total' = Total /\ TakingPart' = TakingPart
  BY DEF Total, UpTo, TakingPart, Accepts, MaxWeight

LEMMA NoneTaken ==
  ASSUME picks' = <<>>
  PROVE  InOrder'
<1>1. <<>> \in Seq(Nat) /\ Len(<<>>) = 0 /\ 1 .. 0 = {}
  OBVIOUS
<1>2. Taken(<<>>)'
  BY <1>1 DEF Taken
<1> QED
  BY <1>2 DEF InOrder

\* The next pick: the first turn since the last one of one that takes part.
LEMMA TakesATurn ==
  ASSUME BalanceTypeOK, InOrder, NEW c \in Nat, Here <= c,
         InTurn(c) \in TakingPart, picks' = Append(picks, InTurn(c)),
         weights' = weights, Here' = c + 1,
         \A d \in Nat : Here <= d /\ d < c => InTurn(d) \notin TakingPart
  PROVE  InOrder'
<1>1. PICK turns : Taken(turns)
  BY DEF InOrder
<1>2. Here \in Nat /\ TakingPart' = TakingPart
  BY BalanceAssumption, SameWeights DEF Here, BalanceTypeOK
<1> DEFINE n == Len(turns)
           more == Append(turns, c)
<1>3. turns \in Seq(Nat) /\ n \in Nat /\ n = Len(picks) /\ picks \in Seq(Index)
  BY <1>1 DEF Taken, BalanceTypeOK
<1>4. /\ more \in Seq(Nat) /\ Len(more) = n + 1 /\ more[n + 1] = c
      /\ \A i \in 1 .. n : more[i] = turns[i]
  BY <1>3
<1>5. InTurn(c) \in Index
  BY InTurnFacts
<1>6. /\ Len(picks') = n + 1 /\ picks'[n + 1] = InTurn(c)
      /\ \A i \in 1 .. n : picks'[i] = picks[i]
  BY <1>3, <1>5
<1>7. \A i \in 1 .. n : turns[i] \in Nat /\ turns[i] < Here
  BY <1>1, <1>3 DEF Taken
<1>8. \A i \in 1 .. n + 1 : i \in 1 .. n \/ i = n + 1
  BY <1>3
<1>9. \A d : InTurn(d)' = InTurn(d)
  BY DEF InTurn
<1> HIDE DEF n, more
<1>10. \A i \in 1 .. Len(more) :
         more[i] < Here' /\ picks'[i] = InTurn(more[i]) /\ picks'[i] \in TakingPart'
  <2>1. ASSUME NEW i \in 1 .. n
        PROVE  more[i] < Here' /\ picks'[i] = InTurn(more[i]) /\ picks'[i] \in TakingPart'
    <3>1. more[i] = turns[i] /\ picks'[i] = picks[i] /\ turns[i] \in Nat /\ turns[i] < Here
      BY <1>4, <1>6, <1>7
    <3>2. picks[i] = InTurn(turns[i]) /\ picks[i] \in TakingPart
      BY <1>1 DEF Taken, n
    <3> QED
      BY <1>2, <3>1, <3>2
  <2>2. more[n + 1] < Here' /\ picks'[n + 1] = InTurn(more[n + 1]) /\ picks'[n + 1] \in TakingPart'
    BY <1>2, <1>4, <1>6
  <2> QED
    BY <1>4, <1>8, <2>1, <2>2
<1>11. \A i, j \in 1 .. Len(more) : i < j => more[i] < more[j]
  <2> SUFFICES ASSUME NEW i \in 1 .. n + 1, NEW j \in 1 .. n + 1, i < j PROVE more[i] < more[j]
    BY <1>4
  <2>1. i \in 1 .. n /\ more[i] = turns[i] /\ turns[i] \in Nat /\ turns[i] < Here
    BY <1>3, <1>4, <1>7
  <2>2. CASE j = n + 1
    BY <1>2, <1>4, <2>1, <2>2
  <2>3. CASE j \in 1 .. n
    <3>1. turns[i] < turns[j] /\ more[j] = turns[j]
      BY <1>1, <1>4, <2>1, <2>3 DEF Taken, n
    <3> QED
      BY <2>1, <3>1
  <2> QED
    BY <1>8, <2>2, <2>3
<1>12. ASSUME NEW i \in 1 .. Len(more), NEW d \in Nat, more[i] <= d, d < Here',
              InTurn(d) \in TakingPart'
       PROVE  \E j \in 1 .. Len(more) : more[j] = d
  <2>1. n + 1 \in 1 .. Len(more) /\ 1 .. n \subseteq 1 .. Len(more)
    BY <1>3, <1>4
  <2>2. CASE d = c
    BY <1>4, <2>1, <2>2
  <2>3. CASE d # c
    <3>1. d < c /\ d < Here
      BY <1>2, <1>12, <2>3
    <3>2. i \in 1 .. n
      BY <1>4, <1>8, <1>12, <3>1
    <3>3. turns[i] <= d
      BY <1>4, <1>12, <3>2
    <3>4. PICK j \in 1 .. n : turns[j] = d
      BY <1>1, <1>2, <1>12, <3>1, <3>2, <3>3 DEF Taken, n
    <3> QED
      BY <1>4, <2>1, <3>4
  <2> QED
    BY <2>2, <2>3
<1>13. Taken(more)'
  BY <1>4, <1>6, <1>9, <1>10, <1>11, <1>12 DEF Taken
<1> QED
  BY <1>13 DEF InOrder

-----------------------------------------------------------------------------
(* The loop of LeastActiveLoadBalance.                                     *)

\* Of two invokers the one that the loop keeps: the less active, the heavier, the first.
Before(act, i, j) ==
  \/ act[i] < act[j]
  \/ act[i] = act[j] /\ weights[i] > weights[j]
  \/ act[i] = act[j] /\ weights[i] = weights[j] /\ i <= j

LEMMA LoopFacts ==
  ASSUME Weighted, NEW act \in [Index -> Actives]
  PROVE  LeastActive(act) \in Index /\ \A j \in Index : Before(act, LeastActive(act), j)
<1> DEFINE f == CHOOSE g : g = [i \in 0 .. Offered |->
                  IF i = 0 THEN 1 ELSE IF Better(act, i, g[i - 1]) THEN i ELSE g[i - 1]]
           Def(v, i) == IF Better(act, i, v) THEN i ELSE v
<1>1. LeastActive(act) = f[Offered]
  BY Zenon DEF LeastActive
<1>2. FiniteNatInductiveDefHypothesis(f, 1, Def, 0, Offered)
  BY Zenon DEF FiniteNatInductiveDefHypothesis
<1>3. 0 \in Nat /\ Offered \in Nat \ {0} /\ 0 <= Offered /\ 1 \in Index
  BY BalanceAssumption DEF Index
<1>4. FiniteNatInductiveDefConclusion(f, 1, Def, 0, Offered)
  <2>1. Offered \in Nat
    BY <1>3
  <2> HIDE DEF Def, f
  <2> QED
    BY <1>2, <1>3, <2>1, FiniteNatInductiveDef, Zenon
<1>5. f = [i \in 0 .. Offered |-> IF i = 0 THEN 1 ELSE Def(f[i - 1], i)]
  BY <1>4, Zenon DEF FiniteNatInductiveDefConclusion
<1> HIDE DEF f
<1>6. f[0] = 1
  BY <1>3, <1>5
<1>7. ASSUME NEW i \in 1 .. Offered PROVE f[i] = Def(f[i - 1], i)
  <2>1. i \in 0 .. Offered /\ i # 0
    BY <1>3
  <2> HIDE DEF Def
  <2> QED
    BY <1>5, <2>1, Zenon
<1>8. \A i \in Index : act[i] \in Nat /\ weights[i] \in Nat /\ i \in Nat
  <2>1. \A i \in Index : act[i] \in Actives /\ weights[i] \in Nat
    BY DEF Weighted
  <2>2. Actives \subseteq Nat /\ Index \subseteq Nat
    BY <1>3, BalanceAssumption DEF Index
  <2> QED
    BY <2>1, <2>2
<1> DEFINE T == {n \in Nat : n <= Offered =>
                   f[n] \in Index /\ f[n] <= n + 1 /\ \A j \in 1 .. n : Before(act, f[n], j)}
<1>9. 0 \in T
  BY <1>3, <1>6
<1>10. ASSUME NEW n \in Nat, n \in T PROVE n + 1 \in T
  <2> SUFFICES ASSUME n + 1 <= Offered
               PROVE  /\ f[n + 1] \in Index /\ f[n + 1] <= (n + 1) + 1
                      /\ \A j \in 1 .. n + 1 : Before(act, f[n + 1], j)
    OBVIOUS
  <2>1. /\ n + 1 \in 1 .. Offered /\ n + 1 \in Index /\ (n + 1) - 1 = n /\ n <= Offered
        /\ \A j \in 1 .. n + 1 : j \in Index /\ (j \in 1 .. n \/ j = n + 1)
    BY <1>3 DEF Index
  <2>2. f[n] \in Index /\ f[n] <= n + 1 /\ \A j \in 1 .. n : Before(act, f[n], j)
    BY <1>10, <2>1
  <2>3. f[n + 1] = IF Better(act, n + 1, f[n]) THEN n + 1 ELSE f[n]
    BY <1>7, <2>1
  <2> HIDE DEF T
  <2>4. CASE Better(act, n + 1, f[n])
    <3>1. f[n + 1] = n + 1
      BY <2>3, <2>4
    <3>2. \A j \in 1 .. n + 1 : Before(act, n + 1, j)
      <4> SUFFICES ASSUME NEW j \in 1 .. n + 1 PROVE Before(act, n + 1, j)
        OBVIOUS
      <4>1. CASE j = n + 1
        BY <1>8, <2>1, <4>1 DEF Before
      <4>2. CASE j \in 1 .. n
        BY <1>8, <2>1, <2>2, <2>4, <4>2 DEF Before, Better
      <4> QED
        BY <2>1, <4>1, <4>2
    <3> QED
      BY <2>1, <3>1, <3>2
  <2>5. CASE ~Better(act, n + 1, f[n])
    <3>1. f[n + 1] = f[n]
      BY <2>3, <2>5
    <3>2. Before(act, f[n], n + 1)
      BY <1>8, <2>1, <2>2, <2>5 DEF Before, Better
    <3>3. f[n] \in Nat /\ f[n] <= (n + 1) + 1
      BY <1>8, <2>2
    <3> QED
      BY <2>1, <2>2, <3>1, <3>2, <3>3
  <2> QED
    BY <2>4, <2>5
<1> HIDE DEF T
<1>11. Offered \in T
  BY <1>3, <1>9, <1>10, Induction
<1>12. f[Offered] \in Index /\ \A j \in 1 .. Offered : Before(act, f[Offered], j)
  BY <1>11, <1>3 DEF T
<1> QED
  BY <1>1, <1>12 DEF Index

\* So the loop ends with the first of the heaviest of the least active.
LEMMA LoopFindsBest ==
  ASSUME Weighted, NEW act \in [Index -> Actives]
  PROVE  LeastActive(act) =
           Min(Heaviest({i \in Index : \A j \in Index : act[i] <= act[j]}))
<1> DEFINE b == LeastActive(act)
           least == {i \in Index : \A j \in Index : act[i] <= act[j]}
<1>1. b \in Index /\ \A j \in Index : Before(act, b, j)
  BY LoopFacts
<1>2. /\ \A i \in Index : act[i] \in Nat /\ weights[i] \in Nat /\ i \in Nat
  <2>1. \A i \in Index : act[i] \in Actives /\ weights[i] \in Nat
    BY DEF Weighted
  <2>2. Actives \subseteq Nat /\ Index \subseteq Nat
    BY BalanceAssumption DEF Index
  <2> QED
    BY <2>1, <2>2
<1> HIDE DEF b
<1>3. \A j \in Index : act[b] <= act[j]
  BY <1>1, <1>2 DEF Before
<1>4. b \in least /\ least \subseteq Index
  BY <1>1, <1>3
<1>5. \A j \in least : act[j] = act[b] /\ Before(act, b, j)
  <2> SUFFICES ASSUME NEW j \in least PROVE act[j] = act[b]
    BY <1>1, <1>4
  <2>1. act[j] <= act[b] /\ act[b] <= act[j]
    BY <1>1, <1>3
  <2> QED
    BY <1>1, <1>2, <1>4, <2>1
<1> HIDE DEF least
<1>6. \A j \in least : weights[j] <= weights[b]
  BY <1>1, <1>2, <1>4, <1>5 DEF Before
<1>7. Max({weights[j] : j \in least}) = weights[b]
  <2> DEFINE S == {weights[j] : j \in least}
  <2>1. S \in SUBSET Nat /\ weights[b] \in S /\ \A x \in S : x <= weights[b]
    BY <1>2, <1>4, <1>6
  <2> HIDE DEF S
  <2>2. Max(S) = weights[b]
    BY <2>1, GreatestIs
  <2> QED
    BY <2>2 DEF S
<1>8. Heaviest(least) = {i \in least : weights[i] = weights[b]}
  BY <1>7 DEF Heaviest
<1>9. /\ b \in Heaviest(least) /\ Heaviest(least) \in SUBSET Nat
      /\ \A j \in Heaviest(least) : b <= j
  BY <1>1, <1>2, <1>4, <1>5, <1>8 DEF Before
<1>10. Min(Heaviest(least)) = b
  BY <1>9, LeastIs
<1> QED
  BY <1>10 DEF b, least

-----------------------------------------------------------------------------
(* The invariant.                                                          *)

LEMMA InitBalanceInv == BalanceInit => BalanceInv
<1> SUFFICES ASSUME BalanceInit PROVE BalanceInv
  OBVIOUS
<1>1. Offered \in Nat \ {0} /\ CounterSize \in Nat /\ Offered <= CounterSize /\ Configured \subseteq Nat
  BY BalanceAssumption
<1>2. Weighted
  <2>1. PICK weight \in [Index -> Configured], age \in 0 .. Warmup :
          weights = [i \in Index |-> WarmupWeight(weight[i], age)]
    BY DEF BalanceInit
  <2>2. \A i \in Index : WarmupWeight(weight[i], age) \in Nat
    BY <1>1, WarmupIsNat
  <2> QED
    BY <2>1, <2>2 DEF Weighted
<1>3. counter = 0 /\ idle = 0 /\ picks = <<>> /\ last = NoPick
  BY DEF BalanceInit
<1>4. BalanceTypeOK
  BY <1>1, <1>2, <1>3 DEF BalanceTypeOK, Weighted
<1>5. InOrder
  <2>1. <<>> \in Seq(Nat) /\ Len(<<>>) = 0 /\ 1 .. 0 = {}
    OBVIOUS
  <2>2. Taken(<<>>)
    BY <1>3, <2>1 DEF Taken
  <2> QED
    BY <2>2 DEF InOrder
<1>6. ActiveKnown
  BY <1>3 DEF ActiveKnown, NoPick
<1> QED
  BY <1>4, <1>5, <1>6 DEF BalanceInv

\* A choice that leaves the counters alone.
LEMMA ChosenKeeps ==
  ASSUME BalanceInv, NEW by, NEW known, NEW index, Chosen(by, known, index),
         by = "active" => known \in [Index -> Actives] /\ index = LeastActive(known)
  PROVE  BalanceInv'
<1>1. picks' = <<>> /\ UNCHANGED <<weights, counter, idle>>
      /\ last' = [by |-> by, known |-> known, index |-> index]
  BY DEF Chosen
<1>2. BalanceTypeOK'
  BY <1>1 DEF BalanceInv, BalanceTypeOK
<1>3. InOrder'
  BY <1>1, NoneTaken
<1>4. \A act : LeastActive(act)' = LeastActive(act)
  BY <1>1 DEF LeastActive, Better
<1>5. last'.by = by /\ last'.known = known /\ last'.index = index
  BY <1>1
<1>6. ActiveKnown'
  BY <1>4, <1>5 DEF ActiveKnown
<1> QED
  BY <1>2, <1>3, <1>6 DEF BalanceInv

LEMMA RandomKeeps == BalanceInv /\ PickRandom => BalanceInv'
<1> SUFFICES ASSUME BalanceInv, PickRandom PROVE BalanceInv'
  OBVIOUS
<1>1. \E i : Chosen("random", <<>>, i)
  BY Zenon DEF PickRandom
<1> QED
  BY <1>1, ChosenKeeps

LEMMA LeastActiveKeeps == BalanceInv /\ PickLeastActive => BalanceInv'
  BY ChosenKeeps DEF PickLeastActive

LEMMA ShortestKeeps == BalanceInv /\ PickShortest => BalanceInv'
<1> SUFFICES ASSUME BalanceInv, PickShortest PROVE BalanceInv'
  OBVIOUS
<1>1. PickRandom \/ \E rt, i : Chosen("shortest", rt, i)
  BY Zenon DEF PickShortest
<1> QED
  BY <1>1, RandomKeeps, ChosenKeeps

LEMMA HashKeeps == BalanceInv /\ PickHash => BalanceInv'
  BY ChosenKeeps DEF PickHash

\* A turn of one of the two counters.
LEMMA TurnKeeps ==
  ASSUME BalanceInv, NEW c \in Nat, NEW wrapped \in BOOLEAN, Here <= c,
         InTurn(c) \in TakingPart, Picked(InTurn(c), wrapped),
         UNCHANGED weights, counter' \in Counters, idle' \in Counters,
         ~wrapped => Here' = c + 1,
         \A d \in Nat : Here <= d /\ d < c => InTurn(d) \notin TakingPart
  PROVE  BalanceInv'
<1>1. InTurn(c) \in Index
  BY InTurnFacts
<1>2. picks' = (IF wrapped THEN <<>> ELSE Append(picks, InTurn(c))) /\ last' = NoPick
  BY DEF Picked
<1>3. BalanceTypeOK'
  BY <1>1, <1>2 DEF BalanceInv, BalanceTypeOK, Counters
<1>4. InOrder'
  <2>1. CASE wrapped
    BY <1>2, <2>1, NoneTaken
  <2>2. CASE ~wrapped
    BY <1>2, <2>2, TakesATurn DEF BalanceInv
  <2> QED
    BY <2>1, <2>2
<1>5. ActiveKnown'
  BY <1>2 DEF ActiveKnown, NoPick
<1> QED
  BY <1>3, <1>4, <1>5 DEF BalanceInv

LEMMA WithoutWeightsKeeps == BalanceInv /\ PickWithoutWeights => BalanceInv'
<1> SUFFICES ASSUME BalanceInv, PickWithoutWeights PROVE BalanceInv'
  OBVIOUS
<1>1. /\ Total = 0 /\ idle' = (idle + 1) % CounterSize /\ UNCHANGED <<weights, counter>>
      /\ Picked(InTurn(idle), idle + 1 = CounterSize)
  BY DEF PickWithoutWeights
<1>2. /\ CounterSize \in Nat \ {0} /\ idle \in Nat /\ idle < CounterSize /\ counter \in Counters
      /\ Here = idle
  BY <1>1, BalanceAssumption DEF BalanceInv, BalanceTypeOK, Counters, Here
<1>3. InTurn(idle) \in TakingPart
  BY <1>1, <1>2, InTurnFacts DEF TakingPart
<1>4. idle' \in Counters
  <2>1. idle + 1 \in Nat
    BY <1>2
  <2> QED
    BY <1>1, <1>2, <2>1, QuotientAbove DEF Counters
<1>5. idle + 1 # CounterSize => Here' = idle + 1
  <2> SUFFICES ASSUME idle + 1 # CounterSize PROVE Here' = idle + 1
    OBVIOUS
  <2>1. Total' = 0
    BY <1>1, SameWeights
  <2>2. CounterSize * 0 + (idle + 1) = idle + 1 /\ idle + 1 \in 0 .. CounterSize - 1
    BY <1>2
  <2>3. (idle + 1) % CounterSize = idle + 1
    BY <1>2, <2>2, RemainderIs
  <2> QED
    BY <1>1, <2>1, <2>3 DEF Here
<1>6. counter' \in Counters /\ weights' = weights /\ Here <= idle
  BY <1>1, <1>2
<1>7. \A d \in Nat : Here <= d /\ d < idle => InTurn(d) \notin TakingPart
  BY <1>2
<1> DEFINE wrapped == idle + 1 = CounterSize
<1>8. wrapped \in BOOLEAN /\ Picked(InTurn(idle), wrapped) /\ (~wrapped => Here' = idle + 1)
  BY <1>1, <1>5
<1> HIDE DEF wrapped
<1> QED
  BY <1>2, <1>3, <1>4, <1>6, <1>7, <1>8, TurnKeeps

LEMMA RoundRobinKeeps == BalanceInv /\ PickRoundRobin => BalanceInv'
<1> SUFFICES ASSUME BalanceInv, PickRoundRobin PROVE BalanceInv'
  OBVIOUS
<1> DEFINE k == Rounds(counter)
           c == counter + k
<1>1. /\ Total > 0 /\ counter' = After(counter, k) % CounterSize /\ UNCHANGED <<weights, idle>>
      /\ Picked(InTurn(c), After(counter, k) >= CounterSize)
  BY DEF PickRoundRobin
<1>2. /\ CounterSize \in Nat \ {0} /\ Offered \in Nat /\ counter \in Counters /\ counter \in Nat
      /\ idle \in Counters /\ Weighted
  BY BalanceAssumption DEF BalanceInv, BalanceTypeOK, Counters, Weighted
<1>3. Total # 0 /\ Here = counter
  BY <1>1 DEF Here
<1>4. /\ k \in Nat /\ Accepts(InTurn(c))
      /\ \A d \in Nat : counter <= d /\ d < c => ~Accepts(InTurn(d))
  BY <1>2, <1>3, RoundsFacts
<1> HIDE DEF k
<1>5. c \in Nat /\ counter <= c /\ After(counter, k) = c + 1
  BY <1>2, <1>4 DEF After
<1> HIDE DEF c
<1>6. InTurn(c) \in TakingPart
  BY <1>3, <1>4, <1>5, InTurnFacts DEF TakingPart
<1>7. \A d \in Nat : counter <= d /\ d < c => InTurn(d) \notin TakingPart
  BY <1>3, <1>4 DEF TakingPart
<1>8. counter' \in Counters /\ idle' \in Counters
  <2>1. c + 1 \in Nat
    BY <1>5
  <2>2. (c + 1) % CounterSize \in 0 .. CounterSize - 1
    BY <1>2, <2>1, QuotientAbove
  <2> QED
    BY <1>1, <1>2, <1>5, <2>2 DEF Counters
<1>9. ASSUME ~(c + 1 >= CounterSize) PROVE Here' = c + 1
  <2>1. Total' # 0
    BY <1>1, <1>3, SameWeights
  <2>2. CounterSize * 0 + (c + 1) = c + 1 /\ c + 1 \in 0 .. CounterSize - 1
    BY <1>2, <1>5, <1>9
  <2>3. (c + 1) % CounterSize = c + 1
    BY <1>2, <2>2, RemainderIs
  <2> QED
    BY <1>1, <1>5, <2>1, <2>3 DEF Here
<1>10. (c + 1 >= CounterSize) \in BOOLEAN /\ Picked(InTurn(c), c + 1 >= CounterSize)
  BY <1>1, <1>5
<1> QED
  BY <1>1, <1>3, <1>5, <1>6, <1>7, <1>8, <1>9, <1>10, TurnKeeps

LEMMA NextBalanceInv == BalanceInv /\ [BalanceNext]_balanceVars => BalanceInv'
<1> SUFFICES ASSUME BalanceInv, [BalanceNext]_balanceVars PROVE BalanceInv'
  OBVIOUS
<1>1. CASE UNCHANGED balanceVars
  <2>1. UNCHANGED <<weights, counter, idle, picks, last>>
    BY <1>1 DEF balanceVars
  <2>2. BalanceTypeOK'
    BY <2>1 DEF BalanceInv, BalanceTypeOK
  <2>3. Here' = Here /\ TakingPart' = TakingPart
    BY <2>1, SameWeights DEF Here
  <2>4. \A turns : Taken(turns) => Taken(turns)'
    BY <2>1, <2>3 DEF Taken, InTurn
  <2>5. InOrder'
    BY <2>4 DEF BalanceInv, InOrder
  <2>6. \A act : LeastActive(act)' = LeastActive(act)
    BY <2>1 DEF LeastActive, Better
  <2>7. ActiveKnown'
    BY <2>1, <2>6 DEF BalanceInv, ActiveKnown
  <2> QED
    BY <2>2, <2>5, <2>7 DEF BalanceInv
<1>2. CASE BalanceNext
  BY <1>2, RandomKeeps, RoundRobinKeeps, WithoutWeightsKeeps, LeastActiveKeeps, ShortestKeeps,
     HashKeeps DEF BalanceNext
<1> QED
  BY <1>1, <1>2

LEMMA BalanceInvSuffices == BalanceInv => BalancersAreTrue
<1> SUFFICES ASSUME BalanceInv PROVE BalancersAreTrue
  OBVIOUS
<1>1. Weighted
  BY DEF BalanceInv, BalanceTypeOK, Weighted
<1>2. RoundRobinRotates
  BY OrderRotates DEF BalanceInv, InOrder
<1>3. LeastActiveIsBest
  BY <1>1, LoopFindsBest DEF BalanceInv, ActiveKnown, LeastActiveIsBest
<1> QED
  BY <1>1, <1>2, <1>3, WarmupFacts, RandomFacts DEF BalancersAreTrue

\* For any invokers, weights and warm-up: warming up raises a weight, random selection is by
\* weight, round robin takes everybody who can be picked in turns until its counter wraps, and
\* the choice of the least active is the first of the heaviest of them.
THEOREM BalancedTruly == BalanceSpec => []BalancersAreTrue
<1>1. BalanceInit => BalanceInv
  BY InitBalanceInv
<1>2. BalanceInv /\ [BalanceNext]_balanceVars => BalanceInv'
  BY NextBalanceInv
<1>3. BalanceInv => BalancersAreTrue
  BY BalanceInvSuffices
<1> QED
  BY <1>1, <1>2, <1>3, PTL DEF BalanceSpec

-----------------------------------------------------------------------------
(* P2C.                                                                    *)

P2CInv == P2CTypeOK /\ ActiveIsOutstanding

-----------------------------------------------------------------------------
(* Locals, scores and averages have their types.                           *)

LEMMA AnyIsOne ==
  ASSUME NEW S, S # {}
  PROVE  AnyOf(S) \in S
BY DEF AnyOf

LEMMA QuotientIsNat ==
  ASSUME NEW n \in Nat, NEW d \in Nat, d > 0
  PROVE  n \div d \in Nat
BY SMT

LEMMA ScoreIsNat ==
  ASSUME P2CTypeOK, NEW i \in Invoker
  PROVE  Score(i) \in Nat
<1>1. active[i] \in Nat /\ ewma[i] \in Nat
  BY DEF P2CTypeOK
<1>2. Max1(Weight) \in Nat /\ Max1(Weight) > 0
  BY P2CAssumption DEF Max1
<1>3. LoadFactor * active[i] \in Nat
  BY <1>1 DEF LoadFactor
<1>4. (LoadFactor * active[i]) \div Max1(Weight) \in Nat
  BY <1>2, <1>3, QuotientIsNat
<1>5. ewma[i] \div FixedPoint \in Nat
  BY <1>1, QuotientIsNat DEF FixedPoint
<1> QED
  BY <1>4, <1>5 DEF Score

LEMMA AverageIsNat ==
  ASSUME NEW old \in Nat, NEW new \in Nat
  PROVE  Average(old, new) \in Nat
<1>1. Alpha * new * FixedPoint + (FixedPoint - Alpha) * old \in Nat
  BY DEF Alpha, FixedPoint
<1> QED
  BY <1>1, QuotientIsNat DEF Average, FixedPoint

-----------------------------------------------------------------------------
(* How the set of calls to an invoker changes.                             *)

LEMMA CallingFinite ==
  ASSUME NEW i \in Invoker
  PROVE  IsFiniteSet(Calling(i)) /\ Cardinality(Calling(i)) \in Nat
<1>1. Calling(i) \in SUBSET Caller
  BY DEF Calling
<1>2. IsFiniteSet(Calling(i))
  BY <1>1, FS_Subset, P2CAssumption
<1> QED
  BY <1>2, FS_CardinalityType

\* A caller that was not calling calls an invoker.
LEMMA OneMoreCall ==
  ASSUME P2CTypeOK, NEW c \in Caller, NEW i \in Invoker, pc[c] # "calling",
         pc' = [pc EXCEPT ![c] = "calling"],
         target' = [target EXCEPT ![c] = i]
  PROVE  /\ Cardinality(Calling(i)') = Cardinality(Calling(i)) + 1
         /\ \A j \in Invoker \ {i} : Calling(j)' = Calling(j)
<1>1. c \notin Calling(i)
  BY DEF Calling
<1>2. Calling(i)' = Calling(i) \cup {c}
  BY DEF Calling, P2CTypeOK
<1>3. \A j \in Invoker \ {i} : Calling(j)' = Calling(j)
  BY DEF Calling, P2CTypeOK
<1> QED
  BY <1>1, <1>2, <1>3, CallingFinite, FS_AddElement

\* A caller stops calling, whatever becomes of its target.
LEMMA OneLessCall ==
  ASSUME P2CTypeOK, NEW c \in Caller, NEW t \in Invoker, NEW next,
         pc[c] = "calling", target[c] = t, next # "calling",
         pc' = [pc EXCEPT ![c] = next],
         \A d \in Caller \ {c} : target'[d] = target[d]
  PROVE  /\ Cardinality(Calling(t)) >= 1
         /\ Cardinality(Calling(t)') = Cardinality(Calling(t)) - 1
         /\ \A j \in Invoker \ {t} : Calling(j)' = Calling(j)
<1>1. c \in Calling(t)
  BY DEF Calling
<1>2. pc'[c] # "calling" /\ \A d \in Caller \ {c} : pc'[d] = pc[d]
  BY DEF P2CTypeOK
<1>3. Calling(t)' = Calling(t) \ {c}
  BY <1>2 DEF Calling
<1>4. Cardinality(Calling(t)') = Cardinality(Calling(t)) - 1
  BY <1>1, <1>3, CallingFinite, FS_RemoveElement
<1>5. Cardinality(Calling(t)') \in Nat
  BY <1>1, <1>3, CallingFinite, FS_RemoveElement, FS_CardinalityType
<1>6. \A j \in Invoker \ {t} : Calling(j)' = Calling(j)
  BY <1>2 DEF Calling
<1> QED
  BY <1>4, <1>5, <1>6, CallingFinite

\* A step that starts and ends no call and touches neither count.
LEMMA SameCalls ==
  ASSUME P2CInv, NEW c \in Caller, NEW next, pc[c] # "calling", next # "calling",
         pc' = [pc EXCEPT ![c] = next],
         \A d \in Caller \ {c} : target'[d] = target[d],
         UNCHANGED <<active, lost>>
  PROVE  ActiveIsOutstanding'
<1>1. \A i \in Invoker : Calling(i)' = Calling(i)
  BY DEF Calling, P2CInv, P2CTypeOK
<1> QED
  BY <1>1 DEF P2CInv, ActiveIsOutstanding

\* Choose and Single count the call in as they start it.
LEMMA CountedIn ==
  ASSUME P2CInv, NEW c \in Caller, NEW i \in Invoker, pc[c] # "calling",
         pc' = [pc EXCEPT ![c] = "calling"],
         target' = [target EXCEPT ![c] = i],
         active' = CountIn(c, i), UNCHANGED lost
  PROVE  active' \in [Invoker -> Nat] /\ ActiveIsOutstanding'
<1>1. /\ Cardinality(Calling(i)') = Cardinality(Calling(i)) + 1
      /\ \A j \in Invoker \ {i} : Calling(j)' = Calling(j)
  BY OneMoreCall DEF P2CInv
<1>2. /\ active' \in [Invoker -> Nat]
      /\ active'[i] = active[i] + 1
      /\ \A j \in Invoker \ {i} : active'[j] = active[j]
  BY DEF P2CInv, P2CTypeOK, CountIn
<1>3. active'[i] = Cardinality(Calling(i)') + lost'[i]
  BY <1>1, <1>2, CallingFinite DEF P2CInv, P2CTypeOK, ActiveIsOutstanding
<1>4. \A j \in Invoker \ {i} : active'[j] = Cardinality(Calling(j)') + lost'[j]
  BY <1>1, <1>2 DEF P2CInv, ActiveIsOutstanding
<1> QED
  BY <1>2, <1>3, <1>4 DEF ActiveIsOutstanding

-----------------------------------------------------------------------------

LEMMA InitP2CInv == P2CInit => P2CInv
<1> SUFFICES ASSUME P2CInit PROVE P2CInv
  OBVIOUS
<1>1. AnyOf(Invoker) \in Invoker /\ AnyOf(Latency) \in Latency
  BY AnyIsOne, P2CAssumption
<1>2. P2CTypeOK
  BY <1>1 DEF P2CInit, P2CTypeOK
<1>3. \A i \in Invoker : Calling(i) = {}
  BY DEF P2CInit, Calling
<1>4. ActiveIsOutstanding
  BY <1>3, FS_EmptySet DEF P2CInit, ActiveIsOutstanding
<1> QED
  BY <1>2, <1>4 DEF P2CInv

LEMMA NextP2CInv == P2CInv /\ [P2CNext]_p2cVars => P2CInv'
<1> SUFFICES ASSUME P2CInv, [P2CNext]_p2cVars PROVE P2CInv'
  OBVIOUS
<1>0. AnyOf(Invoker) \in Invoker /\ AnyOf(Latency) \in Latency
  BY AnyIsOne, P2CAssumption
<1>1. ASSUME NEW c \in Caller, Draw(c) PROVE P2CInv'
  <2>1. P2CTypeOK'
    BY <1>1 DEF Draw, Goto, P2CInv, P2CTypeOK, stats
  <2>2. ActiveIsOutstanding'
    BY <1>1, SameCalls DEF Draw, Goto, stats
  <2> QED
    BY <2>1, <2>2 DEF P2CInv
<1>2. ASSUME NEW c \in Caller, ScoreFirst(c) PROVE P2CInv'
  <2>1. Score(pair[c][1]) \in Nat
    BY ScoreIsNat DEF P2CInv, P2CTypeOK
  <2>2. score' \in [Caller -> Nat \X Nat]
    BY <1>2, <2>1 DEF ScoreFirst, P2CInv, P2CTypeOK
  <2>3. P2CTypeOK'
    BY <1>2, <2>2 DEF ScoreFirst, Goto, P2CInv, P2CTypeOK, stats
  <2>4. ActiveIsOutstanding'
    BY <1>2, SameCalls DEF ScoreFirst, Goto, stats
  <2> QED
    BY <2>3, <2>4 DEF P2CInv
<1>3. ASSUME NEW c \in Caller, ScoreSecond(c) PROVE P2CInv'
  <2>1. Score(pair[c][2]) \in Nat
    BY ScoreIsNat DEF P2CInv, P2CTypeOK
  <2>2. P2CTypeOK'
    BY <1>3, <2>1 DEF ScoreSecond, Goto, P2CInv, P2CTypeOK, stats
  <2>3. ActiveIsOutstanding'
    BY <1>3, SameCalls DEF ScoreSecond, Goto, stats
  <2> QED
    BY <2>2, <2>3 DEF P2CInv
<1>4. ASSUME NEW c \in Caller, Choose(c) PROVE P2CInv'
  <2>1. Lighter(c) \in Invoker
    BY DEF Lighter, P2CInv, P2CTypeOK
  <2>2. active' \in [Invoker -> Nat] /\ ActiveIsOutstanding'
    BY <1>4, <2>1, CountedIn DEF Choose, Goto
  <2>3. P2CTypeOK'
    BY <1>0, <1>4, <2>1, <2>2 DEF Choose, Goto, P2CInv, P2CTypeOK
  <2> QED
    BY <2>2, <2>3 DEF P2CInv
<1>5. ASSUME NEW c \in Caller, Single(c) PROVE P2CInv'
  <2>1. PICK i \in Invoker : target' = [target EXCEPT ![c] = i] /\ active' = CountIn(c, i)
    BY <1>5 DEF Single
  <2>2. active' \in [Invoker -> Nat] /\ ActiveIsOutstanding'
    BY <1>5, <2>1, CountedIn DEF Single, Goto
  <2>3. P2CTypeOK'
    BY <1>5, <2>1, <2>2 DEF Single, Goto, P2CInv, P2CTypeOK
  <2> QED
    BY <2>2, <2>3 DEF P2CInv
<1>6. ASSUME NEW c \in Caller, Report(c) PROVE P2CInv'
  <2>1. PICK t \in Invoker : target[c] = t
    BY DEF P2CInv, P2CTypeOK
  <2>2. /\ Cardinality(Calling(t)) >= 1
        /\ Cardinality(Calling(t)') = Cardinality(Calling(t)) - 1
        /\ \A j \in Invoker \ {t} : Calling(j)' = Calling(j)
    BY <1>6, <2>1, OneLessCall DEF Report, Goto, P2CInv, Calling
  <2>3. /\ active'[t] = active[t] - 1
        /\ \A j \in Invoker \ {t} : active'[j] = active[j]
        /\ active' = [active EXCEPT ![t] = @ - 1]
        /\ lost' = lost
    BY <1>6, <2>1 DEF Report, P2CInv, P2CTypeOK
  <2>4. active'[t] = Cardinality(Calling(t)') + lost'[t] /\ active'[t] \in Nat
    BY <2>1, <2>2, <2>3, CallingFinite DEF P2CInv, P2CTypeOK, ActiveIsOutstanding
  <2>5. ActiveIsOutstanding'
    <3> SUFFICES ASSUME NEW i \in Invoker
                 PROVE  active'[i] = Cardinality(Calling(i)') + lost'[i]
      BY DEF ActiveIsOutstanding
    <3>1. CASE i = t
      BY <2>4, <3>1
    <3>2. CASE i # t
      BY <2>2, <2>3, <3>2 DEF P2CInv, ActiveIsOutstanding
    <3> QED
      BY <3>1, <3>2
  <2>6. active' \in [Invoker -> Nat]
    BY <2>3, <2>4 DEF P2CInv, P2CTypeOK
  <2>7. P2CTypeOK'
    BY <1>6, <2>6 DEF Report, Goto, P2CInv, P2CTypeOK
  <2> QED
    BY <2>5, <2>7 DEF P2CInv
<1>7. ASSUME NEW c \in Caller, LoadAverage(c) PROVE P2CInv'
  <2>1. P2CTypeOK'
    BY <1>7 DEF LoadAverage, Goto, P2CInv, P2CTypeOK, stats
  <2>2. ActiveIsOutstanding'
    BY <1>7, SameCalls DEF LoadAverage, Goto, stats
  <2> QED
    BY <2>1, <2>2 DEF P2CInv
<1>8. ASSUME NEW c \in Caller, StoreAverage(c) PROVE P2CInv'
  <2>1. Average(loaded[c], latency[c]) \in Nat
    BY AverageIsNat, P2CAssumption DEF P2CInv, P2CTypeOK
  <2>2. P2CTypeOK'
    BY <1>0, <1>8, <2>1 DEF StoreAverage, Goto, P2CInv, P2CTypeOK
  <2>3. \A d \in Caller \ {c} : target'[d] = target[d]
    BY <1>8 DEF StoreAverage, P2CInv, P2CTypeOK
  <2>4. ActiveIsOutstanding'
    BY <1>8, <2>3, SameCalls DEF StoreAverage, Goto
  <2> QED
    BY <2>2, <2>4 DEF P2CInv
<1>9. ASSUME NEW c \in Caller, Lose(c) PROVE P2CInv'
  <2>1. PICK t \in Invoker : target[c] = t
    BY DEF P2CInv, P2CTypeOK
  <2>2. \A d \in Caller \ {c} : target'[d] = target[d]
    BY <1>9 DEF Lose, P2CInv, P2CTypeOK
  <2>3. /\ Cardinality(Calling(t)) >= 1
        /\ Cardinality(Calling(t)') = Cardinality(Calling(t)) - 1
        /\ \A j \in Invoker \ {t} : Calling(j)' = Calling(j)
    BY <1>9, <2>1, <2>2, OneLessCall DEF Lose, Goto, P2CInv
  <2>4. /\ lost' \in [Invoker -> Nat]
        /\ lost'[t] = lost[t] + 1
        /\ \A j \in Invoker \ {t} : lost'[j] = lost[j]
        /\ active' = active
    BY <1>9, <2>1 DEF Lose, stats, P2CInv, P2CTypeOK
  <2>5. active[t] = Cardinality(Calling(t)') + lost'[t]
    BY <2>1, <2>3, <2>4, CallingFinite DEF P2CInv, P2CTypeOK, ActiveIsOutstanding
  <2>6. ASSUME NEW i \in Invoker PROVE active'[i] = Cardinality(Calling(i)') + lost'[i]
    <3>1. CASE i = t
      BY <2>4, <2>5, <3>1
    <3>2. CASE i # t
      BY <2>3, <2>4, <3>2 DEF P2CInv, ActiveIsOutstanding
    <3> QED
      BY <3>1, <3>2
  <2>7. P2CTypeOK'
    BY <1>0, <1>9, <2>4 DEF Lose, Goto, P2CInv, P2CTypeOK, stats
  <2> QED
    BY <2>6, <2>7 DEF P2CInv, ActiveIsOutstanding
<1>10. CASE UNCHANGED p2cVars
  BY <1>10 DEF p2cVars, stats, local, P2CInv, P2CTypeOK, ActiveIsOutstanding, Calling
<1> QED
  BY <1>1, <1>2, <1>3, <1>4, <1>5, <1>6, <1>7, <1>8, <1>9, <1>10 DEF P2CNext

-----------------------------------------------------------------------------

\* Every counter keeps its type: in particular no active count falls below zero,
\* where the unsigned word of the code would wrap.
THEOREM P2CTypeCorrect == P2CSpec => []P2CTypeOK
<1>1. P2CInit => P2CInv
  BY InitP2CInv
<1>2. P2CInv /\ [P2CNext]_p2cVars => P2CInv'
  BY NextP2CInv
<1>3. P2CInv => P2CTypeOK
  BY DEF P2CInv
<1> QED
  BY <1>1, <1>2, <1>3, PTL DEF P2CSpec

\* The active count of an invoker is exactly its calls in flight and those that were
\* dropped unreported, whatever the interleaving of choices and reports.
THEOREM ActiveCountIsExact == P2CSpec => []ActiveIsOutstanding
<1>1. P2CInit => P2CInv
  BY InitP2CInv
<1>2. P2CInv /\ [P2CNext]_p2cVars => P2CInv'
  BY NextP2CInv
<1>3. P2CInv => ActiveIsOutstanding
  BY DEF P2CInv
<1> QED
  BY <1>1, <1>2, <1>3, PTL DEF P2CSpec

-----------------------------------------------------------------------------
(* SimpleConnectionPool and ReconnectManager.                              *)

PoolTypeOK ==
  /\ lock \in User \cup {None}
  /\ spare \in [Address -> Nat]
  /\ doing \in [User -> {"off", "connecting", "using", "failed", "waiting"}]
  /\ address \in [User -> Address \cup {None}]
  /\ opened \in [Address -> Nat]
  /\ attempts \in [Address -> Nat]
  /\ delay \in [Address -> Nat]
  /\ recording \in User \cup {None}

\* Who holds the mutexes, and that whoever is doing something has an address.
Holders ==
  /\ \A u \in User : doing[u] = "connecting" <=> lock = u
  /\ \A u \in User : recording = u => doing[u] = "waiting"
  /\ \A u \in User : doing[u] # "off" => address[u] \in Address

\* A failure that is counted and whose delay is not stored yet is one ahead.
Delays ==
  \A a \in Address :
    IF recording # None /\ address[recording] = a
    THEN attempts[a] > 0 /\ delay[a] = Backoff[attempts[a] - 1]
    ELSE delay[a] = Backoff[attempts[a]]

\* Once max_attempts is reached nobody asks any more: those who may still record a
\* failure had asked before.
Waiters(a) == {u \in User : doing[u] = "waiting" /\ address[u] = a /\ recording # u}
AttemptsBounded ==
  MaxAttempts > 0 => \A a \in Address :
    attempts[a] >= MaxAttempts =>
      attempts[a] + Cardinality(Waiters(a)) <= MaxAttempts + Cardinality(User) - 1

PoolInv == PoolTypeOK /\ Holders /\ OpensOnlyForWant /\ Delays /\ AttemptsBounded

\* Backoff is what it says.
LEMMA BackoffSteps ==
  /\ Backoff[0] = InitialDelay
  /\ \A n \in Nat : Backoff[n + 1] = Longer(Backoff[n])
<1> DEFINE Def(d, n) == Longer(d)
<1>1. NatInductiveDefHypothesis(Backoff, InitialDelay, Def)
  BY Zenon DEF NatInductiveDefHypothesis, Backoff
<1>2. NatInductiveDefConclusion(Backoff, InitialDelay, Def)
  BY <1>1, NatInductiveDef, Zenon
<1>3. Backoff = [n \in Nat |-> IF n = 0 THEN InitialDelay ELSE Def(Backoff[n - 1], n)]
  BY <1>2, Zenon DEF NatInductiveDefConclusion
<1>4. Backoff[0] = InitialDelay
  BY <1>3
<1>5. ASSUME NEW n \in Nat PROVE Backoff[n + 1] = Longer(Backoff[n])
  <2>1. n + 1 \in Nat /\ n + 1 # 0 /\ (n + 1) - 1 = n
    OBVIOUS
  <2>2. Backoff[n + 1] = Def(Backoff[(n + 1) - 1], n + 1)
    BY <1>3, <2>1, Zenon
  <2> QED
    BY <2>1, <2>2, Zenon
<1> QED
  BY <1>4, <1>5

LEMMA LongerIsNat ==
  ASSUME NEW d \in Nat
  PROVE  Longer(d) \in Nat
BY SimplePoolAssumption DEF Longer

\* How the users of an address change.
LEMMA WithIsFinite ==
  ASSUME NEW what, NEW a
  PROVE  /\ IsFiniteSet(With(what, a)) /\ Cardinality(With(what, a)) \in Nat
         /\ With(what, a) \subseteq User /\ Cardinality(With(what, a)) <= Cardinality(User)
         /\ IsFiniteSet(Waiters(a)) /\ Cardinality(Waiters(a)) \in Nat
         /\ Cardinality(Waiters(a)) <= Cardinality(User)
<1>1. With(what, a) \subseteq User /\ Waiters(a) \subseteq User
  BY DEF With, Waiters
<1> QED
  BY <1>1, SimplePoolAssumption, FS_Subset, FS_CardinalityType

OthersStay(u) == \A v \in User \ {u} : doing'[v] = doing[v] /\ address'[v] = address[v]

LEMMA UsersSame ==
  ASSUME NEW u \in User, OthersStay(u), doing[u] # "using", doing'[u] # "using"
  PROVE  \A a \in Address : With("using", a)' = With("using", a)
BY DEF With, OthersStay

LEMMA UsersMore ==
  ASSUME NEW u \in User, NEW a \in Address, OthersStay(u), doing[u] # "using",
         doing'[u] = "using", address'[u] = a
  PROVE  /\ Cardinality(With("using", a)') = Cardinality(With("using", a)) + 1
         /\ \A b \in Address \ {a} : With("using", b)' = With("using", b)
<1>1. With("using", a)' = With("using", a) \cup {u} /\ u \notin With("using", a)
  BY DEF With, OthersStay
<1>2. Cardinality(With("using", a) \cup {u}) = Cardinality(With("using", a)) + 1
  BY <1>1, WithIsFinite, FS_AddElement
<1>3. \A b \in Address \ {a} : With("using", b)' = With("using", b)
  BY DEF With, OthersStay
<1> QED
  BY <1>1, <1>2, <1>3

LEMMA UsersLess ==
  ASSUME NEW u \in User, NEW a \in Address, OthersStay(u), doing[u] = "using", address[u] = a,
         doing'[u] # "using"
  PROVE  /\ Cardinality(With("using", a)') = Cardinality(With("using", a)) - 1
         /\ \A b \in Address \ {a} : With("using", b)' = With("using", b)
<1>1. With("using", a)' = With("using", a) \ {u} /\ u \in With("using", a)
  BY DEF With, OthersStay
<1>2. Cardinality(With("using", a) \ {u}) = Cardinality(With("using", a)) - 1
  BY <1>1, WithIsFinite, FS_RemoveElement
<1>3. \A b \in Address \ {a} : With("using", b)' = With("using", b)
  BY DEF With, OthersStay
<1> QED
  BY <1>1, <1>2, <1>3

\* Nobody joins those who may still record a failure, and no failure is counted.
LEMMA WaitersSame ==
  ASSUME AttemptsBounded, PoolTypeOK, UNCHANGED attempts,
         \A a \in Address : attempts[a] >= MaxAttempts => Waiters(a)' \subseteq Waiters(a)
  PROVE  AttemptsBounded'
<1> SUFFICES ASSUME MaxAttempts > 0, NEW a \in Address, attempts[a] >= MaxAttempts
             PROVE  attempts[a] + Cardinality(Waiters(a)') <= MaxAttempts + Cardinality(User) - 1
  BY DEF AttemptsBounded
<1>1. Cardinality(Waiters(a)') <= Cardinality(Waiters(a)) /\ Cardinality(Waiters(a)') \in Nat
  BY WithIsFinite, FS_Subset, FS_CardinalityType
<1>2. attempts[a] + Cardinality(Waiters(a)) <= MaxAttempts + Cardinality(User) - 1
  BY DEF AttemptsBounded
<1>3. attempts[a] \in Nat /\ Cardinality(User) \in Nat /\ MaxAttempts \in Nat
  BY SimplePoolAssumption, FS_CardinalityType DEF PoolTypeOK
<1>4. Cardinality(Waiters(a)) \in Nat
  BY WithIsFinite
<1> QED
  BY <1>1, <1>2, <1>3, <1>4

LEMMA InitPoolInv == SimplePoolInit => PoolInv
<1> SUFFICES ASSUME SimplePoolInit PROVE PoolInv
  OBVIOUS
<1>1. PoolTypeOK
  BY SimplePoolAssumption DEF SimplePoolInit, PoolTypeOK
<1>2. Holders
  BY SimplePoolAssumption DEF SimplePoolInit, Holders
<1>3. OpensOnlyForWant
  <2>1. \A a \in Address : With("using", a) = {} /\ With("connecting", a) = {}
    BY DEF SimplePoolInit, With
  <2>2. Cardinality({}) = 0 /\ Cardinality(User) \in Nat
    BY FS_EmptySet, SimplePoolAssumption, FS_CardinalityType
  <2> QED
    BY <2>1, <2>2 DEF SimplePoolInit, OpensOnlyForWant
<1>4. Delays
  BY BackoffSteps DEF SimplePoolInit, Delays
<1>5. AttemptsBounded
  BY SimplePoolAssumption DEF SimplePoolInit, AttemptsBounded
<1> QED
  BY <1>1, <1>2, <1>3, <1>4, <1>5 DEF PoolInv

\* The pool's own steps leave the reconnect manager alone.
LEMMA PoolStepKeeps ==
  ASSUME PoolInv, NEW u \in User, OthersStay(u), UNCHANGED reconnectVars,
         doing[u] # "waiting", doing'[u] # "waiting"
  PROVE  Delays' /\ AttemptsBounded'
<1>1. UNCHANGED <<attempts, delay, recording>>
  BY DEF reconnectVars
<1>2. Delays'
  <2>1. recording # None => recording # u /\ recording \in User
    BY DEF PoolInv, Holders, PoolTypeOK
  <2>2. recording # None => address'[recording] = address[recording]
    BY <2>1 DEF OthersStay
  <2> QED
    BY <1>1, <2>2 DEF PoolInv, Delays
<1>3. \A a \in Address : Waiters(a)' \subseteq Waiters(a)
  BY <1>1 DEF Waiters, OthersStay
<1> QED
  BY <1>1, <1>2, <1>3, WaitersSame DEF PoolInv

LEMMA TakeKeeps ==
  ASSUME PoolInv, NEW u \in User, NEW a \in Address, Take(u, a)
  PROVE  PoolInv'
<1>0. PoolTypeOK /\ Holders /\ OpensOnlyForWant
  BY DEF PoolInv
<1>1. /\ doing[u] = "off" /\ lock = None /\ address' = [address EXCEPT ![u] = a]
      /\ UNCHANGED <<opened, attempts, delay, recording>> /\ UNCHANGED reconnectVars
  BY DEF Take, reconnectVars
<1>2. address'[u] = a /\ address' \in [User -> Address \cup {None}]
  BY <1>0, <1>1 DEF PoolTypeOK
<1>3. CASE spare[a] > 0
  <2>1. /\ spare' = [spare EXCEPT ![a] = @ - 1] /\ doing' = [doing EXCEPT ![u] = "using"]
        /\ lock' = lock
    BY <1>3 DEF Take, Does
  <2>2. OthersStay(u) /\ doing'[u] = "using"
    BY <1>0, <1>1, <2>1 DEF OthersStay, PoolTypeOK
  <2>3. /\ spare' \in [Address -> Nat] /\ spare'[a] = spare[a] - 1
        /\ \A b \in Address \ {a} : spare'[b] = spare[b]
    BY <1>0, <1>3, <2>1 DEF PoolTypeOK
  <2>4. PoolTypeOK'
    BY <1>0, <1>1, <1>2, <2>1, <2>3 DEF PoolTypeOK
  <2>5. Holders'
    BY <1>0, <1>1, <1>2, <2>1, <2>2 DEF Holders, OthersStay, PoolTypeOK
  <2>6. OpensOnlyForWant'
    <3>1. \A b \in Address : With("connecting", b)' = {}
      BY <2>5, <1>1, <2>1, SimplePoolAssumption DEF With, Holders
    <3>2. /\ Cardinality(With("using", a)') = Cardinality(With("using", a)) + 1
          /\ \A b \in Address \ {a} : With("using", b)' = With("using", b)
      BY <1>1, <1>2, <2>2, UsersMore
    <3>3. ASSUME NEW b \in Address PROVE opened[b] = spare'[b] + Cardinality(With("using", b)')
      <4>1. opened[b] = spare[b] + Cardinality(With("using", b)) /\ spare[b] \in Nat
        BY <1>0 DEF OpensOnlyForWant, PoolTypeOK
      <4>2. CASE b = a
        BY <2>3, <3>2, <4>1, <4>2, WithIsFinite
      <4>3. CASE b # a
        BY <2>3, <3>2, <4>1, <4>3
      <4> QED
        BY <4>2, <4>3
    <3> QED
      BY <1>0, <1>1, <3>1, <3>3 DEF OpensOnlyForWant
  <2> QED
    BY <1>1, <2>2, <2>4, <2>5, <2>6, PoolStepKeeps DEF PoolInv
<1>4. CASE ~(spare[a] > 0)
  <2>1. spare' = spare /\ doing' = [doing EXCEPT ![u] = "connecting"] /\ lock' = u
    BY <1>4 DEF Take, Does
  <2>2. OthersStay(u) /\ doing'[u] = "connecting"
    BY <1>0, <1>1, <2>1 DEF OthersStay, PoolTypeOK
  <2>3. PoolTypeOK'
    BY <1>0, <1>1, <1>2, <2>1 DEF PoolTypeOK
  <2>4. Holders'
    BY <1>0, <1>1, <1>2, <2>1, <2>2, SimplePoolAssumption DEF Holders, OthersStay, PoolTypeOK
  <2>5. OpensOnlyForWant'
    <3>1. \A b \in Address : With("connecting", b)' # {} => b = a
      BY <1>2, <2>1, <2>4 DEF With, Holders
    <3>2. \A b \in Address : With("using", b)' = With("using", b)
      BY <1>1, <2>2, UsersSame
    <3>3. spare[a] = 0
      BY <1>0, <1>4 DEF PoolTypeOK
    <3> QED
      BY <1>0, <1>1, <2>1, <3>1, <3>2, <3>3 DEF OpensOnlyForWant
  <2> QED
    BY <1>1, <2>2, <2>3, <2>4, <2>5, PoolStepKeeps DEF PoolInv
<1> QED
  BY <1>3, <1>4

LEMMA ConnectedKeeps ==
  ASSUME PoolInv, NEW u \in User, Connected(u)
  PROVE  PoolInv'
<1>0. PoolTypeOK /\ Holders /\ OpensOnlyForWant
  BY DEF PoolInv
<1>1. /\ doing[u] = "connecting" /\ lock' = None /\ doing' = [doing EXCEPT ![u] = "using"]
      /\ opened' = [opened EXCEPT ![address[u]] = @ + 1]
      /\ UNCHANGED <<spare, address, attempts, delay, recording>> /\ UNCHANGED reconnectVars
  BY DEF Connected, Does, reconnectVars
<1>2. PICK a \in Address : address[u] = a
  BY <1>0, <1>1 DEF Holders
<1>3. OthersStay(u) /\ doing'[u] = "using" /\ address'[u] = a
  BY <1>0, <1>1, <1>2 DEF OthersStay, PoolTypeOK
<1>4. /\ opened' \in [Address -> Nat] /\ opened'[a] = opened[a] + 1
      /\ \A b \in Address \ {a} : opened'[b] = opened[b]
  BY <1>0, <1>1, <1>2 DEF PoolTypeOK
<1>5. PoolTypeOK'
  BY <1>0, <1>1, <1>4 DEF PoolTypeOK
<1>6. lock = u
  BY <1>0, <1>1 DEF Holders
<1>7. Holders'
  BY <1>0, <1>1, <1>3, <1>6, SimplePoolAssumption DEF Holders, OthersStay, PoolTypeOK
<1>8. OpensOnlyForWant'
  <2>1. \A b \in Address : With("connecting", b)' = {}
    BY <1>1, <1>7, SimplePoolAssumption DEF With, Holders
  <2>2. /\ Cardinality(With("using", a)') = Cardinality(With("using", a)) + 1
        /\ \A b \in Address \ {a} : With("using", b)' = With("using", b)
    BY <1>1, <1>3, UsersMore
  <2>3. spare[a] = 0
    BY <1>0, <1>1, <1>2 DEF OpensOnlyForWant, With
  <2>4. Cardinality(With("using", a)') <= Cardinality(User)
    <3>1. With("using", a)' \subseteq User
      BY DEF With
    <3> QED
      BY <3>1, SimplePoolAssumption, FS_Subset
  <2>5. ASSUME NEW b \in Address
        PROVE  /\ opened'[b] = spare'[b] + Cardinality(With("using", b)')
               /\ opened'[b] <= Cardinality(User)
    <3>1. /\ opened[b] = spare[b] + Cardinality(With("using", b)) /\ spare'[b] = spare[b]
          /\ opened[b] <= Cardinality(User)
      BY <1>0, <1>1 DEF OpensOnlyForWant
    <3>2. CASE b = a
      BY <1>4, <2>2, <2>3, <2>4, <3>1, <3>2, WithIsFinite
    <3>3. CASE b # a
      BY <1>4, <2>2, <3>1, <3>3
    <3> QED
      BY <3>2, <3>3
  <2> QED
    BY <2>1, <2>5 DEF OpensOnlyForWant
<1> QED
  BY <1>1, <1>3, <1>5, <1>7, <1>8, PoolStepKeeps DEF PoolInv

LEMMA NotConnectedKeeps ==
  ASSUME PoolInv, NEW u \in User, NotConnected(u)
  PROVE  PoolInv'
<1>0. PoolTypeOK /\ Holders /\ OpensOnlyForWant
  BY DEF PoolInv
<1>1. /\ doing[u] = "connecting" /\ lock' = None /\ doing' = [doing EXCEPT ![u] = "failed"]
      /\ UNCHANGED <<spare, address, opened, attempts, delay, recording>> /\ UNCHANGED reconnectVars
  BY DEF NotConnected, Does, reconnectVars
<1>2. OthersStay(u) /\ doing'[u] = "failed"
  BY <1>0, <1>1 DEF OthersStay, PoolTypeOK
<1>3. PoolTypeOK'
  BY <1>0, <1>1 DEF PoolTypeOK
<1>4. Holders'
  BY <1>0, <1>1, <1>2, SimplePoolAssumption DEF Holders, OthersStay, PoolTypeOK
<1>5. OpensOnlyForWant'
  <2>1. \A b \in Address : With("connecting", b)' = {}
    BY <1>1, <1>4, SimplePoolAssumption DEF With, Holders
  <2>2. \A b \in Address : With("using", b)' = With("using", b)
    BY <1>1, <1>2, UsersSame
  <2> QED
    BY <1>0, <1>1, <2>1, <2>2 DEF OpensOnlyForWant
<1> QED
  BY <1>1, <1>2, <1>3, <1>4, <1>5, PoolStepKeeps DEF PoolInv

LEMMA GiveBackKeeps ==
  ASSUME PoolInv, NEW u \in User, GiveBack(u)
  PROVE  PoolInv'
<1>0. PoolTypeOK /\ Holders /\ OpensOnlyForWant
  BY DEF PoolInv
<1>1. /\ doing[u] = "using" /\ lock = None /\ doing' = [doing EXCEPT ![u] = "off"]
      /\ spare' = [spare EXCEPT ![address[u]] = @ + 1]
      /\ address' = [address EXCEPT ![u] = None]
      /\ UNCHANGED <<lock, opened, attempts, delay, recording>> /\ UNCHANGED reconnectVars
  BY DEF GiveBack, Does, reconnectVars
<1>2. PICK a \in Address : address[u] = a
  BY <1>0, <1>1 DEF Holders
<1>3. OthersStay(u) /\ doing'[u] = "off"
  BY <1>0, <1>1 DEF OthersStay, PoolTypeOK
<1>4. /\ spare' \in [Address -> Nat] /\ spare'[a] = spare[a] + 1
      /\ \A b \in Address \ {a} : spare'[b] = spare[b]
  BY <1>0, <1>1, <1>2 DEF PoolTypeOK
<1>5. PoolTypeOK'
  BY <1>0, <1>1, <1>4 DEF PoolTypeOK
<1>6. Holders'
  BY <1>0, <1>1, <1>3 DEF Holders, OthersStay, PoolTypeOK
<1>7. OpensOnlyForWant'
  <2>1. \A b \in Address : With("connecting", b)' = {}
    BY <1>1, <1>6, SimplePoolAssumption DEF With, Holders
  <2>2. /\ Cardinality(With("using", a)') = Cardinality(With("using", a)) - 1
        /\ \A b \in Address \ {a} : With("using", b)' = With("using", b)
    BY <1>1, <1>2, <1>3, UsersLess
  <2>3. ASSUME NEW b \in Address PROVE opened'[b] = spare'[b] + Cardinality(With("using", b)')
    <3>1. opened[b] = spare[b] + Cardinality(With("using", b)) /\ opened'[b] = opened[b] /\ spare[b] \in Nat
      BY <1>0, <1>1 DEF OpensOnlyForWant, PoolTypeOK
    <3>2. CASE b = a
      BY <1>4, <2>2, <3>1, <3>2, WithIsFinite
    <3>3. CASE b # a
      BY <1>4, <2>2, <3>1, <3>3
    <3> QED
      BY <3>2, <3>3
  <2> QED
    BY <1>0, <1>1, <2>1, <2>3 DEF OpensOnlyForWant
<1> QED
  BY <1>1, <1>3, <1>5, <1>6, <1>7, PoolStepKeeps DEF PoolInv

-----------------------------------------------------------------------------
\* The manager's steps leave the pool alone: nobody starts or stops connecting or using.
LEMMA ManagerStepKeeps ==
  ASSUME PoolInv, NEW u \in User, OthersStay(u), UNCHANGED <<lock, spare, opened>>,
         doing[u] \notin {"connecting", "using"}, doing'[u] \notin {"connecting", "using"},
         PoolTypeOK', Holders'
  PROVE  OpensOnlyForWant'
<1>1. \A a \in Address : With("connecting", a)' = With("connecting", a)
  BY DEF With, OthersStay
<1>2. \A a \in Address : With("using", a)' = With("using", a)
  BY DEF With, OthersStay
<1> QED
  BY <1>1, <1>2 DEF PoolInv, OpensOnlyForWant

\* Whoever asks while the attempts are not used up may still wait.
LEMMA RetryKeeps ==
  ASSUME PoolInv, NEW u \in User, Retry(u)
  PROVE  PoolInv'
<1>0. PoolTypeOK /\ Holders /\ Delays /\ AttemptsBounded
  BY DEF PoolInv
<1>1. /\ doing[u] = "failed" /\ ShouldReconnect(address[u])
      /\ doing' = [doing EXCEPT ![u] = "waiting"]
      /\ UNCHANGED <<lock, spare, address, opened, attempts, delay, recording>>
  BY DEF Retry, Does, reconnectVars
<1>2. OthersStay(u) /\ doing'[u] = "waiting"
  BY <1>0, <1>1 DEF OthersStay, PoolTypeOK
<1>3. PoolTypeOK'
  BY <1>0, <1>1 DEF PoolTypeOK
<1>4. Holders'
  BY <1>0, <1>1, <1>2 DEF Holders, OthersStay, PoolTypeOK
<1>5. OpensOnlyForWant'
  BY <1>1, <1>2, <1>3, <1>4, ManagerStepKeeps
<1>6. Delays'
  BY <1>0, <1>1 DEF Delays
<1>7. AttemptsBounded'
  <2>1. CASE MaxAttempts = 0
    BY <2>1 DEF AttemptsBounded
  <2>2. CASE MaxAttempts # 0
    <3>1. attempts[address[u]] < MaxAttempts
      BY <1>1, <2>2 DEF ShouldReconnect
    <3>2. ASSUME NEW a \in Address, attempts[a] >= MaxAttempts PROVE a # address[u]
      BY <1>0, <3>1, <3>2, SimplePoolAssumption DEF PoolTypeOK
    <3>3. ASSUME NEW a \in Address, a # address[u] PROVE Waiters(a)' \subseteq Waiters(a)
      BY <1>1, <1>2, <3>3 DEF Waiters, OthersStay
    <3> QED
      BY <1>0, <1>1, <3>2, <3>3, WaitersSame
  <2> QED
    BY <2>1, <2>2
<1> QED
  BY <1>3, <1>4, <1>5, <1>6, <1>7 DEF PoolInv

\* record_success() and reset() start the delays and the attempts of an address again.
LEMMA RecordSuccessKeeps ==
  ASSUME PoolInv, NEW u \in User, RecordSuccess(u)
  PROVE  PoolInv'
<1>0. PoolTypeOK /\ Holders /\ Delays /\ AttemptsBounded
  BY DEF PoolInv
<1>1. /\ doing[u] \in {"waiting", "failed"} /\ recording = None
      /\ doing' = [doing EXCEPT ![u] = "off"]
      /\ address' = [address EXCEPT ![u] = None]
      /\ attempts' = [attempts EXCEPT ![address[u]] = 0]
      /\ delay' = [delay EXCEPT ![address[u]] = InitialDelay]
      /\ UNCHANGED <<lock, spare, opened, recording>>
  BY DEF RecordSuccess, ForgetAll, Forget, Does
<1>2. PICK a \in Address : address[u] = a
  BY <1>0, <1>1 DEF Holders
<1>3. OthersStay(u) /\ doing'[u] = "off"
  BY <1>0, <1>1, <1>2 DEF OthersStay, PoolTypeOK
<1>4. /\ attempts' \in [Address -> Nat] /\ attempts'[a] = 0
      /\ delay' \in [Address -> Nat] /\ delay'[a] = InitialDelay
      /\ \A b \in Address \ {a} : attempts'[b] = attempts[b] /\ delay'[b] = delay[b]
  BY <1>0, <1>1, <1>2, SimplePoolAssumption DEF PoolTypeOK
<1>5. PoolTypeOK'
  BY <1>0, <1>1, <1>4 DEF PoolTypeOK
<1>6. Holders'
  BY <1>0, <1>1, <1>3, SimplePoolAssumption DEF Holders, OthersStay, PoolTypeOK
<1>7. OpensOnlyForWant'
  BY <1>1, <1>3, <1>5, <1>6, ManagerStepKeeps
<1>8. Delays'
  <2>1. \A b \in Address : delay[b] = Backoff[attempts[b]]
    BY <1>0, <1>1 DEF Delays
  <2>2. \A b \in Address : delay'[b] = Backoff[attempts'[b]]
    BY <1>4, <2>1, BackoffSteps
  <2> QED
    BY <1>1, <2>2 DEF Delays
<1>9. AttemptsBounded'
  <2> SUFFICES ASSUME MaxAttempts > 0, NEW b \in Address, attempts'[b] >= MaxAttempts
               PROVE  attempts'[b] + Cardinality(Waiters(b)') <= MaxAttempts + Cardinality(User) - 1
    BY DEF AttemptsBounded
  <2>1. b # a
    BY <1>4, SimplePoolAssumption
  <2>2. Waiters(b)' = Waiters(b)
    BY <1>1, <1>2, <1>3, <2>1 DEF Waiters, OthersStay
  <2> QED
    BY <1>0, <1>4, <2>1, <2>2 DEF AttemptsBounded
<1> QED
  BY <1>5, <1>6, <1>7, <1>8, <1>9 DEF PoolInv

\* The first half of record_failure() is one attempt more and one fewer who may count.
LEMMA CountAttemptKeeps ==
  ASSUME PoolInv, NEW u \in User, CountAttempt(u)
  PROVE  PoolInv'
<1>0. PoolTypeOK /\ Holders /\ Delays /\ AttemptsBounded
  BY DEF PoolInv
<1>1. /\ doing[u] = "waiting" /\ recording = None /\ recording' = u
      /\ attempts' = [attempts EXCEPT ![address[u]] = @ + 1]
      /\ UNCHANGED <<lock, spare, doing, address, opened, delay>>
  BY DEF CountAttempt, poolVars
<1>2. PICK a \in Address : address[u] = a
  BY <1>0, <1>1 DEF Holders
<1>3. /\ attempts' \in [Address -> Nat] /\ attempts'[a] = attempts[a] + 1 /\ attempts[a] \in Nat
      /\ \A b \in Address \ {a} : attempts'[b] = attempts[b]
  BY <1>0, <1>1, <1>2 DEF PoolTypeOK
<1>4. u # None /\ OthersStay(u)
  BY <1>1, SimplePoolAssumption DEF OthersStay
<1>5. PoolTypeOK'
  BY <1>0, <1>1, <1>3 DEF PoolTypeOK
<1>6. Holders'
  BY <1>0, <1>1 DEF Holders
<1>7. OpensOnlyForWant'
  BY <1>1, <1>4, <1>5, <1>6, ManagerStepKeeps
<1>8. Delays'
  <2>1. \A b \in Address : delay[b] = Backoff[attempts[b]]
    BY <1>0, <1>1 DEF Delays
  <2>2. attempts'[a] > 0 /\ attempts'[a] - 1 = attempts[a]
    BY <1>3
  <2> QED
    BY <1>1, <1>2, <1>3, <1>4, <2>1, <2>2 DEF Delays
<1>9. AttemptsBounded'
  <2> SUFFICES ASSUME MaxAttempts > 0, NEW b \in Address, attempts'[b] >= MaxAttempts
               PROVE  attempts'[b] + Cardinality(Waiters(b)') <= MaxAttempts + Cardinality(User) - 1
    BY DEF AttemptsBounded
  <2>1. CASE b # a
    <3>1. Waiters(b)' = Waiters(b)
      BY <1>1, <1>2, <2>1, SimplePoolAssumption DEF Waiters, PoolTypeOK
    <3> QED
      BY <1>0, <1>3, <2>1, <3>1 DEF AttemptsBounded
  <2>2. CASE b = a
    <3>1. Waiters(a)' = Waiters(a) \ {u} /\ u \in Waiters(a)
      BY <1>1, <1>2, <1>4, SimplePoolAssumption DEF Waiters, PoolTypeOK
    <3>2. Cardinality(Waiters(a) \ {u}) = Cardinality(Waiters(a)) - 1
      BY <3>1, WithIsFinite, FS_RemoveElement
    <3>3. Cardinality(Waiters(a)') = Cardinality(Waiters(a)) - 1
      BY <3>1, <3>2, Zenon
    <3>4. Cardinality(Waiters(a)) \in Nat /\ Cardinality(Waiters(a)) <= Cardinality(User)
      BY WithIsFinite
    <3>5. Cardinality(User) \in Nat /\ MaxAttempts \in Nat
      BY SimplePoolAssumption, FS_CardinalityType
    <3>6. CASE attempts[a] >= MaxAttempts
      <4>1. attempts[a] + Cardinality(Waiters(a)) <= MaxAttempts + Cardinality(User) - 1
        BY <1>0, <3>6 DEF AttemptsBounded
      <4> QED
        BY <1>3, <2>2, <3>3, <3>4, <3>5, <4>1
    <3>7. CASE ~(attempts[a] >= MaxAttempts)
      <4>1. attempts'[a] <= MaxAttempts
        BY <1>3, <3>5, <3>7
      <4> QED
        BY <1>3, <2>2, <3>3, <3>4, <3>5, <4>1
    <3> QED
      BY <3>6, <3>7
  <2> QED
    BY <2>1, <2>2
<1> QED
  BY <1>5, <1>6, <1>7, <1>8, <1>9 DEF PoolInv

\* The second half stores the delay of the failure that the first half has counted.
LEMMA StoreDelayKeeps ==
  ASSUME PoolInv, NEW u \in User, StoreDelay(u)
  PROVE  PoolInv'
<1>0. PoolTypeOK /\ Holders /\ Delays /\ AttemptsBounded
  BY DEF PoolInv
<1>1. /\ recording = u /\ recording' = None
      /\ delay' = [delay EXCEPT ![address[u]] = Longer(@)]
      /\ doing' = [doing EXCEPT ![u] = "failed"]
      /\ UNCHANGED <<lock, spare, address, opened, attempts>>
  BY DEF StoreDelay, Does
<1>2. doing[u] = "waiting" /\ u # None
  BY <1>0, <1>1, SimplePoolAssumption DEF Holders
<1>3. PICK a \in Address : address[u] = a
  BY <1>0, <1>2 DEF Holders
<1>4. OthersStay(u) /\ doing'[u] = "failed"
  BY <1>0, <1>1 DEF OthersStay, PoolTypeOK
<1>5. /\ delay' \in [Address -> Nat] /\ delay'[a] = Longer(delay[a])
      /\ \A b \in Address \ {a} : delay'[b] = delay[b]
  <2>1. delay[a] \in Nat /\ Longer(delay[a]) \in Nat
    BY <1>0, LongerIsNat DEF PoolTypeOK
  <2> HIDE DEF Longer
  <2> QED
    BY <1>0, <1>1, <1>3, <2>1 DEF PoolTypeOK
<1>6. PoolTypeOK'
  BY <1>0, <1>1, <1>5 DEF PoolTypeOK
<1>7. Holders'
  BY <1>0, <1>1, <1>2, <1>4, SimplePoolAssumption DEF Holders, OthersStay, PoolTypeOK
<1>8. OpensOnlyForWant'
  BY <1>1, <1>2, <1>4, <1>6, <1>7, ManagerStepKeeps
<1>9. Delays'
  <2>1. attempts[a] > 0 /\ delay[a] = Backoff[attempts[a] - 1]
    BY <1>0, <1>1, <1>2, <1>3 DEF Delays
  <2>2. attempts[a] - 1 \in Nat /\ (attempts[a] - 1) + 1 = attempts[a]
    BY <1>0, <2>1 DEF PoolTypeOK
  <2>3. delay'[a] = Backoff[attempts[a]]
    BY <1>5, <2>1, <2>2, BackoffSteps
  <2>4. \A b \in Address \ {a} : delay[b] = Backoff[attempts[b]]
    BY <1>0, <1>1, <1>3 DEF Delays
  <2> QED
    BY <1>1, <1>5, <2>3, <2>4 DEF Delays
<1>10. AttemptsBounded'
  <2>1. \A b \in Address : Waiters(b)' \subseteq Waiters(b)
    BY <1>1, <1>2, <1>4 DEF Waiters, OthersStay
  <2> QED
    BY <1>0, <1>1, <2>1, WaitersSame
<1> QED
  BY <1>6, <1>7, <1>8, <1>9, <1>10 DEF PoolInv

LEMMA NextPoolInv == PoolInv /\ [SimplePoolNext]_simplePoolVars => PoolInv'
<1> SUFFICES ASSUME PoolInv, [SimplePoolNext]_simplePoolVars PROVE PoolInv'
  OBVIOUS
<1>1. CASE UNCHANGED simplePoolVars
  <2>1. UNCHANGED <<lock, spare, doing, address, opened, attempts, delay, recording>>
    BY <1>1 DEF simplePoolVars, poolVars, reconnectVars
  <2>2. PoolTypeOK' /\ Holders' /\ Delays'
    BY <2>1 DEF PoolInv, PoolTypeOK, Holders, Delays
  <2>3. \A what, a : With(what, a)' = With(what, a)
    BY <2>1 DEF With
  <2>4. \A a : Waiters(a)' = Waiters(a)
    BY <2>1 DEF Waiters
  <2>5. OpensOnlyForWant'
    BY <2>1, <2>3 DEF PoolInv, OpensOnlyForWant
  <2>6. AttemptsBounded'
    BY <2>1, <2>4 DEF PoolInv, AttemptsBounded
  <2> QED
    BY <2>2, <2>5, <2>6 DEF PoolInv
<1>2. ASSUME NEW u \in User, NEW a \in Address, Take(u, a) PROVE PoolInv'
  BY <1>2, TakeKeeps
<1>3. ASSUME NEW u \in User, Connected(u) PROVE PoolInv'
  BY <1>3, ConnectedKeeps
<1>4. ASSUME NEW u \in User, NotConnected(u) PROVE PoolInv'
  BY <1>4, NotConnectedKeeps
<1>5. ASSUME NEW u \in User, GiveBack(u) PROVE PoolInv'
  BY <1>5, GiveBackKeeps
<1>6. ASSUME NEW u \in User, Retry(u) PROVE PoolInv'
  BY <1>6, RetryKeeps
<1>7. ASSUME NEW u \in User, RecordSuccess(u) PROVE PoolInv'
  BY <1>7, RecordSuccessKeeps
<1>8. ASSUME NEW u \in User, CountAttempt(u) PROVE PoolInv'
  BY <1>8, CountAttemptKeeps
<1>9. ASSUME NEW u \in User, StoreDelay(u) PROVE PoolInv'
  BY <1>9, StoreDelayKeeps
<1> QED
  BY <1>1, <1>2, <1>3, <1>4, <1>5, <1>6, <1>7, <1>8, <1>9 DEF SimplePoolNext

\* What the invariant says of the attempts is what the property says.
LEMMA PoolInvSuffices == PoolInv => PoolKeepsBooks
<1> SUFFICES ASSUME PoolInv, NEW a \in Address
             PROVE  /\ (recording = None \/ address[recording] # a) => delay[a] = Backoff[attempts[a]]
                    /\ MaxAttempts > 0 => attempts[a] <= MaxAttempts + Cardinality(User) - 1
  BY DEF PoolInv, PoolKeepsBooks, DelayFollowsFailures
<1>1. (recording = None \/ address[recording] # a) => delay[a] = Backoff[attempts[a]]
  BY DEF PoolInv, Delays
<1>2. ASSUME MaxAttempts > 0 PROVE attempts[a] <= MaxAttempts + Cardinality(User) - 1
  <2>1. attempts[a] \in Nat /\ MaxAttempts \in Nat /\ Cardinality(User) \in Nat
    BY SimplePoolAssumption, FS_CardinalityType DEF PoolInv, PoolTypeOK
  <2>2. Cardinality(User) # 0
    BY SimplePoolAssumption, FS_EmptySet
  <2>3. Cardinality(Waiters(a)) \in Nat
    BY WithIsFinite
  <2>4. attempts[a] >= MaxAttempts =>
          attempts[a] + Cardinality(Waiters(a)) <= MaxAttempts + Cardinality(User) - 1
    BY <1>2 DEF PoolInv, AttemptsBounded
  <2> QED
    BY <2>1, <2>2, <2>3, <2>4
<1> QED
  BY <1>1, <1>2

\* No connection is opened while one of its address is idle, so no more are ever open than
\* there are users, and each is in use or idle; the delay of an address is the one its
\* failures in a row give; and max_attempts is exceeded only by those who had already asked.
THEOREM SimplePoolKeepsBooks == SimplePoolSpec => []PoolKeepsBooks
<1>1. SimplePoolInit => PoolInv
  BY InitPoolInv
<1>2. PoolInv /\ [SimplePoolNext]_simplePoolVars => PoolInv'
  BY NextPoolInv
<1>3. PoolInv => PoolKeepsBooks
  BY PoolInvSuffices
<1> QED
  BY <1>1, <1>2, <1>3, PTL DEF SimplePoolSpec

-----------------------------------------------------------------------------
(* Caches.                                                                 *)

\* What is put or found is moved to the end of the order and of the history alike, and
\* what is dropped leaves both: so the order stays the end of the history.
EndsWith(longer, end) == \E start \in Seq(Key) : longer = start \o end

CacheInv ==
  /\ order \in Seq(Key) /\ touched \in Seq(Key)
  /\ client \in [Client -> [at : {"idle", "asking", "answered", "evicted"}, key : Key]]
  /\ ToSet(order) = DOMAIN entries /\ IsInjective(order)
  /\ Len(order) <= Room + 1
  /\ EndsWith(touched, order)

\* The end of a list, from some place on.
LEMMA TailFacts ==
  ASSUME NEW seq \in Seq(Key), NEW n \in Nat \ {0},
         NEW tail, tail = SubSeq(seq, n, Len(seq))
  PROVE  /\ tail \in Seq(Key)
         /\ Len(tail) = IF n <= Len(seq) THEN Len(seq) - n + 1 ELSE 0
         /\ ToSet(tail) \subseteq ToSet(seq)
         /\ IsInjective(seq) => IsInjective(tail)
         /\ EndsWith(seq, tail)
<1>1. CASE n <= Len(seq)
  <2>1. /\ tail \in Seq(Key) /\ Len(tail) = Len(seq) - n + 1 /\ DOMAIN tail = 1 .. Len(tail)
        /\ \A i \in 1 .. Len(tail) : tail[i] = seq[i + n - 1]
    BY <1>1
  <2>2. \A i \in 1 .. Len(tail) : i + n - 1 \in DOMAIN seq
    BY <1>1, <2>1
  <2>3. ToSet(tail) \subseteq ToSet(seq)
    BY <2>1, <2>2 DEF ToSet
  <2>4. ASSUME IsInjective(seq), NEW i \in 1 .. Len(tail), NEW j \in 1 .. Len(tail), tail[i] = tail[j]
        PROVE  i = j
    <3>1. i + n - 1 = j + n - 1
      BY <2>1, <2>2, <2>4 DEF IsInjective
    <3> QED
      BY <2>1, <3>1
  <2>5. IsInjective(seq) => IsInjective(tail)
    BY <2>1, <2>4 DEF IsInjective
  <2>6. SubSeq(seq, 1, n - 1) \in Seq(Key) /\ seq = SubSeq(seq, 1, n - 1) \o tail
    BY <1>1
  <2>7. EndsWith(seq, tail)
    BY <2>6, Zenon DEF EndsWith
  <2> QED
    BY <1>1, <2>1, <2>3, <2>5, <2>7
<1>2. CASE ~(n <= Len(seq))
  <2>1. tail = <<>>
    BY <1>2
  <2>2. <<>> \in Seq(Key) /\ Len(<<>>) = 0 /\ ToSet(<<>>) = {} /\ IsInjective(<<>>) /\ seq \o <<>> = seq
    BY DEF ToSet, IsInjective
  <2>3. EndsWith(seq, tail)
    BY <2>1, <2>2 DEF EndsWith
  <2> QED
    BY <1>2, <2>1, <2>2, <2>3
<1> QED
  BY <1>1, <1>2

LEMMA ConcatAssociates ==
  ASSUME NEW E, NEW a \in Seq(E), NEW b \in Seq(E), NEW c \in Seq(E)
  PROVE  a \o b \in Seq(E) /\ (a \o b) \o c = a \o (b \o c)
OBVIOUS

LEMMA ConcatAppends ==
  ASSUME NEW a \in Seq(Key), NEW b \in Seq(Key), NEW e \in Key
  PROVE  Append(a \o b, e) = a \o Append(b, e)
OBVIOUS

\* The two lists change alike.
LEMMA WithoutKeeps ==
  ASSUME CacheInv, NEW keys
  PROVE  /\ Without(order, keys) \in Seq(Key) /\ Without(touched, keys) \in Seq(Key)
         /\ ToSet(Without(order, keys)) = ToSet(order) \ keys
         /\ IsInjective(Without(order, keys)) /\ Len(Without(order, keys)) <= Len(order)
         /\ EndsWith(Without(touched, keys), Without(order, keys))
<1>1. order \in Seq(Key) /\ touched \in Seq(Key) /\ IsInjective(order)
  BY DEF CacheInv
<1>2. ToSet(order) \subseteq Key
  BY <1>1 DEF ToSet
<1>3. /\ Without(order, keys) \in Seq(Key) /\ Without(touched, keys) \in Seq(Key)
      /\ ToSet(Without(order, keys)) = ToSet(order) \cap (Key \ keys)
      /\ Len(Without(order, keys)) <= Len(order)
  BY <1>1, KeepElements DEF Without
<1>4. IsInjective(Without(order, keys))
  BY <1>1, KeepInjective DEF Without
<1>5. PICK start \in Seq(Key) : touched = start \o order
  BY DEF CacheInv, EndsWith
<1>6. Keep(start, Key \ keys) \in Seq(Key)
  BY KeepElements
<1>7. Keep(touched, Key \ keys) = Keep(start, Key \ keys) \o Keep(order, Key \ keys)
  <2>1. Keep(start \o order, Key \ keys) = Keep(start, Key \ keys) \o Keep(order, Key \ keys)
    BY <1>1, KeepConcat
  <2> QED
    BY <1>5, <2>1, Zenon
<1>8. EndsWith(Without(touched, keys), Without(order, keys))
  BY <1>6, <1>7, Zenon DEF EndsWith, Without
<1> QED
  BY <1>2, <1>3, <1>4, <1>8

\* What is appended to two lists, one the end of the other, leaves it so.
LEMMA AppendKeeps ==
  ASSUME NEW k \in Key, NEW all \in Seq(Key), NEW end \in Seq(Key), EndsWith(all, end),
         IsInjective(end), k \notin ToSet(end)
  PROVE  /\ Append(all, k) \in Seq(Key) /\ Append(end, k) \in Seq(Key)
         /\ Len(Append(end, k)) = Len(end) + 1
         /\ ToSet(Append(end, k)) = ToSet(end) \cup {k} /\ IsInjective(Append(end, k))
         /\ EndsWith(Append(all, k), Append(end, k))
<1>1. Append(all, k) \in Seq(Key)
  BY AppendFacts
<1>2. /\ Append(end, k) \in Seq(Key) /\ Len(Append(end, k)) = Len(end) + 1
      /\ ToSet(Append(end, k)) = ToSet(end) \cup {k}
  BY AppendFacts
<1>3. IsInjective(Append(end, k))
  BY InjectiveAppend
<1>4. PICK start \in Seq(Key) : all = start \o end
  BY DEF EndsWith
<1>5. Append(start \o end, k) = start \o Append(end, k)
  BY ConcatAppends, Zenon
<1>6. EndsWith(Append(all, k), Append(end, k))
  BY <1>4, <1>5, Zenon DEF EndsWith
<1> QED
  BY <1>1, <1>2, <1>3, <1>6, Zenon

LEMMA EndOfEnd ==
  ASSUME NEW all \in Seq(Key), NEW middle \in Seq(Key), NEW end \in Seq(Key),
         EndsWith(all, middle), EndsWith(middle, end)
  PROVE  EndsWith(all, end)
<1>1. PICK s1 \in Seq(Key) : all = s1 \o middle
  BY DEF EndsWith
<1>2. PICK s2 \in Seq(Key) : middle = s2 \o end
  BY DEF EndsWith
<1>3. s1 \o s2 \in Seq(Key) /\ (s1 \o s2) \o end = s1 \o (s2 \o end)
  BY ConcatAssociates
<1> QED
  BY <1>1, <1>2, <1>3, Zenon DEF EndsWith

LEMMA MovedKeeps ==
  ASSUME CacheInv, NEW k \in Key
  PROVE  /\ Moved(order, k) \in Seq(Key) /\ Moved(touched, k) \in Seq(Key)
         /\ ToSet(Moved(order, k)) = ToSet(order) \cup {k}
         /\ IsInjective(Moved(order, k))
         /\ EndsWith(Moved(touched, k), Moved(order, k))
<1> DEFINE end == Without(order, {k})
           all == Without(touched, {k})
<1>1. /\ end \in Seq(Key) /\ all \in Seq(Key)
      /\ ToSet(end) = ToSet(order) \ {k} /\ IsInjective(end)
      /\ EndsWith(all, end)
  BY WithoutKeeps
<1>2. Moved(order, k) = Append(end, k) /\ Moved(touched, k) = Append(all, k)
  BY DEF Moved
<1> HIDE DEF end, all
<1>3. k \notin ToSet(end)
  BY <1>1
<1>4. /\ Append(all, k) \in Seq(Key) /\ Append(end, k) \in Seq(Key)
      /\ ToSet(Append(end, k)) = ToSet(end) \cup {k} /\ IsInjective(Append(end, k))
      /\ EndsWith(Append(all, k), Append(end, k))
  BY <1>1, <1>3, AppendKeeps
<1>5. ToSet(end) \cup {k} = ToSet(order) \cup {k}
  BY <1>1
<1> QED
  BY <1>2, <1>4, <1>5, Zenon

\* Drop() is one step of all three.
LEMMA DropKeeps ==
  ASSUME CacheInv, NEW keys, Drop(keys),
         client' \in [Client -> [at : {"idle", "asking", "answered", "evicted"}, key : Key]]
  PROVE  CacheInv'
<1>1. /\ order' = Without(order, keys) /\ touched' = Without(touched, keys)
      /\ DOMAIN entries' = DOMAIN entries \ keys
  BY DEF Drop, Live, Restrict
<1>2. /\ order' \in Seq(Key) /\ touched' \in Seq(Key)
      /\ ToSet(order') = ToSet(order) \ keys
      /\ IsInjective(order') /\ Len(order') <= Len(order)
      /\ EndsWith(touched', order')
  BY <1>1, WithoutKeeps
<1>3. Len(order') \in Nat /\ Len(order) \in Nat /\ Len(order) <= Room + 1 /\ Room \in Nat
  BY <1>2, CachesAssumption DEF CacheInv, Room
<1>4. Len(order') <= Room + 1
  BY <1>2, <1>3
<1>5. ToSet(order)' = DOMAIN entries'
  BY <1>1, <1>2 DEF CacheInv
<1> QED
  BY <1>2, <1>4, <1>5 DEF CacheInv, EndsWith, Room

LEMMA InitCacheInv == CacheInit => CacheInv
<1> SUFFICES ASSUME CacheInit PROVE CacheInv
  OBVIOUS
<1>1. <<>> \in Seq(Key) /\ Len(<<>>) = 0 /\ ToSet(<<>>) = {} /\ IsInjective(<<>>)
      /\ DOMAIN <<>> = {} /\ <<>> = <<>> \o <<>>
  BY DEF ToSet, IsInjective
<1>2. Room \in Nat
  BY CachesAssumption DEF Room
<1>3. Idle \in [at : {"idle", "asking", "answered", "evicted"}, key : Key]
  BY CachesAssumption DEF Idle
<1>4. entries = <<>> /\ order = <<>> /\ touched = <<>> /\ client = [c \in Client |-> Idle]
  BY DEF CacheInit
<1>5. EndsWith(touched, order)
  BY <1>1, <1>4, Zenon DEF EndsWith
<1>6. Len(order) <= Room + 1
  BY <1>1, <1>2, <1>4
<1>7. ToSet(order) = DOMAIN entries
  BY <1>1, <1>4, Zenon
<1> QED
  BY <1>1, <1>3, <1>4, <1>5, <1>6, <1>7 DEF CacheInv

LEMMA HitKeeps ==
  ASSUME CacheInv, NEW k \in Key, Hit(k)
  PROVE  CacheInv'
<1>1. k \in DOMAIN entries /\ UNCHANGED <<entries, client>>
  BY DEF Hit
<1>2. CASE store = "lru"
  <2>1. order' = Moved(order, k) /\ touched' = Moved(touched, k)
    BY <1>2 DEF Hit, Refresh
  <2>2. /\ order' \in Seq(Key) /\ touched' \in Seq(Key)
        /\ ToSet(order') = ToSet(order) \cup {k}
        /\ IsInjective(order')
        /\ EndsWith(touched', order')
    BY <2>1, MovedKeeps
  <2>3. ToSet(order') = ToSet(order)
    BY <1>1, <2>2 DEF CacheInv
  <2>4. Len(order') = Len(order)
    <3>1. Cardinality(ToSet(order')) = Len(order')
      BY <2>2, InjectiveLength
    <3>2. Cardinality(ToSet(order)) = Len(order)
      BY InjectiveLength DEF CacheInv
    <3> QED
      BY <2>3, <3>1, <3>2
  <2> QED
    BY <1>1, <2>2, <2>3, <2>4 DEF CacheInv, EndsWith, Room
<1>3. CASE store # "lru"
  <2>1. UNCHANGED <<order, touched>>
    BY <1>3 DEF Hit
  <2> QED
    BY <1>1, <2>1 DEF CacheInv, EndsWith, Room
<1> QED
  BY <1>2, <1>3

LEMMA PutKeeps ==
  ASSUME CacheInv, NEW c \in Client, Put(c)
  PROVE  CacheInv'
<1> DEFINE k == client[c].key
           others == Without(order, {k})
           excess == Cardinality(DOMAIN entries) - Room
           n == IF excess > 0 THEN excess + 1 ELSE 1
<1>1. /\ k \in Key
      /\ client' \in [Client -> [at : {"idle", "asking", "answered", "evicted"}, key : Key]]
  BY CachesAssumption DEF CacheInv, Put, Idle
<1>2. /\ order' = Append(Kept(k), k)
      /\ DOMAIN entries' = ToSet(Kept(k)) \cup {k}
      /\ touched' = Append(Without(touched, {k}), k)
  BY DEF Put, Moved
<1>3. /\ others \in Seq(Key) /\ Without(touched, {k}) \in Seq(Key)
      /\ ToSet(others) = ToSet(order) \ {k}
      /\ IsInjective(others) /\ Len(others) <= Len(order)
      /\ EndsWith(Without(touched, {k}), others)
  BY WithoutKeeps
<1>4. Cardinality(DOMAIN entries) = Len(order) /\ Len(order) \in Nat /\ Len(order) <= Room + 1
  <2>1. order \in Seq(Key) /\ IsInjective(order) /\ ToSet(order) = DOMAIN entries
    BY DEF CacheInv
  <2> QED
    BY <2>1, InjectiveLength DEF CacheInv
<1>5. Room \in Nat
  BY CachesAssumption DEF Room
<1>6. n \in Nat \ {0}
  BY <1>4, <1>5
<1>7. Kept(k) = SubSeq(others, n, Len(others))
  BY Zenon DEF Kept
<1> HIDE DEF k, others
<1> DEFINE kept == Kept(k)
           all == Without(touched, {k})
<1> HIDE DEF n, kept, all
<1>8. /\ kept \in Seq(Key)
      /\ Len(kept) = IF n <= Len(others) THEN Len(others) - n + 1 ELSE 0
      /\ ToSet(kept) \subseteq ToSet(others)
      /\ IsInjective(kept)
      /\ EndsWith(others, kept)
  <2>1. kept = SubSeq(others, n, Len(others))
    BY <1>7 DEF kept
  <2> QED
    BY <1>3, <1>6, <2>1, TailFacts, Zenon
<1>9. Len(kept) <= Room /\ Len(kept) \in Nat
  <2>1. Len(others) \in Nat
    BY <1>3
  <2> QED
    BY <1>3, <1>4, <1>5, <1>8, <2>1 DEF n
<1>10. all \in Seq(Key) /\ EndsWith(all, others)
  BY <1>3 DEF all
<1>11. k \notin ToSet(kept) /\ EndsWith(all, kept)
  BY <1>3, <1>8, <1>10, EndOfEnd
<1>12. order' = Append(kept, k) /\ touched' = Append(all, k) /\ DOMAIN entries' = ToSet(kept) \cup {k}
  BY <1>2 DEF kept, all
<1>13. /\ Append(all, k) \in Seq(Key) /\ Append(kept, k) \in Seq(Key)
       /\ Len(Append(kept, k)) = Len(kept) + 1
       /\ ToSet(Append(kept, k)) = ToSet(kept) \cup {k} /\ IsInjective(Append(kept, k))
       /\ EndsWith(Append(all, k), Append(kept, k))
  BY <1>1, <1>8, <1>10, <1>11, AppendKeeps
<1>14. Len(kept) + 1 <= Room + 1
  BY <1>5, <1>9
<1>15. Room' = Room
  BY DEF Room
<1>16. /\ order' \in Seq(Key) /\ touched' \in Seq(Key) /\ ToSet(order') = DOMAIN entries'
       /\ Len(order') <= Room + 1
       /\ IsInjective(order') /\ EndsWith(touched', order')
  BY <1>12, <1>13, <1>14, Zenon
<1> QED
  BY <1>1, <1>15, <1>16 DEF CacheInv, EndsWith

LEMMA NextCacheInv == CacheInv /\ [CacheNext]_cacheVars => CacheInv'
<1> DEFINE Clients == [Client -> [at : {"idle", "asking", "answered", "evicted"}, key : Key]]
<1> SUFFICES ASSUME CacheInv, [CacheNext]_cacheVars PROVE CacheInv'
  OBVIOUS
<1>0. client \in Clients
  BY DEF CacheInv
<1>1. CASE UNCHANGED <<entries, order, touched>> /\ client' \in Clients
  BY <1>1 DEF CacheInv, EndsWith, Room
<1>2. CASE UNCHANGED cacheVars
  BY <1>0, <1>1, <1>2 DEF cacheVars
<1>3. ASSUME NEW c \in Client, NEW k \in Key, Lookup(c, k) PROVE CacheInv'
  <2>1. ASSUME Hit(k) PROVE CacheInv'
    BY <2>1, HitKeeps
  <2>2. ASSUME Miss(c, k) PROVE CacheInv'
    <3>1. client' \in Clients
      BY <1>0, <2>2 DEF Miss
    <3> QED
      BY <2>2, <3>1, DropKeeps DEF Miss
  <2> QED
    BY <1>3, <2>1, <2>2 DEF Lookup
<1>4. ASSUME NEW c \in Client, Fetched(c) PROVE CacheInv'
  <2>1. Idle \in [at : {"idle", "asking", "answered", "evicted"}, key : Key]
    BY CachesAssumption DEF Idle
  <2>2. client' \in Clients
    BY <1>0, <1>4, <2>1 DEF Fetched
  <2> QED
    BY <1>1, <1>4, <2>2 DEF Fetched
<1>5. ASSUME NEW c \in Client, EvictExpired(c) PROVE CacheInv'
  <2>1. client' \in Clients
    BY <1>0, <1>5 DEF EvictExpired
  <2> QED
    BY <1>5, <2>1, DropKeeps DEF EvictExpired
<1>6. ASSUME NEW c \in Client, Put(c) PROVE CacheInv'
  BY <1>6, PutKeeps
<1>7. CASE RemoveKeys
  <2>1. PICK keys \in {{k} : k \in Key} \cup {Key} : Drop(keys) /\ client' = client
    BY <1>7 DEF RemoveKeys
  <2> QED
    BY <1>0, <2>1, DropKeeps
<1>8. CASE Tick
  BY <1>0, <1>1, <1>8 DEF Tick
<1> QED
  BY <1>2, <1>3, <1>4, <1>5, <1>6, <1>7, <1>8 DEF CacheNext

LEMMA SameStart ==
  ASSUME NEW p \in Seq(Key), NEW q \in Seq(Key), Len(p) <= Len(q),
         \A i \in 1 .. Len(p) : p[i] = q[i]
  PROVE  SubSeq(p, 1, Len(p)) = SubSeq(q, 1, Len(p))
  OBVIOUS

LEMMA EndsWithIsSuffix ==
  ASSUME NEW start \in Seq(Key), NEW end \in Seq(Key)
  PROVE  IsSuffix(end, start \o end)
<1> DEFINE all == start \o end
<1>1. /\ all \in Seq(Key) /\ Len(all) = Len(start) + Len(end) /\ Len(start) \in Nat /\ Len(end) \in Nat
      /\ \A i \in 1 .. Len(end) : all[Len(start) + i] = end[i]
  OBVIOUS
<1>2. /\ Reverse(end) \in Seq(Key) /\ Len(Reverse(end)) = Len(end)
      /\ \A i \in 1 .. Len(end) : Reverse(end)[i] = end[Len(end) - i + 1]
  BY ReverseFacts
<1> HIDE DEF all
<1>3. /\ Reverse(all) \in Seq(Key) /\ Len(Reverse(all)) = Len(all)
      /\ \A i \in 1 .. Len(all) : Reverse(all)[i] = all[Len(all) - i + 1]
  BY <1>1, ReverseFacts
<1>4. ASSUME NEW i \in 1 .. Len(end) PROVE Reverse(end)[i] = Reverse(all)[i]
  <2>1. i \in 1 .. Len(all) /\ Len(end) - i + 1 \in 1 .. Len(end)
        /\ Len(all) - i + 1 = Len(start) + (Len(end) - i + 1)
    BY <1>1
  <2> QED
    BY <1>1, <1>2, <1>3, <2>1
<1>5. Len(Reverse(end)) <= Len(Reverse(all))
  BY <1>1, <1>2, <1>3
<1>6. SubSeq(Reverse(end), 1, Len(Reverse(end))) = SubSeq(Reverse(all), 1, Len(Reverse(end)))
  BY <1>2, <1>3, <1>4, <1>5, SameStart
<1> QED
  BY <1>5, <1>6 DEF IsSuffix, IsPrefix, all

\* Whatever the interleaving of lookups, answers, expiry and eviction, the map and the order
\* of a store agree, stay within the size, and hold the keys used last in the order of use.
THEOREM CachesKeepRecent == CacheSpec => []CacheKeepsRecent
<1>1. CacheInit => CacheInv
  BY InitCacheInv
<1>2. CacheInv /\ [CacheNext]_cacheVars => CacheInv'
  BY NextCacheInv
<1>3. CacheInv => CacheKeepsRecent
  BY EndsWithIsSuffix DEF CacheInv, EndsWith, CacheKeepsRecent
<1> QED
  BY <1>1, <1>2, <1>3, PTL DEF CacheSpec

-----------------------------------------------------------------------------
(* CircuitBreaker.                                                         *)

Stage ==
  {"idle", "check", "age", "to_half", "stamp_half", "reset_probes", "count_probe", "calling",
   "s_count", "s_state", "s_load", "s_clear", "f_clear", "p_clear", "to_closed",
   "stamp_closed", "window", "window_clear",
   "f_count", "f_stamp", "f_state", "f_load", "to_open", "stamp_open"}

BreakerTypeOK ==
  /\ hazards \subseteq Hazard
  /\ where \in [Task -> Stage]
  /\ state \in {"Closed", "Open", "HalfOpen"}
  /\ failures \in Nat /\ successes \in 0 .. SuccessThreshold /\ probes \in Nat
  /\ due \in BOOLEAN /\ quiet \in BOOLEAN

\* What the state is while a call is at s, when no other call can change it.
StateAt(s) ==
  /\ s \in {"age", "to_half", "stamp_open"} => state = "Open"
  /\ s \in {"stamp_half", "reset_probes", "count_probe", "s_load"} => state = "HalfOpen"
  /\ s \in {"f_load", "stamp_closed"} => state = "Closed"
  /\ s \in {"window", "window_clear"} => state # "HalfOpen"

\* Failures at the threshold are about to open the circuit, or to be cleared.
FailuresAt(s) ==
  /\ state = "Closed" /\ s \notin {"f_stamp", "f_state", "f_load", "to_open"} =>
       failures < FailureThreshold
  /\ s \in {"p_clear", "to_closed"} => failures = 0

\* Every probe let in has its success counted, but for the one on its way.
ProbesAt(s) ==
  state = "HalfOpen" =>
    /\ s \in {"idle", "check", "count_probe"} => probes < MaxProbes /\ probes <= successes
    /\ s \in {"calling", "s_count"} => probes <= successes + 1
    /\ s \in {"s_state", "s_load"} => probes <= successes \/ successes = SuccessThreshold

SafeAt(p) ==
  /\ StateAt(where[p]) /\ FailuresAt(where[p])
  /\ hazards = {} /\ SuccessThreshold <= MaxProbes => ProbesAt(where[p])

Alone(p) == \A q \in Task \ {p} : where[q] = "idle"

OneAtATime == \A p, q \in Task : p = q \/ where[p] = "idle" \/ where[q] = "idle"

BreakerInv ==
  /\ BreakerTypeOK
  /\ "concurrent" \notin hazards =>
       OneAtATime /\ \A p \in Task : Alone(p) => SafeAt(p)

-----------------------------------------------------------------------------
(* Each step of a call that is alone.                                      *)

\* What every step of p leaves alone.
OnlyMoves(p) ==
  /\ \A q \in Task \ {p} : where'[q] = where[q]
  /\ hazards' = hazards

LEMMA InvokeStep ==
  ASSUME BreakerTypeOK, NEW p \in Task, InvokeFilter(p)
  PROVE  BreakerTypeOK' /\ OnlyMoves(p) /\ (SafeAt(p) => SafeAt(p)')
<1>1. /\ where[p] = "idle" /\ where'[p] = "check" /\ where' \in [Task -> Stage]
      /\ OnlyMoves(p)
  BY DEF InvokeFilter, At, GoTo, BreakerTypeOK, Stage, OnlyMoves
<1>2. BreakerTypeOK'
  BY <1>1 DEF InvokeFilter, BreakerTypeOK, counters, clocks
<1>3. SafeAt(p) => SafeAt(p)'
  BY <1>1 DEF InvokeFilter, SafeAt, StateAt, FailuresAt, ProbesAt, counters
<1> QED
  BY <1>1, <1>2, <1>3

LEMMA CallStep ==
  ASSUME BreakerTypeOK, NEW p \in Task, NextReturns(p) \/ Cancel(p)
  PROVE  BreakerTypeOK' /\ OnlyMoves(p) /\ (SafeAt(p) => SafeAt(p)')
<1>1. /\ where[p] = "calling" /\ where'[p] \in {"s_count", "f_count", "idle"}
      /\ where'[p] = "idle" => hazards # {}
      /\ where' \in [Task -> Stage]
      /\ OnlyMoves(p)
  BY DEF NextReturns, Cancel, At, GoTo, BreakerTypeOK, Stage, OnlyMoves
<1>2. UNCHANGED <<hazards, state, failures, successes, probes, due, quiet>>
  BY DEF NextReturns, Cancel, counters, clocks
<1>3. BreakerTypeOK'
  BY <1>1, <1>2 DEF BreakerTypeOK
<1>4. SafeAt(p) => SafeAt(p)'
  BY <1>1, <1>2 DEF SafeAt, StateAt, FailuresAt, ProbesAt
<1> QED
  BY <1>1, <1>3, <1>4

LEMMA PermitSafe ==
  ASSUME BreakerTypeOK, NEW p \in Task, PermitStep(p)
  PROVE  BreakerTypeOK' /\ OnlyMoves(p) /\ (SafeAt(p) => SafeAt(p)')
<1> USE BreakerAssumption DEF At, GoTo, Stage, OnlyMoves, counters, clocks
<1>1. CASE CheckState(p)
  <2>1. where' \in [Task -> Stage] /\ OnlyMoves(p)
    BY <1>1 DEF CheckState, BreakerTypeOK
  <2>2. BreakerTypeOK'
    BY <1>1, <2>1 DEF CheckState, BreakerTypeOK
  <2>3. SafeAt(p) => SafeAt(p)'
    BY <1>1 DEF CheckState, BreakerTypeOK, SafeAt, StateAt, FailuresAt, ProbesAt
  <2> QED
    BY <2>1, <2>2, <2>3
<1>2. CASE CheckAge(p)
  <2>1. where' \in [Task -> Stage] /\ OnlyMoves(p)
    BY <1>2 DEF CheckAge, BreakerTypeOK
  <2>2. BreakerTypeOK'
    BY <1>2, <2>1 DEF CheckAge, BreakerTypeOK
  <2>3. SafeAt(p) => SafeAt(p)'
    BY <1>2 DEF CheckAge, BreakerTypeOK, SafeAt, StateAt, FailuresAt, ProbesAt
  <2> QED
    BY <2>1, <2>2, <2>3
<1>3. CASE ToHalfOpen(p)
  <2>1. where' \in [Task -> Stage] /\ OnlyMoves(p)
    BY <1>3 DEF ToHalfOpen, WriteState, WriteStamp, BreakerTypeOK
  <2>2. BreakerTypeOK'
    BY <1>3, <2>1 DEF ToHalfOpen, WriteState, WriteStamp, BreakerTypeOK
  <2>3. SafeAt(p) => SafeAt(p)'
    BY <1>3 DEF ToHalfOpen, WriteState, WriteStamp, BreakerTypeOK, SafeAt, StateAt, FailuresAt, ProbesAt
  <2> QED
    BY <2>1, <2>2, <2>3
<1>4. CASE ResetProbes(p)
  <2>1. where' \in [Task -> Stage] /\ OnlyMoves(p)
    BY <1>4 DEF ResetProbes, BreakerTypeOK
  <2>2. BreakerTypeOK'
    BY <1>4, <2>1 DEF ResetProbes, BreakerTypeOK
  <2>3. SafeAt(p) => SafeAt(p)'
    BY <1>4 DEF ResetProbes, BreakerTypeOK, SafeAt, StateAt, FailuresAt, ProbesAt
  <2> QED
    BY <2>1, <2>2, <2>3
<1>5. CASE CountProbe(p)
  <2>1. where' \in [Task -> Stage] /\ OnlyMoves(p)
    BY <1>5 DEF CountProbe, BreakerTypeOK
  <2>2. BreakerTypeOK'
    BY <1>5, <2>1 DEF CountProbe, Count, BreakerTypeOK
  <2>3. SafeAt(p) => SafeAt(p)'
    BY <1>5 DEF CountProbe, Count, BreakerTypeOK, SafeAt, StateAt, FailuresAt, ProbesAt
  <2> QED
    BY <2>1, <2>2, <2>3
<1> QED
  BY <1>1, <1>2, <1>3, <1>4, <1>5 DEF PermitStep

LEMMA SuccessSafe ==
  ASSUME BreakerTypeOK, NEW p \in Task, SuccessStep(p)
  PROVE  BreakerTypeOK' /\ OnlyMoves(p) /\ (SafeAt(p) => SafeAt(p)')
<1> USE BreakerAssumption DEF At, GoTo, Stage, OnlyMoves, counters, clocks
<1>1. CASE CountSuccess(p)
  <2>1. where' \in [Task -> Stage] /\ OnlyMoves(p)
    BY <1>1 DEF CountSuccess, BreakerTypeOK
  <2>2. BreakerTypeOK'
    BY <1>1, <2>1 DEF CountSuccess, Count, BreakerTypeOK
  <2>3. SafeAt(p) => SafeAt(p)'
    BY <1>1 DEF CountSuccess, Count, BreakerTypeOK, SafeAt, StateAt, FailuresAt, ProbesAt
  <2> QED
    BY <2>1, <2>2, <2>3
<1>2. CASE SuccessState(p)
  <2>1. where' \in [Task -> Stage] /\ OnlyMoves(p)
    BY <1>2 DEF SuccessState, BreakerTypeOK
  <2>2. BreakerTypeOK'
    BY <1>2, <2>1 DEF SuccessState, BreakerTypeOK
  <2>3. SafeAt(p) => SafeAt(p)'
    BY <1>2 DEF SuccessState, BreakerTypeOK, SafeAt, StateAt, FailuresAt, ProbesAt
  <2> QED
    BY <2>1, <2>2, <2>3
<1>3. CASE EnoughSuccesses(p)
  <2>1. where' \in [Task -> Stage] /\ OnlyMoves(p)
    BY <1>3 DEF EnoughSuccesses, BreakerTypeOK
  <2>2. BreakerTypeOK'
    BY <1>3, <2>1 DEF EnoughSuccesses, BreakerTypeOK
  <2>3. SafeAt(p) => SafeAt(p)'
    BY <1>3 DEF EnoughSuccesses, BreakerTypeOK, SafeAt, StateAt, FailuresAt, ProbesAt
  <2> QED
    BY <2>1, <2>2, <2>3
<1>4. CASE ClearCounters(p)
  <2>1. where' \in [Task -> Stage] /\ OnlyMoves(p)
    BY <1>4 DEF ClearCounters, Clear, BreakerTypeOK
  <2>2. BreakerTypeOK'
    BY <1>4, <2>1 DEF ClearCounters, Clear, BreakerTypeOK
  <2>3. SafeAt(p) => SafeAt(p)'
    BY <1>4 DEF ClearCounters, Clear, BreakerTypeOK, SafeAt, StateAt, FailuresAt, ProbesAt
  <2> QED
    BY <2>1, <2>2, <2>3
<1>5. CASE ToClosed(p)
  <2>1. where' \in [Task -> Stage] /\ OnlyMoves(p)
    BY <1>5 DEF ToClosed, WriteState, WriteStamp, BreakerTypeOK
  <2>2. BreakerTypeOK'
    BY <1>5, <2>1 DEF ToClosed, WriteState, WriteStamp, BreakerTypeOK
  <2>3. SafeAt(p) => SafeAt(p)'
    BY <1>5 DEF ToClosed, WriteState, WriteStamp, BreakerTypeOK, SafeAt, StateAt, FailuresAt, ProbesAt
  <2> QED
    BY <2>1, <2>2, <2>3
<1>6. CASE ResetWindow(p)
  <2>1. where' \in [Task -> Stage] /\ OnlyMoves(p)
    BY <1>6 DEF ResetWindow, BreakerTypeOK
  <2>2. BreakerTypeOK'
    BY <1>6, <2>1 DEF ResetWindow, BreakerTypeOK
  <2>3. SafeAt(p) => SafeAt(p)'
    BY <1>6 DEF ResetWindow, BreakerTypeOK, SafeAt, StateAt, FailuresAt, ProbesAt
  <2> QED
    BY <2>1, <2>2, <2>3
<1> QED
  BY <1>1, <1>2, <1>3, <1>4, <1>5, <1>6 DEF SuccessStep

LEMMA FailureSafe ==
  ASSUME BreakerTypeOK, NEW p \in Task, FailureStep(p)
  PROVE  BreakerTypeOK' /\ OnlyMoves(p) /\ (SafeAt(p) => SafeAt(p)')
<1> USE BreakerAssumption DEF At, GoTo, Stage, OnlyMoves, counters, clocks
<1>1. CASE CountFailure(p)
  <2>1. where' \in [Task -> Stage] /\ OnlyMoves(p)
    BY <1>1 DEF CountFailure, BreakerTypeOK
  <2>2. BreakerTypeOK'
    BY <1>1, <2>1 DEF CountFailure, Count, BreakerTypeOK
  <2>3. SafeAt(p) => SafeAt(p)'
    BY <1>1 DEF CountFailure, Count, BreakerTypeOK, SafeAt, StateAt, FailuresAt, ProbesAt
  <2> QED
    BY <2>1, <2>2, <2>3
<1>2. CASE StampFailure(p)
  <2>1. where' \in [Task -> Stage] /\ OnlyMoves(p)
    BY <1>2 DEF StampFailure, BreakerTypeOK
  <2>2. BreakerTypeOK'
    BY <1>2, <2>1 DEF StampFailure, BreakerTypeOK
  <2>3. SafeAt(p) => SafeAt(p)'
    BY <1>2 DEF StampFailure, BreakerTypeOK, SafeAt, StateAt, FailuresAt, ProbesAt
  <2> QED
    BY <2>1, <2>2, <2>3
<1>3. CASE FailureState(p)
  <2>1. where' \in [Task -> Stage] /\ OnlyMoves(p)
    BY <1>3 DEF FailureState, BreakerTypeOK
  <2>2. BreakerTypeOK'
    BY <1>3, <2>1 DEF FailureState, BreakerTypeOK
  <2>3. SafeAt(p) => SafeAt(p)'
    BY <1>3 DEF FailureState, BreakerTypeOK, SafeAt, StateAt, FailuresAt, ProbesAt
  <2> QED
    BY <2>1, <2>2, <2>3
<1>4. CASE TooManyFailures(p)
  <2>1. where' \in [Task -> Stage] /\ OnlyMoves(p)
    BY <1>4 DEF TooManyFailures, BreakerTypeOK
  <2>2. BreakerTypeOK'
    BY <1>4, <2>1 DEF TooManyFailures, BreakerTypeOK
  <2>3. SafeAt(p) => SafeAt(p)'
    BY <1>4 DEF TooManyFailures, BreakerTypeOK, SafeAt, StateAt, FailuresAt, ProbesAt
  <2> QED
    BY <2>1, <2>2, <2>3
<1>5. CASE ToOpen(p)
  <2>1. where' \in [Task -> Stage] /\ OnlyMoves(p)
    BY <1>5 DEF ToOpen, WriteState, WriteStamp, BreakerTypeOK
  <2>2. BreakerTypeOK'
    BY <1>5, <2>1 DEF ToOpen, WriteState, WriteStamp, BreakerTypeOK
  <2>3. SafeAt(p) => SafeAt(p)'
    BY <1>5 DEF ToOpen, WriteState, WriteStamp, BreakerTypeOK, SafeAt, StateAt, FailuresAt, ProbesAt
  <2> QED
    BY <2>1, <2>2, <2>3
<1> QED
  BY <1>1, <1>2, <1>3, <1>4, <1>5 DEF FailureStep

-----------------------------------------------------------------------------

\* A step of a call that is the only one keeps the invariant for every caller: the
\* others are idle before it and after it.
LEMMA StepBreakerInv ==
  ASSUME BreakerInv, BreakerTypeOK', NEW p \in Task, OnlyMoves(p), SafeAt(p) => SafeAt(p)',
         "concurrent" \notin hazards => Alone(p)
  PROVE  BreakerInv'
<1> SUFFICES ASSUME "concurrent" \notin hazards'
             PROVE  OneAtATime' /\ (\A q \in Task : Alone(q) => SafeAt(q))'
  BY DEF BreakerInv
<1>1. \A q \in Task \ {p} : where'[q] = "idle"
  BY DEF OnlyMoves, Alone
<1>2. OneAtATime'
  BY <1>1 DEF OneAtATime
<1>3. SafeAt(p)'
  BY DEF BreakerInv, OnlyMoves
<1>4. ASSUME NEW q \in Task, Alone(q)' PROVE SafeAt(q)'
  <2>1. CASE q = p
    BY <1>3, <2>1
  <2>2. CASE q # p
    <3>1. where'[p] = where'[q]
      BY <1>1, <1>4, <2>2 DEF Alone
    <3> QED
      BY <1>3, <3>1 DEF SafeAt, StateAt, FailuresAt, ProbesAt
  <2> QED
    BY <2>1, <2>2
<1> QED
  BY <1>2, <1>4

LEMMA InitBreakerInv == BreakerInit => BreakerInv
<1> SUFFICES ASSUME BreakerInit PROVE BreakerInv
  OBVIOUS
<1>1. BreakerTypeOK
  <2>1. due \in BOOLEAN /\ quiet \in BOOLEAN
    BY DEF BreakerInit
  <2>2. where \in [Task -> Stage] /\ hazards \subseteq Hazard
    BY DEF BreakerInit, Stage
  <2>3. failures \in Nat /\ successes \in 0 .. SuccessThreshold /\ probes \in Nat
    BY BreakerAssumption DEF BreakerInit
  <2> QED
    BY <2>1, <2>2, <2>3 DEF BreakerInit, BreakerTypeOK
<1>2. OneAtATime
  BY DEF BreakerInit, OneAtATime
<1>3. \A p \in Task : SafeAt(p)
  BY BreakerAssumption DEF BreakerInit, SafeAt, StateAt, FailuresAt, ProbesAt
<1> QED
  BY <1>1, <1>2, <1>3 DEF BreakerInv

LEMMA NextBreakerInv == BreakerInv /\ [BreakerNext]_breakerVars => BreakerInv'
<1> SUFFICES ASSUME BreakerInv, [BreakerNext]_breakerVars PROVE BreakerInv'
  OBVIOUS
<1>0. BreakerTypeOK
  BY DEF BreakerInv
<1>1. ASSUME NEW p \in Task, InvokeFilter(p) PROVE BreakerInv'
  <2>1. "concurrent" \notin hazards => Alone(p)
    BY <1>1 DEF InvokeFilter, Quiescent, Alone
  <2> QED
    BY <1>0, <1>1, <2>1, InvokeStep, StepBreakerInv
<1>2. ASSUME NEW p \in Task, NextReturns(p) \/ Cancel(p) \/ Run(p) PROVE BreakerInv'
  <2>1. where[p] # "idle"
    BY <1>2 DEF NextReturns, Cancel, Run, At, PermitStep, CheckState, CheckAge, ToHalfOpen,
       ResetProbes, CountProbe, WriteState, WriteStamp, SuccessStep, CountSuccess,
       SuccessState, EnoughSuccesses, ClearCounters, Clear, ToClosed, ResetWindow,
       FailureStep, CountFailure, StampFailure, FailureState, TooManyFailures, ToOpen
  <2>2. "concurrent" \notin hazards => Alone(p)
    BY <2>1 DEF BreakerInv, OneAtATime, Alone
  <2>3. BreakerTypeOK' /\ OnlyMoves(p) /\ (SafeAt(p) => SafeAt(p)')
    BY <1>0, <1>2, CallStep, PermitSafe, SuccessSafe, FailureSafe DEF Run
  <2> QED
    BY <2>2, <2>3, StepBreakerInv
<1>3. CASE RecoveryElapses \/ WindowElapses \/ UNCHANGED breakerVars
  <2>1. UNCHANGED <<hazards, where, state, failures, successes, probes>>
    BY <1>3 DEF RecoveryElapses, WindowElapses, breakerVars, counters
  <2>2. BreakerTypeOK'
    BY <1>0, <1>3, <2>1 DEF RecoveryElapses, WindowElapses, breakerVars, clocks, BreakerTypeOK
  <2> QED
    BY <2>1, <2>2
    DEF BreakerInv, OneAtATime, Alone, SafeAt, StateAt, FailuresAt, ProbesAt
<1> QED
  BY <1>1, <1>2, <1>3 DEF BreakerNext

LEMMA AlwaysBreakerInv == BreakerSpec => []BreakerInv
BY InitBreakerInv, NextBreakerInv, PTL DEF BreakerSpec

\* At rest some caller is alone, and at "idle".
LEMMA AtRest ==
  ASSUME BreakerInv, "concurrent" \notin hazards, Quiescent
  PROVE  \E p \in Task : where[p] = "idle" /\ SafeAt(p)
<1>1. PICK p \in Task : TRUE
  BY BreakerAssumption
<1>2. Alone(p) /\ where[p] = "idle"
  BY DEF Quiescent, Alone
<1> QED
  BY <1>2 DEF BreakerInv

-----------------------------------------------------------------------------

\* When calls do not overlap (dropped or not), the breaker at rest is never closed
\* with as many failures as the threshold, whatever the thresholds.
THEOREM OpensAtThreshold == BreakerSpec => []ClosedBelowThreshold
<1>1. BreakerInv => ClosedBelowThreshold
  BY AtRest DEF ClosedBelowThreshold, SafeAt, FailuresAt
<1> QED
  BY <1>1, AlwaysBreakerInv, PTL

\* When calls neither overlap nor are dropped, the half-open breaker at rest lets
\* another probe in, provided that it may let in as many as must succeed.
THEOREM HalfOpenAdmits == BreakerSpec => []HalfOpenHasRoom
<1>1. BreakerInv => HalfOpenHasRoom
  BY AtRest DEF HalfOpenHasRoom, SafeAt, ProbesAt
<1> QED
  BY <1>1, AlwaysBreakerInv, PTL
-----------------------------------------------------------------------------
(* Filters.                                                                *)

\* The attachments of a context: those of the caller, and a signature with its key.
AttachmentsOK(a) ==
  /\ DOMAIN a = {"token", "ak", "signature", "timestamp", "internal"}
  /\ a.token = origin.token
  /\ a.ak \in {Unset, "ours"}
  /\ a.ak = "ours" => /\ a.timestamp \in Nat /\ a.timestamp <= clock
                      /\ a.signature = SignatureOf(a.timestamp)

FilterTypeOK ==
  /\ config \in [client : BOOLEAN, cluster : BOOLEAN, filters : Seq(Filter)]
  /\ exported \in Seq(Filter)
  /\ ~config.client => invoker = "chain"
  /\ DOMAIN ctx = Side
  /\ AttachmentsOK(ctx["consumer"])
  /\ side = "provider" => AttachmentsOK(ctx["provider"])
  /\ side \in Side
  /\ place \in 0 .. Len(Chain(side)) + 1 /\ (phase = "in" => place > 0)
  /\ phase \in {"idle", "in", "out"}
  /\ clock \in Nat
  /\ served \in Seq({"yes", "no", "late"})
  /\ method \in Method

\* Where a call can be: only over a chain of FilterChain it comes to the provider.
WhereItIs ==
  /\ phase # "idle" => served # <<>>
  /\ phase = "in" => served[Latest] = "no"
  /\ phase = "idle" => side = "consumer" /\ place <= 1
  /\ config.client => /\ side = "consumer" /\ result # "undeclared"
                      /\ \A n \in 1 .. Latest : served[n] # "yes"

\* The filters the present attempt has passed on its way in.
Passed(s) ==
  IF served # <<>> /\ served[Latest] = "yes" THEN DOMAIN Chain(s)
  ELSE IF phase # "in" THEN {}
  ELSE IF side = s THEN 1 .. place - 1
  ELSE IF side = "provider" THEN DOMAIN Chain(s) ELSE {}

Lets(f) == /\ f = "echo" => method # "$echo"
           /\ f = "token" => origin.token = MyToken

\* What each of them has seen to.
PassedOK ==
  \A s \in Side : \A i \in Passed(s) :
    /\ Lets(Chain(s)[i])
    /\ Chain(s)[i] = "auth" /\ s = "consumer" =>
         /\ ctx["consumer"].ak = "ours"
         /\ Latest >= 2 /\ served[1] = "yes" => OwnKeyKnown
    /\ Chain(s)[i] = "context" =>
         /\ s = "consumer" => ctx["consumer"].internal = Unset
         /\ side = "provider" \/ served[Latest] = "yes" => ctx["provider"].internal = Unset

\* What a first attempt that came through says of a second one.
FirstTold ==
  served # <<>> /\ served[1] = "yes" =>
    /\ \A s \in Side : \A i \in DOMAIN Chain(s) : Lets(Chain(s)[i])
    /\ Has("consumer", "auth") => ctx["consumer"].ak = "ours"
    /\ Latest = 2 /\ ~SignsForGood /\ clock <= Tolerance /\ phase # "in" => served[2] # "no"

\* On its way out a result has met the filters behind its place.
ComingOut ==
  /\ phase = "out" /\ side = "consumer" =>
       \A i \in DOMAIN Chain("consumer") :
         i > place /\ Chain("consumer")[i] = "exception" => result # "undeclared"
  /\ phase = "idle" /\ Has("consumer", "exception") => result # "undeclared"

FilterInv == FilterTypeOK /\ WhereItIs /\ PassedOK /\ FirstTold /\ ComingOut
-----------------------------------------------------------------------------

LEMMA ChainFacts ==
  ASSUME FilterTypeOK
  PROVE  /\ \A s \in Side : /\ Chain(s) \in Seq(Filter) /\ Len(Chain(s)) \in Nat
                            /\ DOMAIN Chain(s) = 1 .. Len(Chain(s))
         /\ \A s, f : Has(s, f) <=> \E i \in DOMAIN Chain(s) : Chain(s)[i] = f
         /\ Side = {"consumer", "provider"} /\ side \in Side
<1>1. ASSUME NEW s \in Side PROVE Chain(s) \in Seq(Filter)
  BY DEF FilterTypeOK, Chain
<1>2. \A s, f : Has(s, f) <=> \E i \in DOMAIN Chain(s) : Chain(s)[i] = f
  BY DEF Has, ToSet
<1> QED
  BY <1>1, <1>2 DEF Side, FilterTypeOK

LEMMA ServedFacts ==
  ASSUME FilterTypeOK
  PROVE  /\ Latest \in Nat /\ (served # <<>> <=> Latest > 0)
         /\ \A n \in 1 .. Latest : served[n] \in {"yes", "no", "late"}
  BY DEF FilterTypeOK, Latest

\* The chains do not change while a call is under way.
LEMMA ChainStays ==
  ASSUME UNCHANGED <<config, exported, invoker>>
  PROVE  \A s : Chain(s)' = Chain(s) /\ \A f : Has(s, f)' = Has(s, f)
  BY DEF Chain, Has

LEMMA InitFilterInv ==
  FilterInit([client : BOOLEAN, cluster : BOOLEAN, filters : Seq(Filter)], Seq(Filter)) => FilterInv
<1> SUFFICES ASSUME FilterInit([client : BOOLEAN, cluster : BOOLEAN, filters : Seq(Filter)],
                               Seq(Filter))
             PROVE  FilterInv
  OBVIOUS
<1> USE DEF FilterInit
<1>1. AttachmentsOK(origin)
  BY FilterAssumption DEF NoAttachment, AttachmentsOK
<1>2. Len(Chain("consumer")) \in Nat
  BY DEF Chain
<1>3. FilterTypeOK
  BY <1>1, <1>2 DEF FilterTypeOK, Side
<1>4. WhereItIs
  BY FilterAssumption DEF WhereItIs, Latest
<1>5. PassedOK
  BY DEF PassedOK, Passed
<1>6. ComingOut
  BY FilterAssumption DEF ComingOut
<1> QED
  BY <1>3, <1>4, <1>5, <1>6 DEF FilterInv, FirstTold

\* A filter that lets a call pass, with the attachments it leaves.
LEMMA PassKeeps ==
  ASSUME FilterInv, NEW a, phase = "in", place <= Len(Chain(side)), Lets(Chain(side)[place]),
         AttachmentsOK(a),
         Chain(side)[place] = "auth" /\ side = "consumer" =>
           a.ak = "ours" /\ (Latest >= 2 /\ served[1] = "yes" => OwnKeyKnown),
         Chain(side)[place] = "context" => a.internal = Unset,
         ctx[side].internal = Unset => a.internal = Unset,
         ctx[side].ak = "ours" => a.ak = "ours",
         Pass(a),
         UNCHANGED <<side, served, config, exported, invoker, method, clock, origin>>
  PROVE  FilterInv'
<1> USE DEF FilterInv
<1>1. /\ \A s : Chain(s)' = Chain(s) /\ \A f : Has(s, f)' = Has(s, f)
      /\ Chain(side)' = Chain(side)
  BY ChainStays
<1>2. /\ place \in Nat /\ place > 0 /\ place' = place + 1
      /\ place \in DOMAIN Chain(side) /\ Len(Chain(side)) \in Nat
      /\ UNCHANGED <<phase, result>>
  BY ChainFacts DEF FilterTypeOK, Pass
<1>3. /\ ctx'[side] = a /\ DOMAIN ctx' = Side
      /\ \A s \in Side : s # side => ctx'[s] = ctx[s]
  BY ChainFacts DEF Pass, FilterTypeOK
<1>5. AttachmentsOK(ctx["consumer"])' /\ (side = "provider" => AttachmentsOK(ctx["provider"])')
  BY <1>3, ChainFacts DEF FilterTypeOK, AttachmentsOK, SignatureOf
<1>6. FilterTypeOK'
  BY <1>1, <1>2, <1>3, <1>5, ChainFacts DEF FilterTypeOK
<1>7. WhereItIs'
  BY <1>2 DEF WhereItIs, Latest
<1>8. \A s \in Side : \A i \in Passed(s)' : i \in Passed(s) \/ (s = side /\ i = place)
  BY <1>1, <1>2, ChainFacts DEF Passed, Latest, WhereItIs
<1>9. PassedOK'
  <2> SUFFICES ASSUME NEW s \in Side, NEW i \in Passed(s)'
               PROVE  /\ Lets(Chain(s)[i])
                      /\ Chain(s)[i] = "auth" /\ s = "consumer" =>
                           /\ ctx'["consumer"].ak = "ours"
                           /\ Latest >= 2 /\ served[1] = "yes" => OwnKeyKnown
                      /\ Chain(s)[i] = "context" =>
                           /\ s = "consumer" => ctx'["consumer"].internal = Unset
                           /\ side = "provider" \/ served[Latest] = "yes"
                                => ctx'["provider"].internal = Unset
    BY <1>1 DEF PassedOK, Lets, Latest
  <2>1. CASE i \in Passed(s)
    BY <1>2, <1>3, <2>1, ChainFacts DEF PassedOK, WhereItIs
  <2>2. CASE s = side /\ i = place
    BY <1>2, <1>3, <2>2, ChainFacts DEF WhereItIs
  <2> QED
    BY <1>8, <2>1, <2>2
<1>10. FirstTold'
  <2>1. ctx["consumer"].ak = "ours" => ctx'["consumer"].ak = "ours"
    BY <1>3, ChainFacts
  <2> QED
    BY <1>1, <1>2, <2>1 DEF FirstTold, Lets, Latest
<1>11. ComingOut'
  BY <1>1, <1>2 DEF ComingOut
<1> QED
  BY <1>6, <1>7, <1>9, <1>10, <1>11

\* A call that is turned back before the service was asked.
LEMMA TurnBackKeeps ==
  ASSUME FilterInv, phase = "in", NEW r, TurnBack(r), r # "undeclared",
         ~(Latest = 2 /\ served[1] = "yes" /\ ~SignsForGood /\ clock <= Tolerance),
         UNCHANGED <<side, served, config, exported, invoker, method, clock, origin>>
  PROVE  FilterInv'
<1> USE DEF FilterInv
<1>1. /\ \A s : Chain(s)' = Chain(s) /\ \A f : Has(s, f)' = Has(s, f)
      /\ Chain(side)' = Chain(side)
  BY ChainStays
<1>2. phase' = "out" /\ result' = r /\ UNCHANGED <<ctx, place>>
  BY DEF TurnBack
<1>3. FilterTypeOK'
  BY <1>1, <1>2 DEF FilterTypeOK, AttachmentsOK, SignatureOf
<1>4. WhereItIs' /\ served # <<>> /\ served[Latest] = "no"
  BY <1>2 DEF WhereItIs, Latest
<1>5. PassedOK'
  BY <1>2, <1>4 DEF PassedOK, Passed, Latest
<1>6. FirstTold'
  BY <1>1, <1>2 DEF FirstTold, Lets, Latest, SignsForGood
<1>7. ComingOut'
  BY <1>2 DEF ComingOut
<1> QED
  BY <1>3, <1>4, <1>5, <1>6, <1>7

\* What lets a call in, and what turns it back, by filter.
LEMMA EchoKeeps ==
  FilterInv /\ EchoFilter
    /\ UNCHANGED <<side, served, config, exported, invoker, method, clock, origin>> => FilterInv'
<1> SUFFICES ASSUME FilterInv, EchoFilter,
                    UNCHANGED <<side, served, config, exported, invoker, method, clock, origin>>
             PROVE  FilterInv'
  OBVIOUS
<1>1. /\ phase = "in" /\ place <= Len(Chain(side)) /\ Chain(side)[place] = "echo"
      /\ place \in DOMAIN Chain(side)
  BY ChainFacts DEF EchoFilter, Facing, FilterInv, FilterTypeOK
<1>2. CASE method = "$echo"
  <2>1. ~(served # <<>> /\ served[1] = "yes")
    BY <1>1, <1>2, ChainFacts DEF FilterInv, FirstTold, Lets
  <2>2. Latest = 2 => served # <<>>
    BY ServedFacts DEF FilterInv
  <2> QED
    BY <1>1, <1>2, <2>1, <2>2, TurnBackKeeps DEF EchoFilter
<1>3. CASE method # "$echo"
  <2>1. Pass(ctx[side]) /\ Lets("echo")
    BY <1>3 DEF EchoFilter, Lets
  <2>2. AttachmentsOK(ctx[side])
    BY ChainFacts DEF FilterInv, FilterTypeOK
  <2> QED
    BY <1>1, <2>1, <2>2, PassKeeps
<1> QED
  BY <1>2, <1>3

LEMMA TokenKeeps ==
  FilterInv /\ TokenFilter
    /\ UNCHANGED <<side, served, config, exported, invoker, method, clock, origin>> => FilterInv'
<1> SUFFICES ASSUME FilterInv, TokenFilter,
                    UNCHANGED <<side, served, config, exported, invoker, method, clock, origin>>
             PROVE  FilterInv'
  OBVIOUS
<1>1. /\ phase = "in" /\ place <= Len(Chain(side)) /\ Chain(side)[place] = "token"
      /\ place \in DOMAIN Chain(side)
  BY ChainFacts DEF TokenFilter, Facing, FilterInv, FilterTypeOK
<1>2. AttachmentsOK(ctx[side])
  BY ChainFacts DEF FilterInv, FilterTypeOK
<1>3. CASE ctx[side].token # MyToken
  <2>1. ~(served # <<>> /\ served[1] = "yes")
    BY <1>1, <1>2, <1>3, ChainFacts DEF FilterInv, FirstTold, Lets, AttachmentsOK
  <2>2. Latest = 2 => served # <<>>
    BY ServedFacts DEF FilterInv
  <2> QED
    BY <1>1, <1>3, <2>1, <2>2, TurnBackKeeps DEF TokenFilter
<1>4. CASE ctx[side].token = MyToken
  <2>1. Pass(ctx[side]) /\ Lets("token")
    BY <1>2, <1>4 DEF TokenFilter, Admitted, Lets, AttachmentsOK
  <2> QED
    BY <1>1, <1>2, <2>1, PassKeeps
<1> QED
  BY <1>3, <1>4

LEMMA AuthKeeps ==
  FilterInv /\ AuthFilter
    /\ UNCHANGED <<side, served, config, exported, invoker, method, clock, origin>> => FilterInv'
<1> SUFFICES ASSUME FilterInv, AuthFilter,
                    UNCHANGED <<side, served, config, exported, invoker, method, clock, origin>>
             PROVE  FilterInv'
  OBVIOUS
<1>1. /\ phase = "in" /\ place <= Len(Chain(side)) /\ Chain(side)[place] = "auth"
      /\ place \in DOMAIN Chain(side) /\ Lets("auth") /\ Has(side, "auth")
  BY ChainFacts DEF AuthFilter, Facing, FilterInv, FilterTypeOK, Lets
<1>2. AttachmentsOK(ctx[side])
  BY ChainFacts DEF FilterInv, FilterTypeOK
<1>3. CASE ctx[side].ak # Unset /\ Valid(ctx[side])
  <2>1. Pass(ctx[side]) /\ ctx[side].ak = "ours" /\ (side = "consumer" => OwnKeyKnown)
    BY <1>2, <1>3 DEF AuthFilter, Valid, AttachmentsOK
  <2> QED
    BY <1>1, <1>2, <2>1, PassKeeps
<1>4. CASE ctx[side].ak # Unset /\ ~Valid(ctx[side])
  <2>1. TurnBack("Err")
    BY <1>4 DEF AuthFilter
  <2>2. ASSUME ~SignsForGood, clock <= Tolerance PROVE FALSE
    <3>1. ctx[side].ak = "ours"
      BY <1>2, <1>4 DEF AttachmentsOK
    <3>2. Fresh(ctx[side].timestamp) /\ ctx[side].signature = SignatureOf(ctx[side].timestamp)
      BY <1>2, <2>2, <3>1, FilterAssumption DEF Fresh, AttachmentsOK, FilterInv, FilterTypeOK
    <3>3. side = "provider" \/ OwnKeyKnown
      BY <1>1, <2>2, ChainFacts DEF SignsForGood, FilterInv
    <3>4. Valid(ctx[side])
      BY <3>2, <3>3, Zenon DEF Valid
    <3> QED
      BY <1>4, <3>4
  <2> QED
    BY <1>1, <2>1, <2>2, TurnBackKeeps
<1>5. CASE ctx[side].ak = Unset /\ side = "consumer"
  <2> DEFINE a == [ctx[side] EXCEPT !.ak = "ours", !.signature = SignatureOf(clock), !.timestamp = clock]
  <2>1. ctx' = [ctx EXCEPT ![side] = a] /\ place' = place + 1 /\ UNCHANGED <<phase, result>>
    BY <1>5 DEF AuthFilter, Pass
  <2>2. AttachmentsOK(a) /\ a.ak = "ours" /\ a.internal = ctx[side].internal
    BY <1>2 DEF AttachmentsOK, FilterInv, FilterTypeOK
  <2>4. Pass(a)
    BY <2>1 DEF Pass
  <2>3. ~(Latest >= 2 /\ served[1] = "yes")
    BY <1>1, <1>5, FilterAssumption, ServedFacts DEF FilterInv, FirstTold
  <2> HIDE DEF a
  <2> QED
    BY <1>1, <2>2, <2>3, <2>4, PassKeeps
<1>6. CASE ctx[side].ak = Unset /\ side # "consumer"
  <2>1. Pass(ctx[side])
    BY <1>6 DEF AuthFilter
  <2> QED
    BY <1>1, <1>2, <1>6, <2>1, PassKeeps
<1> QED
  BY <1>3, <1>4, <1>5, <1>6

\* The filters that turn nothing back.
LEMMA OthersPass ==
  ASSUME FilterInv,
         ContextFilter \/ AccessLogFilter \/ GenericFilter \/ ExceptionFilter \/ TimeoutFilter,
         UNCHANGED <<side, served, config, exported, invoker, method, clock, origin>>
  PROVE  FilterInv'
<1>1. AttachmentsOK(ctx[side])
  BY ChainFacts DEF FilterInv, FilterTypeOK
<1>2. CASE ContextFilter
  <2> DEFINE a == [ctx[side] EXCEPT !.internal = Unset]
  <2>1. Pass(a) /\ phase = "in" /\ place <= Len(Chain(side)) /\ Chain(side)[place] = "context"
    BY <1>2 DEF ContextFilter, Facing
  <2>2. AttachmentsOK(a) /\ a.internal = Unset /\ a.ak = ctx[side].ak
    BY <1>1 DEF AttachmentsOK
  <2>3. Lets("context")
    BY DEF Lets
  <2> HIDE DEF a
  <2> QED
    BY <2>1, <2>2, <2>3, PassKeeps
<1>3. CASE AccessLogFilter \/ GenericFilter \/ ExceptionFilter \/ TimeoutFilter
  <2>1. /\ Pass(ctx[side]) /\ phase = "in" /\ place <= Len(Chain(side))
        /\ Chain(side)[place] \in {"access", "generic", "exception", "timeout"}
    BY <1>3 DEF AccessLogFilter, GenericFilter, ExceptionFilter, TimeoutFilter, Facing
  <2>2. Lets(Chain(side)[place])
    BY <2>1 DEF Lets
  <2> QED
    BY <1>1, <2>1, <2>2, PassKeeps
<1> QED
  BY <1>2, <1>3

LEMMA TonicKeeps ==
  FilterInv /\ TonicInvoke
    /\ UNCHANGED <<side, served, config, exported, invoker, method, clock, origin>> => FilterInv'
<1> SUFFICES ASSUME FilterInv, TonicInvoke,
                    UNCHANGED <<side, served, config, exported, invoker, method, clock, origin>>
             PROVE  FilterInv'
  OBVIOUS
<1>1. phase = "in" /\ TurnBack("Err") /\ config.client
  BY DEF TonicInvoke, AtEnd
<1>2. Latest = 2 => served[1] # "yes"
  BY <1>1, ServedFacts DEF FilterInv, WhereItIs
<1> QED
  BY <1>1, <1>2, TurnBackKeeps

LEMMA SendKeeps ==
  FilterInv /\ Send /\ UNCHANGED <<config, exported, invoker, method, clock, origin>> => FilterInv'
<1> SUFFICES ASSUME FilterInv, Send, UNCHANGED <<config, exported, invoker, method, clock, origin>>
             PROVE  FilterInv'
  OBVIOUS
<1> USE DEF FilterInv
<1>1. \A s : Chain(s)' = Chain(s) /\ \A f : Has(s, f)' = Has(s, f)
  BY ChainStays
<1>2. /\ phase = "in" /\ side = "consumer" /\ place = Len(Chain("consumer")) + 1 /\ ~config.client
      /\ side' = "provider" /\ place' = 1 /\ UNCHANGED <<phase, result, served>>
      /\ ctx' = [ctx EXCEPT !["provider"] = ctx["consumer"]]
  BY DEF Send, AtEnd
<1>3. /\ ctx'["provider"] = ctx["consumer"] /\ ctx'["consumer"] = ctx["consumer"]
      /\ DOMAIN ctx' = Side
  BY <1>2 DEF FilterTypeOK, Side
<1>4. served # <<>> /\ served[Latest] = "no"
  BY <1>2 DEF WhereItIs
<1>5. FilterTypeOK'
  <2>1. Len(Chain("provider")) \in Nat /\ Chain(side)' = Chain("provider")
    BY <1>1, <1>2, ChainFacts DEF Chain
  <2>2. AttachmentsOK(ctx["consumer"])' /\ AttachmentsOK(ctx["provider"])'
    BY <1>3 DEF FilterTypeOK, AttachmentsOK, SignatureOf
  <2> QED
    BY <1>2, <1>3, <2>1, <2>2, ChainFacts DEF FilterTypeOK
<1>6. WhereItIs'
  BY <1>2, <1>4 DEF WhereItIs, Latest
<1>7. Passed("consumer")' = Passed("consumer") /\ Passed("provider")' = {}
  BY <1>1, <1>2, <1>4, ChainFacts DEF Passed, Latest
<1>8. PassedOK'
  BY <1>1, <1>2, <1>3, <1>7, ChainFacts DEF PassedOK, Lets, Latest
<1>9. FirstTold'
  BY <1>1, <1>2, <1>3 DEF FirstTold, Lets, Latest
<1>10. ComingOut'
  BY <1>2 DEF ComingOut
<1> QED
  BY <1>5, <1>6, <1>8, <1>9, <1>10

\* The service is asked: all filters of both sides have let the call pass.
LEMMA ServeKeeps ==
  ASSUME FilterInv, NEW r, Serve(r),
         UNCHANGED <<config, exported, invoker, method, clock, origin>>
  PROVE  FilterInv'
<1> USE DEF FilterInv
<1>1. /\ \A s : Chain(s)' = Chain(s) /\ \A f : Has(s, f)' = Has(s, f)
      /\ side' = side /\ Chain(side)' = Chain(side)
  BY ChainStays DEF Serve
<1>2. /\ phase = "in" /\ side = "provider" /\ place = Len(Chain("provider")) + 1
      /\ phase' = "out" /\ result' = r /\ UNCHANGED <<ctx, place>>
      /\ served' = [served EXCEPT ![Latest] = "yes"]
  BY DEF Serve, AtEnd, TurnBack, Latest
<1>3. /\ served \in Seq({"yes", "no", "late"}) /\ Latest \in Nat /\ Latest > 0
      /\ served[Latest] = "no" /\ ~config.client
  BY <1>2, ServedFacts DEF WhereItIs, FilterTypeOK
<1>4. /\ served' \in Seq({"yes", "no", "late"}) /\ Latest' = Latest /\ served'[Latest] = "yes"
      /\ \A n \in 1 .. Latest - 1 : served'[n] = served[n]
      /\ served' # <<>>
  BY <1>2, <1>3 DEF Latest
<1>5. FilterTypeOK'
  BY <1>1, <1>2, <1>4 DEF FilterTypeOK, AttachmentsOK, SignatureOf
<1>6. WhereItIs'
  BY <1>1, <1>2, <1>3, <1>4 DEF WhereItIs
<1>7. \A s \in Side : Passed(s) = DOMAIN Chain(s) /\ Passed(s)' = Passed(s)
  BY <1>1, <1>2, <1>3, <1>4, ChainFacts DEF Passed
<1>8. PassedOK'
  BY <1>1, <1>2, <1>4, <1>7, ChainFacts DEF PassedOK, Lets
<1>9. FirstTold'
  <2>1. ASSUME Latest = 1 PROVE FirstTold'
    <3>1. \A s \in Side : \A i \in DOMAIN Chain(s) : Lets(Chain(s)[i])
      BY <1>7 DEF PassedOK
    <3>2. Has("consumer", "auth") => ctx["consumer"].ak = "ours"
      BY <1>7, ChainFacts DEF PassedOK
    <3> QED
      BY <1>1, <1>2, <1>4, <2>1, <3>1, <3>2 DEF FirstTold, Lets
  <2>2. ASSUME Latest # 1 PROVE FirstTold'
    <3>1. served'[1] = served[1] /\ served # <<>>
      BY <1>3, <1>4, <2>2 DEF Latest
    <3> QED
      BY <1>1, <1>2, <1>4, <3>1 DEF FirstTold, Lets
  <2> QED
    BY <2>1, <2>2
<1>10. ComingOut'
  BY <1>1, <1>2 DEF ComingOut
<1> QED
  BY <1>5, <1>6, <1>8, <1>9, <1>10

LEMMA TimeOutKeeps ==
  ASSUME FilterInv, NEW i, TimeOut(i),
         UNCHANGED <<config, exported, invoker, method, clock, origin>>
  PROVE  FilterInv'
<1> USE DEF FilterInv
<1>1. \A s : Chain(s)' = Chain(s) /\ \A f : Has(s, f)' = Has(s, f)
  BY ChainStays
<1>2. /\ phase = "in" /\ i \in DOMAIN Chain("consumer") /\ side' = "consumer" /\ place' = i
      /\ phase' = "out" /\ result' = "Err" /\ UNCHANGED ctx
  BY DEF TimeOut
<1>3. /\ served \in Seq({"yes", "no", "late"}) /\ Latest \in Nat /\ Latest > 0
      /\ served[Latest] = "no"
  BY <1>2, ServedFacts DEF WhereItIs, FilterTypeOK
<1>4. served' = [served EXCEPT ![Latest] = "late"]
  BY <1>3 DEF TimeOut, Latest
<1>5. /\ served' \in Seq({"yes", "no", "late"}) /\ Latest' = Latest /\ served'[Latest] = "late"
      /\ \A n \in 1 .. Latest - 1 : served'[n] = served[n]
      /\ served' # <<>>
  BY <1>3, <1>4 DEF Latest
<1>6. FilterTypeOK'
  <2>1. Chain(side)' = Chain("consumer") /\ i \in 1 .. Len(Chain("consumer"))
    BY <1>1, <1>2, ChainFacts DEF Chain
  <2> QED
    BY <1>2, <1>5, <2>1, ChainFacts DEF FilterTypeOK, AttachmentsOK, SignatureOf
<1>7. WhereItIs'
  BY <1>2, <1>3, <1>5 DEF WhereItIs
<1>8. PassedOK'
  BY <1>2, <1>5 DEF PassedOK, Passed
<1>9. FirstTold'
  <2>1. CASE Latest = 1
    BY <1>5, <2>1 DEF FirstTold
  <2>2. CASE Latest # 1
    <3>1. served'[1] = served[1] /\ served # <<>>
      BY <1>3, <1>5, <2>2 DEF Latest
    <3> QED
      BY <1>1, <1>2, <1>5, <3>1 DEF FirstTold, Lets
  <2> QED
    BY <2>1, <2>2
<1>10. ComingOut'
  BY <1>2 DEF ComingOut
<1> QED
  BY <1>6, <1>7, <1>8, <1>9, <1>10

\* What a filter shows of an error that is not declared.
LEMMA RespondKeeps ==
  FilterInv /\ Respond /\ UNCHANGED <<config, exported, invoker, method, clock, origin>> => FilterInv'
<1> SUFFICES ASSUME FilterInv, Respond,
                    UNCHANGED <<config, exported, invoker, method, clock, origin>>
             PROVE  FilterInv'
  OBVIOUS
<1> USE DEF FilterInv
<1>1. /\ \A s : Chain(s)' = Chain(s) /\ \A f : Has(s, f)' = Has(s, f)
      /\ side' = side /\ Chain(side)' = Chain(side)
  BY ChainStays DEF Respond
<1>2. /\ phase = "out" /\ place >= 1 /\ place \in Nat /\ place' = place - 1
      /\ UNCHANGED <<ctx, side, phase, served>>
  BY ChainFacts DEF Respond, FilterTypeOK
<1>3. FilterTypeOK'
  <2>1. Len(Chain(side)) \in Nat
    BY ChainFacts
  <2> QED
    BY <1>1, <1>2, <2>1 DEF FilterTypeOK, AttachmentsOK, SignatureOf
<1>4. result # "undeclared" => result' # "undeclared"
  BY DEF Respond, Shown
<1>5. place \in DOMAIN Chain(side) /\ Chain(side)[place] = "exception" => result' # "undeclared"
  BY <1>2, ChainFacts DEF Respond, Shown
<1>6. WhereItIs'
  BY <1>2, <1>4 DEF WhereItIs, Latest
<1>7. PassedOK'
  <2>1. \A s \in Side : Passed(s)' = Passed(s)
    BY <1>1, <1>2 DEF Passed, Latest
  <2> QED
    BY <1>1, <1>2, <2>1 DEF PassedOK, Lets, Latest
<1>8. FirstTold'
  BY <1>1, <1>2 DEF FirstTold, Lets, Latest, SignsForGood
<1>9. ComingOut'
  <2> SUFFICES ASSUME side = "consumer", NEW j \in DOMAIN Chain("consumer"), j > place - 1,
                      Chain("consumer")[j] = "exception"
               PROVE  result' # "undeclared"
    BY <1>1, <1>2 DEF ComingOut
  <2>1. CASE j > place
    BY <1>2, <1>4, <2>1 DEF ComingOut
  <2>2. CASE j = place
    BY <1>5, <2>2
  <2>3. j \in Nat
    BY ChainFacts
  <2> QED
    BY <1>2, <2>1, <2>2, <2>3
<1> QED
  BY <1>3, <1>6, <1>7, <1>8, <1>9

LEMMA ReplyKeeps ==
  FilterInv /\ Reply /\ UNCHANGED <<config, exported, invoker, method, clock, origin>> => FilterInv'
<1> SUFFICES ASSUME FilterInv, Reply,
                    UNCHANGED <<config, exported, invoker, method, clock, origin>>
             PROVE  FilterInv'
  OBVIOUS
<1> USE DEF FilterInv
<1>1. \A s : Chain(s)' = Chain(s) /\ \A f : Has(s, f)' = Has(s, f)
  BY ChainStays
<1>2. phase = "out" /\ place = 0 /\ UNCHANGED <<ctx, served>> /\ side \in Side
  BY ChainFacts DEF Reply
<1>3. side' = "consumer" /\ place' \in 0 .. Len(Chain("consumer")) + 1 /\ phase' \in {"out", "idle"}
        /\ (phase' = "idle" => side = "consumer" /\ place' = 0 /\ result' = result)
        /\ (phase' = "out" => side = "provider" /\ place' = Len(Chain("consumer")))
  BY <1>2, ChainFacts DEF Reply
<1>4. FilterTypeOK'
  <2>1. Chain(side)' = Chain("consumer")
    BY <1>1, <1>3 DEF Chain
  <2> QED
    BY <1>2, <1>3, <2>1, ChainFacts DEF FilterTypeOK, AttachmentsOK, SignatureOf
<1>5. WhereItIs'
  BY <1>2, <1>3, ChainFacts DEF WhereItIs, Latest
<1>6. PassedOK'
  <2>1. \A s \in Side : Passed(s)' = Passed(s)
    BY <1>1, <1>2, <1>3 DEF Passed, Latest
  <2> QED
    BY <1>1, <1>2, <1>3, <2>1 DEF PassedOK, Lets, Latest
<1>7. FirstTold'
  BY <1>1, <1>2, <1>3 DEF FirstTold, Lets, Latest, SignsForGood
<1>8. ComingOut'
  BY <1>1, <1>2, <1>3, ChainFacts DEF ComingOut
<1> QED
  BY <1>4, <1>5, <1>6, <1>7, <1>8

LEMMA StartCallKeeps == FilterInv /\ StartCall => FilterInv'
<1> SUFFICES ASSUME FilterInv, StartCall PROVE FilterInv'
  OBVIOUS
<1> USE DEF FilterInv
<1>1. \A s : Chain(s)' = Chain(s) /\ \A f : Has(s, f)' = Has(s, f)
  BY ChainStays DEF StartCall
<1>2. /\ phase = "idle" /\ phase' = "in" /\ side' = "consumer" /\ place' = 1 /\ result' = Unset
      /\ UNCHANGED <<config, exported, invoker, ctx, method, clock, origin>>
      /\ served \in Seq({"yes", "no", "late"}) /\ served' = Append(served, "no")
  BY DEF StartCall, FilterTypeOK
<1>3. /\ served' \in Seq({"yes", "no", "late"}) /\ served' # <<>>
      /\ Latest \in Nat /\ Latest' = Latest + 1 /\ served'[Latest'] = "no"
      /\ \A n \in 1 .. Latest : served'[n] = served[n]
  BY <1>2 DEF Latest
<1>4. FilterTypeOK'
  <2>1. Chain(side)' = Chain("consumer") /\ Len(Chain("consumer")) \in Nat
    BY <1>1, <1>2, ChainFacts DEF Chain
  <2> QED
    BY <1>2, <1>3, <2>1, ChainFacts DEF FilterTypeOK, AttachmentsOK, SignatureOf
<1>5. WhereItIs'
  <2>1. config.client => \A n \in 1 .. Latest' : served'[n] # "yes"
    <3>1. \A n \in 1 .. Latest' : n \in 1 .. Latest \/ n = Latest'
      BY <1>3
    <3>2. config.client => \A n \in 1 .. Latest : served[n] # "yes"
      BY DEF WhereItIs
    <3> QED
      BY <1>3, <3>1, <3>2
  <2> QED
    BY <1>2, <1>3, <2>1, FilterAssumption DEF WhereItIs
<1>6. PassedOK'
  <2>1. \A s \in Side : Passed(s)' = {}
    <3>1. ~(served' # <<>> /\ served'[Latest'] = "yes")
      BY <1>3
    <3>2. 1 .. place' - 1 = {}
      BY <1>2
    <3> QED
      BY <1>2, <3>1, <3>2 DEF Passed, Side
  <2> QED
    BY <2>1 DEF PassedOK
<1>7. FirstTold'
  <2>1. CASE Latest = 0
    BY <1>3, <2>1 DEF FirstTold
  <2>2. CASE Latest > 0
    <3>1. served'[1] = served[1] /\ served # <<>>
      BY <1>3, <2>2 DEF Latest
    <3> QED
      BY <1>1, <1>2, <3>1 DEF FirstTold, Lets
  <2> QED
    BY <1>3, <2>1, <2>2
<1>8. ComingOut'
  BY <1>2 DEF ComingOut
<1> QED
  BY <1>4, <1>5, <1>6, <1>7, <1>8

\* dial() changes the chain, but only of a client, of which no call comes to a provider.
LEMMA DialKeeps == FilterInv /\ Dial => FilterInv'
<1> SUFFICES ASSUME FilterInv, Dial PROVE FilterInv'
  OBVIOUS
<1> USE DEF FilterInv
<1>1. /\ phase = "idle" /\ config.client /\ side = "consumer" /\ place <= 1 /\ place \in Nat
      /\ UNCHANGED <<config, exported, ctx, method, side, place, phase, result, clock, served,
                     origin>>
  BY ChainFacts DEF Dial, WhereItIs, FilterTypeOK
<1>2. Chain("consumer")' \in Seq(Filter)
  BY DEF FilterTypeOK, Dial, Chain
<1>3. Chain(side)' = Chain("consumer")'
  BY <1>1 DEF Chain
<1>4. FilterTypeOK'
  BY <1>1, <1>2, <1>3 DEF FilterTypeOK, AttachmentsOK, SignatureOf
<1>5. WhereItIs'
  BY <1>1 DEF WhereItIs, Latest
<1>6. \A n \in 1 .. Latest : served[n] # "yes"
  BY <1>1 DEF WhereItIs
<1>7. PassedOK'
  BY <1>1, <1>6, ServedFacts DEF PassedOK, Passed, Latest
<1>8. FirstTold'
  BY <1>1, <1>6, ServedFacts DEF FirstTold, Latest
<1>9. ComingOut'
  BY <1>1 DEF ComingOut, WhereItIs
<1> QED
  BY <1>4, <1>5, <1>7, <1>8, <1>9

LEMMA ClockKeeps == FilterInv /\ ClockTicks => FilterInv'
<1> SUFFICES ASSUME FilterInv, ClockTicks PROVE FilterInv'
  OBVIOUS
<1> USE DEF FilterInv
<1>1. /\ UNCHANGED <<config, exported, invoker, ctx, method, side, place, phase, result, served,
                     origin>>
      /\ clock \in Nat /\ clock' = clock + 1
  BY DEF ClockTicks, FilterTypeOK
<1>2. \A s : Chain(s)' = Chain(s) /\ \A f : Has(s, f)' = Has(s, f)
  BY <1>1, ChainStays
<1>3. Chain(side)' = Chain(side)
  BY <1>1, <1>2
<1>4. FilterTypeOK'
  BY <1>1, <1>3 DEF FilterTypeOK, AttachmentsOK, SignatureOf
<1>5. WhereItIs'
  BY <1>1 DEF WhereItIs, Latest
<1>6. PassedOK'
  <2>1. \A s \in Side : Passed(s)' = Passed(s)
    BY <1>1, <1>2 DEF Passed, Latest
  <2> QED
    BY <1>1, <1>2, <2>1 DEF PassedOK, Lets, Latest
<1>7. FirstTold'
  BY <1>1, <1>2, FilterAssumption DEF FirstTold, Lets, Latest, SignsForGood
<1>8. ComingOut'
  BY <1>1, <1>2 DEF ComingOut
<1> QED
  BY <1>4, <1>5, <1>6, <1>7, <1>8

LEMMA NextFilterInv == FilterInv /\ [FilterNext]_filterVars => FilterInv'
<1> SUFFICES ASSUME FilterInv, [FilterNext]_filterVars PROVE FilterInv'
  OBVIOUS
<1>1. CASE Travel
  <2>1. UNCHANGED <<config, exported, invoker, method, clock, origin>>
    BY <1>1 DEF Travel
  <2>2. ASSUME UNCHANGED <<side, served>>,
               \/ EchoFilter \/ TokenFilter \/ ContextFilter \/ AccessLogFilter \/ GenericFilter
               \/ ExceptionFilter \/ TimeoutFilter \/ AuthFilter \/ TonicInvoke
        PROVE  FilterInv'
    BY <2>1, <2>2, EchoKeeps, TokenKeeps, AuthKeeps, OthersPass, TonicKeeps
  <2> QED
    BY <1>1, <2>1, <2>2, SendKeeps, ServeKeeps, TimeOutKeeps, RespondKeeps, ReplyKeeps DEF Travel
<1>2. CASE UNCHANGED filterVars
  <2>1. \A s : Chain(s)' = Chain(s) /\ \A f : Has(s, f)' = Has(s, f)
    BY <1>2, ChainStays DEF filterVars
  <2>2. Chain(side)' = Chain(side) /\ \A s \in Side : Passed(s)' = Passed(s)
    BY <1>2, <2>1 DEF filterVars, Passed, Latest
  <2>3. FilterTypeOK'
    BY <1>2, <2>2 DEF filterVars, FilterInv, FilterTypeOK, AttachmentsOK, SignatureOf
  <2>4. WhereItIs' /\ ComingOut'
    BY <1>2, <2>1 DEF filterVars, FilterInv, WhereItIs, ComingOut, Latest
  <2>5. PassedOK'
    BY <1>2, <2>1, <2>2 DEF filterVars, FilterInv, PassedOK, Lets, Latest
  <2>6. FirstTold'
    BY <1>2, <2>1 DEF filterVars, FilterInv, FirstTold, Lets, Latest, SignsForGood
  <2> QED
    BY <2>3, <2>4, <2>5, <2>6 DEF FilterInv
<1> QED
  BY <1>1, <1>2, StartCallKeeps, DialKeeps, ClockKeeps DEF FilterNext

LEMMA FilterInvSuffices == FilterInv => ServedAreEntitled
<1> SUFFICES ASSUME FilterInv PROVE ServedAreEntitled
  OBVIOUS
<1> USE DEF FilterInv
<1>1. ASSUME served # <<>>, served[Latest] = "yes"
      PROVE  /\ Has("provider", "token") => origin.token = MyToken
             /\ Has("provider", "auth") /\ Has("consumer", "auth")
                  => ctx["consumer"].signature # Unset
             /\ Has("provider", "context") \/ Has("consumer", "context")
                  => ctx["provider"].internal = Unset
             /\ method = "$echo" => ~Has("provider", "echo") /\ ~Has("consumer", "echo")
  <2>1. \A s \in Side : Passed(s) = DOMAIN Chain(s)
    BY <1>1 DEF Passed
  <2>2. Has("consumer", "auth") => ctx["consumer"].ak = "ours"
    BY <2>1, ChainFacts DEF PassedOK
  <2>3. ctx["consumer"].ak = "ours" => ctx["consumer"].signature # Unset
    <3>1. ASSUME NEW t \in Nat PROVE SignatureOf(t) # Unset
      <4>1. method \in Method
        BY DEF FilterTypeOK
      <4>2. SignatureOf(t) \in [key : {"ours"}, method : Method, timestamp : Nat]
        BY <4>1, SMT DEF SignatureOf
      <4> QED
        BY <4>2, FilterAssumption
    <3> QED
      BY <3>1 DEF FilterTypeOK, AttachmentsOK
  <2>4. \A s \in Side : Has(s, "context") => ctx["provider"].internal = Unset
    BY <1>1, <2>1, ChainFacts DEF PassedOK
  <2>5. \A s \in Side, f \in {"echo", "token"} : Has(s, f) => Lets(f)
    BY <2>1, ChainFacts DEF PassedOK
  <2> QED
    BY <2>2, <2>3, <2>4, <2>5, ChainFacts DEF Lets
<1>2. phase = "idle" /\ Has("consumer", "exception") => result # "undeclared"
  BY DEF ComingOut
<1>3. ASSUME phase = "idle", Latest = 2, served[1] = "yes", served[2] # "late", clock <= Tolerance
      PROVE  served[2] = "yes" <=> ~SignsForGood
  <2>1. served # <<>> /\ served[2] \in {"yes", "no", "late"}
    BY <1>3, ServedFacts
  <2>2. ~SignsForGood => served[2] = "yes"
    BY <1>3, <2>1 DEF FirstTold
  <2>3. ASSUME served[2] = "yes" PROVE ~SignsForGood
    <3>1. Passed("consumer") = DOMAIN Chain("consumer")
      BY <1>3, <2>1, <2>3 DEF Passed
    <3>2. Has("consumer", "auth") => OwnKeyKnown
      BY <1>3, <3>1, ChainFacts DEF PassedOK
    <3> QED
      BY <3>2 DEF SignsForGood
  <2> QED
    BY <2>2, <2>3
<1> QED
  BY <1>1, <1>2, <1>3 DEF ServedAreEntitled, CallsAreEntitled, RepeatsAgree

\* The service is asked only for calls that every filter of both sides has let through, with
\* the attachments they leave and a signature where both ends sign; an error that is not
\* declared is hidden from the caller; and a context used again fares as it did before, unless
\* an AuthFilter without a key of its own has signed it.
THEOREM EntitledAreServed == FilterSpec => []ServedAreEntitled
<1>1. FilterInit([client : BOOLEAN, cluster : BOOLEAN, filters : Seq(Filter)], Seq(Filter))
        => FilterInv
  BY InitFilterInv
<1>2. FilterInv /\ [FilterNext]_filterVars => FilterInv'
  BY NextFilterInv
<1>3. FilterInv => ServedAreEntitled
  BY FilterInvSuffices
<1> QED
  BY <1>1, <1>2, <1>3, PTL DEF FilterSpec
=============================================================================
