------------------------------ MODULE Cluster -------------------------------
(***************************************************************************)
(* The cluster invokers of dubbo-cluster over a registry directory that    *)
(* changes while they work.  A call lists the directory, gets the          *)
(* invokers that are available at that moment, and then works through      *)
(* what may be an old list: one invoker, all of them, some at once, all    *)
(* of them several times, as its strategy says.                            *)
(*                                                                         *)
(* An invoker answers "ok" (Ok with a value), "error" (Ok with an error in *)
(* it) or "fail" (Err).  A call returns one of these, or "mock": a success *)
(* that no provider gave.                                                  *)
(***************************************************************************)
EXTENDS Integers, FiniteSets, Lists

CONSTANTS
  Call,       \* the calls
  Provider,   \* addresses of providers
  Makeable,   \* those that the directory's factory can make an invoker for
  Strategies, \* the cluster strategies that calls use, of "failover", "failfast",
              \* "failsafe", "failback", "forking", "broadcast", "available", "mock"
  Retries,    \* FailoverCluster.retries
  Forks,      \* ForkingCluster.forks
  MaxChange   \* bound on the changes of the directory and of availability

ASSUME ClusterAssumption ==
  /\ Makeable \subseteq Provider
  /\ Strategies \subseteq {"failover", "failfast", "failsafe", "failback", "forking",
                           "broadcast", "available", "mock"}
  /\ Retries \in Nat
  /\ Forks \in Nat \ {0}
  /\ MaxChange \in Nat

Answer == {"ok", "error", "fail"}

VARIABLES
  urls,      \* RegistryDirectory.provider_urls
  invokers,  \* RegistryDirectory.invokers, each known by its provider
  up,        \* the providers whose invoker says is_available()
  changes,   \* how often urls or up have changed
  strategy,  \* the strategy of each call
  at,        \* where each call is
  list,      \* what directory.list() has returned to it
  pos,       \* the invoker of the list it is at
  attempt,   \* failover: the attempt it is in, from 0
  flying,    \* forking: positions of the list whose task has not ended
  channel,   \* forking: the answers sent and not yet received
  received,  \* forking: how many were received
  firstErr,  \* broadcast: has an invoker failed?
  outcome,   \* what the call has returned
  pending,   \* FailbackClusterInvoker.pending
  answers,   \* history: the answers each provider has given the call
  current,   \* history: providers listed at some time since the call last listed
  steady     \* history: providers that were listed all through the call

directory == <<urls, invokers, up, changes>>
cursor == <<list, pos, attempt, firstErr>>
forking == <<flying, channel, received>>
history == <<answers, current, steady>>
clusterVars == <<directory, strategy, at, cursor, forking, outcome, pending, history>>

ClusterInit ==
  /\ urls = <<>> /\ invokers = <<>>
  /\ up = Makeable
  /\ changes = 0
  /\ strategy \in [Call -> Strategies]
  /\ at = [c \in Call |-> "idle"]
  /\ list = [c \in Call |-> <<>>]
  /\ pos = [c \in Call |-> 1]
  /\ attempt = [c \in Call |-> 0]
  /\ flying = [c \in Call |-> {}]
  /\ channel = [c \in Call |-> <<>>]
  /\ received = [c \in Call |-> 0]
  /\ firstErr = [c \in Call |-> FALSE]
  /\ outcome = [c \in Call |-> "none"]
  /\ pending = <<>>
  /\ answers = [c \in Call |-> [p \in Provider |-> <<>>]]
  /\ current = [c \in Call |-> {}]
  /\ steady = [c \in Call |-> {}]

-----------------------------------------------------------------------------
(* The directory.                                                          *)

\* What Directory::list() returns: the invokers that are available.  An empty
\* directory is an Err and one with nothing available an empty list, which no
\* strategy tells apart.
Listed == Keep(invokers, up)

Busy(c) == at[c] \in {"list", "invoke", "forked"}

\* The histories follow what the directory would list from now on.
Recall ==
  LET there == {p \in ToSet(invokers') : p \in up'}
  IN /\ current' = [c \in Call |-> IF Busy(c) THEN current[c] \cup there ELSE current[c]]
     /\ steady' = [c \in Call |-> IF Busy(c) THEN steady[c] \cap there ELSE steady[c]]
     /\ UNCHANGED answers

Change ==
  /\ changes < MaxChange
  /\ changes' = changes + 1
  /\ Recall
  /\ UNCHANGED <<strategy, at, cursor, forking, outcome, pending>>

\* refresh_invokers(): an invoker for every URL the factory can handle.
RefreshInvokers(new) ==
  /\ urls' = new
  /\ invokers' = Keep(new, Makeable)

\* notify() with an Add or Update event.
NotifyAdd(p) ==
  /\ RefreshInvokers(IF p \in ToSet(urls) THEN urls ELSE Append(urls, p))
  /\ UNCHANGED up
  /\ Change

\* notify() with a Remove event.
NotifyRemove(p) ==
  /\ p \in ToSet(urls)
  /\ RefreshInvokers(Keep(urls, Provider \ {p}))
  /\ UNCHANGED up
  /\ Change

\* The connection of an invoker is lost or comes back.
Flip(p) ==
  /\ up' = IF p \in up THEN up \ {p} ELSE up \cup {p}
  /\ UNCHANGED <<urls, invokers>>
  /\ Change

-----------------------------------------------------------------------------
(* The end of a call.                                                      *)

Return(c, o) ==
  /\ at' = [at EXCEPT ![c] = "done"]
  /\ outcome' = [outcome EXCEPT ![c] = o]
  /\ UNCHANGED <<cursor, strategy>>

\* FailbackClusterInvoker::record_pending(); the task it spawns sleeps and logs.
RecordPending(c) == pending' = Append(pending, c)

\* What a failure is hidden behind: an empty success, or the mock result.
Masked(a) == IF a = "ok" THEN "ok" ELSE "mock"

-----------------------------------------------------------------------------
(* The call.                                                               *)

Start(c) ==
  /\ at[c] = "idle"
  /\ at' = [at EXCEPT ![c] = "list"]
  /\ steady' = [steady EXCEPT ![c] = ToSet(Listed)]
  /\ current' = [current EXCEPT ![c] = {}]
  /\ UNCHANGED <<directory, strategy, cursor, forking, outcome, pending, answers>>

\* A mock forced by the cluster or by the call's attachments asks nobody.
ForceMock(c) ==
  /\ at[c] = "idle" /\ strategy[c] = "mock"
  /\ Return(c, "mock")
  /\ UNCHANGED <<directory, forking, pending, history>>

NoInvokers(c) ==
  /\ at[c] = "list" /\ Listed = <<>>
  /\ Return(c, IF strategy[c] \in {"failsafe", "failback", "mock"} THEN "mock" ELSE "fail")
  /\ IF strategy[c] = "failback" THEN RecordPending(c) ELSE UNCHANGED pending
  /\ UNCHANGED <<directory, forking, history>>

\* ForkingClusterInvoker spawns a task for each of the first invokers, unless
\* there is only one.
Selected == SubSeq(Listed, 1, IF Len(Listed) < Forks THEN Len(Listed) ELSE Forks)

BugNoRelist(c) == IF list[c] = <<>> THEN Listed ELSE list[c]
NewList(c) == Listed

List(c) ==
  /\ at[c] = "list" /\ Listed # <<>>
  /\ list' = [list EXCEPT ![c] = IF strategy[c] = "forking" THEN Selected ELSE NewList(c)]
  /\ pos' = [pos EXCEPT ![c] = 1]
  /\ current' = [current EXCEPT ![c] = ToSet(Listed)]
  /\ IF strategy[c] = "forking" /\ Len(Selected) > 1
     THEN /\ at' = [at EXCEPT ![c] = "forked"]
          /\ flying' = [flying EXCEPT ![c] = DOMAIN Selected]
     ELSE /\ at' = [at EXCEPT ![c] = "invoke"]
          /\ UNCHANGED flying
  /\ UNCHANGED <<directory, strategy, attempt, firstErr, channel, received, outcome,
                 pending, answers, steady>>

Step(c) ==
  /\ pos' = [pos EXCEPT ![c] = @ + 1]
  /\ UNCHANGED <<strategy, at, list, attempt, outcome>>

\* FailoverClusterInvoker: the next of the list, then the next attempt with
\* a list of its own, then the end.
BugAttemptsLeft(c) == attempt[c] + 1 < Retries
AttemptsLeft(c) == attempt[c] < Retries

AfterFailover(c, a) ==
  /\ UNCHANGED <<firstErr, pending>>
  /\ \/ a = "ok" /\ Return(c, "ok")
     \/ a # "ok" /\ pos[c] < Len(list[c]) /\ Step(c)
     \/ /\ a # "ok" /\ pos[c] = Len(list[c]) /\ AttemptsLeft(c)
        /\ at' = [at EXCEPT ![c] = "list"]
        /\ attempt' = [attempt EXCEPT ![c] = @ + 1]
        /\ UNCHANGED <<strategy, list, pos, outcome>>
     \/ a # "ok" /\ pos[c] = Len(list[c]) /\ ~AttemptsLeft(c) /\ Return(c, "fail")

\* BroadcastClusterInvoker: every invoker, and an Err if one has failed.
BugBroadcastOutcome(c, a) == IF a # "ok" THEN "fail" ELSE "ok"
BroadcastOutcome(c, a) == IF a # "ok" \/ firstErr[c] THEN "fail" ELSE "ok"

AfterBroadcast(c, a) ==
  /\ UNCHANGED pending
  /\ IF pos[c] < Len(list[c])
     THEN Step(c) /\ firstErr' = [firstErr EXCEPT ![c] = @ \/ a # "ok"]
     ELSE Return(c, BroadcastOutcome(c, a))

\* FailfastClusterInvoker: the first invoker, whatever it says.
AfterFailfast(c, a) == Return(c, a) /\ UNCHANGED pending

\* FailsafeClusterInvoker: the first invoker, and an empty success if it fails.
AfterFailsafe(c, a) == Return(c, Masked(a)) /\ UNCHANGED pending

\* FailbackClusterInvoker: the same, but the call is recorded.
BugRecordErrOnly(c, a) ==
  Return(c, Masked(a)) /\ IF a = "fail" THEN RecordPending(c) ELSE UNCHANGED pending
AfterFailback(c, a) ==
  Return(c, Masked(a)) /\ IF a = "ok" THEN UNCHANGED pending ELSE RecordPending(c)

\* MockClusterInvoker: the mock result if there is one, or the failure.
AfterMock(c, a) == (Return(c, Masked(a)) \/ Return(c, a)) /\ UNCHANGED pending

\* AvailableClusterInvoker asks each invoker again whether it is available, and
\* returns what the first that is says.
SkipsTo(c) ==
  LET free == {i \in pos[c] .. Len(list[c]) : list[c][i] \in up}
  IN IF free = {} THEN 0 ELSE Min(free)

NoneAvailable(c) ==
  /\ at[c] = "invoke" /\ strategy[c] = "available" /\ SkipsTo(c) = 0
  /\ Return(c, "fail")
  /\ UNCHANGED <<directory, forking, pending, history>>

Asked(c) == IF strategy[c] = "available" THEN SkipsTo(c) ELSE pos[c]

Answered(c, i, a) ==
  /\ answers' = [answers EXCEPT ![c][list[c][i]] = Append(@, a)]
  /\ UNCHANGED <<current, steady>>

\* invoke() of an invoker of the list, to its answer.
Invoke(c, a) ==
  /\ at[c] = "invoke" /\ Asked(c) # 0
  /\ Answered(c, Asked(c), a)
  /\ CASE strategy[c] = "failover" -> AfterFailover(c, a)
       [] strategy[c] = "broadcast" -> AfterBroadcast(c, a)
       [] strategy[c] = "failsafe" -> AfterFailsafe(c, a)
       [] strategy[c] = "failback" -> AfterFailback(c, a)
       [] strategy[c] = "mock" -> AfterMock(c, a)
       [] OTHER -> AfterFailfast(c, a)
  /\ UNCHANGED <<directory, forking>>

\* A forked task ends and sends its answer, even when nobody waits any more.
ForkEnds(c, i, a) ==
  /\ i \in flying[c]
  /\ flying' = [flying EXCEPT ![c] = @ \ {i}]
  /\ channel' = [channel EXCEPT ![c] = IF at[c] = "forked" THEN Append(@, a) ELSE @]
  /\ Answered(c, i, a)
  /\ UNCHANGED <<directory, strategy, at, cursor, received, outcome, pending>>

\* The caller receives: the first "ok" is returned, and the last failure.
Receive(c) ==
  /\ at[c] = "forked" /\ channel[c] # <<>>
  /\ channel' = [channel EXCEPT ![c] = Tail(@)]
  /\ received' = [received EXCEPT ![c] = @ + 1]
  /\ IF Head(channel[c]) = "ok" THEN Return(c, "ok")
     ELSE IF received[c] + 1 >= Forks THEN Return(c, "fail")
     ELSE UNCHANGED <<strategy, at, cursor, outcome>>
  /\ UNCHANGED <<directory, flying, pending, history>>

\* Every sender is dropped, the caller's own before it waits: recv() is None.
BugSenderKept(c) == FALSE
ChannelClosed(c) == channel[c] = <<>> /\ flying[c] = {}

ForksFailed(c) ==
  /\ at[c] = "forked" /\ ChannelClosed(c)
  /\ Return(c, "fail")
  /\ UNCHANGED <<directory, forking, pending, history>>

Work(c) ==
  \/ ForceMock(c) \/ NoInvokers(c) \/ List(c) \/ NoneAvailable(c)
  \/ \E a \in Answer : Invoke(c, a) \/ \E i \in 1 .. Forks : ForkEnds(c, i, a)
  \/ Receive(c) \/ ForksFailed(c)

ClusterNext ==
  \/ \E p \in Provider : NotifyAdd(p) \/ NotifyRemove(p)
  \/ \E p \in Makeable : Flip(p)
  \/ \E c \in Call : Start(c) \/ Work(c)

ClusterSpec == ClusterInit /\ [][ClusterNext]_clusterVars

\* Tasks run on and invokers answer; nobody has to call, and nothing has to change.
Fairness == \A c \in Call : WF_clusterVars(Work(c))

-----------------------------------------------------------------------------
(* Properties.                                                             *)

Tries(c, p) == Len(answers[c][p])
Succeeded(c) == \E p \in Provider : "ok" \in ToSet(answers[c][p])
Exhausted(c) == at[c] = "done" /\ strategy[c] = "failover" /\ outcome[c] # "ok"

\* A failover call that gives up has asked every provider that was there from
\* its start to its end, once per attempt, and a broadcast has asked each of
\* them once, whatever has come and gone around them: each list is taken whole
\* and worked off by position.
SteadyAreTried ==
  \A c \in Call, p \in Provider : p \in steady[c] =>
    /\ Exhausted(c) => Tries(c, p) = Retries + 1
    /\ at[c] = "done" /\ strategy[c] = "broadcast" => Tries(c, p) = 1

\* A provider that has been removed is asked no more once the call has listed
\* the directory again: failover does not go on with the list of an earlier
\* attempt.
RemovedAreLetGo ==
  [][\A c \in Call, p \in Provider :
       answers'[c][p] # answers[c][p] => p \in current[c]]_clusterVars

\* A call that returns "ok" has had it from a provider; no strategy but forking and
\* broadcast asks on after an "ok"; forking fails only when every task it has
\* started has failed, and broadcast succeeds only when nobody has failed.  The calls
\* that FailbackCluster has answered in a provider's place are pending, each once.
OutcomesAreEarned ==
  \A c \in Call :
    /\ outcome[c] = "ok" => Succeeded(c)
    /\ Succeeded(c) /\ at[c] = "done" =>
         outcome[c] = "ok" \/ strategy[c] \in {"forking", "broadcast"}
    /\ Exhausted(c) => \A p \in Provider : "ok" \notin ToSet(answers[c][p])
    /\ strategy[c] = "forking" /\ outcome[c] \in {"error", "fail"} =>
         flying[c] = {} /\ ~Succeeded(c)
    /\ strategy[c] = "broadcast" /\ outcome[c] = "ok" =>
         \A p \in Provider : ToSet(answers[c][p]) \subseteq {"ok"}
    /\ Cardinality({i \in DOMAIN pending : pending[i] = c})
         = IF strategy[c] = "failback" /\ outcome[c] = "mock" THEN 1 ELSE 0

\* Every call returns if providers answer: forking too, which waits for more
\* answers than it has started tasks when the list is short.
CallsReturn == \A c \in Call : at[c] # "idle" ~> at[c] = "done"
=============================================================================
