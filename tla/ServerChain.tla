---------------------------- MODULE ServerChain -----------------------------
(***************************************************************************)
(* The concurrency of the filters of dubbo-filter on a server: calls that  *)
(* go in through a chain of filters to the service and out again, and      *)
(* Instance.shutdown(), which runs beside them.                            *)
(*                                                                         *)
(* A FilterNode calls invoke() of its filter, which calls the next node,   *)
(* and then, unless that gave an Err, on_response().  The filters modelled *)
(* are those that count calls: GracefulShutdownFilter ("shutdown"),        *)
(* ActiveLimitFilter ("active") and ExecuteLimitFilter ("execute"), in any *)
(* order.  All other filters only let a call through or turn it back, and  *)
(* a chain of calls that are turned back is one of calls that fail.        *)
(* Definitions marked "Bug:" are not part of the model (see README.md).    *)
(***************************************************************************)
EXTENDS Integers, Sequences, FiniteSets

CONSTANTS
  Call,         \* callers, each with one call at a time
  Chains,       \* the orders of the filters considered
  MaxActive,    \* ActiveLimitFilter.max_active
  MaxExecute,   \* permits of the semaphore of ExecuteLimitFilter
  Registration, \* what Instance.shutdown() unregisters: a registry and a URL
  MaxDropped    \* bound on the calls that are dropped

Filter == {"shutdown", "active", "execute"}

ASSUME ChainAssumption ==
  /\ \A order \in Chains :
       /\ order \in Seq(Filter)
       /\ \A i, j \in DOMAIN order : order[i] = order[j] => i = j
  /\ IsFiniteSet(Call)
  /\ MaxActive \in Nat
  /\ MaxExecute \in Nat
  /\ MaxDropped \in Nat

VARIABLES
  failing,    \* may the service return an Err?  Fixed at the start
  broken,     \* the registrations whose registry will fail to unregister them
  chain,      \* the filters, outermost first, fixed at the start
  shared,     \* is the instance's filter the chain's, or has it its flag only?
  at,         \* the node each call is at: 0 outside, Len(chain) + 1 the service
  step,       \* what it does there
  outcome,    \* what the node inside has returned to it
  dropped,    \* how many calls have been dropped at an await
  flag,       \* GracefulShutdownFilter.shutdown_flag
  inFlight,   \* GracefulShutdownFilter.active_count
  active,     \* ActiveLimitFilter.active_count
  permits,    \* the semaphore of ExecuteLimitFilter
  stage,      \* where Instance.shutdown() is
  registered, \* what the registries hold of the instance
  toGo        \* the registrations it has not come to

call == <<at, step, outcome, dropped>>
counts == <<inFlight, active, permits>>
instance == <<stage, registered, toGo>>
config == <<failing, broken, chain, shared>>
vars == <<config, call, flag, counts, instance>>

TypeOK ==
  /\ failing \in BOOLEAN /\ broken \in SUBSET Registration
  /\ chain \in Chains /\ shared \in BOOLEAN
  /\ at \in [Call -> 0 .. Len(chain) + 1]
  /\ step \in [Call -> {"new", "in", "count", "undo", "out", "notify"}]
  /\ outcome \in [Call -> {"none", "ok", "err"}]
  /\ dropped \in 0 .. MaxDropped
  /\ flag \in BOOLEAN
  /\ inFlight \in Nat
  /\ active \in 0 .. MaxActive + Cardinality(Call)
  /\ permits \in 0 .. MaxExecute
  /\ stage \in {"serving", "unregister", "check", "arm", "wait", "completed", "timed_out"}
  /\ registered \in SUBSET Registration
  /\ toGo \in SUBSET Registration

Init ==
  /\ failing \in BOOLEAN
  /\ broken \in SUBSET Registration
  /\ chain \in Chains
  /\ shared \in BOOLEAN
  /\ at = [c \in Call |-> 0]
  /\ step = [c \in Call |-> "new"]
  /\ outcome = [c \in Call |-> "none"]
  /\ dropped = 0
  /\ flag = FALSE
  /\ inFlight = 0 /\ active = 0 /\ permits = MaxExecute
  /\ stage = "serving"
  /\ registered = Registration
  /\ toGo = {}

-----------------------------------------------------------------------------
(* The chain.                                                              *)

InnerEnd == Len(chain) + 1
InChain(f) == \E i \in DOMAIN chain : chain[i] = f

\* Call c is about to do s at filter f.
Is(c, f, s) == at[c] \in DOMAIN chain /\ chain[at[c]] = f /\ step[c] = s

Stay(c, s) ==
  /\ step' = [step EXCEPT ![c] = s]
  /\ UNCHANGED <<at, outcome, dropped>>

\* filter.invoke() calls next.invoke().
Inward(c) ==
  /\ at' = [at EXCEPT ![c] = @ + 1]
  /\ step' = [step EXCEPT ![c] = "in"]
  /\ UNCHANGED <<outcome, dropped>>

\* A node returns o to the one outside of it, or to the caller.
Outward(c, o) ==
  /\ at' = [at EXCEPT ![c] = @ - 1]
  /\ step' = [step EXCEPT ![c] = IF at[c] = 1 THEN "new" ELSE "out"]
  /\ outcome' = [outcome EXCEPT ![c] = IF at[c] = 1 THEN "none" ELSE o]
  /\ UNCHANGED dropped

Arrive(c) ==
  /\ step[c] = "new"
  /\ Inward(c)
  /\ UNCHANGED <<config, flag, counts, instance>>

\* The service answers, or fails with an Err.
Serve(c) ==
  /\ at[c] = InnerEnd
  /\ \/ Outward(c, "ok")
     \/ failing /\ Outward(c, "err")
  /\ UNCHANGED <<config, flag, counts, instance>>

\* The call's future is dropped at the await of the service.  The permit goes
\* with it; the atomics are left as they are.
Cancel(c) ==
  /\ at[c] = InnerEnd
  /\ dropped < MaxDropped
  /\ dropped' = dropped + 1
  /\ at' = [at EXCEPT ![c] = 0]
  /\ step' = [step EXCEPT ![c] = "new"]
  /\ permits' = IF InChain("execute") THEN permits + 1 ELSE permits
  /\ UNCHANGED <<config, outcome, flag, inFlight, active, instance>>

-----------------------------------------------------------------------------
(* GracefulShutdownFilter.                                                 *)

\* Bug: the flag is not looked at.
AdmitAlways(c) ==
  /\ Is(c, "shutdown", "in")
  /\ Stay(c, "count")
  /\ UNCHANGED <<config, flag, counts, instance>>

Admit(c) ==
  /\ Is(c, "shutdown", "in")
  /\ IF flag THEN Outward(c, "err") ELSE Stay(c, "count")
  /\ UNCHANGED <<config, flag, counts, instance>>

CountIn(c) ==
  /\ Is(c, "shutdown", "count")
  /\ inFlight' = inFlight + 1
  /\ Inward(c)
  /\ UNCHANGED <<config, flag, active, permits, instance>>

\* Bug: as in ActiveLimitFilter, only a call that succeeds is counted out.
CountOutIfOk(c) ==
  /\ Is(c, "shutdown", "out")
  /\ inFlight' = IF outcome[c] = "ok" THEN inFlight - 1 ELSE inFlight
  /\ IF inFlight = 1 THEN Stay(c, "notify") ELSE Outward(c, outcome[c])
  /\ UNCHANGED <<config, flag, active, permits, instance>>

CountOut(c) ==
  /\ Is(c, "shutdown", "out")
  /\ inFlight' = inFlight - 1
  /\ IF inFlight = 1 THEN Stay(c, "notify") ELSE Outward(c, outcome[c])
  /\ UNCHANGED <<config, flag, active, permits, instance>>

\* notify_waiters() wakes whoever waits now, and nobody who waits later.
Notify(c) ==
  /\ Is(c, "shutdown", "notify")
  /\ Outward(c, outcome[c])
  /\ stage' = IF flag /\ shared /\ stage = "wait" THEN "completed" ELSE stage
  /\ UNCHANGED <<config, flag, counts, registered, toGo>>

-----------------------------------------------------------------------------
(* ActiveLimitFilter.                                                      *)

\* Bug: one call too many.
LimitPast(c) ==
  /\ Is(c, "active", "in")
  /\ active' = active + 1
  /\ IF active > MaxActive THEN Stay(c, "undo") ELSE Inward(c)
  /\ UNCHANGED <<config, flag, inFlight, permits, instance>>

Limit(c) ==
  /\ Is(c, "active", "in")
  /\ active' = active + 1
  /\ IF active >= MaxActive THEN Stay(c, "undo") ELSE Inward(c)
  /\ UNCHANGED <<config, flag, inFlight, permits, instance>>

\* Bug: a call that is rejected stays counted.
UndoNothing(c) ==
  /\ Is(c, "active", "undo")
  /\ Outward(c, "err")
  /\ UNCHANGED <<config, flag, counts, instance>>

UndoLimit(c) ==
  /\ Is(c, "active", "undo")
  /\ active' = active - 1
  /\ Outward(c, "err")
  /\ UNCHANGED <<config, flag, inFlight, permits, instance>>

\* on_response(), which a node only calls when there is a response.
Unlimit(c) ==
  /\ Is(c, "active", "out")
  /\ active' = IF outcome[c] = "ok" THEN active - 1 ELSE active
  /\ Outward(c, outcome[c])
  /\ UNCHANGED <<config, flag, inFlight, permits, instance>>

-----------------------------------------------------------------------------
(* ExecuteLimitFilter.                                                     *)

\* Bug: a call that finds no permit is let in.
AcquireAnyway(c) ==
  /\ Is(c, "execute", "in")
  /\ permits' = permits - 1
  /\ Inward(c)
  /\ UNCHANGED <<config, flag, inFlight, active, instance>>

Acquire(c) ==
  /\ Is(c, "execute", "in")
  /\ IF permits > 0
       THEN permits' = permits - 1 /\ Inward(c)
       ELSE UNCHANGED permits /\ Outward(c, "err")
  /\ UNCHANGED <<config, flag, inFlight, active, instance>>

\* Bug: an error returns past the drop of the permit, which was forgotten.
ReleaseIfOk(c) ==
  /\ Is(c, "execute", "out")
  /\ permits' = IF outcome[c] = "ok" THEN permits + 1 ELSE permits
  /\ Outward(c, outcome[c])
  /\ UNCHANGED <<config, flag, inFlight, active, instance>>

Release(c) ==
  /\ Is(c, "execute", "out")
  /\ permits' = permits + 1
  /\ Outward(c, outcome[c])
  /\ UNCHANGED <<config, flag, inFlight, active, instance>>

-----------------------------------------------------------------------------
(* Instance.shutdown().                                                    *)

Shutdown ==
  /\ stage = "serving"
  /\ flag' = TRUE
  /\ stage' = "unregister"
  /\ toGo' = Registration
  /\ UNCHANGED <<config, call, counts, registered>>

\* Bug: the first failure ends the loop, as in MultipleRegistry.
UnregisterUntilError(r) ==
  /\ stage = "unregister" /\ r \in toGo
  /\ registered' = IF r \in broken THEN registered ELSE registered \ {r}
  /\ toGo' = IF r \in broken THEN {} ELSE toGo \ {r}
  /\ UNCHANGED <<config, call, flag, counts, stage>>

\* A failure is logged and the loop goes on.
Unregister(r) ==
  /\ stage = "unregister" /\ r \in toGo
  /\ registered' = IF r \in broken THEN registered ELSE registered \ {r}
  /\ toGo' = toGo \ {r}
  /\ UNCHANGED <<config, call, flag, counts, stage>>

\* The count of the filter the instance waits on.
Seen == IF shared THEN inFlight ELSE 0

\* wait_for_shutdown(): the count is read, then notified() is created.
BeginWait ==
  \/ stage = "unregister" /\ toGo = {} /\ stage' = "check"
  \/ stage = "check" /\ stage' = IF Seen = 0 THEN "completed" ELSE "arm"
  \/ stage = "arm" /\ stage' = "wait"

Wait == BeginWait /\ UNCHANGED <<config, call, flag, counts, registered, toGo>>

\* Bug: no timeout.
NoTimeout == FALSE /\ UNCHANGED vars

\* After either outcome graceful_shutdown() is called on the server the
\* instance still has: none, once start() has taken it.
WaitTimesOut ==
  /\ stage = "wait"
  /\ stage' = "timed_out"
  /\ UNCHANGED <<config, call, flag, counts, registered, toGo>>

CallStep(c) ==
  \/ Admit(c) \/ CountIn(c) \/ CountOut(c) \/ Notify(c)
  \/ Limit(c) \/ UndoLimit(c) \/ Unlimit(c)
  \/ Acquire(c) \/ Release(c)
  \/ Serve(c)

InstanceStep == (\E r \in Registration : Unregister(r)) \/ Wait \/ WaitTimesOut

Next ==
  \/ \E c \in Call : Arrive(c) \/ CallStep(c) \/ Cancel(c)
  \/ Shutdown
  \/ InstanceStep

Spec == Init /\ [][Next]_vars

\* Fair: calls once they have arrived (services return), the task that runs
\* shutdown(), and its timer.  Not fair: arrivals, cancellation, the signal.
Fairness ==
  /\ \A c \in Call : WF_vars(CallStep(c))
  /\ WF_vars(InstanceStep)

FairSpec == Spec /\ Fairness

-----------------------------------------------------------------------------
(* Properties.                                                             *)

Position(f) == CHOOSE i \in DOMAIN chain : chain[i] = f
Inside(f) == {c \in Call : at[c] > Position(f)}
Serving == {c \in Call : at[c] = InnerEnd}

\* Calls that filter f has counted in and not yet out.
Counted(f) == Inside(f) \cup {c \in Call : Is(c, f, "out")}

\* The limits hold in every order of the filters, whatever fails: at no time
\* are more calls inside a limiter than it allows.
WithinLimits ==
  /\ InChain("active") => Cardinality(Inside("active")) <= MaxActive
  /\ InChain("execute") => Cardinality(Inside("execute")) <= MaxExecute

\* No permit is ever lost, by an error, a rejection further in or a call that
\* is dropped: the semaphore and the calls that execute always add up.
PermitsAddUp ==
  InChain("execute") => permits + Cardinality(Counted("execute")) = MaxExecute

\* active_count() is the number of in-flight requests, as its comment says,
\* plus one for each call that was dropped: errors and rejections further in
\* are counted out like answers, and the count never underflows.
InFlightIsExact ==
  InChain("shutdown") => inFlight = Cardinality(Counted("shutdown")) + dropped

\* The active limiter counts correctly only if nothing inside it ever fails:
\* an Err passes by on_response(), so the call stays counted.
ActiveIsExactWithoutErrors ==
  ~failing /\ dropped = 0 /\ InChain("active") /\ Position("active") = Len(chain) =>
    active = Cardinality(Counted("active") \cup {c \in Call : Is(c, "active", "undo")})

\* Once shutdown has begun the service falls silent for good, although a call
\* that read the flag before may still come in.
FallsSilent == flag /\ InChain("shutdown") ~> [](Serving = {})

\* shutdown() returns, even if a call has been dropped and the count will
\* never be 0 again.
ShutdownReturns == stage # "serving" ~> stage \in {"completed", "timed_out"}

\* One registry that fails keeps no other from being told: when shutdown()
\* begins to wait, only the registrations that could not be removed are left.
UnregistersAllItCan == stage \notin {"serving", "unregister"} => registered = broken

\* wait_for_shutdown() "returns true if all requests completed".
DrainedWhenCompleted ==
  stage = "completed" /\ shared /\ InChain("shutdown") => Serving = {}

=============================================================================
