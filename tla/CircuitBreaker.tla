--------------------------- MODULE CircuitBreaker ---------------------------
(***************************************************************************)
(* CircuitBreaker and CircuitBreakerFilter of dubbo-filter.  The breaker   *)
(* has no lock around a decision: its state and its two instants are under *)
(* a mutex each, its counters are atomics, and what was read in one step   *)
(* may be old in the next.  Each access is a step here.                    *)
(*                                                                         *)
(* A counter is only compared with a threshold, so it is kept up to that   *)
(* threshold; an instant only by its age, so it is kept as "old enough".   *)
(* total_count is written and never read: it is left out.                  *)
(* Definitions marked "Bug:" are not part of the model (see README.md).    *)
(***************************************************************************)
EXTENDS Naturals, FiniteSets

CONSTANTS
  Task,               \* tasks that invoke through the filter
  FailureThreshold,   \* failure_threshold
  SuccessThreshold,   \* success_threshold
  MaxProbes           \* max_half_open_probes

ASSUME BreakerAssumption ==
  /\ Task # {}
  /\ FailureThreshold \in Nat \ {0}
  /\ SuccessThreshold \in Nat \ {0}
  /\ MaxProbes \in Nat \ {0}

VARIABLES
  hazards,    \* how the callers behave, fixed at the start
  where,      \* where each caller is
  state,      \* CircuitBreaker.state
  failures, successes, probes,   \* failure_count, success_count, half_open_count
  due,        \* has last_state_change been recovery_timeout ago?
  quiet       \* has last_failure_time been window_duration ago?

counters == <<failures, successes, probes>>
clocks == <<due, quiet>>
breakerVars == <<hazards, where, state, counters, clocks>>

\* "concurrent": calls overlap; "cancel": a call may be dropped half way.
Hazard == {"concurrent", "cancel"}

BreakerInit ==
  /\ hazards \in SUBSET Hazard
  /\ where = [p \in Task |-> "idle"]
  /\ state = "Closed"
  /\ failures = 0 /\ successes = 0 /\ probes = 0
  /\ due = FALSE /\ quiet = FALSE

\* One more, as far as a comparison with the threshold can tell.
Count(n, threshold) == IF n < threshold THEN n + 1 ELSE n

GoTo(p, s) == where' = [where EXCEPT ![p] = s]
At(p, s) == where[p] = s
Quiescent == \A p \in Task : where[p] = "idle"

-----------------------------------------------------------------------------
(* CircuitBreakerFilter.invoke.                                            *)

InvokeFilter(p) ==
  /\ At(p, "idle")
  /\ "concurrent" \in hazards \/ Quiescent
  /\ GoTo(p, "check")
  /\ UNCHANGED <<hazards, state, counters, clocks>>

\* next.invoke() returns, with a good result or with an error of either kind.
NextReturns(p) ==
  /\ At(p, "calling")
  /\ GoTo(p, "s_count") \/ GoTo(p, "f_count")
  /\ UNCHANGED <<hazards, state, counters, clocks>>

\* The future is dropped while it awaits next.invoke(): nothing is recorded.
Cancel(p) ==
  /\ "cancel" \in hazards
  /\ At(p, "calling")
  /\ GoTo(p, "idle")
  /\ UNCHANGED <<hazards, state, counters, clocks>>

-----------------------------------------------------------------------------
(* is_call_permitted().                                                    *)

CheckState(p) ==
  /\ At(p, "check")
  /\ GoTo(p, CASE state = "Closed" -> "calling"
               [] state = "Open" -> "age"
               [] state = "HalfOpen" -> "count_probe")
  /\ UNCHANGED <<hazards, state, counters, clocks>>

\* Bug: an open circuit rejects every call.
AgeRejects(p) ==
  /\ At(p, "age")
  /\ GoTo(p, "idle")
  /\ UNCHANGED <<hazards, state, counters, clocks>>

CheckAge(p) ==
  /\ At(p, "age")
  /\ GoTo(p, IF due THEN "to_half" ELSE "idle")
  /\ UNCHANGED <<hazards, state, counters, clocks>>

\* transition_state() writes the state, lets its lock go, and writes the instant.
WriteState(p, from, new, next) ==
  /\ At(p, from)
  /\ state' = new
  /\ GoTo(p, next)
  /\ UNCHANGED <<hazards, counters, clocks>>

WriteStamp(p, from, next) ==
  /\ At(p, from)
  /\ due' = FALSE
  /\ GoTo(p, next)
  /\ UNCHANGED <<hazards, state, counters, quiet>>

ToHalfOpen(p) ==
  \/ WriteState(p, "to_half", "HalfOpen", "stamp_half")
  \/ WriteStamp(p, "stamp_half", "reset_probes")

\* Bug: the probes of the last half-open period are still counted.
KeepProbes(p) ==
  /\ At(p, "reset_probes")
  /\ GoTo(p, "check")
  /\ UNCHANGED <<hazards, state, counters, clocks>>

ResetProbes(p) ==
  /\ At(p, "reset_probes")
  /\ probes' = 0
  /\ GoTo(p, "check")
  /\ UNCHANGED <<hazards, state, failures, successes, clocks>>

CountProbe(p) ==
  /\ At(p, "count_probe")
  /\ probes' = Count(probes, MaxProbes)
  /\ GoTo(p, IF probes < MaxProbes THEN "calling" ELSE "idle")
  /\ UNCHANGED <<hazards, state, failures, successes, clocks>>

PermitStep(p) ==
  CheckState(p) \/ CheckAge(p) \/ ToHalfOpen(p) \/ ResetProbes(p) \/ CountProbe(p)

-----------------------------------------------------------------------------
(* record_success().                                                       *)

CountSuccess(p) ==
  /\ At(p, "s_count")
  /\ successes' = Count(successes, SuccessThreshold)
  /\ GoTo(p, "s_state")
  /\ UNCHANGED <<hazards, state, failures, probes, clocks>>

SuccessState(p) ==
  /\ At(p, "s_state")
  /\ GoTo(p, IF state = "HalfOpen" THEN "s_load" ELSE "window")
  /\ UNCHANGED <<hazards, state, counters, clocks>>

EnoughSuccesses(p) ==
  /\ At(p, "s_load")
  /\ GoTo(p, IF successes >= SuccessThreshold THEN "s_clear" ELSE "idle")
  /\ UNCHANGED <<hazards, state, counters, clocks>>

Clear(p) ==
  \/ At(p, "s_clear") /\ successes' = 0 /\ GoTo(p, "f_clear") /\ UNCHANGED <<failures, probes>>
  \/ At(p, "f_clear") /\ failures' = 0 /\ GoTo(p, "p_clear") /\ UNCHANGED <<successes, probes>>
  \/ At(p, "p_clear") /\ probes' = 0 /\ GoTo(p, "to_closed") /\ UNCHANGED <<failures, successes>>

ClearCounters(p) == Clear(p) /\ UNCHANGED <<hazards, state, clocks>>

ToClosed(p) ==
  \/ WriteState(p, "to_closed", "Closed", "stamp_closed")
  \/ WriteStamp(p, "stamp_closed", "idle")

\* maybe_reset_window() holds the lock of last_failure_time, which keeps no
\* counter from changing.
ResetWindow(p) ==
  \/ /\ At(p, "window")
     /\ failures' = IF quiet THEN 0 ELSE failures
     /\ GoTo(p, IF quiet THEN "window_clear" ELSE "idle")
     /\ UNCHANGED <<hazards, state, successes, probes, clocks>>
  \/ /\ At(p, "window_clear")
     /\ successes' = 0
     /\ GoTo(p, "idle")
     /\ UNCHANGED <<hazards, state, failures, probes, clocks>>

SuccessStep(p) ==
  \/ CountSuccess(p) \/ SuccessState(p) \/ EnoughSuccesses(p) \/ ClearCounters(p)
  \/ ToClosed(p) \/ ResetWindow(p)

-----------------------------------------------------------------------------
(* record_failure().                                                       *)

CountFailure(p) ==
  /\ At(p, "f_count")
  /\ failures' = Count(failures, FailureThreshold)
  /\ GoTo(p, "f_stamp")
  /\ UNCHANGED <<hazards, state, successes, probes, clocks>>

StampFailure(p) ==
  /\ At(p, "f_stamp")
  /\ quiet' = FALSE
  /\ GoTo(p, "f_state")
  /\ UNCHANGED <<hazards, state, counters, due>>

FailureState(p) ==
  /\ At(p, "f_state")
  /\ GoTo(p, CASE state = "Closed" -> "f_load"
               [] state = "HalfOpen" -> "to_open"
               [] state = "Open" -> "idle")
  /\ UNCHANGED <<hazards, state, counters, clocks>>

\* Bug: the circuit opens after the threshold, not at it.
TooManyFailuresStrict(p) ==
  /\ At(p, "f_load")
  /\ GoTo(p, IF failures > FailureThreshold THEN "to_open" ELSE "idle")
  /\ UNCHANGED <<hazards, state, counters, clocks>>

TooManyFailures(p) ==
  /\ At(p, "f_load")
  /\ GoTo(p, IF failures >= FailureThreshold THEN "to_open" ELSE "idle")
  /\ UNCHANGED <<hazards, state, counters, clocks>>

ToOpen(p) ==
  \/ WriteState(p, "to_open", "Open", "stamp_open")
  \/ WriteStamp(p, "stamp_open", "idle")

FailureStep(p) ==
  \/ CountFailure(p) \/ StampFailure(p) \/ FailureState(p) \/ TooManyFailures(p)
  \/ ToOpen(p)

-----------------------------------------------------------------------------
(* Time.                                                                   *)

RecoveryElapses == ~due /\ due' = TRUE /\ UNCHANGED <<hazards, where, state, counters, quiet>>
WindowElapses == ~quiet /\ quiet' = TRUE /\ UNCHANGED <<hazards, where, state, counters, due>>

Run(p) == PermitStep(p) \/ SuccessStep(p) \/ FailureStep(p)

BreakerNext ==
  \/ \E p \in Task : InvokeFilter(p) \/ NextReturns(p) \/ Cancel(p) \/ Run(p)
  \/ RecoveryElapses
  \/ WindowElapses

BreakerSpec == BreakerInit /\ [][BreakerNext]_breakerVars

\* Fair: code that runs, services that answer (or fail), and time.  A caller
\* that has been rejected tries again: without calls the breaker does nothing.
BreakerFairness ==
  /\ \A p \in Task :
       WF_breakerVars(Run(p)) /\ WF_breakerVars(NextReturns(p)) /\ SF_breakerVars(InvokeFilter(p))
  /\ WF_breakerVars(RecoveryElapses)

FairBreakerSpec == BreakerSpec /\ BreakerFairness

-----------------------------------------------------------------------------
(* Properties.                                                             *)

\* When calls do not overlap, a circuit is never left closed once failures
\* have reached the threshold.
ClosedBelowThreshold ==
  "concurrent" \notin hazards /\ Quiescent /\ state = "Closed" =>
    failures < FailureThreshold

\* When calls neither overlap nor are dropped, a half-open circuit has always
\* room for another probe: those it has let in have succeeded and counted.
HalfOpenHasRoom ==
  hazards = {} /\ SuccessThreshold <= MaxProbes /\ Quiescent /\ state = "HalfOpen" =>
    probes < MaxProbes

\* An open circuit is always probed again, however calls overlap or are dropped.
OpenIsProbed == state = "Open" ~> state # "Open"

\* A half-open circuit closes or opens again: "If probes succeed, the circuit
\* closes; otherwise it re-opens".
HalfOpenResolves == hazards = {} /\ state = "HalfOpen" ~> state # "HalfOpen"

=============================================================================
