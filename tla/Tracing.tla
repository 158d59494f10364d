------------------------------- MODULE Tracing -------------------------------
(***************************************************************************)
(* TracingFilter at both ends of a call.  A consumer's context is invoked  *)
(* as often as its cluster tries; the provider's context is made of what   *)
(* has come over the wire.  Each filter reads the traceparent that its     *)
(* context carries, and puts its own span there before it goes on.         *)
(***************************************************************************)
EXTENDS Naturals, FiniteSets

CONSTANTS
  MaxAttempt,   \* bound on the attempts of the call
  Absent,
  Bad           \* an id that is not so many lower-case hexadecimal digits

VARIABLES
  setup,        \* sample_rate and exporter of the two filters
  carried,      \* the traceparent in the context of each end
  running,      \* what the filter of each end is doing
  attempt,      \* attempts so far
  ids,          \* the next trace or span id
  exported,     \* the spans that have ended
  first         \* history: the traceparent the caller gave

tracingVars == <<setup, carried, running, attempt, ids, exported, first>>

End == {"consumer", "provider"}
Setups == [rate : {"none", "some", "all"}, exporter : {"otlp", "stdout"}, endpoint : BOOLEAN]

\* What a caller may have put there, of trace 0 and span 1: the flags are not looked at, and may be missing.
Traceparent(version, trace, span, sampled) ==
  [version |-> version, trace |-> trace, span |-> span, sampled |-> sampled]
Given == {Absent, Traceparent("00", 0, 1, TRUE), Traceparent("00", 0, 1, Absent),
          Traceparent("01", 0, 1, TRUE), Traceparent("00", Bad, 1, TRUE),
          Traceparent("00", 0, Bad, TRUE)}

ASSUME TracingAssumption ==
  /\ Absent \notin Nat /\ Bad \notin Nat
  /\ Absent \notin [trace : Nat, span : Nat]
  /\ Absent \notin [version : {"00", "01"}, trace : Nat \cup {Bad}, span : Nat \cup {Bad},
                    sampled : BOOLEAN \cup {Absent}]

Resting == [at |-> "rest", trace |-> Absent, parent |-> Absent, span |-> Absent, sampled |-> FALSE]

TracingInit ==
  /\ setup \in [End -> Setups]
  /\ first \in Given
  /\ carried = [e \in End |-> IF e = "consumer" THEN first ELSE Absent]
  /\ running = [e \in End |-> Resting]
  /\ attempt = 0 /\ ids = 2 /\ exported = {}

-----------------------------------------------------------------------------

\* parse_traceparent(): Absent if the version or an id is not what it should be.
ParseTraceparent(t) ==
  IF t = Absent THEN Absent
  ELSE IF t.version # "00" \/ Bad \in {t.trace, t.span} THEN Absent
  ELSE [trace |-> t.trace, span |-> t.span]

HasExporter(e) == setup[e].exporter = "stdout" \/ setup[e].endpoint

\* should_sample(): by the clock when the rate is between none and all.  What the
\* incoming flags say is not asked.
ShouldSample(e) ==
  CASE setup[e].rate = "all" -> {TRUE}
    [] setup[e].rate = "none" -> {FALSE}
    [] OTHER -> BOOLEAN

\* invoke() up to next.invoke().
ParentOf(incoming) == IF incoming = Absent THEN Absent ELSE incoming.span

Enter(e) ==
  LET incoming == ParseTraceparent(carried[e])
      trace == IF incoming = Absent THEN ids ELSE incoming.trace
      span == ids
  IN \E sampled \in ShouldSample(e) :
       /\ carried' = [carried EXCEPT ![e] = Traceparent("00", trace, span, sampled)]
       /\ running' = [running EXCEPT ![e] =
            [at |-> "calling", trace |-> trace, parent |-> ParentOf(incoming),
             span |-> span, sampled |-> sampled]]
       /\ ids' = ids + 1

Attempt ==
  /\ running["consumer"] = Resting /\ attempt < MaxAttempt
  /\ attempt' = attempt + 1
  /\ Enter("consumer")
  /\ UNCHANGED <<setup, exported, first>>

\* The request reaches the provider, whose context has the attachments that were sent.
Arrive ==
  /\ running["consumer"].at = "calling" /\ running["provider"] = Resting
  /\ carried' = [carried EXCEPT !["provider"] = carried["consumer"]]
  /\ running' = [running EXCEPT !["consumer"].at = "sent", !["provider"].at = "arrived"]
  /\ UNCHANGED <<setup, attempt, ids, exported, first>>

Serve ==
  /\ running["provider"].at = "arrived"
  /\ Enter("provider")
  /\ UNCHANGED <<setup, attempt, exported, first>>

\* next.invoke() returns, or its future is dropped: the span ends in any case.  (The status
\* it gets of an error is left out.)
Finish(e) ==
  /\ running[e].at \in {"calling", "sent"}
  /\ exported' = IF HasExporter(e) /\ running[e].sampled
                 THEN exported \cup {[end |-> e, trace |-> running[e].trace,
                                      span |-> running[e].span, parent |-> running[e].parent]}
                 ELSE exported
  /\ running' = [running EXCEPT ![e] = Resting]
  /\ UNCHANGED <<setup, carried, attempt, ids, first>>

TracingNext == Attempt \/ Arrive \/ Serve \/ \E e \in End : Finish(e)

TracingSpec == TracingInit /\ [][TracingNext]_tracingVars

-----------------------------------------------------------------------------

\* All spans of a call are of one trace, that of the caller if it gave one; none has two
\* children at the consumer, where a further attempt is the child of the one before; and
\* every chain of parents begins with what the caller gave, or with nothing.
SpansFormATrace ==
  /\ \A s, t \in exported : s.trace = t.trace /\ (s.span = t.span => s = t)
  /\ ParseTraceparent(first) # Absent => \A s \in exported : s.trace = first.trace
  /\ \A s, t \in exported :
       s # t /\ s.end = "consumer" /\ t.end = "consumer" => s.parent # t.parent
  /\ ParseTraceparent(first) = Absent => Cardinality({s \in exported : s.parent = Absent}) <= 1
  /\ (\A e \in End : setup[e].rate = "all" /\ HasExporter(e))
       /\ (\A e \in End : running[e] = Resting) => \A s \in exported :
         \/ s.parent \in {t.span : t \in exported}
         \/ s.parent = ParentOf(ParseTraceparent(first))
=============================================================================
