------------------------------ MODULE Metrics -------------------------------
(***************************************************************************)
(* The metrics filter, the collector it records in and the endpoint that   *)
(* is scraped; the health checker and its endpoint.  A call is recorded    *)
(* step by step while a scrape reads one metric after another, and a probe *)
(* reads the status and runs the checks twice, for its body and its code.  *)
(***************************************************************************)
EXTENDS Naturals, Sequences, FiniteSets

CONSTANTS
  Invocation, Scraper, Prober,
  Event,     \* the metrics of the registry, the metadata and the configuration centre
  Check,     \* the names of health checks
  MaxMove    \* bound on the operations recorded, and on the changes of the health

VARIABLES
  families,   \* the metrics registered, none when build() has failed
  recording,  \* what each call of the filter has still to record
  total,      \* how often each sample was recorded
  scrape,     \* what each scrape has still to gather and has got, and whether (history)
              \* any call was being recorded meanwhile
  health,     \* the status, the checks registered, and those that would succeed now
  moves,      \* how many changes of health there were
  probe       \* each request at the health endpoint, with (history) what held since it began

collectorVars == <<families, recording, total, scrape>>
healthVars == <<health, moves, probe>>
metricsVars == <<collectorVars, healthVars>>

\* A call's samples: the requests by status, the durations, the errors.
Sample == {"success", "error_status", "duration", "error"}
Metric == {"requests", "durations", "errors"} \cup Event
SamplesOf(metric) ==
  CASE metric = "requests" -> {"success", "error_status"}
    [] metric = "durations" -> {"duration"}
    [] metric = "errors" -> {"error"}
    [] OTHER -> {metric}

ASSUME MetricsAssumption ==
  /\ IsFiniteSet(Invocation)
  /\ Event \cap (Sample \cup {"requests", "durations", "errors"}) = {}

\* build() registers every metric once; a namespace that makes no metric name is an error,
\* and there is no collector.
Build == families \in {Metric, {}}

HealthStatus == {"Starting", "Up", "Down", "Stopping"}
NewHealth == [status |-> "Starting", checks |-> {}, good |-> Check]

MetricsInit ==
  /\ Build
  /\ recording = [c \in Invocation |-> <<"start">>]
  /\ total = [s \in Sample \cup Event |-> 0]
  /\ scrape = [s \in Scraper |-> [left |-> {}, got |-> <<>>, disturbed |-> FALSE]]
  /\ health = NewHealth /\ moves = 0
  /\ probe = [p \in Prober |-> [pc |-> "idle"]]

-----------------------------------------------------------------------------
(* MetricsFilter::invoke() and MetricsCollector::record_*().               *)

Recording(c, steps) == recording' = [recording EXCEPT ![c] = steps]

Invoke(c) ==
  /\ families # {} /\ recording[c] = <<"start">>
  /\ Recording(c, <<"call">>)
  /\ UNCHANGED <<families, total, scrape, healthVars>>

\* The order of record_invocation() for a result, and that of the filter for an Err.
BugSteps(outcome) ==
  CASE outcome = "ok" -> <<"duration", "success">>
    [] outcome = "rpc_error" -> <<"duration", "error", "error_status">>
    [] outcome = "err" -> <<"error", "error_status", "duration">>
Steps(outcome) ==
  CASE outcome = "ok" -> <<"duration", "success">>
    [] outcome = "rpc_error" -> <<"duration", "error_status", "error">>
    [] outcome = "err" -> <<"error_status", "duration", "error">>

\* next.invoke() returns; the future of a cancelled call is dropped, and nothing is recorded.
Return(c) ==
  /\ recording[c] = <<"call">>
  /\ \E outcome \in {"ok", "rpc_error", "err"} : Recording(c, Steps(outcome))
  /\ UNCHANGED <<families, total, scrape, healthVars>>

Cancel(c) ==
  /\ recording[c] = <<"call">>
  /\ Recording(c, <<>>)
  /\ UNCHANGED <<families, total, scrape, healthVars>>

Inc(s) == total' = [total EXCEPT ![s] = @ + 1]

\* While a call is being recorded, what is scraped is torn.
Record(c) ==
  /\ recording[c] # <<>> /\ Head(recording[c]) \in Sample
  /\ Inc(Head(recording[c]))
  /\ Recording(c, Tail(recording[c]))
  /\ scrape' = [s \in Scraper |-> [scrape[s] EXCEPT !.disturbed = TRUE]]
  /\ UNCHANGED <<families, healthVars>>

RecordEvent(o) ==
  /\ families # {} /\ total[o] < MaxMove
  /\ Inc(o)
  /\ UNCHANGED <<families, recording, scrape, healthVars>>

BeingRecorded(c) == recording[c] # <<>> /\ Head(recording[c]) \in Sample

-----------------------------------------------------------------------------
(* MetricsExporter, at GET /metrics: the metrics in an order of the         *)
(* registry's own, each at its moment.                                     *)

Scrape(s) ==
  /\ families # {} /\ scrape[s].left = {}
  /\ scrape' = [scrape EXCEPT ![s] =
       [left |-> families, got |-> <<>>, disturbed |-> \E c \in Invocation : BeingRecorded(c)]]
  /\ UNCHANGED <<families, recording, total, healthVars>>

Gather(s, metric) ==
  /\ metric \in scrape[s].left
  /\ scrape' = [scrape EXCEPT
       ![s].left = @ \ {metric},
       ![s].got = [x \in DOMAIN @ \cup SamplesOf(metric) |->
                     IF x \in SamplesOf(metric) THEN total[x] ELSE @[x]]]
  /\ UNCHANGED <<families, recording, total, healthVars>>

-----------------------------------------------------------------------------
(* HealthChecker and HealthEndpoint.                                       *)

Well(h) == h.status = "Up" /\ h.checks \subseteq h.good

\* set_status(), add_check(), or what a check looks at changes.
HealthChanges ==
  /\ moves < MaxMove /\ moves' = moves + 1
  /\ \/ \E status \in HealthStatus : health' = [health EXCEPT !.status = status]
     \/ \E c \in Check \ health.checks : health' = [health EXCEPT !.checks = @ \cup {c}]
     \/ \E c \in Check : health' = [health EXCEPT !.good = IF c \in @ THEN @ \ {c} ELSE @ \cup {c}]
  /\ probe' = [p \in Prober |->
       IF probe[p].pc = "idle" THEN probe[p]
       ELSE [probe[p] EXCEPT !.up = @ \/ health'.status = "Up",
                             !.good = @ \cup health'.good,
                             !.well = @ /\ Well(health')]]
  /\ UNCHANGED collectorVars

\* /health writes its body from the status and all the checks, and then asks is_healthy();
\* /health/ready looks at the status only, /health/live at nothing.
Probe(p, path) ==
  /\ probe[p].pc = "idle"
  /\ probe' = [probe EXCEPT ![p] =
       [path |-> path, body |-> "none", left |-> {}, ran |-> {}, code |-> 200,
        pc |-> CASE path = "/health" -> "body" [] path = "/health/ready" -> "status"
                 [] OTHER -> "answer",
        up |-> health.status = "Up", good |-> health.good, well |-> Well(health)]]
  /\ UNCHANGED <<collectorVars, health, moves>>

\* to_json()
WriteBody(p) ==
  /\ probe[p].pc = "body"
  /\ probe' = [probe EXCEPT ![p].pc = "status", ![p].body = health.status]
  /\ UNCHANGED <<collectorVars, health, moves>>

\* is_healthy(): 503 is decided at once unless the status is Up.
ReadStatus(p) ==
  /\ probe[p].pc = "status"
  /\ probe' = [probe EXCEPT
       ![p].pc = IF probe[p].path = "/health" /\ health.status = "Up" THEN "checks" ELSE "answer",
       ![p].left = health.checks, ![p].ran = health.checks,
       ![p].code = IF health.status = "Up" THEN 200 ELSE 503]
  /\ UNCHANGED <<collectorVars, health, moves>>

\* all() stops at the first check that fails.
Verdict(c) == IF c \in health.good THEN 200 ELSE 503
BugVerdict(c) == 200
RunCheck(p, c) ==
  /\ probe[p].pc = "checks" /\ c \in probe[p].left
  /\ probe' = [probe EXCEPT ![p].code = Verdict(c),
                            ![p].left = IF Verdict(c) = 200 THEN @ \ {c} ELSE {}]
  /\ UNCHANGED <<collectorVars, health, moves>>

Decided(p) == probe[p].pc = "answer" \/ (probe[p].pc = "checks" /\ probe[p].left = {})

Answer(p) ==
  /\ Decided(p)
  /\ probe' = [probe EXCEPT ![p] = [pc |-> "idle"]]
  /\ UNCHANGED <<collectorVars, health, moves>>

CollectorNext ==
  \/ \E c \in Invocation : Invoke(c) \/ Return(c) \/ Cancel(c) \/ Record(c)
  \/ \E o \in Event : RecordEvent(o)
  \/ \E s \in Scraper : Scrape(s) \/ \E metric \in Metric : Gather(s, metric)

HealthNext ==
  \/ HealthChanges
  \/ \E p \in Prober :
       \/ \E path \in {"/health", "/health/ready", "/health/live"} : Probe(p, path)
       \/ WriteBody(p) \/ ReadStatus(p) \/ Answer(p)
       \/ \E c \in Check : RunCheck(p, c)

MetricsSpec == MetricsInit /\ [][CollectorNext \/ HealthNext]_metricsVars

-----------------------------------------------------------------------------

\* An error is never counted before its request, and a duration is missing or ahead for no
\* more calls than are being recorded.
CountersAgree ==
  LET requests == total["success"] + total["error_status"]
      open == Cardinality({c \in Invocation : BeingRecorded(c)})
  IN /\ total["error"] <= total["error_status"]
     /\ requests <= total["duration"] + open /\ total["duration"] <= requests + open

\* A scrape that met no call being recorded adds up.
ScrapesAddUp ==
  \A s \in Scraper :
    LET got == scrape[s].got
    IN scrape[s].left = {} /\ got # <<>> /\ ~scrape[s].disturbed =>
         /\ got["error"] = got["error_status"]
         /\ got["duration"] = got["success"] + got["error_status"]

\* A probe that answers 200 has found the status Up, and every check it ran successful, at
\* some moment of its own; one that answers 503 was not well all the time.
ProbesAreEarned ==
  \A p \in Prober : Decided(p) =>
    LET r == probe[p]
    IN /\ r.code = 200 /\ r.path # "/health/live" => r.up /\ (r.path = "/health" => r.ran \subseteq r.good)
       /\ r.well => r.code = 200 /\ r.body \in {"none", "Up"}

MetricsAddUp == CountersAgree /\ ScrapesAddUp
=============================================================================
