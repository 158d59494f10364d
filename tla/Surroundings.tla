---------------------------- MODULE Surroundings ----------------------------
(***************************************************************************)
(* What surrounds a call: how a consumer comes to know of providers        *)
(* without Zookeeper, over Redis, etcd or Nacos (Registries), in memory,   *)
(* and through several registries at once (Discovery); the configuration   *)
(* and the metadata (ConfigCenters, Metadata); and what is measured,       *)
(* probed and traced (Metrics, Tracing).  The six share no state.          *)
(***************************************************************************)
EXTENDS Registries, Discovery, ConfigCenters, Metadata, Metrics, Tracing

\* Registries and Discovery: a provider whose heartbeat is kept stays at the server, a
\* directory knows the providers that were announced to it, in memory as over a network,
\* and of several registries each was asked that an operation needed.
ProvidersAreFound == KeptAlive /\ HeardIsKnown /\ WatchersAgree /\ DelegatedInOrder

\* ConfigCenters and Metadata: when nothing is on its way a listener has heard the value
\* that the centre has, if no two changes overlapped; and metadata is found as the last call
\* has left it.
CentersAgree == QuietListenersAgree /\ MetadataIsFound

\* Metrics and Tracing: no error is counted before its request, a scrape that met no call
\* being recorded adds up, a health probe answers 200 or 503 for what held while it was
\* answered, and the spans of a call are one trace however often it was tried.
MetricsAreTrue == MetricsAddUp /\ ProbesAreEarned /\ SpansFormATrace
=============================================================================
