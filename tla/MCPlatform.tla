---------------------------- MODULE MCPlatform -----------------------------
(***************************************************************************)
(* The parts of the platform that share no state, side by side for TLC:    *)
(* each behaviour exercises one of them, named by part, and leaves the     *)
(* others in one of their initial states.                                  *)
(***************************************************************************)
EXTENDS Surroundings, Wire

CONSTANTS half, tenth, small, full, large

VARIABLES
  part,
  at, acceptor, permit, closed, connected, accepted, tonic, flag

listenerVars == <<at, acceptor, permit, closed, connected, accepted, tonic, flag>>
otherVars == <<discoveryVars, multipleVars, tracingVars>>
platformVars == <<part, hessianVars, messageVars, httpVars, configVars, registryVars, metadataVars,
                  listenerVars, collectorVars, healthVars, otherVars>>

\* Values: a text of 8 characters, one of 40, and one longer than a chunk holds; and names.
PlatformTexts == {"brief", "large", "huge"}
AllTexts == PlatformTexts \cup
  {"Person", "name", "Exception", "message", "stackTrace", "cause", "StackTraceElement", "class",
   "method", "file", "line", "scale", "value"}
TextLengths == [t \in AllTexts |-> CASE t = "huge" -> 65540 [] t = "large" -> 40 [] OTHER -> 8]
Numbers == {0, 47, 48, -17, -2048, 2048, -262145, 2147483647, -9}
Doubles == {0, NegZero, 1, -128, 128, half, tenth}
Classes == {[name |-> "Person", fields |-> <<"name">>]}
ThrownClass == [name |-> "Exception", fields |-> <<"message", "stackTrace", "cause">>]
FrameClass == [name |-> "StackTraceElement", fields |-> <<"class", "method", "file", "line">>]

\* Types with and without dimensions, and payloads at the length that is cut.
AB == <<"object", <<"a", ".", "B">>>>
PlatformTypes == {<<0, <<"I">>>>, <<0, AB>>, <<1, <<"I">>>>, <<1, AB>>, <<2, <<"I">>>>}
Sizes == [p \in {small, full, large} |->
            CASE p = large -> 65536 [] p = full -> 65535 [] OTHER -> 3]

ByteStrings == {<<>>, <<7>>, <<7, 9>>}
Codes == {-32601, -32602, -32000, -32603, 5}

Sockets == INSTANCE Listeners WITH
  Export <- {"x1", "x2"}, Address <- {"a1", "a2"}, Peer <- {"p1"}, MaxAccept <- 1

Part == {"hessian", "messages", "http", "config", "registries", "metadata", "listeners",
         "metrics", "health", "discovery", "multiple", "tracing"}

\* A part that is not exercised starts, of the initial states it has, in one.
PlatformInit ==
  /\ part \in Part
  /\ HessianInit
  /\ MessageInit
  /\ IF part = "http" THEN TRUE
     ELSE peer = [protocol |-> "grpc", keepalive |-> FALSE, channel |-> Nil]
  /\ HttpInit
  /\ IF part = "config" THEN TRUE ELSE center = "memory"
  /\ ConfigInit
  /\ IF part = "registries" THEN TRUE ELSE registry = "redis"
  /\ RegistryInit
  /\ IF part = "metadata" THEN TRUE ELSE storage = "memory"
  /\ MetadataInit
  /\ IF part = "listeners" THEN TRUE ELSE tonic = Sockets!Built(FALSE, FALSE, "invalid")
  /\ Sockets!ListenersInit
  /\ IF part = "metrics" THEN TRUE ELSE families = {}
  /\ MetricsInit
  /\ DiscoveryInit /\ MultipleInit
  /\ IF part = "tracing" THEN TRUE
     ELSE first = Absent /\ setup = [e \in End |->
                                    [rate |-> "all", exporter |-> "otlp", endpoint |-> FALSE]]
  /\ TracingInit

PlatformNext ==
  \/ /\ part = "hessian" /\ HessianNext
     /\ UNCHANGED <<part, messageVars, httpVars, configVars, registryVars, metadataVars,
                    listenerVars, collectorVars, healthVars, otherVars>>
  \/ /\ part = "messages" /\ MessageNext
     /\ UNCHANGED <<part, hessianVars, httpVars, configVars, registryVars, metadataVars,
                    listenerVars, collectorVars, healthVars, otherVars>>
  \/ /\ part = "http" /\ HttpNext
     /\ UNCHANGED <<part, hessianVars, messageVars, configVars, registryVars, metadataVars,
                    listenerVars, collectorVars, healthVars, otherVars>>
  \/ /\ part = "config" /\ ConfigNext
     /\ UNCHANGED <<part, hessianVars, messageVars, httpVars, registryVars, metadataVars,
                    listenerVars, collectorVars, healthVars, otherVars>>
  \/ /\ part = "registries" /\ RegistryNext
     /\ UNCHANGED <<part, hessianVars, messageVars, httpVars, configVars, metadataVars,
                    listenerVars, collectorVars, healthVars, otherVars>>
  \/ /\ part = "metadata" /\ MetadataNext
     /\ UNCHANGED <<part, hessianVars, messageVars, httpVars, configVars, registryVars,
                    listenerVars, collectorVars, healthVars, otherVars>>
  \/ /\ part = "listeners" /\ Sockets!ListenersNext
     /\ UNCHANGED <<part, hessianVars, messageVars, httpVars, configVars, registryVars, metadataVars,
                    collectorVars, healthVars, otherVars>>
  \/ /\ part = "metrics" /\ CollectorNext
     /\ UNCHANGED <<part, hessianVars, messageVars, httpVars, configVars, registryVars, metadataVars,
                    listenerVars, otherVars>>
  \/ /\ part = "health" /\ HealthNext
     /\ UNCHANGED <<part, hessianVars, messageVars, httpVars, configVars, registryVars, metadataVars,
                    listenerVars, otherVars>>
  \/ /\ \/ part = "discovery" /\ DiscoveryNext
        \/ part = "multiple" /\ MultipleNext
     /\ UNCHANGED <<part, hessianVars, messageVars, httpVars, configVars, registryVars, metadataVars,
                    listenerVars, collectorVars, healthVars, tracingVars>>
  \/ /\ part = "tracing" /\ TracingNext
     /\ UNCHANGED <<part, hessianVars, messageVars, httpVars, configVars, registryVars, metadataVars,
                    listenerVars, collectorVars, healthVars, discoveryVars, multipleVars>>

\* The tasks that were spawned are run, and a select! whose branch stays ready takes it.
PlatformSpec == PlatformInit /\ [][PlatformNext]_platformVars /\ Sockets!ListenersFairness

-----------------------------------------------------------------------------

\* Listeners: a server whose close() has run gives its address up, however early that was.
ClosedLetGo == Sockets!ClosedLetGo
=============================================================================
