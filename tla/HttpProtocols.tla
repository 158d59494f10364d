--------------------------- MODULE HttpProtocols ---------------------------
(***************************************************************************)
(* The invokers of the protocols over HTTP: Triple with its streams, gRPC, *)
(* JSON-RPC and REST.  Each turns a call into a request, and what comes    *)
(* back into an RPCResult; the service and the network are external.  A    *)
(* Triple or gRPC invoker needs connect(), which refer() does not call.    *)
(***************************************************************************)
EXTENDS HessianNumbers

CONSTANTS
  Bytes,      \* arguments and results: sequences of bytes
  Verb,       \* the prefix lists that the method name may match, and "none"
  Code,       \* JSON-RPC error codes a service answers with
  Nil,
  MaxStream   \* bound on the messages of a stream

VARIABLES
  peer,       \* the invoker: protocol, keepalive, channel
  ask,        \* what it is asked: the kind of call, the arguments
  sent,       \* the request it sent
  did,        \* what the service did: a value, nothing, or a failure
  wireAnswer, \* what comes back
  result,     \* the result of invoke()
  emitted,    \* history: the messages of the service's stream
  transit,    \* those that have not been taken
  taken,      \* what next() or recv() returned
  closing     \* "open", "ended" or "broken": how the service ends its stream;
              \* then "finished": None was returned

callVars == <<ask, sent, did, wireAnswer, result>>
streamVars == <<emitted, transit, taken, closing>>
httpVars == <<peer, callVars, streamVars>>

Lost == [lost |-> TRUE]  \* no answer: the connection fails
Value(v) == [kind |-> "value", arg |-> v]
Null == [kind |-> "null", arg |-> <<>>]
Fails(code) == [kind |-> "failure", code |-> code]
Unknown == [kind |-> "unknown"]
RPCError(name) == [kind |-> "error", error |-> name]
Err == [kind |-> "err"]  \* invoke() itself returns Err
OverHttp2 == {"triple", "grpc"}
Streaming == {"server", "bidi"}
Kinds == {"unary", "client"} \cup Streaming
Arguments == {<<>>} \cup {<<v>> : v \in Bytes} \cup {<<v, w>> : v, w \in Bytes}
ServiceResults == {Value(v) : v \in Bytes} \cup {Null} \cup {Fails(c) : c \in Code}

\* Bytes are bytes, and fewer than the length of a frame can count; Nil is no value.
ASSUME HttpAssumption ==
  /\ Bytes \subseteq Seq(0 .. 255)
  /\ \A v \in Bytes : IsWord(Len(v))
  /\ Nil \notin [kind : Kinds, args : Arguments] \cup ServiceResults \cup {Unknown}

HttpInit ==
  /\ peer \in [protocol : {"triple", "grpc", "jsonrpc", "rest"}, keepalive : BOOLEAN, channel : {Nil}]
  /\ peer.keepalive => peer.protocol = "triple"
  /\ ask = Nil /\ sent = Nil /\ did = Nil /\ wireAnswer = Nil /\ result = Nil
  /\ emitted = <<>> /\ transit = <<>> /\ taken = <<>> /\ closing = "open"

\* connect() of a Triple or gRPC invoker, which may be called again.
Connect ==
  /\ peer.protocol \in OverHttp2 /\ ask = Nil /\ peer.channel = Nil
  /\ peer' = [peer EXCEPT !.channel = "up"]
  /\ UNCHANGED <<callVars, streamVars>>

\* The other end falls silent; nobody is told.
Silence ==
  /\ peer.channel = "up" /\ did = Nil
  /\ peer' = [peer EXCEPT !.channel = "silent"]
  /\ UNCHANGED <<callVars, streamVars>>

-----------------------------------------------------------------------------
(* Requests.                                                               *)

RestMethod(verb) ==
  CASE verb = "read" -> "GET" [] verb = "update" -> "PUT" [] verb = "delete" -> "DELETE"
    [] verb = "patch" -> "PATCH" [] OTHER -> "POST"

Concat(args) == IF args = <<>> THEN <<>> ELSE IF Len(args) = 1 THEN args[1] ELSE args[1] \o args[2]
EncodeFrame(payload) == BigEndian4(0, Len(payload)) \o payload
SerializeArguments(args) ==
  IF args = <<>> THEN Nil ELSE IF Len(args) = 1 THEN [one |-> args[1]] ELSE [all |-> args]

TripleRequest(args) == [type |-> "hessian2", args |-> args]
GrpcRequest(args) == [frame |-> EncodeFrame(Concat(args))]
JsonRequest(args) == [params |-> args]
RestRequest(verb, args) ==
  IF RestMethod(verb) \in {"GET", "DELETE"}
  THEN [method |-> RestMethod(verb), query |-> args]
  ELSE [method |-> RestMethod(verb), body |-> SerializeArguments(args)]

Request(protocol, verb, args) ==
  CASE protocol = "triple" -> TripleRequest(args)
    [] protocol = "grpc" -> GrpcRequest(args)
    [] protocol = "jsonrpc" -> JsonRequest(args)
    [] protocol = "rest" -> RestRequest(verb, args)

NotConnected == peer.protocol \in OverHttp2 /\ peer.channel = Nil

\* invoke(), and the streaming calls of TripleInvoker, whose requests are all given at once.
InvokeRemote(kind, verb, args) ==
  /\ ask = Nil
  /\ kind # "unary" => peer.protocol = "triple"
  /\ ask' = [kind |-> kind, args |-> args]
  /\ IF NotConnected \/ (kind \in {"client", "bidi"} /\ args = <<>>)
     THEN result' = Err /\ UNCHANGED sent
     ELSE sent' = Request(peer.protocol, verb, args) /\ UNCHANGED result
  /\ UNCHANGED <<peer, did, wireAnswer, streamVars>>

-----------------------------------------------------------------------------
(* The service, and its answer on the wire.                                *)

Waiting == sent # Nil /\ did = Nil
Unary == ask.kind \notin Streaming
Silent == peer.channel = "silent"

Wire(protocol, o) ==
  CASE protocol = "triple" ->
         {IF o.kind = "failure" THEN [ok |-> FALSE]
          ELSE [ok |-> TRUE, type |-> IF o.kind = "null" THEN "" ELSE "type", data |-> o.arg]}
    [] protocol = "grpc" ->  \* an error in the trailers alone leaves 200 and no body
         IF o.kind = "failure" THEN {[http |-> 200, body |-> <<>>], [http |-> 500, body |-> <<>>]}
         ELSE {[http |-> 200, body |-> SubSeq(EncodeFrame(o.arg), 1, n)] : n \in 0 .. Len(o.arg) + 5}
              \cup {[http |-> 200, body |-> <<1, 0, 0, 0, 0>>]}
    [] protocol = "jsonrpc" ->
         {[result |-> IF o.kind = "value" THEN o.arg ELSE Nil,
           error |-> IF o.kind = "failure" THEN o.code ELSE Nil]}
    [] protocol = "rest" ->
         {[http |-> IF o.kind = "failure" THEN 500 ELSE 200, body |-> IF o.kind = "failure" THEN <<>> ELSE o.arg]}

Act(o) ==
  /\ Waiting /\ Unary /\ ~Silent
  /\ did' = o
  /\ wireAnswer' \in Wire(peer.protocol, o) \cup {Lost}
  /\ UNCHANGED <<peer, ask, sent, result, streamVars>>

\* Without keepalive a silent connection is waited for without end.
NoticeSilence ==
  /\ Waiting /\ Silent /\ peer.keepalive /\ closing = "open"
  /\ did' = Unknown
  /\ wireAnswer' = Lost
  /\ closing' = IF Unary THEN closing ELSE "broken"
  /\ UNCHANGED <<peer, ask, sent, result, emitted, transit, taken>>

-----------------------------------------------------------------------------
(* Answers.                                                                *)

\* decode_grpc_frame(): what is too short is taken for an empty message.
HeadLength == 5
BugFrameMessage(data, len) == SubSeq(data, HeadLength, HeadLength + len)
FrameMessage(data, len) == SubSeq(data, HeadLength + 1, HeadLength + len)

DecodeFrame(data) ==
  IF Len(data) < HeadLength THEN Value(<<>>)
  ELSE IF data[1] # 0 THEN Err
  ELSE LET len == FromBytes4(data, 2)
       IN Value(IF Len(data) < HeadLength + len THEN <<>> ELSE FrameMessage(data, len))

\* to_rpc_error().
ToRpcError(code) ==
  IF code = -32601 THEN "ServiceNotFound"
  ELSE IF code \in {-32602, -32600, -32700} THEN "BadRequest"
  ELSE IF code \in -32099 .. -32000 THEN "ServerError" ELSE "ServiceError"

FromJson(w) ==
  IF w.result # Nil THEN Value(w.result)
  ELSE IF w.error # Nil THEN RPCError(ToRpcError(w.error)) ELSE Err

FromTriple(w) == IF w.ok THEN Value(w.data) ELSE Err
FromGrpc(w) == IF w.http = 200 THEN DecodeFrame(w.body) ELSE Err
FromRest(w) == IF w.http = 200 THEN Value(w.body) ELSE RPCError("ServiceError")

FromWire(protocol, w) ==
  IF w = Lost THEN Err
  ELSE CASE protocol = "triple" -> FromTriple(w)
         [] protocol = "grpc" -> FromGrpc(w)
         [] protocol = "jsonrpc" -> FromJson(w)
         [] protocol = "rest" -> FromRest(w)

ReturnResult ==
  /\ wireAnswer # Nil /\ result = Nil /\ Unary
  /\ result' = FromWire(peer.protocol, wireAnswer)
  /\ UNCHANGED <<peer, ask, sent, did, wireAnswer, streamVars>>

-----------------------------------------------------------------------------
(* The streams of Triple: what is sent later by send() is dropped.         *)

Emit(v) ==
  /\ Waiting /\ ~Unary /\ ~Silent /\ closing = "open" /\ Len(emitted) < MaxStream
  /\ emitted' = Append(emitted, v)
  /\ transit' = Append(transit, v)
  /\ UNCHANGED <<peer, callVars, taken, closing>>

\* The service ends its stream, or it breaks and what is on the way may be lost.
EndStream ==
  /\ Waiting /\ ~Unary /\ closing = "open"
  /\ \/ closing' = "ended" /\ UNCHANGED transit
     \/ closing' = "broken" /\ \E n \in 0 .. Len(transit) : transit' = SubSeq(transit, 1, n)
  /\ UNCHANGED <<peer, callVars, emitted, taken>>

\* TripleServerStream::next(), TripleBidiStream::recv(): an error is the end as well.
Next ==
  /\ transit # <<>>
  /\ taken' = Append(taken, transit[1])
  /\ transit' = Tail(transit)
  /\ UNCHANGED <<peer, callVars, emitted, closing>>

FinishStream ==
  /\ ask # Nil /\ ~Unary /\ transit = <<>> /\ closing \in {"ended", "broken"}
  /\ closing' = "finished"
  /\ UNCHANGED <<peer, callVars, emitted, transit, taken>>

HttpNext ==
  \/ Connect \/ Silence
  \/ \E kind \in Kinds, verb \in Verb, args \in Arguments : InvokeRemote(kind, verb, args)
  \/ \E o \in ServiceResults : Act(o)
  \/ NoticeSilence \/ ReturnResult
  \/ \E v \in Bytes : Emit(v)
  \/ EndStream \/ Next \/ FinishStream

HttpSpec == HttpInit /\ [][HttpNext]_httpVars

-----------------------------------------------------------------------------

\* A success is earned: the service has returned that value, or nothing (no bytes), in every
\* protocol but gRPC, where an empty result may also stand for an error or a message cut
\* short.  An RPCError says that the service failed, and of a stream what was taken is the
\* beginning of what was emitted, whatever breaks.
RemoteResultsAreKept ==
  /\ result # Nil =>
       /\ result.kind = "value" =>
            \/ did.kind \in {"value", "null"} /\ result.arg = did.arg
            \/ peer.protocol = "grpc" /\ result.arg = <<>>
       /\ result.kind = "error" => did.kind = "failure"
       /\ result.kind = "err" =>
            \/ did = Nil \/ wireAnswer = Lost
            \/ did.kind = "failure" \/ peer.protocol \in {"jsonrpc", "grpc"}
  /\ taken \o transit = SubSeq(emitted, 1, Len(taken) + Len(transit))
=============================================================================
