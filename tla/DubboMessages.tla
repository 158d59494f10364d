--------------------------- MODULE DubboMessages ---------------------------
(***************************************************************************)
(* One exchange of the Dubbo protocol, and what becomes of its content:    *)
(* DubboInvoker::invoke, the bodies (body.rs), the 16-byte header          *)
(* (codec.rs), handle_connection, the service, and back.  A request may    *)
(* also come from a stranger.  How frames travel is DubboExchange's, how   *)
(* a value is written is Hessian2's: a body is the sequence of the values  *)
(* written to it, with one thing kept: the length of an argument or of a   *)
(* result is cut to sixteen bits, and the bytes beyond it stray into the   *)
(* next value that is read.  Names and descriptors are taken to be short.  *)
(***************************************************************************)
EXTENDS Integers, Sequences, SequencesExt, Functions

CONSTANTS
  Payload,     \* arguments and results, each one serialized
  Size,        \* the size of each in bytes
  Letter,      \* the characters of a class name
  Type,        \* JavaType: how many times an array, and of what: <<"I">>, <<"object", name>>
  Attachment,  \* keys and values
  Id,          \* request ids
  MaxList,     \* bound on the parameters, arguments and attachments of a call
  Missing

VARIABLES
  stage,       \* how far the exchange has come
  asked,       \* the InvocationContext of the consumer, Missing for a stranger
  frame,       \* the frame on the way
  seen,        \* the InvocationContext the service was given
  outcome,     \* what the service returned
  reply        \* what invoke() returned

messageVars == <<stage, asked, frame, seen, outcome, reply>>

-----------------------------------------------------------------------------
(* Type descriptors: type_descriptor.rs, and body.rs for the parameters.   *)

Primitive == {"B", "C", "D", "F", "I", "J", "S", "Z", "V"}
Dimensions(type) == type[1]
Element(type) == type[2]
Slashed(name) == [i \in DOMAIN name |-> IF name[i] = "." THEN "/" ELSE name[i]]
Descriptor(type) ==
  [i \in 1 .. Dimensions(type) |-> "["]
  \o IF Element(type)[1] = "object" THEN <<"L">> \o Slashed(Element(type)[2]) \o <<";">>
     ELSE Element(type)

IsFirst(j, set) == j \in set /\ \A k \in set : j <= k
\* Where the object at i ends, and 0 if it does not.
AfterObject(s, i) ==
  LET ends == {j \in i .. Len(s) : s[j] = ";"}
  IN IF ends = {} THEN 0 ELSE 1 + CHOOSE j \in ends : IsFirst(j, ends)

\* parse_descriptor_helper(): where the type at i ends, 0 for an error.  An array is as
\* many brackets as it has dimensions, and its element.
TypeEnd(s, i) ==
  LET rest == {j \in i .. Len(s) : s[j] # "["}
      j == CHOOSE first \in rest : IsFirst(first, rest)
  IN IF rest = {} THEN 0
     ELSE IF s[j] \in Primitive THEN j + 1
     ELSE IF s[j] = "L" THEN AfterObject(s, j) ELSE 0

\* parse_parameter_descriptor(): one that has no end goes on to the end of s, and the
\* element of an array is an object or one character.
ParameterEnd(s, i) ==
  LET j == IF s[i] = "[" THEN i + 1 ELSE i
  IN IF j > Len(s) THEN j
     ELSE IF s[j] # "L" THEN j + 1
     ELSE IF AfterObject(s, j) = 0 THEN Len(s) + 1 ELSE AfterObject(s, j)

\* The types of s, each from where the one before has ended to where it ends itself.
Onward(s, end, i) == IF i \in DOMAIN s THEN end[i] ELSE i
Split(s, end) ==
  LET at[k \in 0 .. Len(s)] == IF k = 0 THEN 1 ELSE Onward(s, end, at[k - 1])
      beyond == {n \in 0 .. Len(s) : at[n] \notin DOMAIN s}
      count == CHOOSE k \in 0 .. Len(s) : IsFirst(k, beyond)
  IN [k \in 1 .. count |-> SubSeq(s, at[k - 1], at[k] - 1)]
ParseParameters(s) == Split(s, [i \in DOMAIN s |-> ParameterEnd(s, i)])
ParseArguments(s) == Split(s, [i \in DOMAIN s |-> TypeEnd(s, i)])

-----------------------------------------------------------------------------
(* Bodies.                                                                 *)

Item(op, arg) == [op |-> op, arg |-> arg]
Stray == Item("stray", Missing)
WriteItem(p) ==
  IF Size[p] < 65536 THEN <<Item("binary", p)>> ELSE <<Item("binary", <<"cut", p>>), Stray>>
Strings(args) == [i \in DOMAIN args |-> Item("string", args[i])]

\* InvocationContext: the method, the types, the arguments, the attachments.
RequestBody(ctx) ==
  Strings(<<"2.0.2", "path", "version", ctx.method,
            FlattenSeq([i \in DOMAIN ctx.types |-> Descriptor(ctx.types[i])])>>)
  \o <<Item("list", Len(ctx.arguments))>>
  \o FlattenSeq([i \in DOMAIN ctx.arguments |-> WriteItem(ctx.arguments[i])])
  \o <<Item("map", Missing)>>
  \o FlattenSeq([i \in DOMAIN ctx.attachments |-> Strings(<<ctx.attachments[i], ctx.attachments[i]>>)])
  \o <<Item("end", Missing)>>

Ops(body, from, to) == [i \in from .. to |-> IF i <= Len(body) THEN body[i].op ELSE "nothing"]
AllAre(body, from, to, op) == Range(Ops(body, from, to)) \subseteq {op}

Decoded(body) ==
  LET count == body[6].arg
      pairs == (Len(body) - count - 8) \div 2
  IN [method |-> body[4].arg,
      types |-> ParseParameters(body[5].arg),
      arguments |-> [i \in 1 .. count |-> body[6 + i].arg],
      attachments |-> [i \in 1 .. pairs |-> body[6 + count + 2 * i].arg]]

\* decode_request_body() succeeds.
Decodes(body) ==
  /\ AllAre(body, 1, 5, "string") /\ AllAre(body, 6, 6, "list")
  /\ LET count == body[6].arg
     IN /\ AllAre(body, 7, 6 + count, "binary")
        /\ AllAre(body, 7 + count, 7 + count, "map")
        /\ AllAre(body, 8 + count, Len(body) - 1, "string")
        /\ AllAre(body, Len(body), Len(body), "end")

\* What a service returns: Ok with a value, with nothing, with an RPCError; or Err.
Returned(kind, arg) == [kind |-> kind, arg |-> arg]
RPCErrors == {"ClientTimeout", "ServerTimeout", "BadRequest", "BadResponse", "ServiceNotFound",
              "ServiceError", "ServerError", "ClientError", "ServerThreadpoolExhausted"}
Outcomes == {Returned("value", p) : p \in Payload} \cup {Returned("null", Missing), Returned("err", Missing)}
            \cup {Returned("error", e) : e \in RPCErrors}

\* encode_response_body(): an error before a value, whatever else the result has.
ResponseBody(o) ==
  CASE o.kind = "error" -> <<Item("int", 0), Item("string", o.arg)>>
    [] o.kind = "value" -> <<Item("int", 2)>> \o WriteItem(o.arg)
    [] o.kind = "null" -> <<Item("int", 1), Item("null", Missing)>>

\* decode_response_body(): what follows the value is not looked at.
FromBody(body) ==
  IF ~AllAre(body, 1, 1, "int") THEN Returned("err", Missing)
  ELSE CASE body[1].arg = 2 /\ AllAre(body, 2, 2, "binary") -> Returned("value", body[2].arg)
         [] body[1].arg = 1 -> Returned("value", <<>>)
         [] body[1].arg = 0 /\ AllAre(body, 2, 2, "string") -> Returned("error", "ServiceError")
         [] body[1].arg \notin 0 .. 2 -> Returned("error", "ServerError")
         [] OTHER -> Returned("err", Missing)

\* RPCError: status_code() and from_status_code().
Statuses == [ClientTimeout |-> 30, ServerTimeout |-> 31, BadRequest |-> 40, BadResponse |-> 50,
             ServiceNotFound |-> 60, ServiceError |-> 70, ServerError |-> 80, ClientError |-> 90,
             ServerThreadpoolExhausted |-> 100]
OkStatus == 20
StatusCode(e) == Statuses[e]
FromStatusCode(code) ==
  IF code \in Range(Statuses) THEN Inverse(Statuses, RPCErrors, Range(Statuses))[code]
                              ELSE "ServerError"

-----------------------------------------------------------------------------
(* Frames.                                                                 *)

Magic == 55995
Bit(flags, b) == (flags \div b) % 2 = 1
Flagged(b, set) == IF set THEN b ELSE 0
Header(flags, status, id, body) ==
  [magic |-> Magic, flags |-> flags, status |-> status, id |-> id, length |-> Len(body), body |-> body]

\* DubboCodec with SerializationId::Hessian2.
EncodeRequest(id, twoway, event, body) ==
  Header(128 + 2 + Flagged(64, twoway) + Flagged(32, event), 0, id, body)
EncodeResponse(id, status, body) == Header(2, status, id, body)

\* decode_request() and decode_response() differ in the flag they want.
Accepted(f, request) == f.magic = Magic /\ Bit(f.flags, 128) = request /\ f.length <= Len(f.body)
DecodeRequest(f) == [id |-> f.id, twoway |-> Bit(f.flags, 64), event |-> Bit(f.flags, 32), data |-> f.body]

-----------------------------------------------------------------------------

MessageInit ==
  /\ stage = "idle"
  /\ asked = Missing /\ seen = Missing /\ outcome = Missing /\ reply = Missing
  /\ frame = Missing

Contexts ==
  [method : {"m"}, types : SeqOf(Type, MaxList), arguments : SeqOf(Payload, MaxList),
   attachments : {a \in SeqOf(Attachment, MaxList) : IsInjective(a)}]

\* A class name has no semicolon, and Missing is no value.
ASSUME MessagesAssumption ==
  /\ MaxList \in Nat /\ Size \in [Payload -> Nat] /\ ";" \notin Letter
  /\ \A type \in Type :
       /\ type[1] \in Nat
       /\ \/ type[2] \in {<<c>> : c \in Primitive}
          \/ type[2][1] = "object" /\ type[2][2] \in Seq(Letter)
  /\ Missing \notin Contexts \cup Outcomes \cup {Returned("nobody", Missing)}

\* invoke(): the request is always two-way and no event.
AskService(ctx, id) ==
  /\ stage = "idle"
  /\ asked' = ctx
  /\ frame' = EncodeRequest(id, TRUE, FALSE, RequestBody(ctx))
  /\ stage' = "sent"
  /\ UNCHANGED <<seen, outcome, reply>>

\* Frames of others: heartbeats and one-way requests, with or without a body that makes
\* sense, responses, and what is no Dubbo at all.
Strange ==
  LET ctx == CHOOSE c \in Contexts : TRUE
  IN {EncodeRequest(id, twoway, event, body) :
        id \in Id, twoway \in BOOLEAN, event \in BOOLEAN,
        body \in {<<>>, <<Item("null", Missing)>>, RequestBody(ctx)}}
     \cup {[EncodeResponse(id, OkStatus, <<>>) EXCEPT !.magic = m] : id \in Id, m \in {Magic, 0}}

Stranger(f) ==
  /\ stage = "idle"
  /\ frame' = f
  /\ stage' = "sent"
  /\ UNCHANGED <<asked, seen, outcome, reply>>

Respond(status, body) ==
  /\ frame' = EncodeResponse(frame.id, status, body)
  /\ stage' = "answered"

\* handle_connection(): a frame it cannot decode ends the connection.
Hang ==
  /\ stage = "sent" /\ ~Accepted(frame, TRUE)
  /\ stage' = "closed"
  /\ UNCHANGED <<asked, frame, seen, outcome, reply>>

\* A server bound without an invoker answers with nothing.
AnswerEmpty ==
  /\ stage = "sent" /\ Accepted(frame, TRUE)
  /\ Respond(OkStatus, <<>>)
  /\ outcome' = Returned("nobody", Missing)
  /\ UNCHANGED <<asked, seen, reply>>

Refuse ==
  /\ stage = "sent" /\ Accepted(frame, TRUE) /\ ~Decodes(DecodeRequest(frame).data)
  /\ Respond(StatusCode("BadRequest"), <<>>)
  /\ UNCHANGED <<asked, seen, outcome, reply>>

\* Heartbeats and one-way requests are served like any other.
ServeRequest ==
  /\ stage = "sent" /\ Accepted(frame, TRUE) /\ Decodes(DecodeRequest(frame).data)
  /\ seen' = Decoded(DecodeRequest(frame).data)
  /\ stage' = "serving"
  /\ UNCHANGED <<asked, frame, outcome, reply>>

StatusOf(o) == IF o.kind = "err" THEN StatusCode("ServerError") ELSE OkStatus
BodyOf(o) == IF o.kind = "err" THEN <<>> ELSE ResponseBody(o)
\* Bug: a failure of the service is answered like a request that makes no sense.
BugStatusOf(o) == IF o.kind = "err" THEN StatusCode("BadRequest") ELSE OkStatus
Status(o) == StatusOf(o)

Complete(o) ==
  /\ stage = "serving"
  /\ outcome' = o
  /\ Respond(Status(o), BodyOf(o))
  /\ UNCHANGED <<asked, seen, reply>>

FromFrame(f) ==
  IF ~Accepted(f, FALSE) THEN Returned("err", Missing)
  ELSE IF f.status # OkStatus THEN Returned("error", FromStatusCode(f.status))
  ELSE FromBody(f.body)

\* invoke() again, when the response or the end of the connection has come.
Receive ==
  /\ stage \in {"answered", "closed"} /\ asked # Missing
  /\ reply' = IF stage = "closed" THEN Returned("err", Missing) ELSE FromFrame(frame)
  /\ stage' = "done"
  /\ UNCHANGED <<asked, frame, seen, outcome>>

MessageNext ==
  \/ \E ctx \in Contexts, id \in Id : AskService(ctx, id)
  \/ \E f \in Strange : Stranger(f)
  \/ Hang \/ AnswerEmpty \/ Refuse \/ ServeRequest
  \/ \E o \in Outcomes : Complete(o)
  \/ Receive

MessageSpec == MessageInit /\ [][MessageNext]_messageVars

-----------------------------------------------------------------------------
(* Properties.                                                             *)

Fits(args) == \A i \in DOMAIN args : Size[args[i]] < 65536
\* The types body.rs tells apart: an array of arrays is taken for two parameters.
Flat(types) == \A i \in DOMAIN types : Dimensions(types[i]) <= 1

\* Between consumer and service nothing changes that fits its length: the service sees the
\* arguments, types and attachments of the call, what it returns is what invoke() returns
\* (nothing at all is returned as no bytes, and of an RPCError the kind is lost), and
\* BadRequest says that the service has not been called.
MeaningIsKept ==
  stage = "done" =>
    /\ seen # Missing =>
         /\ seen.method = asked.method /\ seen.attachments = asked.attachments
         /\ Fits(asked.arguments) /\ seen.arguments = asked.arguments
         /\ Flat(asked.types) =>
              /\ seen.types = [i \in DOMAIN asked.types |-> Descriptor(asked.types[i])]
              /\ seen.types = ParseArguments(FlattenSeq(seen.types))
    /\ reply = Returned("error", "BadRequest") <=> ~Fits(asked.arguments) /\ outcome = Missing
    /\ reply.kind = "error" /\ reply.arg # "BadRequest" => outcome.kind \in {"err", "error"}
    /\ reply.kind = "value" =>
         \/ outcome.kind = "null" /\ reply.arg = <<>>
         \/ outcome.kind = "value" /\ (Size[outcome.arg] < 65536 => reply = outcome)
    /\ reply.kind = "err" => outcome.kind = "nobody"
=============================================================================
