--------------------------- MODULE DubboExchange ----------------------------
(***************************************************************************)
(* Requests and responses of the Dubbo protocol over TCP:                  *)
(* DubboInvoker.invoke, DubboClient.request, and the server's              *)
(* handle_connection.  A response carries the id of its request, but the   *)
(* client pairs the two by their order on the stream alone: whoever holds  *)
(* the connection takes the next frame that comes.                         *)
(*                                                                         *)
(* An invoker either borrows connections from a pool or keeps one of its   *)
(* own behind a mutex.  Of the pool only its promise is used: a connection *)
(* has one holder at a time (ConnectionPool has the detail).               *)
(*                                                                         *)
(* A frame is whole, or what a cancelled write or read has left of it.     *)
(* Definitions marked "Bug:" are not part of the model (see README.md).    *)
(***************************************************************************)
EXTENDS Naturals, Sequences, FiniteSets

CONSTANTS
  Caller,      \* tasks that call invoke()
  Conn,        \* TCP connections
  Own,         \* the connection of an invoker without a pool
  Faults,      \* the faults considered
  MaxReq,      \* bound on REQUEST_ID_COUNTER
  None         \* no connection, no request

ASSUME ExchangeAssumption ==
  /\ Own \in Conn
  /\ Faults \subseteq {"timeout", "torn", "reset"}
  /\ MaxReq \in Nat
  /\ None \notin Conn \cup (0 .. MaxReq)

VARIABLES
  pooled,      \* does the invoker have a pool?
  usable,      \* its connections: its own, or as many as the pool allows
  faults,      \* what may go wrong, fixed at the start
  pc,          \* where each caller is in invoke()
  req,         \* the id of its current or latest request
  conn,        \* the connection it holds
  result,      \* what its latest invoke() returned
  nextId,      \* REQUEST_ID_COUNTER
  link,        \* the client's end of each connection
  toServer, toClient,   \* the frames on their way
  serving,     \* the request the connection's handler is invoking
  invoked      \* ghost: requests handed to the service

client == <<pc, req, conn, result, nextId>>
wire == <<link, toServer, toClient>>
server == <<serving, invoked>>
config == <<pooled, usable, faults>>
vars == <<config, client, wire, server>>

\* "timeout": TimeoutFilter drops invoke() at an await between frames;
\* "torn": it may also do so in the middle of a frame;
\* "reset": a connection breaks, or the server's handler ends.
Init ==
  /\ pooled \in BOOLEAN
  /\ faults \in SUBSET Faults /\ ("torn" \in faults => "timeout" \in faults)
  /\ usable \in {{Own}, Conn} /\ (~pooled => usable = {Own})
  /\ pc = [p \in Caller |-> "idle"]
  /\ req = [p \in Caller |-> None]
  /\ conn = [p \in Caller |-> None]
  /\ result = [p \in Caller |-> [kind |-> "none"]]
  /\ nextId = 0
  /\ link = [c \in Conn |-> "none"]
  /\ toServer = [c \in Conn |-> <<>>]
  /\ toClient = [c \in Conn |-> <<>>]
  /\ serving = [c \in Conn |-> None]
  /\ invoked = {}

\* Bug: the connection is given to a second caller.
FreeEvenIfHeld(c) == c \in usable
Free(c) == c \in usable /\ \A p \in Caller : conn[p] # c

Goto(p, s) == pc' = [pc EXCEPT ![p] = s]

\* invoke() returns r (or is dropped), and gives its connection back.
Finish(p, r) ==
  /\ Goto(p, "idle")
  /\ conn' = [conn EXCEPT ![p] = None]
  /\ result' = [result EXCEPT ![p] = r]
  /\ UNCHANGED <<config, req, nextId>>

-----------------------------------------------------------------------------
(* DubboInvoker.invoke.                                                    *)

Invoke(p) ==
  /\ pc[p] = "idle"
  /\ nextId < MaxReq
  /\ Goto(p, "acquire")
  /\ req' = [req EXCEPT ![p] = nextId]
  /\ nextId' = nextId + 1
  /\ result' = [result EXCEPT ![p] = [kind |-> "none"]]
  /\ UNCHANGED <<config, conn, wire, server>>

\* A connection that exists is used whatever its state: nothing looks at it.
Reuse(p, c) ==
  /\ pc[p] = "acquire"
  /\ Free(c)
  /\ link[c] # "none"
  /\ Goto(p, "write")
  /\ conn' = [conn EXCEPT ![p] = c]
  /\ UNCHANGED <<config, req, result, nextId, wire, server>>

NoneOpen == \A c \in Conn : Free(c) => link[c] = "none"

Connect(p, c) ==
  /\ pc[p] = "acquire"
  /\ NoneOpen /\ Free(c)
  /\ Goto(p, "write")
  /\ conn' = [conn EXCEPT ![p] = c]
  /\ link' = [link EXCEPT ![c] = "up"]
  /\ UNCHANGED <<config, req, result, nextId, toServer, toClient, server>>

\* connect() fails, or the pool is exhausted (an own client waits instead).
AcquireErr(p) ==
  /\ pc[p] = "acquire"
  /\ \/ "reset" \in faults /\ NoneOpen /\ \E c \in Conn : Free(c)
     \/ pooled /\ \A c \in Conn : ~Free(c)
  /\ Finish(p, [kind |-> "error"])
  /\ UNCHANGED <<wire, server>>

-----------------------------------------------------------------------------
(* DubboClient.request, with the stream's mutex held throughout.           *)

BeginWrite(p) ==
  LET c == conn[p] IN
  /\ pc[p] = "write"
  /\ link[c] = "up"
  /\ Goto(p, "writing")
  /\ toServer' = [toServer EXCEPT ![c] = Append(@, [id |-> req[p], whole |-> FALSE])]
  /\ UNCHANGED <<config, req, conn, result, nextId, link, toClient, server>>

\* Bug: invoke() returns as soon as the request is written.
EndWriteOneWay(p) ==
  LET c == conn[p] IN
  /\ pc[p] = "writing"
  /\ link[c] = "up"
  /\ Finish(p, [kind |-> "none"])
  /\ toServer' = [toServer EXCEPT ![c][Len(toServer[c])].whole = TRUE]
  /\ UNCHANGED <<link, toClient, server>>

EndWrite(p) ==
  LET c == conn[p] IN
  /\ pc[p] = "writing"
  /\ link[c] = "up"
  /\ Goto(p, "read")
  /\ toServer' = [toServer EXCEPT ![c][Len(toServer[c])].whole = TRUE]
  /\ UNCHANGED <<config, req, conn, result, nextId, link, toClient, server>>

\* Bug: the end of the stream is taken for no data yet.
IoErrorOnWrite(p) ==
  /\ pc[p] \in {"write", "writing"}
  /\ link[conn[p]] = "broken"
  /\ Finish(p, [kind |-> "error"])
  /\ UNCHANGED <<wire, server>>

\* Bug: the request is sent again, on another connection.
IoErrorResends(p) ==
  /\ pc[p] = "read" /\ toClient[conn[p]] = <<>>
  /\ link[conn[p]] = "broken"
  /\ Goto(p, "acquire")
  /\ conn' = [conn EXCEPT ![p] = None]
  /\ UNCHANGED <<config, req, result, nextId, wire, server>>

\* write_all on a broken connection; or read_exact, once all that had arrived
\* is read.  The stream stays in the client.
IoError(p) ==
  LET c == conn[p] IN
  /\ \/ pc[p] \in {"write", "writing"}
     \/ pc[p] \in {"read", "reading"} /\ toClient[c] = <<>>
  /\ link[c] = "broken"
  /\ Finish(p, [kind |-> "error"])
  /\ UNCHANGED <<wire, server>>

ReadHeader(p) ==
  LET c == conn[p] IN
  /\ pc[p] = "read"
  /\ toClient[c] # <<>> /\ Head(toClient[c]).whole
  /\ Goto(p, "reading")
  /\ toClient' = [toClient EXCEPT ![c][1].whole = FALSE]
  /\ UNCHANGED <<config, req, conn, result, nextId, link, toServer, server>>

\* decode_response yields the id, and nobody compares it with the request's.
ReadBody(p) ==
  LET c == conn[p] IN
  /\ pc[p] = "reading"
  /\ toClient[c] # <<>>
  /\ Finish(p, [kind |-> "reply", id |-> Head(toClient[c]).id])
  /\ toClient' = [toClient EXCEPT ![c] = Tail(@)]
  /\ UNCHANGED <<link, toServer, server>>

\* The stream begins in the middle of a frame, so the length read is arbitrary:
\* the read takes some of what follows, and decode_response fails on the magic.
ReadGarbage(p) ==
  LET c == conn[p] IN
  /\ pc[p] = "read"
  /\ toClient[c] # <<>> /\ ~Head(toClient[c]).whole
  /\ \E k \in 1 .. Len(toClient[c]), whole \in BOOLEAN :
       LET rest == SubSeq(toClient[c], k + 1, Len(toClient[c]))
       IN  /\ rest = <<>> => whole
           /\ toClient' = [toClient EXCEPT ![c] =
                IF whole THEN rest ELSE [rest EXCEPT ![1].whole = FALSE]]
  /\ Finish(p, [kind |-> "error"])
  /\ UNCHANGED <<link, toServer, server>>

\* TimeoutFilter drops the future; what is on the stream stays there.
Timeout(p) ==
  /\ "timeout" \in faults
  /\ pc[p] # "idle"
  /\ pc[p] \in {"writing", "reading"} => "torn" \in faults
  /\ Finish(p, [kind |-> "timeout"])
  /\ UNCHANGED <<wire, server>>

\* The pool's idle timeout closes a connection; an own client is never closed.
Evict(c) ==
  /\ pooled
  /\ Free(c) /\ link[c] # "none"
  /\ link' = [link EXCEPT ![c] = "none"]
  /\ toServer' = [toServer EXCEPT ![c] = <<>>]
  /\ toClient' = [toClient EXCEPT ![c] = <<>>]
  /\ serving' = [serving EXCEPT ![c] = None]
  /\ UNCHANGED <<config, client, invoked>>

-----------------------------------------------------------------------------
(* handle_connection: one request after another.                           *)

Serve(c) ==
  /\ link[c] = "up" /\ serving[c] = None
  /\ toServer[c] # <<>> /\ Head(toServer[c]).whole
  /\ serving' = [serving EXCEPT ![c] = Head(toServer[c]).id]
  /\ invoked' = invoked \cup {Head(toServer[c]).id}
  /\ toServer' = [toServer EXCEPT ![c] = Tail(@)]
  /\ UNCHANGED <<config, client, link, toClient>>

\* Every request is answered, with its result or with an error.
Reply(c) ==
  /\ link[c] = "up" /\ serving[c] # None
  /\ toClient' = [toClient EXCEPT ![c] = Append(@, [id |-> serving[c], whole |-> TRUE])]
  /\ serving' = [serving EXCEPT ![c] = None]
  /\ UNCHANGED <<config, client, link, toServer, invoked>>

\* A torn frame is completed with the bytes of the next one.  Either its header
\* no longer decodes, which ends the handler; or its body does not, which is
\* answered with BAD_REQUEST under the torn frame's id.
ServeGarbage(c) ==
  /\ link[c] = "up" /\ serving[c] = None
  /\ Len(toServer[c]) > 1 /\ ~Head(toServer[c]).whole
  /\ \/ /\ link' = [link EXCEPT ![c] = "broken"]
        /\ toServer' = [toServer EXCEPT ![c] = <<>>]
        /\ UNCHANGED toClient
     \/ /\ toServer' = [toServer EXCEPT ![c] = [Tail(@) EXCEPT ![1].whole = FALSE]]
        /\ toClient' = [toClient EXCEPT ![c] =
             Append(@, [id |-> Head(toServer[c]).id, whole |-> TRUE])]
        /\ UNCHANGED link
  /\ UNCHANGED <<config, client, server>>

\* The connection breaks.  Responses that had arrived can still be read, the
\* others are lost.
Reset(c) ==
  /\ "reset" \in faults
  /\ link[c] = "up"
  /\ link' = [link EXCEPT ![c] = "broken"]
  /\ toServer' = [toServer EXCEPT ![c] = <<>>]
  /\ \E n \in 0 .. Len(toClient[c]) :
       toClient' = [toClient EXCEPT ![c] = SubSeq(@, 1, n)]
  /\ serving' = [serving EXCEPT ![c] = None]
  /\ UNCHANGED <<config, client, invoked>>

CallerStep(p) ==
  \/ \E c \in Conn : Reuse(p, c) \/ Connect(p, c)
  \/ AcquireErr(p)
  \/ BeginWrite(p) \/ EndWrite(p)
  \/ ReadHeader(p) \/ ReadBody(p)
  \/ IoError(p)

ServerStep(c) == Serve(c) \/ Reply(c)

Next ==
  \/ \E p \in Caller : Invoke(p) \/ CallerStep(p) \/ ReadGarbage(p) \/ Timeout(p)
  \/ \E c \in Conn : Evict(c) \/ ServerStep(c) \/ ServeGarbage(c) \/ Reset(c)

Spec == Init /\ [][Next]_vars

\* Fair: a caller's task (the mutex is a FIFO, so a caller that waits for it is
\* served), the timer of a configured timeout, the handler, and services that
\* return.  Not fair: reading garbage, which may wait for bytes that never
\* come, new calls, eviction and faults.
Fairness ==
  /\ \A p \in Caller : WF_vars(CallerStep(p)) /\ WF_vars(Timeout(p))
  /\ \A c \in Conn : WF_vars(ServerStep(c))

FairSpec == Spec /\ Fairness

-----------------------------------------------------------------------------
(* Properties.                                                             *)

\* A reply is the reply to the caller's own request.  docs/
\* CROSS_LANG_PROTOCOLS.md says the request id is there to match the two.
ReplyMatchesRequest ==
  \A p \in Caller : result[p].kind = "reply" /\ pc[p] = "idle" => result[p].id = req[p]

\* Without timeouts, order on the stream is enough to pair them, whatever
\* breaks and in both ways of getting a connection.
PairedWithoutTimeouts == "timeout" \notin faults => ReplyMatchesRequest

\* The reason: without timeouts a connection nobody holds has no request
\* outstanding, at either end or on the way, unless it is broken.
FreeIsClean ==
  "timeout" \notin faults =>
    \A c \in Conn : Free(c) /\ link[c] = "up" =>
      toServer[c] = <<>> /\ toClient[c] = <<>> /\ serving[c] = None

\* No request reaches the service twice, not even when torn frames are read.
AtMostOnce ==
  [][\A c \in Conn : serving'[c] # serving[c] /\ serving'[c] # None
                     => serving'[c] \notin invoked]_vars

\* invoke() returns: a caller gets a reply, an error or a timeout, although
\* others hold the connection first or break it.
InvokeReturns == \A p \in Caller : pc[p] = "acquire" ~> pc[p] = "idle"

=============================================================================
