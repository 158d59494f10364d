------------------------ MODULE DubboExchange_proofs -------------------------
(***************************************************************************)
(* Proofs about DubboExchange, for any number of callers, connections and  *)
(* requests, with a pool or without.                                       *)
(*                                                                         *)
(* Without timeouts, whatever breaks, every reply is one's own.            *)
(* Nobody compares the id of a response with that of the request, so that  *)
(* a reply is one's own rests on the whole life of a connection: it has    *)
(* one holder, it is clean when it is taken, it carries no more than the   *)
(* holder's exchange, and it is clean again when it is given back.         *)
(*                                                                         *)
(* With every fault, timeouts in the middle of a frame included, no        *)
(* request is served twice: its id is in one place at a time.              *)
(***************************************************************************)
EXTENDS DubboExchange, TLAPS, SequenceTheorems

Holding == {"write", "writing", "read", "reading"}
Id == Nat \cup {None}
Frame == [id : Id, whole : BOOLEAN]
Outcome == [kind : {"none", "error", "timeout"}] \cup [kind : {"reply"}, id : Id]

Whole(r) == [id |-> r, whole |-> TRUE]
Torn(r) == [id |-> r, whole |-> FALSE]

Typed ==
  /\ pc \in [Caller -> {"idle", "acquire"} \cup Holding]
  /\ req \in [Caller -> Id]
  /\ conn \in [Caller -> Conn \cup {None}]
  /\ result \in [Caller -> Outcome]
  /\ nextId \in Nat
  /\ link \in [Conn -> {"none", "up", "broken"}]
  /\ toServer \in [Conn -> Seq(Frame)]
  /\ toClient \in [Conn -> Seq(Frame)]
  /\ serving \in [Conn -> Id]

\* A connection has one holder, from "write" on.
Held ==
  /\ \A p \in Caller : conn[p] # None <=> pc[p] \in Holding
  /\ \A p, q \in Caller : conn[p] = conn[q] /\ conn[p] # None => p = q

Clean(c) == toServer[c] = <<>> /\ toClient[c] = <<>> /\ serving[c] = None

\* Where request r, or its reply, is while its caller waits for it on c.
Outstanding(c, r) ==
  \/ toServer[c] = <<Whole(r)>> /\ toClient[c] = <<>> /\ serving[c] = None
  \/ toServer[c] = <<>> /\ toClient[c] = <<>> /\ serving[c] = r
  \/ toServer[c] = <<>> /\ toClient[c] = <<Whole(r)>> /\ serving[c] = None
  \/ Clean(c) /\ link[c] = "broken"

\* What the caller at s that holds c for request r finds there.
Exchange(c, s, r) ==
  /\ s = "write" => Clean(c)
  /\ s = "writing" =>
       /\ toClient[c] = <<>> /\ serving[c] = None
       /\ toServer[c] = <<Torn(r)>> \/ (Clean(c) /\ link[c] = "broken")
  /\ s = "read" => Outstanding(c, r)
  /\ s = "reading" =>
       /\ toServer[c] = <<>> /\ serving[c] = None
       /\ toClient[c] \in {<<>>, <<Torn(r)>>}

Unheld(c) == \A p \in Caller : conn[p] # c

ConnOK(c) ==
  /\ Unheld(c) => Clean(c)
  /\ link[c] = "broken" => toServer[c] = <<>> /\ serving[c] = None
  /\ \A p \in Caller : conn[p] = c => Exchange(c, pc[p], req[p])

Safe == Typed /\ Held /\ (\A c \in Conn : ConnOK(c)) /\ ReplyMatchesRequest

IInv ==
  /\ "torn" \in faults => "timeout" \in faults
  /\ "timeout" \notin faults => Safe

-----------------------------------------------------------------------------
(* Streams of at most one frame.                                           *)

LEMMA OneFrame ==
  ASSUME NEW f \in Frame
  PROVE  /\ <<f>> \in Seq(Frame) /\ <<f>> # <<>> /\ Len(<<f>>) = 1
         /\ Head(<<f>>) = f /\ Tail(<<f>>) = <<>>
         /\ Append(<<>>, f) = <<f>>
<1>1. Tail(<<f>>) = <<>>
  BY SMT
<1> QED
  BY <1>1

LEMMA PrefixOfOne ==
  ASSUME NEW f \in Frame, NEW n \in 0 .. Len(<<f>>)
  PROVE  SubSeq(<<f>>, 1, n) \in {<<>>, <<f>>}
<1>1. n = 0 \/ n = 1
  BY OneFrame
<1>2. CASE n = 0
  BY <1>2
<1>3. CASE n = 1
  BY <1>3, OneFrame, SubSeqFull
<1> QED
  BY <1>1, <1>2, <1>3

LEMMA PrefixOfNone ==
  ASSUME NEW n \in 0 .. Len(<<>>)
  PROVE  SubSeq(<<>>, 1, n) = <<>>
BY SMT

LEMMA Marked ==
  ASSUME NEW r \in Id, NEW w \in BOOLEAN, NEW v \in BOOLEAN
  PROVE  [<<[id |-> r, whole |-> w]>> EXCEPT ![1].whole = v] = <<[id |-> r, whole |-> v]>>
BY SMT

-----------------------------------------------------------------------------
(* What a step must show: for a step of the wire, that its own connection  *)
(* is as its holder expects; for a step of a caller, the same of the       *)
(* connection it holds, has taken or has given back.                       *)

LEMMA WireStep ==
  ASSUME Safe, NEW c \in Conn, UNCHANGED client, Typed', ConnOK(c)',
         \A d \in Conn \ {c} : /\ toServer'[d] = toServer[d] /\ toClient'[d] = toClient[d]
                               /\ serving'[d] = serving[d] /\ link'[d] = link[d]
  PROVE  Safe'
<1>1. ASSUME NEW d \in Conn \ {c} PROVE ConnOK(d)'
  <2>1. ConnOK(d)
    BY DEF Safe
  <2> QED
    BY <2>1 DEF client, ConnOK, Unheld, Clean, Exchange, Outstanding
<1>2. Held' /\ ReplyMatchesRequest'
  BY DEF Safe, client, Held, ReplyMatchesRequest
<1> QED
  BY <1>1, <1>2 DEF Safe

LEMMA CallerMoves ==
  ASSUME Safe, NEW p \in Caller, NEW c \in Conn, Typed', Held', ReplyMatchesRequest', ConnOK(c)',
         \A q \in Caller \ {p} : pc'[q] = pc[q] /\ req'[q] = req[q] /\ conn'[q] = conn[q],
         conn[p] \in {c, None}, conn'[p] \in {c, None},
         \A d \in Conn \ {c} : /\ toServer'[d] = toServer[d] /\ toClient'[d] = toClient[d]
                               /\ serving'[d] = serving[d] /\ link'[d] = link[d]
  PROVE  Safe'
<1>1. ASSUME NEW d \in Conn \ {c} PROVE ConnOK(d)'
  <2>1. ConnOK(d)
    BY DEF Safe
  <2>2. d # None
    BY ExchangeAssumption
  <2>3. conn[p] # d /\ conn'[p] # d
    BY <2>2
  <2>4. \A q \in Caller : conn'[q] = d => conn[q] = d /\ pc'[q] = pc[q] /\ req'[q] = req[q]
    BY <2>3
  <2>5. Unheld(d)' => Unheld(d)
    BY <2>3 DEF Unheld
  <2> QED
    BY <2>1, <2>4, <2>5 DEF ConnOK, Clean, Exchange, Outstanding
<1> QED
  BY <1>1 DEF Safe

\* invoke() returns: the connection it held must be clean.
LEMMA GivenBack ==
  ASSUME Safe, NEW p \in Caller, NEW c \in Conn, conn[p] = c, NEW r \in Outcome,
         Finish(p, r), r.kind = "reply" => r.id = req[p],
         UNCHANGED <<link, toServer, serving>>, toClient' \in [Conn -> Seq(Frame)],
         Clean(c)', \A d \in Conn \ {c} : toClient'[d] = toClient[d]
  PROVE  Safe'
<1>1. /\ pc' \in [Caller -> {"idle", "acquire"} \cup Holding] /\ pc'[p] = "idle"
      /\ conn' \in [Caller -> Conn \cup {None}] /\ conn'[p] = None
      /\ result' \in [Caller -> Outcome] /\ result'[p] = r
      /\ \A q \in Caller \ {p} : /\ pc'[q] = pc[q] /\ conn'[q] = conn[q]
                                 /\ result'[q] = result[q]
      /\ req' = req /\ nextId' = nextId
  BY DEF Finish, Goto, Safe, Typed
<1>2. Typed'
  BY <1>1 DEF Safe, Typed
<1>3. c # None
  BY ExchangeAssumption
<1>4. Held'
  <2>1. \A q \in Caller : conn'[q] # None <=> pc'[q] \in Holding
    BY <1>1 DEF Safe, Held, Holding
  <2>2. \A q, u \in Caller : conn'[q] = conn'[u] /\ conn'[q] # None => q = u
    BY <1>1 DEF Safe, Held
  <2> QED
    BY <2>1, <2>2 DEF Held
<1>5. ReplyMatchesRequest'
  BY <1>1 DEF Safe, ReplyMatchesRequest
<1>6. Unheld(c)'
  BY <1>1, <1>3 DEF Safe, Held, Unheld
<1>7. ConnOK(c)'
  BY <1>6 DEF ConnOK, Unheld, Clean
<1> QED
  BY <1>1, <1>2, <1>4, <1>5, <1>7, CallerMoves

\* The caller that holds a connection goes on with its exchange.
LEMMA GoesOn ==
  ASSUME Safe, NEW p \in Caller, NEW c \in Conn, conn[p] = c, NEW s \in Holding,
         Goto(p, s), UNCHANGED <<req, conn, result, nextId, link, serving>>,
         toServer' \in [Conn -> Seq(Frame)], toClient' \in [Conn -> Seq(Frame)],
         Exchange(c, s, req[p])', link[c] = "broken" => toServer'[c] = <<>> /\ serving[c] = None,
         \A d \in Conn \ {c} : toServer'[d] = toServer[d] /\ toClient'[d] = toClient[d]
  PROVE  Safe'
<1>1. /\ pc' \in [Caller -> {"idle", "acquire"} \cup Holding] /\ pc'[p] = s
      /\ \A q \in Caller \ {p} : pc'[q] = pc[q]
  BY DEF Goto, Safe, Typed
<1>2. c # None
  BY ExchangeAssumption
<1>3. Typed'
  BY <1>1 DEF Safe, Typed
<1>4. Held'
  BY <1>1, <1>2 DEF Safe, Held
<1>5. ReplyMatchesRequest'
  BY <1>1 DEF Safe, ReplyMatchesRequest, Holding
<1>6. ConnOK(c)'
  <2>1. \A q \in Caller : conn'[q] = c => q = p
    BY <1>2 DEF Safe, Held
  <2>2. ~Unheld(c)'
    BY DEF Unheld
  <2> QED
    BY <1>1, <2>1, <2>2 DEF ConnOK, Exchange, Outstanding, Clean
<1> QED
  BY <1>1, <1>3, <1>4, <1>5, <1>6, CallerMoves

\* A caller without a connection takes one that nobody holds.
LEMMA Taken ==
  ASSUME Safe, NEW p \in Caller, NEW c \in Conn, pc[p] = "acquire", Unheld(c),
         Goto(p, "write"), conn' = [conn EXCEPT ![p] = c],
         UNCHANGED <<req, result, nextId, toServer, toClient, serving>>,
         link' \in [Conn -> {"none", "up", "broken"}],
         \A d \in Conn \ {c} : link'[d] = link[d]
  PROVE  Safe'
<1>1. /\ pc' \in [Caller -> {"idle", "acquire"} \cup Holding] /\ pc'[p] = "write"
      /\ conn' \in [Caller -> Conn \cup {None}] /\ conn'[p] = c
      /\ \A q \in Caller \ {p} : pc'[q] = pc[q] /\ conn'[q] = conn[q]
  BY DEF Goto, Safe, Typed, Holding
<1>2. c # None
  BY ExchangeAssumption
<1>3. Typed'
  BY <1>1 DEF Safe, Typed
<1>4. Held'
  BY <1>1, <1>2 DEF Safe, Held, Holding, Unheld
<1>5. ReplyMatchesRequest'
  BY <1>1 DEF Safe, ReplyMatchesRequest
<1>6. Clean(c)
  BY DEF Safe, ConnOK
<1>7. ConnOK(c)'
  BY <1>1, <1>6 DEF ConnOK, Unheld, Clean, Exchange
<1>8. conn[p] = None
  BY DEF Safe, Held, Holding
<1> QED
  BY <1>1, <1>3, <1>4, <1>5, <1>7, <1>8, CallerMoves

-----------------------------------------------------------------------------
(* The steps of a caller.                                                  *)

LEMMA InvokeSafe ==
  ASSUME Safe, NEW p \in Caller, Invoke(p)
  PROVE  Safe'
<1>1. /\ pc' \in [Caller -> {"idle", "acquire"} \cup Holding] /\ pc'[p] = "acquire"
      /\ req' \in [Caller -> Id] /\ nextId' \in Nat
      /\ \A q \in Caller \ {p} : pc'[q] = pc[q] /\ req'[q] = req[q] /\ result'[q] = result[q]
      /\ UNCHANGED <<conn, link, toServer, toClient, serving>>
  BY DEF Invoke, Goto, Safe, Typed, Id, wire, server
<1>2. [kind |-> "none"] \in Outcome
  BY DEF Outcome
<1>3. result' \in [Caller -> Outcome]
  BY <1>2 DEF Invoke, Safe, Typed
<1>4. Typed'
  BY <1>1, <1>3 DEF Safe, Typed
<1>5. pc[p] = "idle" /\ conn[p] = None
  BY DEF Invoke, Safe, Held, Holding
<1>6. Held'
  BY <1>1, <1>5 DEF Safe, Held, Holding
<1>7. ReplyMatchesRequest'
  BY <1>1 DEF Safe, ReplyMatchesRequest
<1>8. ASSUME NEW c \in Conn PROVE ConnOK(c)'
  <2>1. ConnOK(c) /\ conn[p] # c
    BY <1>5, ExchangeAssumption DEF Safe
  <2> QED
    BY <1>1, <2>1 DEF ConnOK, Unheld, Clean, Exchange, Outstanding
<1> QED
  BY <1>4, <1>6, <1>7, <1>8 DEF Safe

\* Nobody holds a free connection.
LEMMA FreeIsUnheld ==
  ASSUME NEW c \in Conn, Free(c)
  PROVE  Unheld(c)
BY DEF Free, Unheld

LEMMA AcquireSafe ==
  ASSUME Safe, NEW p \in Caller,
         (\E c \in Conn : Reuse(p, c) \/ Connect(p, c)) \/ AcquireErr(p)
  PROVE  Safe'
<1>1. ASSUME NEW c \in Conn, Reuse(p, c) PROVE Safe'
  BY <1>1, FreeIsUnheld, Taken DEF Reuse, wire, server, Safe, Typed
<1>2. ASSUME NEW c \in Conn, Connect(p, c) PROVE Safe'
  <2>1. link' \in [Conn -> {"none", "up", "broken"}] /\ \A d \in Conn \ {c} : link'[d] = link[d]
    BY <1>2 DEF Connect, Safe, Typed
  <2> QED
    BY <1>2, <2>1, FreeIsUnheld, Taken DEF Connect, server
<1>3. CASE AcquireErr(p)
  <2>1. pc[p] = "acquire" /\ conn[p] = None
    BY <1>3 DEF AcquireErr, Safe, Held, Holding
  <2>2. /\ pc' \in [Caller -> {"idle", "acquire"} \cup Holding] /\ pc'[p] = "idle"
        /\ conn' = conn /\ req' = req /\ nextId' = nextId
        /\ \A q \in Caller \ {p} : pc'[q] = pc[q] /\ result'[q] = result[q]
        /\ UNCHANGED <<link, toServer, toClient, serving>>
    BY <1>3, <2>1 DEF AcquireErr, Finish, Goto, Safe, Typed, wire, server
  <2>3. [kind |-> "error"] \in Outcome
    BY DEF Outcome
  <2>4. result' \in [Caller -> Outcome] /\ result'[p].kind = "error"
    BY <1>3, <2>3 DEF AcquireErr, Finish, Safe, Typed
  <2>5. Typed'
    BY <2>2, <2>4 DEF Safe, Typed
  <2>6. Held'
    BY <2>1, <2>2 DEF Safe, Held, Holding
  <2>7. ReplyMatchesRequest'
    BY <2>2, <2>4 DEF Safe, ReplyMatchesRequest
  <2>8. ASSUME NEW c \in Conn PROVE ConnOK(c)'
    <3>1. ConnOK(c) /\ conn[p] # c
      BY <2>1, ExchangeAssumption DEF Safe
    <3> QED
      BY <2>2, <3>1 DEF ConnOK, Unheld, Clean, Exchange, Outstanding
  <2> QED
    BY <2>5, <2>6, <2>7, <2>8 DEF Safe
<1> QED
  BY <1>1, <1>2, <1>3

\* What the caller that holds a connection knows of it.
LEMMA Holder ==
  ASSUME Safe, NEW p \in Caller, pc[p] \in Holding
  PROVE  conn[p] \in Conn /\ Exchange(conn[p], pc[p], req[p]) /\ req[p] \in Id
BY DEF Safe, Typed, Held, ConnOK

LEMMA WholeIsFrame ==
  ASSUME NEW r \in Id
  PROVE  Whole(r) \in Frame /\ Torn(r) \in Frame
BY DEF Whole, Torn, Frame

LEMMA BeginWriteSafe ==
  ASSUME Safe, NEW p \in Caller, BeginWrite(p)
  PROVE  Safe'
<1>1. PICK c \in Conn : conn[p] = c /\ Clean(c)
  BY Holder DEF BeginWrite, Holding, Exchange
<1>2. toServer' = [toServer EXCEPT ![c] = Append(<<>>, Torn(req[p]))]
  BY <1>1 DEF BeginWrite, Clean, Torn
<1>3. Torn(req[p]) \in Frame
  BY WholeIsFrame DEF Safe, Typed
<1>4. toServer' = [toServer EXCEPT ![c] = <<Torn(req[p])>>] /\ <<Torn(req[p])>> \in Seq(Frame)
  BY <1>2, <1>3, OneFrame
<1>5. toServer' \in [Conn -> Seq(Frame)] /\ toServer'[c] = <<Torn(req[p])>>
  BY <1>4 DEF Safe, Typed
<1>6. Exchange(c, "writing", req[p])'
  BY <1>1, <1>5 DEF BeginWrite, Exchange, Clean, Torn, server
<1>7. \A d \in Conn \ {c} : toServer'[d] = toServer[d]
  BY <1>4 DEF Safe, Typed
<1> QED
  BY <1>1, <1>5, <1>6, <1>7, GoesOn DEF BeginWrite, Holding, Safe, Typed, server

LEMMA EndWriteSafe ==
  ASSUME Safe, NEW p \in Caller, EndWrite(p)
  PROVE  Safe'
<1>1. PICK c \in Conn : /\ conn[p] = c /\ req[p] \in Id
                        /\ toServer[c] = <<Torn(req[p])>>
                        /\ toClient[c] = <<>> /\ serving[c] = None
  BY Holder DEF EndWrite, Holding, Exchange
<1>2. Len(toServer[c]) = 1
  BY <1>1, WholeIsFrame, OneFrame
<1>3. [toServer[c] EXCEPT ![1].whole = TRUE] = <<Whole(req[p])>>
  BY <1>1, Marked DEF Torn, Whole
<1>4. toServer' = [toServer EXCEPT ![c] = <<Whole(req[p])>>]
  BY <1>1, <1>2, <1>3 DEF EndWrite
<1>5. toServer' \in [Conn -> Seq(Frame)] /\ toServer'[c] = <<Whole(req[p])>>
  BY <1>1, <1>4, WholeIsFrame, OneFrame DEF Safe, Typed
<1>6. Exchange(c, "read", req[p])'
  BY <1>1, <1>5 DEF EndWrite, Exchange, Outstanding, Whole, server
<1>7. \A d \in Conn \ {c} : toServer'[d] = toServer[d]
  BY <1>4 DEF Safe, Typed
<1> QED
  BY <1>1, <1>5, <1>6, <1>7, GoesOn DEF EndWrite, Holding, Safe, Typed, server

\* The reply that a reader finds is the one it waits for.
LEMMA ReplyIsOwn ==
  ASSUME Safe, NEW p \in Caller, pc[p] = "read", toClient[conn[p]] # <<>>
  PROVE  /\ toClient[conn[p]] = <<Whole(req[p])>>
         /\ toServer[conn[p]] = <<>> /\ serving[conn[p]] = None
BY Holder DEF Holding, Exchange, Outstanding, Clean

LEMMA ReadHeaderSafe ==
  ASSUME Safe, NEW p \in Caller, ReadHeader(p)
  PROVE  Safe'
<1>1. PICK c \in Conn : /\ conn[p] = c /\ req[p] \in Id
                        /\ toClient[c] = <<Whole(req[p])>>
                        /\ toServer[c] = <<>> /\ serving[c] = None
  BY Holder, ReplyIsOwn DEF ReadHeader, Holding
<1>2. [toClient[c] EXCEPT ![1].whole = FALSE] = <<Torn(req[p])>>
  BY <1>1, Marked DEF Torn, Whole
<1>3. toClient' = [toClient EXCEPT ![c] = <<Torn(req[p])>>]
  BY <1>1, <1>2 DEF ReadHeader
<1>4. toClient' \in [Conn -> Seq(Frame)] /\ toClient'[c] = <<Torn(req[p])>>
  BY <1>1, <1>3, WholeIsFrame, OneFrame DEF Safe, Typed
<1>5. Exchange(c, "reading", req[p])'
  BY <1>1, <1>4 DEF ReadHeader, Exchange, Torn, server
<1>6. \A d \in Conn \ {c} : toClient'[d] = toClient[d]
  BY <1>3 DEF Safe, Typed
<1> QED
  BY <1>1, <1>4, <1>5, <1>6, GoesOn DEF ReadHeader, Holding, Safe, Typed, server

LEMMA ReadBodySafe ==
  ASSUME Safe, NEW p \in Caller, ReadBody(p)
  PROVE  Safe'
<1>1. PICK c \in Conn : /\ conn[p] = c /\ req[p] \in Id
                        /\ toClient[c] = <<Torn(req[p])>>
                        /\ toServer[c] = <<>> /\ serving[c] = None
  BY Holder DEF ReadBody, Holding, Exchange
<1>2. Head(toClient[c]) = Torn(req[p]) /\ Tail(toClient[c]) = <<>>
  BY <1>1, WholeIsFrame, OneFrame
<1>3. [kind |-> "reply", id |-> req[p]] \in Outcome
  BY <1>1 DEF Outcome
<1>4. Finish(p, [kind |-> "reply", id |-> req[p]])
  BY <1>1, <1>2 DEF ReadBody, Torn
<1>5. toClient' = [toClient EXCEPT ![c] = <<>>]
  BY <1>1, <1>2 DEF ReadBody
<1>6. /\ toClient' \in [Conn -> Seq(Frame)] /\ toClient'[c] = <<>>
      /\ \A d \in Conn \ {c} : toClient'[d] = toClient[d]
  BY <1>5 DEF Safe, Typed
<1>7. Clean(c)' /\ UNCHANGED <<link, toServer, serving>>
  BY <1>1, <1>6 DEF ReadBody, Clean, server
<1> QED
  BY <1>1, <1>3, <1>4, <1>6, <1>7, GivenBack

LEMMA IoErrorSafe ==
  ASSUME Safe, NEW p \in Caller, IoError(p)
  PROVE  Safe'
<1>1. PICK c \in Conn : /\ conn[p] = c /\ link[c] = "broken" /\ req[p] \in Id
                        /\ Exchange(c, pc[p], req[p])
  BY Holder DEF IoError, Holding
<1>2. toServer[c] = <<>> /\ serving[c] = None
  BY <1>1 DEF Safe, ConnOK
<1>3. <<Torn(req[p])>> # <<>> /\ <<Whole(req[p])>> # <<>>
  BY <1>1, WholeIsFrame, OneFrame
<1>4. toClient[c] = <<>>
  BY <1>1, <1>2, <1>3 DEF IoError, Exchange, Outstanding, Clean
<1>5. [kind |-> "error"] \in Outcome
  BY DEF Outcome
<1>6. Clean(c)' /\ UNCHANGED <<link, toServer, toClient, serving>>
  BY <1>2, <1>4 DEF IoError, Clean, wire, server
<1> QED
  BY <1>1, <1>5, <1>6, GivenBack DEF IoError, Safe, Typed

\* A reader never finds a frame that is not whole.
LEMMA NoGarbage ==
  ASSUME Safe, NEW p \in Caller
  PROVE  ~ReadGarbage(p)
<1> SUFFICES ASSUME ReadGarbage(p) PROVE FALSE
  OBVIOUS
<1>1. toClient[conn[p]] = <<Whole(req[p])>> /\ req[p] \in Id
  BY ReplyIsOwn, Holder DEF ReadGarbage, Holding
<1>2. Head(toClient[conn[p]]) = Whole(req[p])
  BY <1>1, WholeIsFrame, OneFrame
<1> QED
  BY <1>2 DEF ReadGarbage, Whole

-----------------------------------------------------------------------------
(* The steps of a connection and of its handler.                           *)

\* A connection is clean and nobody's, or it has one holder.
LEMMA OneHolder ==
  ASSUME Safe, NEW c \in Conn
  PROVE  \/ Unheld(c) /\ Clean(c)
         \/ \E p \in Caller : /\ conn[p] = c /\ pc[p] \in Holding /\ req[p] \in Id
                              /\ Exchange(c, pc[p], req[p])
                              /\ \A q \in Caller : conn[q] = c => q = p
<1>1. CASE Unheld(c)
  BY <1>1 DEF Safe, ConnOK
<1>2. CASE ~Unheld(c)
  <2>1. PICK p \in Caller : conn[p] = c
    BY <1>2 DEF Unheld
  <2>2. c # None
    BY ExchangeAssumption
  <2> QED
    BY <2>1, <2>2 DEF Safe, ConnOK, Held, Typed
<1> QED
  BY <1>1, <1>2

\* The holder p of c finds its exchange further on.
LEMMA HolderFinds ==
  ASSUME Safe, NEW c \in Conn, UNCHANGED client, Typed',
         NEW p \in Caller, conn[p] = c, \A q \in Caller : conn[q] = c => q = p,
         Exchange(c, pc[p], req[p])', link'[c] = "broken" => toServer'[c] = <<>> /\ serving'[c] = None,
         \A d \in Conn \ {c} : /\ toServer'[d] = toServer[d] /\ toClient'[d] = toClient[d]
                               /\ serving'[d] = serving[d] /\ link'[d] = link[d]
  PROVE  Safe'
<1>1. ConnOK(c)'
  BY DEF ConnOK, Unheld, client
<1> QED
  BY <1>1, WireStep

LEMMA EvictSafe ==
  ASSUME Safe, NEW c \in Conn, Evict(c)
  PROVE  Safe'
<1>1. Typed'
  BY DEF Evict, Safe, Typed, client, Id
<1>2. Clean(c)' /\ Unheld(c)' /\ link'[c] = "none"
  BY <1>1, FreeIsUnheld DEF Evict, Safe, Typed, Clean, Unheld, client
<1>3. ConnOK(c)'
  BY <1>2 DEF ConnOK, Unheld
<1>4. \A d \in Conn \ {c} : /\ toServer'[d] = toServer[d] /\ toClient'[d] = toClient[d]
                            /\ serving'[d] = serving[d] /\ link'[d] = link[d]
  BY DEF Evict, Safe, Typed
<1> QED
  BY <1>1, <1>3, <1>4, WireStep DEF Evict

\* The handler serves the request that the holder waits for.
LEMMA ServeSafe ==
  ASSUME Safe, NEW c \in Conn, Serve(c)
  PROVE  Safe'
<1>1. PICK p \in Caller : /\ conn[p] = c /\ pc[p] \in Holding /\ req[p] \in Id
                          /\ Exchange(c, pc[p], req[p])
                          /\ \A q \in Caller : conn[q] = c => q = p
  BY OneHolder DEF Serve, Clean
<1>2. /\ Head(<<Torn(req[p])>>) = Torn(req[p]) /\ Head(<<Whole(req[p])>>) = Whole(req[p])
      /\ Tail(<<Whole(req[p])>>) = <<>>
  BY <1>1, WholeIsFrame, OneFrame
<1>3. pc[p] = "read" /\ toServer[c] = <<Whole(req[p])>> /\ toClient[c] = <<>>
  BY <1>1, <1>2 DEF Serve, Exchange, Outstanding, Clean, Holding, Torn
<1>4. /\ toServer' = [toServer EXCEPT ![c] = <<>>]
      /\ serving' = [serving EXCEPT ![c] = req[p]]
      /\ UNCHANGED <<client, link, toClient>>
  <2>1. Head(toServer[c]).id = req[p] /\ Tail(toServer[c]) = <<>>
    BY <1>2, <1>3 DEF Whole
  <2> QED
    BY <2>1 DEF Serve
<1>5. Typed'
  BY <1>1, <1>4 DEF Safe, Typed, client
<1>6. Exchange(c, pc[p], req[p])'
  BY <1>3, <1>4 DEF Exchange, Outstanding, Safe, Typed, client
<1>7. link'[c] = "up"
  BY <1>4 DEF Serve
<1> QED
  BY <1>1, <1>4, <1>5, <1>6, <1>7, HolderFinds DEF Safe, Typed

LEMMA ReplySafe ==
  ASSUME Safe, NEW c \in Conn, Reply(c)
  PROVE  Safe'
<1>1. PICK p \in Caller : /\ conn[p] = c /\ pc[p] \in Holding /\ req[p] \in Id
                          /\ Exchange(c, pc[p], req[p])
                          /\ \A q \in Caller : conn[q] = c => q = p
  BY OneHolder DEF Reply, Clean
<1>2. pc[p] = "read" /\ serving[c] = req[p] /\ toServer[c] = <<>> /\ toClient[c] = <<>>
  BY <1>1 DEF Reply, Exchange, Outstanding, Clean, Holding
<1>3. toClient' = [toClient EXCEPT ![c] = Append(<<>>, Whole(req[p]))]
  BY <1>2 DEF Reply, Whole
<1>4. /\ toClient' = [toClient EXCEPT ![c] = <<Whole(req[p])>>]
      /\ <<Whole(req[p])>> \in Seq(Frame)
  BY <1>1, <1>3, WholeIsFrame, OneFrame
<1>5. serving' = [serving EXCEPT ![c] = None] /\ UNCHANGED <<client, link, toServer>>
  BY DEF Reply
<1>6. Typed'
  BY <1>4, <1>5 DEF Safe, Typed, client, Id
<1>7. Exchange(c, pc[p], req[p])'
  BY <1>2, <1>4, <1>5 DEF Exchange, Outstanding, Safe, Typed, client
<1>8. link'[c] = "up"
  BY <1>5 DEF Reply
<1> QED
  BY <1>1, <1>4, <1>5, <1>6, <1>7, <1>8, HolderFinds DEF Safe, Typed

\* No two requests are ever on their way on one connection.
LEMMA NoTornRequest ==
  ASSUME Safe, NEW c \in Conn
  PROVE  ~ServeGarbage(c)
<1> SUFFICES ASSUME ServeGarbage(c) PROVE FALSE
  OBVIOUS
<1>0. Len(toServer[c]) > 1
  BY DEF ServeGarbage
<1>1. CASE Unheld(c) /\ Clean(c)
  BY <1>0, <1>1 DEF Clean
<1>2. ASSUME NEW p \in Caller, conn[p] = c, pc[p] \in Holding, req[p] \in Id,
             Exchange(c, pc[p], req[p])
      PROVE  FALSE
  <2>1. toServer[c] = <<>> \/ toServer[c] = <<Whole(req[p])>> \/ toServer[c] = <<Torn(req[p])>>
    BY <1>2 DEF Exchange, Outstanding, Clean, Holding
  <2>2. Len(<<Whole(req[p])>>) = 1 /\ Len(<<Torn(req[p])>>) = 1
    BY <1>2, WholeIsFrame, OneFrame
  <2>3. toServer[c] = <<>> \/ Len(toServer[c]) = 1
    BY <2>1, <2>2
  <2>4. Len(<<>>) = 0
    OBVIOUS
  <2>5. Len(toServer[c]) = 0 \/ Len(toServer[c]) = 1
    BY <2>3, <2>4
  <2>6. ~(0 > 1) /\ ~(1 > 1)
    OBVIOUS
  <2> QED
    BY <1>0, <2>5, <2>6, Zenon
<1> QED
  BY <1>1, <1>2, OneHolder

\* What had arrived of a reply is all of it or nothing.
LEMMA ResetSafe ==
  ASSUME Safe, NEW c \in Conn, Reset(c)
  PROVE  Safe'
<1>1. PICK n \in 0 .. Len(toClient[c]) :
        toClient' = [toClient EXCEPT ![c] = SubSeq(@, 1, n)]
  BY DEF Reset
<1>2. /\ toServer' = [toServer EXCEPT ![c] = <<>>]
      /\ serving' = [serving EXCEPT ![c] = None]
      /\ link' = [link EXCEPT ![c] = "broken"]
      /\ UNCHANGED client
  BY DEF Reset
<1>3. SubSeq(toClient[c], 1, n) \in Seq(Frame)
  BY SubSeqProperties, ElementOfSeq DEF Safe, Typed
<1>4. Typed'
  BY <1>1, <1>2, <1>3 DEF Safe, Typed, client, Id
<1>5. /\ toServer'[c] = <<>> /\ serving'[c] = None /\ link'[c] = "broken"
      /\ toClient'[c] = SubSeq(toClient[c], 1, n)
  BY <1>1, <1>2 DEF Safe, Typed
<1>6. \A d \in Conn \ {c} : /\ toServer'[d] = toServer[d] /\ toClient'[d] = toClient[d]
                            /\ serving'[d] = serving[d] /\ link'[d] = link[d]
  BY <1>1, <1>2 DEF Safe, Typed
<1>7. toClient[c] = <<>> => toClient'[c] = <<>>
  BY <1>5, PrefixOfNone
<1>8. CASE Unheld(c) /\ Clean(c)
  <2>1. Clean(c)' /\ Unheld(c)'
    BY <1>2, <1>5, <1>7, <1>8 DEF Clean, Unheld, client
  <2>2. ConnOK(c)'
    BY <2>1, <1>5 DEF ConnOK, Unheld
  <2> QED
    BY <1>2, <1>4, <1>6, <2>2, WireStep
<1>9. ASSUME NEW p \in Caller, conn[p] = c, pc[p] \in Holding, req[p] \in Id,
             Exchange(c, pc[p], req[p]), \A q \in Caller : conn[q] = c => q = p
      PROVE  Safe'
  <2>1. \A f \in Frame : toClient[c] = <<f>> => toClient'[c] \in {<<>>, <<f>>}
    BY <1>5, PrefixOfOne
  <2>2. Whole(req[p]) \in Frame /\ Torn(req[p]) \in Frame
    BY <1>9, WholeIsFrame
  <2>3. pc[p] \in {"write", "writing"} => toClient'[c] = <<>>
    BY <1>7, <1>9 DEF Exchange, Clean
  <2>4. pc[p] = "read" => toClient'[c] \in {<<>>, <<Whole(req[p])>>}
    BY <1>7, <1>9, <2>1, <2>2 DEF Exchange, Outstanding, Clean
  <2>5. pc[p] = "reading" => toClient'[c] \in {<<>>, <<Torn(req[p])>>}
    BY <1>7, <1>9, <2>1, <2>2 DEF Exchange
  <2>6. Exchange(c, pc[p], req[p])'
    BY <1>2, <1>5, <2>3, <2>4, <2>5 DEF Exchange, Outstanding, Clean, client
  <2> QED
    BY <1>2, <1>4, <1>5, <1>6, <1>9, <2>6, HolderFinds
<1> QED
  BY <1>8, <1>9, OneHolder

-----------------------------------------------------------------------------

LEMMA InitIInv == Init => IInv
<1> SUFFICES ASSUME Init PROVE IInv
  OBVIOUS
<1>1. [kind |-> "none"] \in Outcome
  BY DEF Outcome
<1>2. Typed
  BY <1>1 DEF Init, Typed, Id
<1>3. Held /\ ReplyMatchesRequest
  BY DEF Init, Held, Holding, ReplyMatchesRequest
<1>4. ASSUME NEW c \in Conn PROVE ConnOK(c)
  <2>1. c # None
    BY ExchangeAssumption
  <2> QED
    BY <2>1 DEF Init, ConnOK, Clean
<1> QED
  BY <1>2, <1>3, <1>4 DEF Init, IInv, Safe

LEMMA NextIInv == IInv /\ [Next]_vars => IInv'
<1> SUFFICES ASSUME IInv, [Next]_vars PROVE IInv'
  OBVIOUS
<1>1. UNCHANGED faults
  BY DEF Next, CallerStep, ServerStep, Invoke, Reuse, Connect, AcquireErr, BeginWrite, EndWrite,
     ReadHeader, ReadBody, IoError, ReadGarbage, Timeout, Evict, Serve, Reply, ServeGarbage,
     Reset, Finish, config, vars
<1> SUFFICES ASSUME "timeout" \notin faults PROVE Safe'
  BY <1>1 DEF IInv
<1>2. Safe
  BY DEF IInv
<1>3. ASSUME NEW p \in Caller, Invoke(p) \/ CallerStep(p) PROVE Safe'
  BY <1>2, <1>3, InvokeSafe, AcquireSafe, BeginWriteSafe, EndWriteSafe, ReadHeaderSafe,
     ReadBodySafe, IoErrorSafe
  DEF CallerStep
<1>4. ASSUME NEW p \in Caller, ReadGarbage(p) \/ Timeout(p) PROVE FALSE
  BY <1>2, <1>4, NoGarbage DEF Timeout
<1>5. ASSUME NEW c \in Conn, Evict(c) \/ ServerStep(c) \/ ServeGarbage(c) \/ Reset(c)
      PROVE  Safe'
  BY <1>2, <1>5, EvictSafe, ServeSafe, ReplySafe, NoTornRequest, ResetSafe DEF ServerStep
<1>6. CASE UNCHANGED vars
  BY <1>2, <1>6
  DEF vars, client, wire, server, Safe, Typed, Held, ConnOK, Unheld, Clean, Exchange,
      Outstanding, ReplyMatchesRequest
<1> QED
  BY <1>3, <1>4, <1>5, <1>6 DEF Next

LEMMA AlwaysIInv == Spec => []IInv
BY InitIInv, NextIInv, PTL DEF Spec

-----------------------------------------------------------------------------

\* As long as no call times out, every reply that invoke() returns is the reply to
\* its own request, although nobody looks at the id it carries.
THEOREM RepliesPaired == Spec => []PairedWithoutTimeouts
<1>1. IInv => PairedWithoutTimeouts
  BY DEF IInv, Safe, PairedWithoutTimeouts
<1> QED
  BY <1>1, AlwaysIInv, PTL

\* As long as no call times out, a connection is given back with nothing outstanding
\* at either end or on the way.
THEOREM GivenBackClean == Spec => []FreeIsClean
<1>1. IInv => FreeIsClean
  BY FreeIsUnheld DEF IInv, Safe, ConnOK, Clean, FreeIsClean
<1> QED
  BY <1>1, AlwaysIInv, PTL

-----------------------------------------------------------------------------
(* No request is served twice, whatever times out, is torn or breaks: an   *)
(* id is in one place at a time, with its caller, in one frame, or served. *)

Unsent == {"acquire", "write"}
Sent == [id : Nat, whole : BOOLEAN]

Numbered ==
  /\ pc \in [Caller -> {"idle", "acquire"} \cup Holding]
  /\ req \in [Caller -> Id]
  /\ nextId \in Nat
  /\ toServer \in [Conn -> Seq(Sent)]
  /\ serving \in [Conn -> Id]
  /\ invoked \in SUBSET Nat /\ \A r \in invoked : r < nextId

\* Every frame is of a request of its own that has not been served.
OneFrameEach ==
  /\ \A c \in Conn : \A i \in DOMAIN toServer[c] :
       toServer[c][i].id < nextId /\ toServer[c][i].id \notin invoked
  /\ \A c, d \in Conn : \A i \in DOMAIN toServer[c], j \in DOMAIN toServer[d] :
       toServer[c][i].id = toServer[d][j].id => c = d /\ i = j

\* The requests of callers that have not written yet are nowhere else.
OneCallerEach ==
  /\ \A p \in Caller : pc[p] \in Unsent =>
       /\ req[p] \in Nat /\ req[p] < nextId /\ req[p] \notin invoked
       /\ \A c \in Conn : \A i \in DOMAIN toServer[c] : toServer[c][i].id # req[p]
  /\ \A p, q \in Caller : pc[p] \in Unsent /\ pc[q] \in Unsent /\ req[p] = req[q] => p = q

Once == Numbered /\ OneFrameEach /\ OneCallerEach

LEMMA SentIds ==
  ASSUME NEW stream \in Seq(Sent), NEW i \in DOMAIN stream
  PROVE  stream[i] \in Sent /\ stream[i].id \in Nat
<1>1. stream[i] \in Sent
  OBVIOUS
<1>2. \A f \in Sent : f.id \in Nat
  BY DEF Sent
<1> QED
  BY <1>1, <1>2

LEMMA Marking ==
  ASSUME NEW stream \in Seq(Sent), NEW n \in Nat, NEW v \in BOOLEAN
  PROVE  LET marked == [stream EXCEPT ![n].whole = v]
         IN  /\ marked \in Seq(Sent) /\ DOMAIN marked = DOMAIN stream
             /\ \A i \in DOMAIN stream : marked[i].id = stream[i].id
<1> DEFINE marked == [stream EXCEPT ![n].whole = v]
<1>1. Len(stream) \in Nat /\ DOMAIN stream = 1 .. Len(stream)
      /\ \A i \in 1 .. Len(stream) : stream[i] \in Sent
  OBVIOUS
<1>2. DOMAIN marked = 1 .. Len(stream)
  BY <1>1
<1>3. \A i \in 1 .. Len(stream) :
        marked[i] = IF i = n THEN [stream[i] EXCEPT !.whole = v] ELSE stream[i]
  BY <1>1
<1>4. \A f \in Sent : [f EXCEPT !.whole = v] \in Sent /\ [f EXCEPT !.whole = v].id = f.id
  BY DEF Sent
<1>5. \A i \in 1 .. Len(stream) : marked[i] \in Sent /\ marked[i].id = stream[i].id
  BY <1>1, <1>3, <1>4
<1>6. marked = [i \in 1 .. Len(stream) |-> marked[i]]
  BY <1>2
<1> HIDE DEF marked
<1>7. marked \in Seq(Sent)
  BY <1>1, <1>5, <1>6
<1> QED
  BY <1>1, <1>2, <1>5, <1>7 DEF marked

\* The stream c loses frames at its start, or all, or none; nobody writes.
LEMMA Fewer ==
  ASSUME Once, Numbered', NEW c \in Conn, NEW k \in Nat,
         \A i \in DOMAIN toServer'[c] :
           i + k \in DOMAIN toServer[c] /\ toServer'[c][i].id = toServer[c][i + k].id,
         \A d \in Conn \ {c} : toServer'[d] = toServer[d],
         UNCHANGED <<req, nextId>>,
         \A p \in Caller : pc'[p] \in Unsent => pc[p] \in Unsent,
         \A r \in invoked' \ invoked :
           /\ \A d \in Conn : \A i \in DOMAIN toServer'[d] : toServer'[d][i].id # r
           /\ \A p \in Caller : pc[p] \in Unsent => req[p] # r
  PROVE  Once'
<1>1. /\ \A d \in Conn : \A i \in DOMAIN toServer[d] : i \in Nat
      /\ \A d \in Conn : \A i \in DOMAIN toServer'[d] : i \in Nat
  BY DEF Once, Numbered
<1> DEFINE shift(d) == IF d = c THEN k ELSE 0
<1>2. \A d \in Conn : \A i \in DOMAIN toServer'[d] :
        i + shift(d) \in DOMAIN toServer[d] /\ toServer'[d][i].id = toServer[d][i + shift(d)].id
  BY <1>1
<1>3. \A d \in Conn : shift(d) \in Nat
  OBVIOUS
<1> HIDE DEF shift
<1>4. OneFrameEach'
  <2>1. ASSUME NEW d \in Conn, NEW i \in DOMAIN toServer'[d]
        PROVE  toServer'[d][i].id < nextId' /\ toServer'[d][i].id \notin invoked'
    BY <1>2 DEF Once, OneFrameEach
  <2>2. ASSUME NEW d \in Conn, NEW e \in Conn,
               NEW i \in DOMAIN toServer'[d], NEW j \in DOMAIN toServer'[e],
               toServer'[d][i].id = toServer'[e][j].id
        PROVE  d = e /\ i = j
    <3>1. d = e /\ i + shift(d) = j + shift(e)
      BY <1>2, <2>2 DEF Once, OneFrameEach
    <3> QED
      BY <1>1, <1>3, <3>1
  <2> QED
    BY <2>1, <2>2 DEF OneFrameEach
<1>5. OneCallerEach'
  <2>1. ASSUME NEW p \in Caller, pc'[p] \in Unsent
        PROVE  /\ req'[p] \in Nat /\ req'[p] < nextId' /\ req'[p] \notin invoked'
               /\ \A d \in Conn : \A i \in DOMAIN toServer'[d] : toServer'[d][i].id # req'[p]
    BY <1>2, <2>1 DEF Once, OneCallerEach
  <2> QED
    BY <2>1 DEF Once, OneCallerEach
<1> QED
  BY <1>4, <1>5 DEF Once

\* Steps that leave the requests alone.
LEMMA NoFrames ==
  ASSUME Once, UNCHANGED <<req, nextId, toServer, serving, invoked>>,
         pc' \in [Caller -> {"idle", "acquire"} \cup Holding],
         \A p \in Caller : pc'[p] \in Unsent => pc[p] \in Unsent
  PROVE  Once'
BY DEF Once, Numbered, OneFrameEach, OneCallerEach

LEMMA CallerOnce ==
  ASSUME Once, NEW p \in Caller, NEW c \in Conn,
         \/ Reuse(p, c) \/ Connect(p, c) \/ AcquireErr(p) \/ ReadHeader(p) \/ ReadBody(p)
         \/ IoError(p) \/ ReadGarbage(p) \/ Timeout(p)
  PROVE  Once'
<1>1. /\ UNCHANGED <<req, nextId, toServer, serving, invoked>>
      /\ \E to \in {"idle", "write", "reading"} :
           Goto(p, to) /\ (to = "write" => pc[p] = "acquire")
  BY DEF Reuse, Connect, AcquireErr, ReadHeader, ReadBody, IoError, ReadGarbage, Timeout,
         Finish, wire, server
<1>2. /\ pc' \in [Caller -> {"idle", "acquire"} \cup Holding]
      /\ \A q \in Caller : pc'[q] \in Unsent => pc[q] \in Unsent
  BY <1>1 DEF Goto, Once, Numbered, Holding, Unsent
<1> QED
  BY <1>1, <1>2, NoFrames

LEMMA InvokeOnce ==
  ASSUME Once, NEW p \in Caller, Invoke(p)
  PROVE  Once'
<1>1. /\ pc' = [pc EXCEPT ![p] = "acquire"] /\ req' = [req EXCEPT ![p] = nextId]
      /\ nextId' = nextId + 1 /\ UNCHANGED <<toServer, serving, invoked>>
  BY DEF Invoke, Goto, wire, server
<1>2. Numbered'
  <2>1. nextId \in Nat /\ nextId' \in Nat /\ nextId < nextId'
    BY <1>1 DEF Once, Numbered
  <2>2. req' \in [Caller -> Id]
    BY <1>1, <2>1 DEF Once, Numbered, Id
  <2>3. pc' \in [Caller -> {"idle", "acquire"} \cup Holding]
    BY <1>1 DEF Once, Numbered
  <2>4. \A r \in invoked' : r < nextId'
    <3>1. \A r \in invoked : r \in Nat /\ r < nextId
      BY DEF Once, Numbered
    <3> QED
      BY <1>1, <2>1, <3>1
  <2> QED
    BY <1>1, <2>1, <2>2, <2>3, <2>4 DEF Once, Numbered
<1>3. OneFrameEach'
  <2>1. \A c \in Conn : \A i \in DOMAIN toServer[c] : toServer[c][i].id \in Nat
    BY SentIds DEF Once, Numbered
  <2>2. nextId \in Nat
    BY DEF Once, Numbered
  <2> QED
    BY <1>1, <2>1, <2>2 DEF Once, OneFrameEach
<1>4. OneCallerEach'
  <2>1. nextId \in Nat /\ nextId \notin invoked
        /\ \A c \in Conn : \A i \in DOMAIN toServer[c] : toServer[c][i].id # nextId
        /\ \A q \in Caller : pc[q] \in Unsent => req[q] # nextId
    BY DEF Once, Numbered, OneFrameEach, OneCallerEach
  <2>2. pc'[p] \in Unsent /\ req'[p] = nextId
        /\ \A q \in Caller \ {p} : pc'[q] = pc[q] /\ req'[q] = req[q]
    BY <1>1 DEF Once, Numbered, Unsent
  <2>3. \A q \in Caller : req[q] \in Nat /\ req[q] < nextId => req[q] < nextId'
    BY <1>1, <2>1
  <2>4. nextId < nextId'
    BY <1>1, <2>1
  <2> QED
    BY <1>1, <2>1, <2>2, <2>3, <2>4 DEF Once, OneCallerEach
<1> QED
  BY <1>2, <1>3, <1>4 DEF Once

\* The request goes from its caller into a frame.
LEMMA BeginWriteOnce ==
  ASSUME Once, NEW p \in Caller, BeginWrite(p)
  PROVE  Once'
<1> DEFINE c == conn[p]
           frame == [id |-> req[p], whole |-> FALSE]
<1>1. /\ pc[p] = "write" /\ pc' = [pc EXCEPT ![p] = "writing"]
      /\ toServer' = [toServer EXCEPT ![c] = Append(@, frame)]
      /\ UNCHANGED <<req, nextId, serving, invoked>>
  BY DEF BeginWrite, Goto, server
<1>2. /\ pc' \in [Caller -> {"idle", "acquire"} \cup Holding]
      /\ \A q \in Caller : pc'[q] \in Unsent => pc[q] \in Unsent /\ q # p
  BY <1>1 DEF Once, Numbered, Holding, Unsent
<1>3. /\ req[p] \in Nat /\ req[p] < nextId /\ req[p] \notin invoked
      /\ \A d \in Conn : \A i \in DOMAIN toServer[d] : toServer[d][i].id # req[p]
      /\ \A q \in Caller : pc[q] \in Unsent /\ q # p => req[q] # req[p]
  BY <1>1 DEF Once, OneCallerEach, Unsent
<1>4. CASE c \notin Conn
  <2>1. toServer' = toServer
    BY <1>1, <1>4 DEF Once, Numbered
  <2> QED
    BY <1>1, <1>2, <2>1, NoFrames
<1>5. CASE c \in Conn
  <2>1. frame \in Sent /\ frame.id = req[p]
    BY <1>3 DEF Sent
  <2> HIDE DEF frame
  <2>2. toServer[c] \in Seq(Sent) /\ \A d \in Conn : toServer[d] \in Seq(Sent)
    BY <1>5 DEF Once, Numbered
  <2> DEFINE last == Len(toServer[c]) + 1
  <2>3. /\ toServer'[c] = Append(toServer[c], frame)
        /\ \A d \in Conn \ {c} : toServer'[d] = toServer[d]
    BY <1>1, <1>5 DEF Once, Numbered
  <2>4. /\ Append(toServer[c], frame) \in Seq(Sent)
        /\ DOMAIN Append(toServer[c], frame) = DOMAIN toServer[c] \cup {last}
        /\ last \notin DOMAIN toServer[c]
        /\ Append(toServer[c], frame)[last] = frame
        /\ \A i \in DOMAIN toServer[c] : Append(toServer[c], frame)[i] = toServer[c][i]
    BY <2>1, <2>2
  <2>5. \A d \in Conn : \A i \in DOMAIN toServer'[d] :
          \/ i \in DOMAIN toServer[d] /\ toServer'[d][i].id = toServer[d][i].id
          \/ d = c /\ i = last /\ toServer'[d][i].id = req[p]
    BY <2>1, <2>3, <2>4
  <2>6. Numbered'
    <3>1. toServer' \in [Conn -> Seq(Sent)]
      BY <1>1, <1>5, <2>4 DEF Once, Numbered
    <3> QED
      BY <1>1, <1>2, <3>1 DEF Once, Numbered
  <2> HIDE DEF last, c
  <2>7. OneFrameEach'
    <3>1. \A d \in Conn : \A i \in DOMAIN toServer'[d] :
            toServer'[d][i].id < nextId' /\ toServer'[d][i].id \notin invoked'
      BY <1>1, <1>3, <2>5 DEF Once, OneFrameEach
    <3>2. ASSUME NEW d \in Conn, NEW e \in Conn,
                 NEW i \in DOMAIN toServer'[d], NEW j \in DOMAIN toServer'[e],
                 toServer'[d][i].id = toServer'[e][j].id
          PROVE  d = e /\ i = j
      BY <1>3, <2>5, <3>2 DEF Once, OneFrameEach
    <3> QED
      BY <3>1, <3>2 DEF OneFrameEach
  <2>8. OneCallerEach'
    <3>1. ASSUME NEW q \in Caller, pc'[q] \in Unsent
          PROVE  \A d \in Conn : \A i \in DOMAIN toServer'[d] : toServer'[d][i].id # req'[q]
      BY <1>1, <1>2, <1>3, <2>5, <3>1 DEF Once, OneCallerEach
    <3> QED
      BY <1>1, <1>2, <3>1 DEF Once, OneCallerEach
  <2> QED
    BY <2>6, <2>7, <2>8 DEF Once
<1> QED
  BY <1>4, <1>5

LEMMA EndWriteOnce ==
  ASSUME Once, NEW p \in Caller, EndWrite(p)
  PROVE  Once'
<1> DEFINE c == conn[p]
           n == Len(toServer[c])
<1>1. /\ pc' = [pc EXCEPT ![p] = "read"]
      /\ toServer' = [toServer EXCEPT ![c][n].whole = TRUE]
      /\ UNCHANGED <<req, nextId, serving, invoked>>
  BY DEF EndWrite, Goto, server
<1>2. /\ pc' \in [Caller -> {"idle", "acquire"} \cup Holding]
      /\ \A q \in Caller : pc'[q] \in Unsent => pc[q] \in Unsent
  BY <1>1 DEF Once, Numbered, Holding, Unsent
<1>3. CASE c \notin Conn
  <2>1. toServer' = toServer
    BY <1>1, <1>3 DEF Once, Numbered
  <2> QED
    BY <1>1, <1>2, <2>1, NoFrames
<1>4. CASE c \in Conn
  <2>1. toServer[c] \in Seq(Sent) /\ n \in Nat
    BY <1>4 DEF Once, Numbered
  <2> DEFINE marked == [toServer[c] EXCEPT ![n].whole = TRUE]
  <2>2. toServer' = [toServer EXCEPT ![c] = marked]
    BY <1>1
  <2>3. /\ marked \in Seq(Sent) /\ DOMAIN marked = DOMAIN toServer[c]
        /\ \A i \in DOMAIN toServer[c] : marked[i].id = toServer[c][i].id
    BY <2>1, Marking
  <2> HIDE DEF marked, n
  <2>4. toServer'[c] = marked /\ \A d \in Conn \ {c} : toServer'[d] = toServer[d]
    BY <1>4, <2>2 DEF Once, Numbered
  <2>5. Numbered'
    <3>1. toServer' \in [Conn -> Seq(Sent)]
      BY <2>2, <2>3 DEF Once, Numbered
    <3> QED
      BY <1>1, <1>2, <3>1 DEF Once, Numbered
  <2>6. \A i \in DOMAIN toServer'[c] :
          i + 0 \in DOMAIN toServer[c] /\ toServer'[c][i].id = toServer[c][i + 0].id
    BY <2>1, <2>3, <2>4
  <2>7. UNCHANGED <<req, nextId>> /\ invoked' \ invoked = {} /\ 0 \in Nat
    BY <1>1
  <2> HIDE DEF c
  <2> QED
    BY <1>2, <1>4, <2>4, <2>5, <2>6, <2>7, Fewer
<1> QED
  BY <1>3, <1>4

LEMMA ClearedOnce ==
  ASSUME Once, NEW c \in Conn, NEW to, toServer' = [toServer EXCEPT ![c] = <<>>],
         serving' \in {serving, [serving EXCEPT ![c] = None]},
         UNCHANGED <<client, invoked>>
  PROVE  Once'
<1>1. toServer'[c] = <<>> /\ \A d \in Conn \ {c} : toServer'[d] = toServer[d]
  BY DEF Once, Numbered
<1>2. Numbered'
  <2>1. <<>> \in Seq(Sent) /\ None \in Id
    BY DEF Id
  <2> QED
    BY <2>1 DEF Once, Numbered, client
<1>3. \A i \in DOMAIN toServer'[c] :
        i + 0 \in DOMAIN toServer[c] /\ toServer'[c][i].id = toServer[c][i + 0].id
  BY <1>1
<1>4. UNCHANGED <<pc, req, nextId>> /\ invoked' \ invoked = {} /\ 0 \in Nat
  BY DEF client
<1> QED
  BY <1>1, <1>2, <1>3, <1>4, Fewer

LEMMA WithoutFirst ==
  ASSUME NEW stream \in Seq(Sent), stream # <<>>
  PROVE  /\ 1 \in DOMAIN stream /\ Head(stream) = stream[1]
         /\ Tail(stream) \in Seq(Sent)
         /\ \A i \in DOMAIN Tail(stream) :
              /\ i \in Nat \ {0} /\ i + 1 \in DOMAIN stream /\ i + 1 # 1
              /\ Tail(stream)[i] = stream[i + 1]
<1>1. Len(stream) \in Nat \ {0} /\ DOMAIN stream = 1 .. Len(stream)
  OBVIOUS
<1>2. Tail(stream) \in Seq(Sent) /\ Len(Tail(stream)) = Len(stream) - 1
  BY <1>1
<1>3. DOMAIN Tail(stream) = 1 .. (Len(stream) - 1)
  BY <1>2
<1>4. \A i \in 1 .. (Len(stream) - 1) : Tail(stream)[i] = stream[i + 1]
  BY <1>1
<1>5. Head(stream) = stream[1]
  BY <1>1
<1> QED
  BY <1>1, <1>2, <1>3, <1>4, <1>5

LEMMA ServeOnce ==
  ASSUME Once, NEW c \in Conn, Serve(c)
  PROVE  Once' /\ Head(toServer[c]).id \notin invoked
<1> DEFINE r == Head(toServer[c]).id
<1>1. toServer[c] \in Seq(Sent) /\ toServer[c] # <<>>
  BY DEF Serve, Once, Numbered
<1>2. /\ 1 \in DOMAIN toServer[c] /\ Head(toServer[c]) = toServer[c][1]
      /\ Tail(toServer[c]) \in Seq(Sent)
      /\ \A i \in DOMAIN Tail(toServer[c]) :
           /\ i \in Nat \ {0} /\ i + 1 \in DOMAIN toServer[c] /\ i + 1 # 1
           /\ Tail(toServer[c])[i] = toServer[c][i + 1]
  BY <1>1, WithoutFirst
<1>3. r \in Nat /\ r < nextId /\ r \notin invoked
  <2>1. toServer[c][1].id \in Nat
    BY <1>1, <1>2, SentIds
  <2>2. toServer[c][1].id < nextId /\ toServer[c][1].id \notin invoked
    BY <1>2 DEF Once, OneFrameEach
  <2> QED
    BY <1>2, <2>1, <2>2
<1>4. /\ toServer'[c] = Tail(toServer[c])
      /\ \A d \in Conn \ {c} : toServer'[d] = toServer[d]
      /\ serving' = [serving EXCEPT ![c] = r] /\ invoked' = invoked \cup {r}
      /\ UNCHANGED <<pc, req, nextId>>
  BY DEF Serve, Once, Numbered, client
<1>5. Numbered'
  <2>1. toServer' \in [Conn -> Seq(Sent)]
    BY <1>2 DEF Serve, Once, Numbered
  <2>2. serving' \in [Conn -> Id]
    BY <1>3, <1>4 DEF Once, Numbered, Id
  <2> QED
    BY <1>3, <1>4, <2>1, <2>2 DEF Once, Numbered
<1>6. \A d \in Conn : \A i \in DOMAIN toServer'[d] : toServer'[d][i].id # r
  <2>1. ASSUME NEW d \in Conn \ {c}, NEW i \in DOMAIN toServer[d] PROVE toServer[d][i].id # r
    BY <1>2, <2>1 DEF Once, OneFrameEach
  <2>2. ASSUME NEW i \in DOMAIN Tail(toServer[c]) PROVE Tail(toServer[c])[i].id # r
    <3>1. i + 1 # 1 /\ i + 1 \in DOMAIN toServer[c]
      BY <1>2, <2>2
    <3> QED
      BY <1>2, <3>1 DEF Once, OneFrameEach
  <2> QED
    BY <1>4, <2>1, <2>2
<1>7. \A p \in Caller : pc[p] \in Unsent => req[p] # r
  BY <1>2 DEF Once, OneCallerEach
<1> HIDE DEF r
<1>8. Once'
  <2>1. \A i \in DOMAIN toServer'[c] :
          i + 1 \in DOMAIN toServer[c] /\ toServer'[c][i].id = toServer[c][i + 1].id
    BY <1>2, <1>4
  <2>2. \A s \in invoked' \ invoked :
          /\ \A d \in Conn : \A i \in DOMAIN toServer'[d] : toServer'[d][i].id # s
          /\ \A p \in Caller : pc[p] \in Unsent => req[p] # s
    <3>1. invoked' \ invoked \subseteq {r}
      BY <1>4
    <3> QED
      BY <1>6, <1>7, <3>1
  <2>3. \A p \in Caller : pc'[p] \in Unsent => pc[p] \in Unsent
    BY <1>4
  <2>4. UNCHANGED <<req, nextId>> /\ 1 \in Nat
    BY <1>4
  <2>5. \A d \in Conn \ {c} : toServer'[d] = toServer[d]
    BY <1>4
  <2> QED
    BY <1>5, <2>1, <2>2, <2>3, <2>4, <2>5, Fewer
<1> QED
  BY <1>3, <1>8 DEF r

LEMMA GarbageOnce ==
  ASSUME Once, NEW c \in Conn, ServeGarbage(c)
  PROVE  Once'
<1>1. UNCHANGED <<client, serving, invoked>> /\ toServer[c] \in Seq(Sent) /\ Len(toServer[c]) > 1
  BY DEF ServeGarbage, server, Once, Numbered
<1>2. CASE toServer' = [toServer EXCEPT ![c] = <<>>]
  BY <1>1, <1>2, ClearedOnce
<1>3. CASE toServer' = [toServer EXCEPT ![c] = [Tail(@) EXCEPT ![1].whole = FALSE]]
  <2>1. /\ Tail(toServer[c]) \in Seq(Sent)
        /\ \A i \in DOMAIN Tail(toServer[c]) :
             i + 1 \in DOMAIN toServer[c] /\ Tail(toServer[c])[i] = toServer[c][i + 1]
    BY <1>1
  <2> DEFINE marked == [Tail(toServer[c]) EXCEPT ![1].whole = FALSE]
  <2>2. /\ marked \in Seq(Sent) /\ DOMAIN marked = DOMAIN Tail(toServer[c])
        /\ \A i \in DOMAIN Tail(toServer[c]) : marked[i].id = Tail(toServer[c])[i].id
    BY <2>1, Marking
  <2>3. toServer' = [toServer EXCEPT ![c] = marked]
    BY <1>3
  <2> HIDE DEF marked
  <2>4. toServer'[c] = marked /\ \A d \in Conn \ {c} : toServer'[d] = toServer[d]
    BY <2>3 DEF Once, Numbered
  <2>5. Numbered'
    BY <1>1, <2>2, <2>3 DEF Once, Numbered, client
  <2>6. \A i \in DOMAIN toServer'[c] :
          i + 1 \in DOMAIN toServer[c] /\ toServer'[c][i].id = toServer[c][i + 1].id
    BY <2>1, <2>2, <2>4
  <2>7. UNCHANGED <<pc, req, nextId>> /\ invoked' \ invoked = {} /\ 1 \in Nat
    BY <1>1 DEF client
  <2> QED
    BY <2>4, <2>5, <2>6, <2>7, Fewer
<1> QED
  BY <1>2, <1>3 DEF ServeGarbage

LEMMA OnceInit == Init => Once
<1> SUFFICES ASSUME Init PROVE Once
  OBVIOUS
<1>1. <<>> \in Seq(Sent) /\ None \in Id
  BY DEF Id
<1>2. toServer \in [Conn -> Seq(Sent)] /\ \A c \in Conn : DOMAIN toServer[c] = {}
  BY <1>1 DEF Init
<1>3. Numbered
  BY <1>1, <1>2 DEF Init, Numbered
<1>4. \A p \in Caller : pc[p] \notin Unsent
  BY DEF Init, Unsent
<1> QED
  BY <1>2, <1>3, <1>4 DEF Once, OneFrameEach, OneCallerEach

LEMMA OnceStep == Once /\ [Next]_vars => Once'
<1> SUFFICES ASSUME Once, [Next]_vars PROVE Once'
  OBVIOUS
<1>1. CASE UNCHANGED vars
  <2>1. UNCHANGED <<pc, req, nextId, toServer, serving, invoked>>
    BY <1>1 DEF vars, client, wire, server
  <2> QED
    BY <2>1, NoFrames DEF Once, Numbered
<1>2. ASSUME NEW p \in Caller, Invoke(p) \/ CallerStep(p) \/ ReadGarbage(p) \/ Timeout(p)
      PROVE  Once'
  <2>1. Own \in Conn
    BY ExchangeAssumption
  <2> QED
    BY <1>2, <2>1, InvokeOnce, CallerOnce, BeginWriteOnce, EndWriteOnce DEF CallerStep
<1>3. ASSUME NEW c \in Conn, Evict(c) \/ ServerStep(c) \/ ServeGarbage(c) \/ Reset(c)
      PROVE  Once'
  <2>1. CASE Evict(c) \/ Reset(c)
    <3>1. /\ toServer' = [toServer EXCEPT ![c] = <<>>]
          /\ serving' = [serving EXCEPT ![c] = None] /\ UNCHANGED <<client, invoked>>
      BY <2>1 DEF Evict, Reset
    <3> QED
      BY <3>1, ClearedOnce
  <2>2. CASE Reply(c)
    <3>1. UNCHANGED <<pc, req, nextId, toServer, invoked>>
      BY <2>2 DEF Reply, client
    <3>2. serving' \in [Conn -> Id]
      BY <2>2 DEF Reply, Once, Numbered, Id
    <3> QED
      BY <3>1, <3>2 DEF Once, Numbered, OneFrameEach, OneCallerEach
  <2>3. CASE Serve(c)
    BY <2>3, ServeOnce
  <2>4. CASE ServeGarbage(c)
    BY <2>4, GarbageOnce
  <2> QED
    BY <1>3, <2>1, <2>2, <2>3, <2>4 DEF ServerStep
<1> QED
  BY <1>1, <1>2, <1>3 DEF Next

\* For any callers, connections, requests and faults: no request is handed to the
\* service twice, not even when calls are dropped in the middle of a frame.
THEOREM ServedOnce == Spec => AtMostOnce
<1> DEFINE A == \A c \in Conn : serving'[c] # serving[c] /\ serving'[c] # None
                                  => serving'[c] \notin invoked
<1>1. Once /\ [Next]_vars => A
  <2> SUFFICES ASSUME Once, [Next]_vars, NEW c \in Conn,
                      serving'[c] # serving[c], serving'[c] # None
               PROVE  serving'[c] \notin invoked
    OBVIOUS
  <2>1. serving \in [Conn -> Id]
    BY DEF Once, Numbered
  <2>2. ASSUME NEW d \in Conn PROVE ~Evict(d) /\ ~Reply(d) /\ ~Reset(d) /\ ~ServeGarbage(d)
    <3>1. serving' # serving /\ serving' # [serving EXCEPT ![d] = None]
      BY <2>1
    <3>2. ~ServeGarbage(d)
      BY <3>1 DEF ServeGarbage, server
    <3>3. ~Evict(d) /\ ~Reset(d)
      BY <3>1 DEF Evict, Reset
    <3>4. ~Reply(d)
      BY <3>1 DEF Reply
    <3> QED
      BY <3>2, <3>3, <3>4
  <2>3. PICK d \in Conn : Serve(d)
    BY <2>2 DEF Next, ServerStep, vars, server, Invoke, CallerStep, ReadGarbage, Timeout, Reuse,
                Connect, AcquireErr, BeginWrite, EndWrite, ReadHeader, ReadBody, IoError
  <2>4. serving' = [serving EXCEPT ![d] = Head(toServer[d]).id]
    BY <2>3 DEF Serve
  <2>5. c = d /\ serving'[c] = Head(toServer[d]).id
    BY <2>1, <2>4
  <2> QED
    BY <2>3, <2>5, ServeOnce
<1>2. Once /\ [Next]_vars => [A]_vars
  BY <1>1
<1> QED
  BY <1>2, OnceInit, OnceStep, PTL DEF Spec, AtMostOnce

=============================================================================
