-------------------------------- MODULE Wire --------------------------------
(***************************************************************************)
(* What a call is turned into on its way: one Hessian2 stream (Hessian2),  *)
(* one exchange of the Dubbo protocol (DubboMessages), one call or stream  *)
(* of a protocol over HTTP (HttpProtocols).  The three share no state.     *)
(***************************************************************************)
EXTENDS Hessian2, DubboMessages, HttpProtocols

\* Hessian2, DubboMessages and HttpProtocols: what is written is read back, a call and its
\* answer mean at one end what they meant at the other, and no protocol over HTTP makes a
\* success of a failure that was answered, or loses what a stream has sent.
WireKeepsMeaning == StreamRoundTrips /\ MeaningIsKept /\ RemoteResultsAreKept
=============================================================================
