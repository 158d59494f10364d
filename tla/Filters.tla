------------------------------ MODULE Filters -------------------------------
(***************************************************************************)
(* A call through the stateless filters of dubbo-filter, on the side of    *)
(* the consumer and then of the provider, and through the client that      *)
(* builds the consumer's chain.  The invocation context belongs to the     *)
(* caller: what a filter does to it is there when the call is made again,  *)
(* as a cluster does.  The provider has a context of its own, made from    *)
(* the attachments that were sent.                                         *)
(*                                                                         *)
(* A signature is the record of what was signed and with which key.        *)
(***************************************************************************)
EXTENDS Integers, Sequences, SequencesExt

CONSTANTS
  Unset,       \* no value
  Token,       \* tokens: the provider's own is CHOSEN among them
  OwnKeyKnown, \* does the consumer's AuthFilter hold the key it signs with?
  Tolerance,   \* AUTH_TIMESTAMP_TOLERANCE_MS
  MaxClock,    \* bound on the time that passes
  MaxAttempt   \* bound on how often one context is used

Filter == {"echo", "token", "access", "timeout", "auth", "generic", "context", "exception"}
Side == {"consumer", "provider"}
Method == {"$echo", "call"}

VARIABLES
  config,   \* the consumer's filters, and whether a Client with or without a cluster
            \*   builds the invoker or FilterChain over a DubboInvoker does; fixed
  exported, \* the provider's filters; fixed at the start
  invoker,  \* Client.invoker: "none", or what has been built
  ctx,      \* the attachments of the caller's context and of the provider's
  method,   \* the method called
  side,     \* where the call is: on which side,
  place,    \*   at which filter,
  phase,    \*   and whether it goes in or comes out
  result,   \* what comes out
  clock,    \* the time
  served,   \* history: for each attempt, whether the service was asked: "yes",
            \*   "no", or "late" if a timeout came first
  origin    \* history: the attachments the caller set

filterVars == <<config, exported, invoker, ctx, method, side, place, phase, result, clock,
                served, origin>>

ASSUME FilterAssumption ==
  /\ Unset \notin {"ours", "undeclared"}
  /\ Unset \notin [key : {"ours"}, method : Method, timestamp : Nat]
  /\ Tolerance \in Nat

NoAttachment == [token |-> Unset, ak |-> Unset, signature |-> Unset, timestamp |-> Unset,
                 internal |-> Unset]
MyToken == CHOOSE t \in Token : TRUE

FilterInit(configs, chains) ==
  /\ config \in configs /\ exported \in chains
  /\ invoker = IF config.client THEN "none" ELSE "chain"
  /\ \E t \in Token \cup {Unset}, i \in {Unset, TRUE} :
       origin = [NoAttachment EXCEPT !.token = t, !.internal = i]
  /\ ctx = [s \in Side |-> IF s = "consumer" THEN origin ELSE NoAttachment]
  /\ method \in Method
  /\ side = "consumer" /\ place = 1 /\ phase = "idle" /\ result = Unset
  /\ clock = 0
  /\ served = <<>>

\* Client::dial().  A cluster is taken before the filters are looked at, and both
\* are used up, so that dialling again builds an invoker without them.
Dial ==
  /\ phase = "idle" /\ config.client
  /\ invoker' = IF config.cluster /\ invoker = "none" THEN "cluster"
                ELSE IF config.filters # <<>> /\ invoker \in {"none", "cluster"} THEN "chain"
                ELSE "bare"
  /\ UNCHANGED <<config, exported, ctx, method, side, place, phase, result, clock, served, origin>>

\* The filters in front of the base invoker, in FilterChain's order.
Chain(s) ==
  IF s = "provider" THEN exported ELSE IF invoker = "chain" THEN config.filters ELSE <<>>

Facing(f) == phase = "in" /\ place <= Len(Chain(side)) /\ Chain(side)[place] = f

StartCall ==
  /\ phase = "idle" /\ invoker # "none" /\ Len(served) < MaxAttempt
  /\ phase' = "in" /\ side' = "consumer" /\ place' = 1 /\ result' = Unset
  /\ served' = Append(served, "no")
  /\ UNCHANGED <<config, exported, invoker, ctx, method, clock, origin>>

Pass(attachments) ==
  /\ ctx' = [ctx EXCEPT ![side] = attachments]
  /\ place' = place + 1
  /\ UNCHANGED <<phase, result>>

\* FilterNode::invoke() asks on_response() of the filter whose invoke() was Ok, its
\* own success included, and of no filter after an Err.
TurnBack(r) == phase' = "out" /\ result' = r /\ UNCHANGED <<ctx, place>>

EchoFilter == Facing("echo") /\ IF method = "$echo" THEN TurnBack("value") ELSE Pass(ctx[side])

BugTaken == [ctx[side] EXCEPT !.token = Unset]
Admitted == ctx[side]
TokenFilter ==
  Facing("token") /\ IF ctx[side].token = MyToken THEN Pass(Admitted) ELSE TurnBack("Err")

\* ContextFilter takes the internal attachments out.
ContextFilter == Facing("context") /\ Pass([ctx[side] EXCEPT !.internal = Unset])

\* Some only look at what comes back, or at the time.
AccessLogFilter == Facing("access") /\ Pass(ctx[side])
GenericFilter == Facing("generic") /\ Pass(ctx[side])
ExceptionFilter == Facing("exception") /\ Pass(ctx[side])
TimeoutFilter == Facing("timeout") /\ Pass(ctx[side])

\* AuthFilter: a context that names a key is checked, as the provider does; one that
\* names none is signed.  The provider knows the key.
SignatureOf(t) == [key |-> "ours", method |-> method, timestamp |-> t]
Fresh(t) == clock <= t + Tolerance
Valid(a) ==
  /\ side = "provider" \/ OwnKeyKnown
  /\ Fresh(a.timestamp)
  /\ a.signature = SignatureOf(a.timestamp)

AuthFilter ==
  /\ Facing("auth")
  /\ IF ctx[side].ak # Unset
     THEN IF Valid(ctx[side]) THEN Pass(ctx[side]) ELSE TurnBack("Err")
     ELSE IF side = "consumer"
     THEN Pass([ctx[side] EXCEPT !.ak = "ours", !.signature = SignatureOf(clock), !.timestamp = clock])
     ELSE Pass(ctx[side])

AtEnd(s) == phase = "in" /\ side = s /\ place = Len(Chain(s)) + 1

\* Client's base invoker is a TonicInvoker, which cannot be invoked.
TonicInvoke == AtEnd("consumer") /\ config.client /\ TurnBack("Err")

\* A DubboInvoker sends the attachments and waits.
Send ==
  /\ AtEnd("consumer") /\ ~config.client
  /\ side' = "provider" /\ place' = 1
  /\ ctx' = [ctx EXCEPT !["provider"] = ctx["consumer"]]
  /\ UNCHANGED <<phase, result, served>>

\* The service answers: a value, no value, an error of a declared kind or of
\* another, or Err.
Serve(r) ==
  /\ AtEnd("provider")
  /\ TurnBack(r)
  /\ served' = [served EXCEPT ![Len(served)] = "yes"]
  /\ UNCHANGED side

\* TimeoutFilter drops the call behind it, wherever that is; the provider goes on
\* without anyone to answer, which nothing here can see.
TimeOut(i) ==
  /\ phase = "in"
  /\ i \in DOMAIN Chain("consumer") /\ Chain("consumer")[i] = "timeout"
  /\ side = "provider" \/ i < place
  /\ side' = "consumer" /\ place' = i
  /\ phase' = "out" /\ result' = "Err"
  /\ served' = [served EXCEPT ![Len(served)] = IF @ = "yes" THEN "yes" ELSE "late"]
  /\ UNCHANGED ctx

\* ExceptionFilter::on_response() hides errors that are not declared.  Those of
\* AccessLogFilter and GenericFilter give back what they get.
BugShown(f, r) == r
Shown(f, r) == IF f = "exception" /\ r = "undeclared" THEN "hidden" ELSE r

\* on_response() of the filter at this place, and then of those before it.
Respond ==
  /\ phase = "out" /\ place >= 1
  /\ result' = IF result # "Err" /\ place <= Len(Chain(side)) THEN Shown(Chain(side)[place], result)
               ELSE result
  /\ place' = place - 1
  /\ UNCHANGED <<ctx, side, phase, served>>

\* What the consumer has of the provider's result: no value is an empty one, and an
\* Err a ServerError.
Received(r) == CASE r = "none" -> "value" [] r = "Err" -> "undeclared" [] OTHER -> r

Reply ==
  /\ phase = "out" /\ place = 0
  /\ IF side = "provider"
     THEN /\ side' = "consumer" /\ place' = Len(Chain("consumer"))
          /\ result' = Received(result)
          /\ UNCHANGED phase
     ELSE phase' = "idle" /\ UNCHANGED <<side, place, result>>
  /\ UNCHANGED <<ctx, served>>

ClockTicks ==
  /\ clock < MaxClock /\ clock' = clock + 1
  /\ UNCHANGED <<config, exported, invoker, ctx, method, side, place, phase, result, served, origin>>

Travel ==
  /\ \/ /\ EchoFilter \/ TokenFilter \/ ContextFilter \/ AccessLogFilter \/ GenericFilter
           \/ ExceptionFilter \/ TimeoutFilter \/ AuthFilter \/ TonicInvoke
        /\ UNCHANGED <<side, served>>
     \/ Send \/ Respond \/ Reply
     \/ \E r \in {"value", "none", "declared", "undeclared", "Err"} : Serve(r)
     \/ \E i \in 1 .. Len(config.filters) : TimeOut(i)
  /\ UNCHANGED <<config, exported, invoker, method, clock, origin>>

FilterNext == Dial \/ StartCall \/ Travel \/ ClockTicks

FilterSpec ==
  /\ FilterInit([client : BOOLEAN, cluster : BOOLEAN, filters : Seq(Filter)], Seq(Filter))
  /\ [][FilterNext]_filterVars

-----------------------------------------------------------------------------

Has(s, f) == f \in ToSet(Chain(s))
Latest == Len(served)

\* The service is asked only for calls that the provider's filters have let through:
\* with its token if it wants one, signed if both sides have an AuthFilter, without the
\* attachments that a ContextFilter takes out, and never for an echo; and no error that the
\* consumer's ExceptionFilter does not know as declared leaves its chain.
CallsAreEntitled ==
  /\ served # <<>> /\ served[Latest] = "yes" =>
       /\ Has("provider", "token") => origin.token = MyToken
       /\ Has("provider", "auth") /\ Has("consumer", "auth") => ctx["consumer"].signature # Unset
       /\ Has("provider", "context") \/ Has("consumer", "context") => ctx["provider"].internal = Unset
       /\ method = "$echo" => ~Has("provider", "echo") /\ ~Has("consumer", "echo")
  /\ phase = "idle" /\ Has("consumer", "exception") => result # "undeclared"

\* A call that is made again with its context, within the time a signature is good
\* for, fares as it did before: what filters leave in the context does not keep it from
\* the service.  But an AuthFilter that has signed it takes it for a provider's the second
\* time and, unless it holds its own key, refuses it.
SignsForGood == Has("consumer", "auth") /\ ~OwnKeyKnown
RepeatsAgree ==
  phase = "idle" /\ Latest = 2 /\ served[1] = "yes" /\ served[2] # "late" /\ clock <= Tolerance
    => (served[2] = "yes" <=> ~SignsForGood)

\* The service is asked only for calls that are entitled to it, and a context that is used
\* again fares as it did before.
ServedAreEntitled == CallsAreEntitled /\ RepeatsAgree
=============================================================================
