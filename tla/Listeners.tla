----------------------------- MODULE Listeners ------------------------------
(***************************************************************************)
(* What listens, and until when: Dubbo services that DubboProtocol exports, *)
(* each with an accept task and a task per connection, and the one Server  *)
(* of an Instance, over tonic.  ServerChain has the calls they serve.      *)
(***************************************************************************)
EXTENDS Naturals, FiniteSets

CONSTANTS
  Export,    \* the exports: each has a server, and an exporter if bind() succeeds
  Address, Peer,
  MaxAccept  \* bound on the connections a peer opens

VARIABLES
  at,         \* the address each server has bound, if any
  acceptor,   \* "none", "spawned", "listening" or "ended": its accept task
  permit,     \* the permit of its Notify
  closed,    \* history: the servers whose close() has run
  connected,  \* for each peer the server whose handler it talks to, or "none"
  accepted,   \* how many connections each peer has opened
  tonic,      \* the Server: what it was built with, and how it serves
  flag        \* the value in the watch channel of its internal shutdown

serverVars == <<at, acceptor, permit, closed>>
listenerVars == <<serverVars, connected, accepted, tonic, flag>>

\* Server::new() and the with_* methods; the fields that serve*() looks at.
Built(config, router, address) ==
  [config |-> config, router |-> router, address |-> address, mode |-> "none", state |-> "built",
   owner |-> "user"]

ListenersInit ==
  /\ at = [x \in Export |-> "none"]
  /\ acceptor = [x \in Export |-> "none"]
  /\ permit = [x \in Export |-> FALSE] /\ closed = {}
  /\ connected = [p \in Peer |-> "none"] /\ accepted = [p \in Peer |-> 0]
  /\ tonic \in {Built(c, r, a) : c \in BOOLEAN, r \in BOOLEAN, a \in Address \cup {"invalid"}}
  /\ flag = FALSE

\* The operating system lets one socket listen at an address: an accept task that has
\* ended has dropped its own, one that has not run yet has it already.
Bound(a) ==
  \/ \E x \in Export : at[x] = a /\ acceptor[x] # "ended"
  \/ tonic.state = "serving" /\ tonic.address = a

-----------------------------------------------------------------------------
(* DubboProtocol::export() and DubboServer.                                *)

\* bind() returns with the socket listening; the task that accepts is spawned.  When the
\* address is taken export() fails, and nothing is left.
Bind(x, a) ==
  /\ at[x] = "none" /\ ~Bound(a)
  /\ at' = [at EXCEPT ![x] = a]
  /\ acceptor' = [acceptor EXCEPT ![x] = "spawned"]
  /\ UNCHANGED <<permit, closed, connected, accepted, tonic, flag>>

\* The future of notified() exists once the task runs.
Listen(x) ==
  /\ acceptor[x] = "spawned"
  /\ acceptor' = [acceptor EXCEPT ![x] = "listening"]
  /\ UNCHANGED <<at, permit, closed, connected, accepted, tonic, flag>>

\* notify_one() keeps a permit for a waiter that comes later.
BugNotified(x) == acceptor[x] = "listening"
Notified(x) == TRUE

Close(x) ==
  /\ at[x] # "none" /\ x \notin closed
  /\ closed' = closed \cup {x}
  /\ permit' = [permit EXCEPT ![x] = Notified(x)]
  /\ UNCHANGED <<at, acceptor, connected, accepted, tonic, flag>>

\* un_export() makes the future of close() and drops it: nothing of it runs.
UnExport(x) == at[x] # "none" /\ UNCHANGED listenerVars

\* Of accept() and the notification select! takes any that is ready.
Accept(p, x) ==
  /\ acceptor[x] = "listening"
  /\ connected[p] = "none" /\ accepted[p] < MaxAccept
  /\ connected' = [connected EXCEPT ![p] = x]
  /\ accepted' = [accepted EXCEPT ![p] = @ + 1]
  /\ UNCHANGED <<serverVars, tonic, flag>>

EndAccept(x) ==
  /\ acceptor[x] = "listening" /\ permit[x]
  /\ acceptor' = [acceptor EXCEPT ![x] = "ended"]
  /\ permit' = [permit EXCEPT ![x] = FALSE]
  /\ UNCHANGED <<at, closed, connected, accepted, tonic, flag>>

\* A handler ends when its peer closes, and for no close() of the server.
HangUp(p) ==
  /\ connected[p] # "none"
  /\ connected' = [connected EXCEPT ![p] = "none"]
  /\ UNCHANGED <<serverVars, accepted, tonic, flag>>

-----------------------------------------------------------------------------
(* Server and Instance.                                                    *)

\* What each serve*() asks for before it listens: with a listener of the caller's, no
\* address is parsed or bound.
Given(mode) == mode \in {"listener", "listener_signal"}
Ready(mode) ==
  /\ tonic.router
  /\ Given(mode) \/ (tonic.config /\ tonic.address # "invalid" /\ ~Bound(tonic.address))

Serves(mode, owner) ==
  tonic' = [tonic EXCEPT !.mode = mode, !.owner = owner,
                         !.state = IF Ready(mode) THEN "serving" ELSE "failed"]

\* serve*() take the Server by value: afterwards nobody has it to call graceful_shutdown().
Serve(mode) ==
  /\ tonic.state = "built" /\ tonic.owner = "user"
  /\ Given(mode) => tonic.address \in Address /\ ~Bound(tonic.address)
  /\ Serves(mode, "nobody")
  /\ UNCHANGED <<serverVars, connected, accepted, flag>>

SetProviderService ==
  /\ tonic.state = "built" /\ tonic.owner = "user"
  /\ tonic' = [tonic EXCEPT !.owner = "instance"]
  /\ UNCHANGED <<serverVars, connected, accepted, flag>>

\* Instance::start() takes the server out of the instance and spawns serve().
Start ==
  /\ tonic.state = "built" /\ tonic.owner = "instance"
  /\ Serves("serve", "nobody")
  /\ UNCHANGED <<serverVars, connected, accepted, flag>>

\* The last step of Instance::shutdown(), or the user's own call.
GracefulShutdown ==
  /\ tonic.owner # "nobody"
  /\ flag' = TRUE
  /\ UNCHANGED <<serverVars, connected, accepted, tonic>>

\* The future the caller has given resolves, or the watch channel has the flag.
Stop ==
  /\ tonic.state = "serving"
  /\ tonic.mode \in {"signal", "listener_signal"} \/ (tonic.mode = "internal" /\ flag)
  /\ tonic' = [tonic EXCEPT !.state = "stopped"]
  /\ UNCHANGED <<serverVars, connected, accepted, flag>>

ListenersNext ==
  \/ \E x \in Export :
       \/ \E a \in Address : Bind(x, a)
       \/ Listen(x) \/ Close(x) \/ UnExport(x) \/ EndAccept(x)
       \/ \E p \in Peer : Accept(p, x)
  \/ \E p \in Peer : HangUp(p)
  \/ \E mode \in {"serve", "signal", "internal", "listener", "listener_signal"} : Serve(mode)
  \/ SetProviderService \/ Start \/ GracefulShutdown \/ Stop

ListenersFairness ==
  \A x \in Export : WF_listenerVars(Listen(x)) /\ WF_listenerVars(EndAccept(x))

-----------------------------------------------------------------------------

\* A server whose close() has run gives its address up in the end, even when it was closed
\* before its accept task had started to wait.
ClosedLetGo == \A x \in Export : x \in closed ~> acceptor[x] = "ended"
=============================================================================
