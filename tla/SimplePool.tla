----------------------------- MODULE SimplePool -----------------------------
(***************************************************************************)
(* SimpleConnectionPool of dubbo-remoting, and ReconnectManager, by which  *)
(* those who connect would wait between attempts.  The pool has no limits; *)
(* its one mutex is held over connect().await, for every address.  The     *)
(* manager has two mutexes, taken in the same order by all who write.      *)
(***************************************************************************)
EXTENDS Integers, FiniteSets

CONSTANTS
  User,        \* those who use connections, each with one at a time
  Address,     \* url.get_address()
  None,        \* no user, no address
  InitialDelay, MaxDelay, Multiplier, MaxAttempts, \* ReconnectConfig, enabled
  MaxOpen,     \* bound on the connections opened
  MaxFail      \* bound on the failures recorded for an address

ASSUME SimplePoolAssumption ==
  /\ IsFiniteSet(User) /\ User # {}
  /\ None \notin User \cup Address
  /\ InitialDelay \in Nat /\ MaxDelay \in Nat /\ Multiplier \in Nat
  /\ MaxAttempts \in Nat /\ MaxOpen \in Nat /\ MaxFail \in Nat

VARIABLES
  lock,        \* who holds the mutex of PoolState
  spare,       \* PoolState.available: how many clients of each address
  doing,       \* what each user is doing
  address,     \* and with which address
  opened,      \* history: connections opened for each address
  attempts,    \* ReconnectManager.attempts
  delay,       \* ReconnectManager.next_delay, initial_delay where it has none
  recording    \* who is in record_failure(), between its two maps

poolVars == <<lock, spare, doing, address, opened>>
reconnectVars == <<attempts, delay, recording>>
simplePoolVars == <<poolVars, reconnectVars>>

SimplePoolInit ==
  /\ lock = None
  /\ spare = [a \in Address |-> 0]
  /\ doing = [u \in User |-> "off"]
  /\ address = [u \in User |-> None]
  /\ opened = [a \in Address |-> 0]
  /\ attempts = [a \in Address |-> 0]
  /\ delay = [a \in Address |-> InitialDelay]
  /\ recording = None

Does(u, next) == doing' = [doing EXCEPT ![u] = next]

-----------------------------------------------------------------------------
(* SimpleConnectionPool.                                                   *)

\* get(), once it has the mutex: an idle client, or a new one.
Take(u, a) ==
  /\ doing[u] = "off" /\ lock = None
  /\ IF spare[a] > 0
     THEN /\ spare' = [spare EXCEPT ![a] = @ - 1]
          /\ Does(u, "using")
          /\ UNCHANGED lock
     ELSE /\ lock' = u
          /\ Does(u, "connecting")
          /\ UNCHANGED spare
  /\ address' = [address EXCEPT ![u] = a]
  /\ UNCHANGED <<opened, reconnectVars>>

\* connect() succeeds, and the guard is dropped.
Connected(u) ==
  /\ doing[u] = "connecting" /\ opened[address[u]] < MaxOpen
  /\ lock' = None
  /\ Does(u, "using")
  /\ opened' = [opened EXCEPT ![address[u]] = @ + 1]
  /\ UNCHANGED <<spare, address, reconnectVars>>

\* connect() fails, or the caller is dropped while it waits.
NotConnected(u) ==
  /\ doing[u] = "connecting"
  /\ lock' = None
  /\ Does(u, "failed")
  /\ UNCHANGED <<spare, address, opened, reconnectVars>>

\* PooledConnection::drop() spawns the task that gives the client back.
GiveBack(u) ==
  /\ doing[u] = "using" /\ lock = None
  /\ spare' = [spare EXCEPT ![address[u]] = @ + 1]
  /\ Does(u, "off")
  /\ address' = [address EXCEPT ![u] = None]
  /\ UNCHANGED <<lock, opened, reconnectVars>>

-----------------------------------------------------------------------------
(* ReconnectManager.                                                       *)

ShouldReconnect(a) == MaxAttempts = 0 \/ attempts[a] < MaxAttempts

\* Another attempt at an address that could not be reached.
Retry(u) ==
  /\ doing[u] = "failed" /\ ShouldReconnect(address[u])
  /\ Does(u, "waiting")
  /\ UNCHANGED <<lock, spare, address, opened, reconnectVars>>

Forget(a) ==
  /\ attempts' = [attempts EXCEPT ![a] = 0]
  /\ delay' = [delay EXCEPT ![a] = InitialDelay]
BugForgetAttempts(a) == attempts' = [attempts EXCEPT ![a] = 0] /\ UNCHANGED delay
ForgetAll(a) == Forget(a)

\* record_success(); a user that gives up calls reset(), which does the same.
RecordSuccess(u) ==
  /\ doing[u] \in {"waiting", "failed"} /\ recording = None
  /\ ForgetAll(address[u])
  /\ Does(u, "off")
  /\ address' = [address EXCEPT ![u] = None]
  /\ UNCHANGED <<lock, spare, opened, recording>>

\* record_failure(): the count, and with its mutex still held the delay.
CountAttempt(u) ==
  /\ doing[u] = "waiting" /\ recording = None /\ attempts[address[u]] < MaxFail
  /\ attempts' = [attempts EXCEPT ![address[u]] = @ + 1]
  /\ recording' = u
  /\ UNCHANGED <<poolVars, delay>>

Longer(d) == IF d * Multiplier < MaxDelay THEN d * Multiplier ELSE MaxDelay

StoreDelay(u) ==
  /\ recording = u
  /\ delay' = [delay EXCEPT ![address[u]] = Longer(@)]
  /\ recording' = None
  /\ Does(u, "failed")
  /\ UNCHANGED <<lock, spare, address, opened, attempts>>

SimplePoolNext ==
  \E u \in User :
    \/ \E a \in Address : Take(u, a)
    \/ Connected(u) \/ NotConnected(u) \/ GiveBack(u)
    \/ Retry(u) \/ RecordSuccess(u) \/ CountAttempt(u) \/ StoreDelay(u)

SimplePoolSpec == SimplePoolInit /\ [][SimplePoolNext]_simplePoolVars

-----------------------------------------------------------------------------

With(state, a) == {u \in User : doing[u] = state /\ address[u] = a}

\* While a connection to an address is being opened none is idle: since the mutex is held
\* all the time, none can come back either.  So no more are opened than are used at once,
\* at most one per user, and all of them are in use or idle.
OpensOnlyForWant ==
  \A a \in Address :
    /\ With("connecting", a) # {} => spare[a] = 0
    /\ opened[a] = spare[a] + Cardinality(With("using", a))
    /\ opened[a] <= Cardinality(User)

\* The delay of an address is the one its failures in a row give, whoever records them, and
\* they exceed max_attempts only by those who had asked before the last was recorded.
Backoff[n \in Nat] == IF n = 0 THEN InitialDelay ELSE Longer(Backoff[n - 1])
DelayFollowsFailures ==
  \A a \in Address :
    /\ (recording = None \/ address[recording] # a) => delay[a] = Backoff[attempts[a]]
    /\ MaxAttempts > 0 => attempts[a] <= MaxAttempts + Cardinality(User) - 1

\* Connections are opened only for want of idle ones, and the delay before a reconnection
\* is the one that the failures in a row give, whoever records them.
PoolKeepsBooks == OpensOnlyForWant /\ DelayFollowsFailures
=============================================================================
