--------------------------- MODULE ConnectionPool ---------------------------
(***************************************************************************)
(* The per-address connection pool of dubbo-remoting: PooledConnectionPool *)
(* (get, the eviction task, drop of the pool) and PooledConnection (drop,  *)
(* and the task that drop spawns to give the client back).                 *)
(*                                                                         *)
(* Every critical section of the pool's mutex runs without an await inside *)
(* it, so each is one action; what happens between two of them (connecting *)
(* a new client, running the request, a return task that has been spawned  *)
(* but has not yet got the lock) is a stage a connection is in.            *)
(*                                                                         *)
(* A definition whose comment begins with "Bug:" is not part of the model: *)
(* it is the form the next definition would have after a plausible slip,   *)
(* kept to show which property would catch that slip.                      *)
(***************************************************************************)
EXTENDS Naturals, Sequences, FiniteSets

CONSTANTS
  Addr,              \* remote addresses, the keys of both maps of PoolState
  Lease,             \* identities of the clients the factory makes, per address
  MaxConn,           \* PoolConfig.max_connections_per_address
  MaxIdle            \* PoolConfig.max_idle_connections

ASSUME PoolAssumption ==
  /\ IsFiniteSet(Lease)
  /\ MaxConn \in Nat
  /\ MaxIdle \in Nat

VARIABLES
  stage,     \* where each client is in its life
  idle,      \* PoolState.available: idle clients, oldest first
  stale,     \* how many of the oldest idle clients have outlived idle_timeout
  inUse,     \* PoolState.in_use
  open,      \* the PooledConnectionPool has not been dropped
  cleanup,   \* its eviction task has not been aborted
  faults     \* what the pool's user may do to it, fixed at the start

vars == <<stage, idle, stale, inUse, open, cleanup, faults>>

\* "cancel": a caller's future is dropped in the middle of get();
\* "no_runtime": a connection is dropped where no tokio runtime is current.
Fault == {"cancel", "no_runtime"}

\* A client that does not exist is "none"; "failed" is one whose connect()
\* returned an error, before get() has got the lock again.
Stage == {"none", "connecting", "failed", "held", "returning", "idle"}

Busy(a) == {l \in Lease : stage[a][l] \in {"connecting", "failed", "held", "returning"}}
Sockets(a) == {l \in Lease : stage[a][l] # "none"}

\* The types, with the bounds that get() and Return keep on the idle list.
TypeOK ==
  /\ stage \in [Addr -> [Lease -> Stage]]
  /\ idle \in [Addr -> Seq(Lease)]
  /\ stale \in [Addr -> Nat]
  /\ inUse \in [Addr -> Nat]
  /\ open \in BOOLEAN
  /\ cleanup \in BOOLEAN
  /\ faults \in SUBSET Fault
  /\ \A a \in Addr : stale[a] <= Len(idle[a]) /\ Len(idle[a]) <= MaxIdle

Init ==
  /\ stage = [a \in Addr |-> [l \in Lease |-> "none"]]
  /\ idle = [a \in Addr |-> <<>>]
  /\ stale = [a \in Addr |-> 0]
  /\ inUse = [a \in Addr |-> 0]
  /\ open = TRUE
  /\ cleanup = TRUE
  /\ faults \in SUBSET Fault

\* usize::saturating_sub(1)
Pred(n) == IF n = 0 THEN 0 ELSE n - 1

TakeSlot(a) == inUse' = [inUse EXCEPT ![a] = @ + 1]
GiveUpSlot(a) == inUse' = [inUse EXCEPT ![a] = Pred(@)]
MoveTo(a, l, s) == stage' = [stage EXCEPT ![a][l] = s]

-----------------------------------------------------------------------------
(* get() takes the lock once and either reuses, reserves or fails.         *)

\* get() pops from the back.  Ages grow towards the front, so if the client at
\* the back is stale then all are, and the loop pops and closes every one.
AllStale(a) == stale[a] = Len(idle[a])

\* Bug: one client too many.
AboveLimit(a) == inUse[a] > MaxConn
AtLimit(a) == inUse[a] >= MaxConn

CloseIdle(a) == [l \in Lease |-> IF stage[a][l] = "idle" THEN "none" ELSE stage[a][l]]

GetReuse(a) ==
  /\ open
  /\ ~AllStale(a)
  /\ MoveTo(a, idle[a][Len(idle[a])], "held")
  /\ idle' = [idle EXCEPT ![a] = SubSeq(@, 1, Len(@) - 1)]
  /\ TakeSlot(a)
  /\ UNCHANGED <<stale, open, cleanup, faults>>

GetReserve(a, l) ==
  /\ open
  /\ AllStale(a)
  /\ ~AtLimit(a)
  /\ stage[a][l] = "none"
  /\ stage' = [stage EXCEPT ![a] = [CloseIdle(a) EXCEPT ![l] = "connecting"]]
  /\ idle' = [idle EXCEPT ![a] = <<>>]
  /\ stale' = [stale EXCEPT ![a] = 0]
  /\ TakeSlot(a)
  /\ UNCHANGED <<open, cleanup, faults>>

GetExhausted(a) ==
  /\ open
  /\ AllStale(a)
  /\ AtLimit(a)
  /\ stage' = [stage EXCEPT ![a] = CloseIdle(a)]
  /\ idle' = [idle EXCEPT ![a] = <<>>]
  /\ stale' = [stale EXCEPT ![a] = 0]
  /\ UNCHANGED <<inUse, open, cleanup, faults>>

(* client.connect(url).await runs without the lock.                        *)

ConnectOk(a, l) ==
  /\ stage[a][l] = "connecting"
  /\ MoveTo(a, l, "held")
  /\ UNCHANGED <<idle, stale, inUse, open, cleanup, faults>>

\* Bug: the slot is given up here, and by ReleaseFailed again.
ConnectErrGivesUp(a, l) ==
  /\ stage[a][l] = "connecting"
  /\ MoveTo(a, l, "failed")
  /\ GiveUpSlot(a)
  /\ UNCHANGED <<idle, stale, open, cleanup, faults>>

ConnectErr(a, l) ==
  /\ stage[a][l] = "connecting"
  /\ MoveTo(a, l, "failed")
  /\ UNCHANGED <<idle, stale, inUse, open, cleanup, faults>>

\* Bug: the error path forgets the slot.
ReleaseNothing(a, l) ==
  /\ stage[a][l] = "failed"
  /\ MoveTo(a, l, "none")
  /\ UNCHANGED <<idle, stale, inUse, open, cleanup, faults>>

ReleaseFailed(a, l) ==
  /\ stage[a][l] = "failed"
  /\ MoveTo(a, l, "none")
  /\ GiveUpSlot(a)
  /\ UNCHANGED <<idle, stale, open, cleanup, faults>>

\* The caller's future is dropped (TimeoutFilter does this) while it awaits
\* connect() or, after an error, the lock: the client goes, its count stays.
CancelGet(a, l) ==
  /\ "cancel" \in faults
  /\ stage[a][l] \in {"connecting", "failed"}
  /\ MoveTo(a, l, "none")
  /\ UNCHANGED <<idle, stale, inUse, open, cleanup, faults>>

-----------------------------------------------------------------------------
(* impl Drop for PooledConnection.                                         *)

DropConnection(a, l) ==
  /\ stage[a][l] = "held"
  /\ MoveTo(a, l, "returning")
  /\ UNCHANGED <<idle, stale, inUse, open, cleanup, faults>>

\* Handle::try_current() fails: no task is spawned, the client is just closed.
DropOutsideRuntime(a, l) ==
  /\ "no_runtime" \in faults
  /\ stage[a][l] = "held"
  /\ MoveTo(a, l, "none")
  /\ UNCHANGED <<idle, stale, inUse, open, cleanup, faults>>

\* Bug: one idle client too many.
HasRoomForOneMore(a) == Len(idle[a]) <= MaxIdle
HasRoom(a) == Len(idle[a]) < MaxIdle

\* The spawned task: give the slot up, keep the client if there is room.
Return(a, l) ==
  /\ stage[a][l] = "returning"
  /\ GiveUpSlot(a)
  /\ IF HasRoom(a)
       THEN /\ idle' = [idle EXCEPT ![a] = Append(@, l)]
            /\ MoveTo(a, l, "idle")
       ELSE /\ MoveTo(a, l, "none")
            /\ UNCHANGED idle
  /\ UNCHANGED <<stale, open, cleanup, faults>>

-----------------------------------------------------------------------------
(* Time, the eviction task and the end of the pool.                        *)

\* The oldest idle client that is not stale yet becomes stale.
Age(a) ==
  /\ stale[a] < Len(idle[a])
  /\ stale' = [stale EXCEPT ![a] = @ + 1]
  /\ UNCHANGED <<stage, idle, inUse, open, cleanup, faults>>

StaleClients(a) == {idle[a][i] : i \in 1 .. stale[a]}

\* One tick of the eviction task: retain() keeps the clients that are not stale.
Evict ==
  /\ cleanup
  /\ stage' = [a \in Addr |-> [l \in Lease |->
                 IF l \in StaleClients(a) THEN "none" ELSE stage[a][l]]]
  /\ idle' = [a \in Addr |-> SubSeq(idle[a], stale[a] + 1, Len(idle[a]))]
  /\ stale' = [a \in Addr |-> 0]
  /\ UNCHANGED <<inUse, open, cleanup, faults>>

\* Bug: the eviction task is not aborted.
DropPoolKeepsCleanup ==
  /\ open
  /\ \A a \in Addr, l \in Lease : stage[a][l] \notin {"connecting", "failed"}
  /\ open' = FALSE
  /\ UNCHANGED <<stage, idle, stale, inUse, cleanup, faults>>

\* impl Drop for PooledConnectionPool.  get() borrows the pool, so no get() is
\* running; connections may still be held, each with its own Arc of the state.
DropPool ==
  /\ open
  /\ \A a \in Addr, l \in Lease : stage[a][l] \notin {"connecting", "failed"}
  /\ open' = FALSE
  /\ cleanup' = FALSE
  /\ UNCHANGED <<stage, idle, stale, inUse, faults>>

\* The last Arc of the state goes: the idle clients are closed with it.
FreeState ==
  /\ ~open /\ ~cleanup
  /\ \A a \in Addr : Busy(a) = {}
  /\ stage' = [a \in Addr |-> [l \in Lease |-> "none"]]
  /\ idle' = [a \in Addr |-> <<>>]
  /\ stale' = [a \in Addr |-> 0]
  /\ UNCHANGED <<inUse, open, cleanup, faults>>

Get(a) == GetReuse(a) \/ GetExhausted(a) \/ \E l \in Lease : GetReserve(a, l)

Settle(a, l) ==
  ConnectOk(a, l) \/ ConnectErr(a, l) \/ ReleaseFailed(a, l) \/ Return(a, l)

Next ==
  \/ \E a \in Addr :
       \/ Get(a)
       \/ Age(a)
       \/ \E l \in Lease :
            \/ Settle(a, l)
            \/ CancelGet(a, l)
            \/ DropConnection(a, l)
            \/ DropOutsideRuntime(a, l)
  \/ Evict
  \/ DropPool
  \/ FreeState

Spec == Init /\ [][Next]_vars

\* Fair: what the runtime schedules (connect() ends, a spawned task gets the
\* lock, the interval ticks, the last Arc is freed) and requests that end, so
\* that a holder lets its connection go.  Not fair: get(), time, the pool's end.
Fairness ==
  /\ \A a \in Addr, l \in Lease :
       /\ WF_vars(Settle(a, l))
       /\ WF_vars(DropConnection(a, l))
  /\ WF_vars(Evict)
  /\ WF_vars(FreeState)

FairSpec == Spec /\ Fairness

-----------------------------------------------------------------------------
(* Properties.                                                             *)

\* The saturating subtractions never saturate: no slot is given up twice, so
\* in_use never falls below the clients that get() has counted.
SlotsCoverBusy == \A a \in Addr : Cardinality(Busy(a)) <= inUse[a]

\* in_use_count() is the number of clients in use, as its comment says, so
\* get() reports an exhausted pool only when max_connections clients are busy.
InUseIsExact == \A a \in Addr : inUse[a] = Cardinality(Busy(a))

\* It is, as long as no get() is cancelled and no connection is dropped
\* outside of the runtime.
InUseIsExactWithoutFaults == faults = {} => InUseIsExact

\* And then an exhausted pool does not stay exhausted: every way a slot is
\* taken, a failing connect() included, leads to its being given up.
Exhausted(a) == AllStale(a) /\ AtLimit(a)
ExhaustionEnds == \A a \in Addr : faults = {} /\ Exhausted(a) ~> ~Exhausted(a)

\* Dropping the pool closes its idle clients once the last connection is back:
\* neither the eviction task nor a return task keeps the shared state alive.
DropClosesAll == ~open ~> \A a \in Addr : Sockets(a) = {}

\* The limit of PoolConfig bounds every client of an address that exists, the
\* idle ones and those on their way back included, although get() compares
\* it with in_use alone and does not even do that when it reuses a client.
Limit == INSTANCE SocketLimit WITH sockets <- [a \in Addr |-> Sockets(a)]
ImplementsSocketLimit == Limit!Spec

=============================================================================
