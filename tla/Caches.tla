------------------------------- MODULE Caches -------------------------------
(***************************************************************************)
(* CacheFilter of dubbo-filter over one of its two stores.  The store is   *)
(* read before a call and written after it, so callers that miss together  *)
(* all go through.  Both stores keep a map and the order of its keys under *)
(* two locks that every operation takes together: an operation is a step,  *)
(* but put() of TtlCacheStore, which evicts under locks of its own first.  *)
(***************************************************************************)
EXTENDS Integers, FiniteSets, Functions, Lists

CONSTANTS
  Client,   \* those who call through the filter
  Key,      \* cache_key(): a method and the hashes of the arguments
  MaxSize,  \* max_size of the store
  Ttl,      \* ttl of a TtlCacheStore
  MaxTime   \* bound on the time that passes

ASSUME CachesAssumption ==
  /\ Key # {}
  /\ MaxSize \in Nat /\ Ttl \in Nat /\ MaxTime \in Nat

VARIABLES
  store,    \* the kind of store, "lru" or "ttl", fixed at the start
  entries,  \* created_at of each key that is stored
  order,    \* the order list of the store
  now,      \* the time
  client,   \* what each client is doing
  touched   \* history: keys put, or found by an LRU get, the latest last

cacheVars == <<store, entries, order, now, client, touched>>

Idle == [at |-> "idle", key |-> CHOOSE k \in Key : TRUE]

CacheInit ==
  /\ store \in {"lru", "ttl"}
  /\ entries = <<>> /\ order = <<>> /\ touched = <<>>
  /\ now = 0
  /\ client = [c \in Client |-> Idle]

Without(seq, keys) == Keep(seq, Key \ keys)
Moved(seq, key) == Append(Without(seq, {key}), key)
Live(keys) == Restrict(entries, DOMAIN entries \ keys)

Drop(keys) ==
  /\ entries' = Live(keys)
  /\ order' = Without(order, keys)
  /\ touched' = Without(touched, keys)

Expired == {k \in DOMAIN entries : store = "ttl" /\ now - entries[k] > Ttl}

\* LruCacheStore::get(): a key that is found becomes the most recent.
BugNotMoved(k) == UNCHANGED order
Refresh(k) == order' = Moved(order, k)

Hit(k) ==
  /\ k \in DOMAIN entries \ Expired
  /\ IF store = "lru" THEN Refresh(k) /\ touched' = Moved(touched, k)
                      ELSE UNCHANGED <<order, touched>>
  /\ UNCHANGED <<entries, client>>

\* get() finds nothing, or what has expired and is removed: the call goes on.
Miss(c, k) ==
  /\ k \notin DOMAIN entries \ Expired
  /\ Drop({k} \cap Expired)
  /\ client' = [client EXCEPT ![c] = [at |-> "asking", key |-> k]]

\* CacheFilter::invoke(), up to the await.
Lookup(c, k) ==
  /\ client[c].at = "idle"
  /\ Hit(k) \/ Miss(c, k)
  /\ UNCHANGED <<store, now>>

\* The call behind the filter returns: a success with a value is to be stored.
Fetched(c) ==
  /\ client[c].at = "asking"
  /\ \/ client' = [client EXCEPT ![c].at = "answered"]
     \/ client' = [client EXCEPT ![c] = Idle]
  /\ UNCHANGED <<store, entries, order, now, touched>>

EvictExpired(c) ==
  /\ client[c].at = "answered" /\ store = "ttl"
  /\ Drop(Expired)
  /\ client' = [client EXCEPT ![c].at = "evicted"]
  /\ UNCHANGED <<store, now>>

\* The keys that put() keeps: the key itself is taken out of the order before
\* the size is looked at, and yet counted among the entries.
Room == IF MaxSize = 0 THEN 0 ELSE MaxSize - 1
Kept(k) ==
  LET others == Without(order, {k})
      excess == Cardinality(DOMAIN entries) - Room
  IN SubSeq(others, IF excess > 0 THEN excess + 1 ELSE 1, Len(others))

Put(c) ==
  /\ client[c].at = IF store = "ttl" THEN "evicted" ELSE "answered"
  /\ LET k == client[c].key
     IN /\ order' = Append(Kept(k), k)
        /\ entries' = [x \in ToSet(Kept(k)) \cup {k} |-> IF x = k THEN now ELSE entries[x]]
        /\ touched' = Moved(touched, k)
  /\ client' = [client EXCEPT ![c] = Idle]
  /\ UNCHANGED <<store, now>>

\* remove() of a key, or clear().
RemoveKeys == \E keys \in {{k} : k \in Key} \cup {Key} :
  Drop(keys) /\ UNCHANGED <<store, now, client>>

Tick == now < MaxTime /\ now' = now + 1 /\ UNCHANGED <<store, entries, order, client, touched>>

CacheNext ==
  \/ \E c \in Client : \/ \E k \in Key : Lookup(c, k)
                       \/ Fetched(c) \/ EvictExpired(c) \/ Put(c)
  \/ RemoveKeys \/ Tick

CacheSpec == CacheInit /\ [][CacheNext]_cacheVars

-----------------------------------------------------------------------------

\* The map and the order of a store have the same keys, no more than the store
\* may hold (one, if it may hold none), and they are the keys used last, in the order
\* of their last use: whoever calls, answers, expires or is evicted in between, no key
\* is given up while one that was used before it is kept.
CacheKeepsRecent ==
  /\ ToSet(order) = DOMAIN entries /\ IsInjective(order)
  /\ Len(order) <= Room + 1
  /\ IsSuffix(order, touched)
=============================================================================
