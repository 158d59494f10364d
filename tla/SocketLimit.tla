---------------------------- MODULE SocketLimit -----------------------------
(***************************************************************************)
(* What a connection pool promises the servers it connects to, whatever it *)
(* does inside: clients of an address are opened one at a time and only    *)
(* while fewer than MaxConn of that address are open.  Any may be closed.  *)
(***************************************************************************)
EXTENDS Naturals, FiniteSets

CONSTANTS Addr, Lease, MaxConn

VARIABLE sockets     \* the open clients of each address

Init == sockets = [a \in Addr |-> {}]

\* Opening a client may close others first.
Open(a, l, closed) ==
  /\ closed \subseteq sockets[a]
  /\ l \notin sockets[a]
  /\ Cardinality(sockets[a] \ closed) < MaxConn
  /\ sockets' = [sockets EXCEPT ![a] = (@ \ closed) \cup {l}]

Close ==
  /\ sockets' \in [Addr -> SUBSET Lease]
  /\ \A a \in Addr : sockets'[a] \subseteq sockets[a]

Next ==
  \/ \E a \in Addr, l \in Lease : \E closed \in SUBSET Lease : Open(a, l, closed)
  \/ Close

Spec == Init /\ [][Next]_sockets

=============================================================================
