---------------------------- MODULE MCServerChain ---------------------------
(***************************************************************************)
(* ServerChain with every choice of its filters in every order, and the    *)
(* short chain in which a wait that ends too early is easiest to see.      *)
(***************************************************************************)
EXTENDS ServerChain

Orders(n) ==
  {order \in [1 .. n -> Filter] : \A i, j \in 1 .. n : order[i] = order[j] => i = j}

EveryOrder == UNION {Orders(n) : n \in 1 .. Cardinality(Filter)}

OnlyShutdown == {<<"shutdown">>}

=============================================================================
