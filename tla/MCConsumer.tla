---------------------------- MODULE MCConsumer -----------------------------
(***************************************************************************)
(* The parts of a consumer that share no state, side by side for TLC: each *)
(* behaviour exercises one of them, named by part, and leaves the others   *)
(* in one of their initial states.                                         *)
(***************************************************************************)
EXTENDS P2C, Cluster, Routing, Caches, SimplePool, Filters, LoadBalance

VARIABLE part

consumerVars == <<part, p2cVars, clusterVars, routingVars, balanceVars, cacheVars, filterVars,
                  simplePoolVars>>

\* The filters of a chain, and the clients and providers that have them.
Chains == {<<>>, <<"auth", "token">>, <<"context", "exception", "token">>,
           <<"echo", "timeout", "auth">>, <<"access", "exception", "generic">>,
           <<"exception", "timeout", "context", "auth">>}
Configs == [client : {FALSE}, cluster : {FALSE}, filters : Chains]
             \cup [client : {TRUE}, cluster : BOOLEAN, filters : {<<>>, <<"echo", "auth">>}]

\* No rule, each rule of at most one pair on a side, and two in turn; a script that fails,
\* one that turns the order round, and one that answers what is not a position.
OneRule == [arrow : {TRUE}, left : BoundedSeq(Pair, 1), right : BoundedSeq(Pair, 1)]
             \cup [arrow : {FALSE}, left : BoundedSeq(Pair, 1), right : {<<>>}]
InE1 == <<[key |-> "env", value |-> "e1"]>>
ConsumerRulebooks ==
  {<<>>, <<[arrow |-> TRUE, left |-> InE1, right |-> InE1],
           [arrow |-> FALSE, left |-> InE1, right |-> <<>>]>>} \cup {<<r>> : r \in OneRule}
ConsumerScripts == {<<>>} \cup {<<a>> : a \in {NoValue, <<>>, <<2, 1>>, <<N + 1, 1>>}}

Part == {"cluster", "routing", "balance", "choices", "caches", "filters", "pool"}

\* A part that is not exercised starts, of the initial states it has, in one.
ConsumerInit ==
  /\ part \in Part
  /\ P2CInit
  /\ IF part = "cluster" THEN TRUE ELSE strategy = [c \in Call |-> "failover"]
  /\ ClusterInit
  /\ IF part = "routing" THEN TRUE
     ELSE /\ candidates = [i \in 1 .. 3 |-> [env |-> NoValue, tag |-> NoValue]]
          /\ chain = [conditions |-> <<>>, tag |-> FALSE, script |-> <<>>]
  /\ RoutingInit
  /\ IF part = "balance" THEN TRUE ELSE weights = <<1, 1, 1>>
  /\ BalanceInit
  /\ IF part = "caches" THEN TRUE ELSE store = "lru"
  /\ CacheInit
  /\ IF part = "filters" THEN TRUE
     ELSE /\ config = [client |-> FALSE, cluster |-> FALSE, filters |-> <<>>]
          /\ exported = <<>> /\ method = "call" /\ origin = NoAttachment
  /\ FilterInit(Configs, Chains)
  /\ SimplePoolInit

ConsumerNext ==
  \/ /\ part = "choices" /\ P2CNext
     /\ UNCHANGED <<part, clusterVars, routingVars, balanceVars, cacheVars, filterVars, simplePoolVars>>
  \/ /\ part = "cluster" /\ ClusterNext
     /\ UNCHANGED <<part, p2cVars, routingVars, balanceVars, cacheVars, filterVars, simplePoolVars>>
  \/ /\ part = "routing" /\ RoutingNext
     /\ UNCHANGED <<part, p2cVars, clusterVars, balanceVars, cacheVars, filterVars, simplePoolVars>>
  \/ /\ part = "balance" /\ BalanceNext
     /\ UNCHANGED <<part, p2cVars, clusterVars, routingVars, cacheVars, filterVars, simplePoolVars>>
  \/ /\ part = "caches" /\ CacheNext
     /\ UNCHANGED <<part, p2cVars, clusterVars, routingVars, balanceVars, filterVars, simplePoolVars>>
  \/ /\ part = "filters" /\ FilterNext
     /\ UNCHANGED <<part, p2cVars, clusterVars, routingVars, balanceVars, cacheVars, simplePoolVars>>
  \/ /\ part = "pool" /\ SimplePoolNext
     /\ UNCHANGED <<part, p2cVars, clusterVars, routingVars, balanceVars, cacheVars, filterVars>>

\* A task or an invoker that can go on does so; that is all a call's return needs.
ConsumerSpec == ConsumerInit /\ [][ConsumerNext]_consumerVars /\ Fairness
=============================================================================
