------------------------------ MODULE Routing -------------------------------
(***************************************************************************)
(* The routers of dubbo-cluster, and the chain of them.  A router takes    *)
(* the invokers and what a call carries and returns positions of invokers. *)
(* An invoker is the record of what its URL says; a key or value is a      *)
(* model value, and NoValue the absence of one.                            *)
(***************************************************************************)
EXTENDS Integers, Sequences, Lists

CONSTANTS
  Env,       \* values of the "env" parameter and attachment
  Tag,       \* tags
  NoValue,   \* no value
  N,         \* how many invokers there are
  Rulebooks, \* the texts of the condition rules that a chain may have, in their order
  Scripts    \* the scripts that a chain may have: none, or one that is its answer

Position == 1 .. N
Properties == [env : Env \cup {NoValue}, tag : Tag \cup {NoValue}]

\* One "key=value" of a rule; one without a key or without "=" is dropped.
Malformed == [key |-> "", value |-> NoValue]
Pair == [key : {"env"}, value : Env] \cup {Malformed}
Rule == [arrow : BOOLEAN, left : Seq(Pair), right : Seq(Pair)]

ASSUME RoutingAssumption ==
  /\ N \in Nat
  /\ Rulebooks \subseteq Seq(Rule)
  /\ \A script \in Scripts : script \in Seq(Seq(Int) \cup {NoValue}) /\ Len(script) <= 1

VARIABLES
  candidates, \* the list of invokers, fixed at the start
  chain,      \* the RouterChain, fixed at the start
  context,    \* the attachments of the last call routed
  routed      \* the positions it was routed to

routingVars == <<candidates, chain, context, routed>>

Everyone == [i \in Position |-> i]

-----------------------------------------------------------------------------
(* ConditionRouter.                                                        *)

\* parse_kv_pairs().
Pairs(text) == Keep(text, {p \in Pair : p.key # ""})

\* parse(): without "=>" the whole text is the filter side.
Parse(rule) ==
  [match |-> IF rule.arrow THEN Pairs(rule.left) ELSE <<>>,
   filter |-> Pairs(IF rule.arrow THEN rule.right ELSE rule.left)]

Satisfies(record, pairs) ==
  \A k \in DOMAIN pairs : record[pairs[k].key] = pairs[k].value

MatchesInvocation(router, c) == Satisfies(c, router.match)

FilterInvokers(router) ==
  Keep(Everyone, {i \in Position : Satisfies(candidates[i], router.filter)})

-----------------------------------------------------------------------------
(* TagRouter: the invokers of the tag asked for, or else those without.    *)

Tagged(tag) == Keep(Everyone, {i \in Position : candidates[i].tag = tag})

BugNoFallback(c) == IF c.tag = NoValue THEN Everyone ELSE Tagged(c.tag)
RouteByTag(c) ==
  IF c.tag = NoValue THEN Everyone
  ELSE IF Tagged(c.tag) # <<>> THEN Tagged(c.tag)
  ELSE Tagged(NoValue)

-----------------------------------------------------------------------------
(* ScriptRouter: the array of positions that the script returns, those out *)
(* of range left out; everyone when it fails or returns something else.    *)

RouteByScript(answer) == IF answer = NoValue THEN Everyone ELSE Keep(answer, Position)

-----------------------------------------------------------------------------
(* RouterChain.                                                            *)

Retain(list, filtered) == Keep(list, ToSet(filtered))

\* The condition routers in turn, those that match the call; none is asked once
\* nobody is left.
ByConditions(c) ==
  LET left[k \in 0 .. Len(chain.conditions)] ==
        IF k = 0 THEN Everyone
        ELSE IF left[k - 1] # <<>> /\ MatchesInvocation(chain.conditions[k], c)
        THEN Retain(left[k - 1], FilterInvokers(chain.conditions[k]))
        ELSE left[k - 1]
  IN left[Len(chain.conditions)]

AfterTag(c, list) == IF chain.tag THEN Retain(list, RouteByTag(c)) ELSE list
AfterScript(list) ==
  IF chain.script = <<>> THEN list ELSE Retain(list, RouteByScript(chain.script[1]))

RouteChain(c) ==
  IF ByConditions(c) = <<>> THEN <<>> ELSE AfterScript(AfterTag(c, ByConditions(c)))

RoutingInit ==
  /\ candidates \in [Position -> Properties]
  /\ chain \in [conditions : {[k \in DOMAIN rules |-> Parse(rules[k])] : rules \in Rulebooks},
                tag : BOOLEAN, script : Scripts]
  /\ context = [env |-> NoValue, tag |-> NoValue]
  /\ routed = RouteChain(context)

Route(c) ==
  /\ context' = c
  /\ routed' = RouteChain(c)
  /\ UNCHANGED <<candidates, chain>>

RoutingNext == \E c \in Properties : Route(c)

RoutingSpec == RoutingInit /\ [][RoutingNext]_routingVars

-----------------------------------------------------------------------------
(* Properties.                                                             *)

\* A tag is for those that have it, or, if nobody has it, for those without one.
TagAllows(c, i) ==
  chain.tag /\ c.tag # NoValue =>
    \/ candidates[i].tag = c.tag
    \/ candidates[i].tag = NoValue /\ \A j \in Position : candidates[j].tag # c.tag

ConditionsAllow(c, i) ==
  \A k \in DOMAIN chain.conditions :
    MatchesInvocation(chain.conditions[k], c)
      => Satisfies(candidates[i], chain.conditions[k].filter)

ScriptAllows(i) ==
  chain.script # <<>> /\ chain.script[1] # NoValue => i \in ToSet(chain.script[1])

Allowed(c, i) == ConditionsAllow(c, i) /\ TagAllows(c, i) /\ ScriptAllows(i)

\* The chain returns positions of the list in its order, each once, whatever a
\* script returns, and each of them is allowed by every router.
RoutesWithinRules ==
  /\ \A i \in DOMAIN routed : routed[i] \in Position /\ Allowed(context, routed[i])
  /\ \A i, j \in DOMAIN routed : i < j => routed[i] < routed[j]

\* Nobody is left out without a reason: an invoker that every router allows is in the
\* result, whatever the routers did to the list before one another.
NobodyIsLeftOut == \A i \in Position : Allowed(context, i) => i \in ToSet(routed)

\* RouterChain::route() returns exactly whom every router allows, in order, each once.
RoutesAreExact == RoutesWithinRules /\ NobodyIsLeftOut
=============================================================================
