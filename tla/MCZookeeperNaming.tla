-------------------------- MODULE MCZookeeperNaming -------------------------
(***************************************************************************)
(* Casts of ZookeeperNaming that are small enough to check: one subscriber *)
(* of all providers, or all subscribers of one, where several tasks notify *)
(* the same directories.                                                   *)
(***************************************************************************)
EXTENDS ZookeeperNaming

WithOneSub == Provider \cup {CHOOSE s \in Sub : TRUE}
WithOneProvider == Sub \cup {CHOOSE p \in Provider : TRUE}

OneSub == {[actors |-> WithOneSub, changes |-> 4, errors |-> 1]}

OneOrTwoSubs ==
  OneSub \cup {[actors |-> WithOneProvider, changes |-> 3, errors |-> 0],
               [actors |-> WithOneProvider, changes |-> 1, errors |-> 1]}

=============================================================================
