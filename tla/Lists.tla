------------------------------- MODULE Lists --------------------------------
(***************************************************************************)
(* Parts of lists, as filter() and retain() of the standard library leave  *)
(* them, and the elements of a list.  Keep is a recursive function, so     *)
(* that what it returns can be proved.                                     *)
(***************************************************************************)
EXTENDS Naturals, Sequences, SequencesExt

\* The elements of a list that are in a set, in their order.
Keep(seq, set) ==
  LET kept[i \in 0 .. Len(seq)] ==
        IF i = 0 THEN <<>>
        ELSE IF seq[i] \in set THEN Append(kept[i - 1], seq[i]) ELSE kept[i - 1]
  IN kept[Len(seq)]
=============================================================================
