---------------------------- MODULE Subsequences ----------------------------
(***************************************************************************)
(* Array.prototype.filter, which the user interface applies to its stacks, *)
(* names and links.  The standard SelectSeq does the same with a test in   *)
(* place of a set, and so is beyond first-order proof.                     *)
(***************************************************************************)
EXTENDS Naturals, SequencesExt

(* The elements of s that are in S, in their order.                        *)
Only(s, S) ==
    LET upTo[i \in 0..Len(s)] ==
          IF i = 0 THEN <<>>
          ELSE IF s[i] \in S THEN Append(upTo[i - 1], s[i]) ELSE upTo[i - 1]
    IN upTo[Len(s)]
=============================================================================
