------------------------------ MODULE MCServer ------------------------------
(***************************************************************************)
(* Every structure of three branches, cycles included, the other branches  *)
(* alone; the starts of a server whose branches are upstream of one        *)
(* another; and the requests for conflicts of MCDetectConflicts.           *)
(***************************************************************************)
EXTENDS Server, MCDetectConflicts

Three == 1 .. 3
MCStructures == {[b \in MCBranches |-> IF b \in Three THEN c[b] ELSE {}] : c \in [Three -> SUBSET Three]}
MCSimple == {[b \in MCBranches |-> IF b \in Three THEN Three ELSE {}]}
=============================================================================
