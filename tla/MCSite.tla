------------------------------- MODULE MCSite -------------------------------
(***************************************************************************)
(* Data that goes and comes back, an unlinked branch before linked ones,   *)
(* more unknown branches than each limit allows, and two links whose ids   *)
(* are the same; and a branch that the data has twice.  An integration     *)
(* branch that stands for two others, these in either order, and zero to   *)
(* two conflicts of them, with a file in common.                           *)
(***************************************************************************)
EXTENDS Site

A == <<"a">>  B == <<"b">>  C == <<"c">>  D == <<"d">>  AB == <<"a", "b">>  BC == <<"b", "c">>
Branch(name, down, up) == [name |-> name, down |-> down, up |-> up]

MCData == {
    <<Branch(A, <<>>, <<BC>>), Branch(BC, <<A>>, <<>>), Branch(A, <<>>, <<BC>>)>>,
    <<Branch(AB, <<>>, <<C>>), Branch(C, <<AB>>, <<>>)>>,
    <<Branch(C, <<>>, <<>>), Branch(A, <<>>, <<B, BC>>)>>,
    <<Branch(A, <<C>>, <<B>>), Branch(BC, <<AB>>, <<>>)>>,
    <<Branch(A, <<>>, <<B>>), Branch(C, <<AB>>, <<A>>), Branch(BC, <<D>>, <<>>)>>,
    <<Branch(A, <<C>>, <<D>>), Branch(B, <<BC>>, <<AB>>), Branch(C, <<>>, <<A>>), Branch(BC, <<>>, <<B>>)>> }

MCSelections == {<<"i">>, <<"a", "b">>, <<"b", "a">>}
MCStandsFor == [s \in MCSelections |-> <<"a", "b">>]
MCConflictLists == {<<>>, <<<<"f">>>>, <<<<"f", "g">>, <<"g">>>>}
MCLinks ==
    {Graph} \cup {Root(s) : s \in MCSelections}
    \cup {Inspect(<<"a", "b">>, 2, f) : f \in {"f", "g"}}
=============================================================================
