--------------------------- MODULE AwaitedDialogs ---------------------------
(***************************************************************************)
(* What the header relies on when it awaits a dialog (header.container.tsx)*)
(* and navigates to the answer: each dialog is answered or refused at most *)
(* once, an answer is followed once, by a navigation to just that answer,  *)
(* and a refusal never.                                                    *)
(***************************************************************************)
CONSTANT Dialogs

VARIABLES
    state,     \* state[d], how far the await of dialog d has come
    answer,    \* answer[d], what it was answered
    location   \* where the page is

vars == <<state, answer, location>>

Moves(d, from, to) == state[d] = from /\ state' = [state EXCEPT ![d] = to]

Ask(d) == Moves(d, "closed", "open") /\ UNCHANGED <<answer, location>>
Refuse(d) == Moves(d, "open", "refused") /\ UNCHANGED <<answer, location>>

Answer(d) ==
    /\ Moves(d, "open", "answered")
    /\ \A e \in Dialogs \ {d} : answer'[e] = answer[e]
    /\ UNCHANGED location

Follow(d) ==
    /\ Moves(d, "answered", "followed")
    /\ location' = answer[d]
    /\ UNCHANGED answer

Wander == UNCHANGED <<state, answer>>

Init == state = [d \in Dialogs |-> "closed"]
Next == Wander \/ \E d \in Dialogs : Ask(d) \/ Refuse(d) \/ Answer(d) \/ Follow(d)

Safety == Init /\ [][Next]_vars
Spec == Safety /\ \A d \in Dialogs : WF_vars(Follow(d))
=============================================================================
