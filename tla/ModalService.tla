---------------------------- MODULE ModalService ----------------------------
(***************************************************************************)
(* The modals of the user interface (ui/src/utils/modal): a stack kept in  *)
(* an atom, a promise for whoever launched each, and the component that    *)
(* shows it and animates it away.  A modal is settled by its contents, by  *)
(* a click on its backdrop, by Escape or by an abort signal, at any stage  *)
(* of its display.                                                         *)
(***************************************************************************)
EXTENDS Naturals, FiniteSets, Subsequences

CONSTANTS
    Modals,      \* the calls of launchModal
    Abortable,   \* those that pass an abort signal
    NoModal

ASSUME ModalsAssumption == Abortable \subseteq Modals /\ NoModal \notin Modals

VARIABLES
    stack,       \* activeModalStack
    promise,     \* promise[m], what the launcher awaits
    shouldShow,  \* shouldShow[m], the desired state of an entry
    drawn,       \* the stack at the last render of Modals
    view,        \* view[m], the stage of the modal's Transition
    timers,      \* timers[m], values about to be set by setTimeout(..., 0)
    stale,       \* entries whose shouldShow changed since they were rendered
    escape,      \* the modal whose listener is on document keydown
    aborted      \* signals that have fired

modalVars == <<stack, promise, shouldShow, drawn, view, timers, stale, escape, aborted>>

Settled == {"resolved", "dismissed", "backdrop", "escape", "aborted"}
Promises == Settled \cup {"new", "refused", "pending"}
Views == {"none", "hidden", "shown", "leaving", "left"}

Top(s) == IF s = <<>> THEN NoModal ELSE s[Len(s)]
Visible(m) == view[m] \in {"shown", "leaving"}

Init ==
    /\ stack = <<>> /\ drawn = <<>>
    /\ promise = [m \in Modals |-> "new"]
    /\ shouldShow = [m \in Modals |-> TRUE]
    /\ view = [m \in Modals |-> "none"]
    /\ timers = [m \in Modals |-> <<>>]
    /\ stale = {} /\ escape = NoModal /\ aborted = {}

-----------------------------------------------------------------------------
(* launchModal and the promise it returns.                                 *)

Launch(m) ==
    /\ promise[m] = "new"
    /\ \/ /\ m \in aborted
          /\ promise' = [promise EXCEPT ![m] = "refused"]
          /\ UNCHANGED stack
       \/ /\ m \notin aborted
          /\ promise' = [promise EXCEPT ![m] = "pending"]
          /\ stack' = Append(stack, m)
    /\ UNCHANGED <<shouldShow, drawn, view, timers, stale, escape, aborted>>

SettleAgain(m, how) == promise' = [promise EXCEPT ![m] = how]

(* Only the first call of resolve or reject counts.                        *)
Settle(m, how) ==
    promise' = IF promise[m] = "pending" THEN [promise EXCEPT ![m] = how] ELSE promise

(* The finally callback runs after the promise is settled.                 *)
Finally(m) ==
    /\ promise[m] \in Settled
    /\ shouldShow[m]
    /\ shouldShow' = [shouldShow EXCEPT ![m] = FALSE]
    /\ stale' = IF view[m] = "none" THEN stale ELSE stale \cup {m}
    /\ UNCHANGED <<stack, promise, drawn, view, timers, escape, aborted>>

AbortAnyModal(m) ==
    /\ m \notin aborted
    /\ aborted' = aborted \cup {m}
    /\ Settle(m, "aborted")
    /\ UNCHANGED <<stack, shouldShow, drawn, view, timers, stale, escape>>

Abort(m) ==
    /\ m \in Abortable \ aborted
    /\ aborted' = aborted \cup {m}
    /\ Settle(m, "aborted")
    /\ UNCHANGED <<stack, shouldShow, drawn, view, timers, stale, escape>>

(* A button of the contents; they can be clicked until they are gone.      *)
Answer(m, how) ==
    /\ Visible(m)
    /\ Settle(m, how)
    /\ UNCHANGED <<stack, shouldShow, drawn, view, timers, stale, escape, aborted>>

(* The panel of the topmost modal on screen covers the page.               *)
ClickBackdrop(m) ==
    /\ Visible(m)
    /\ \A i, j \in DOMAIN drawn : drawn[i] = m /\ i < j => ~Visible(drawn[j])
    /\ Settle(m, "backdrop")
    /\ UNCHANGED <<stack, shouldShow, drawn, view, timers, stale, escape, aborted>>

PressEscape ==
    /\ escape # NoModal
    /\ Settle(escape, "escape")
    /\ UNCHANGED <<stack, shouldShow, drawn, view, timers, stale, escape, aborted>>

-----------------------------------------------------------------------------
(* Rendering.                                                              *)

TimerToShowOnly(pending, should, isShowing) ==
    IF should /\ ~isShowing /\ pending = <<>> THEN Append(pending, should) ELSE pending

(* The timer that a render of FullPageModalContainer starts.  One that     *)
(* would set the value the last one sets is left out.                      *)
WithTimer(pending, should, isShowing) ==
    IF should = isShowing \/ (pending # <<>> /\ pending[Len(pending)] = should)
    THEN pending ELSE Append(pending, should)

(* Modals renders its entries, the new and the old, and drops the others.  *)
RenderModals ==
    /\ drawn # stack
    /\ drawn' = stack
    /\ view' = [m \in Modals |->
                  IF m \notin ToSet(stack) THEN "none"
                  ELSE IF view[m] = "none" THEN "hidden" ELSE view[m]]
    /\ timers' = [m \in Modals |->
                    IF m \in ToSet(stack)
                    THEN WithTimer(timers[m], shouldShow[m], view[m] = "shown") ELSE <<>>]
    /\ stale' = {}
    /\ UNCHANGED <<stack, promise, shouldShow, escape, aborted>>

RenderModal(m) ==
    /\ m \in stale
    /\ stale' = stale \ {m}
    /\ timers' = [timers EXCEPT ![m] = WithTimer(@, shouldShow[m], view[m] = "shown")]
    /\ UNCHANGED <<stack, promise, shouldShow, drawn, view, escape, aborted>>

(* setIsShowing in the timer, and the render that follows.                 *)
FireTimer(m) ==
    /\ timers[m] # <<>>
    /\ LET showing == Head(timers[m])
       IN /\ view' = [view EXCEPT ![m] =
                        IF showing /\ @ = "hidden" THEN "shown"
                        ELSE IF ~showing /\ @ = "shown" THEN "leaving" ELSE @]
          /\ timers' = [timers EXCEPT ![m] = WithTimer(Tail(@), shouldShow[m], view'[m] = "shown")]
    /\ stale' = stale \ {m}
    /\ UNCHANGED <<stack, promise, shouldShow, drawn, escape, aborted>>

WithoutTop(m) == SubSeq(stack, 1, Len(stack) - 1)

(* removeActiveModalFromStack                                              *)
WithoutEntry(m) == Only(stack, Modals \ {m})

(* The animation has ended: afterLeave calls onReadyToUnmount.             *)
ReadyToUnmount(m) ==
    /\ view[m] = "leaving"
    /\ view' = [view EXCEPT ![m] = "left"]
    /\ stack' = WithoutEntry(m)
    /\ UNCHANGED <<promise, shouldShow, drawn, timers, stale, escape, aborted>>

BindEscapeOnce ==
    /\ escape = NoModal /\ Top(drawn) # NoModal
    /\ escape' = Top(drawn)
    /\ UNCHANGED <<stack, promise, shouldShow, drawn, view, timers, stale, aborted>>

(* The effect of Modals, which runs some time after its render.            *)
BindEscape ==
    /\ escape # Top(drawn)
    /\ escape' = Top(drawn)
    /\ UNCHANGED <<stack, promise, shouldShow, drawn, view, timers, stale, aborted>>

-----------------------------------------------------------------------------
Display(m) == Finally(m) \/ RenderModal(m) \/ FireTimer(m) \/ ReadyToUnmount(m)
User(m) ==
    \/ Launch(m) \/ Abort(m) \/ ClickBackdrop(m)
    \/ \E how \in {"resolved", "dismissed"} : Answer(m, how)

Next ==
    \/ RenderModals \/ BindEscape \/ PressEscape
    \/ \E m \in Modals : Display(m) \/ User(m)

Spec == Init /\ [][Next]_modalVars
-----------------------------------------------------------------------------
TypeOK ==
    /\ stack \in Seq(Modals) /\ drawn \in Seq(Modals)
    /\ promise \in [Modals -> Promises]
    /\ shouldShow \in [Modals -> BOOLEAN]
    /\ view \in [Modals -> Views]
    /\ timers \in [Modals -> Seq(BOOLEAN)]
    /\ stale \subseteq Modals /\ aborted \subseteq Abortable
    /\ escape \in Modals \cup {NoModal}

(* Whoever awaits a modal has it on the stack, where it can be settled: an *)
(* entry that is removed takes no other with it, in whatever order the     *)
(* animations end.                                                         *)
PendingIsOnStack ==
    \A m \in Modals : promise[m] = "pending" => Cardinality({i \in DOMAIN stack : stack[i] = m}) = 1

(* An entry that will never leave: it was settled before its first render, *)
(* so nothing is shown and nothing animates away.                          *)
Stuck(m) == view[m] = "hidden" /\ ~shouldShow[m] /\ timers[m] = <<>> /\ m \notin stale

(* "This function is called after the modal finishes animating away (if    *)
(* mounted) or immediately (if not mounted)" (modal-service.tsx:172-173):  *)
(* whoever settles a modal, and whenever, it leaves the stack.  Refuted: a *)
(* signal that fires before the first render leaves an entry that is never *)
(* shown, so never animates away.                                          *)
SettledEntriesAreRemoved == \A m \in Modals : promise[m] \in Settled ~> m \notin ToSet(stack)

(* What does hold: a settled modal is animated away and removed, whatever  *)
(* was clicked, launched or removed meanwhile, unless it was aborted and   *)
(* is stuck, which SettledEntriesAreRemoved is about.                      *)
SettledModalsLeave ==
    \A m \in Modals : promise[m] \in Settled ~> (m \notin ToSet(stack) \/ (promise[m] = "aborted" /\ Stuck(m)))

Above(m) == {stack[j] : j \in {k \in DOMAIN stack : \E i \in 1..(k - 1) : stack[i] = m}}

(* A pending modal gets Escape once those above it are gone: the key does  *)
(* not stay with a modal that animates away.                               *)
EscapeComesDown ==
    \A m \in Modals :
      promise[m] = "pending" ~>
        \/ promise[m] # "pending" \/ escape = m
        \/ \E n \in Above(m) : promise[n] = "pending" \/ Stuck(n)
=============================================================================
