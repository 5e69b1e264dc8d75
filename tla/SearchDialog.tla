---------------------------- MODULE SearchDialog ----------------------------
(***************************************************************************)
(* The search of the header (ui/src/components/layout): each click opens   *)
(* a dialog with the location of that moment; a link in it resolves the    *)
(* modal with a destination, and the header, which awaits it, navigates.   *)
(***************************************************************************)
EXTENDS ModalService

CONSTANT Branches
Dialogs == Modals \ Abortable   \* the header passes no signal

VARIABLES
    location,   \* [page, names], the URL with its "name" parameters
    opened,     \* opened[m], the location handed to the dialog
    choice,     \* choice[m], what its promise was resolved with
    followed,   \* dialogs whose choice was navigated to
    moved       \* history: dialogs whose page navigated while they were open

dialogVars == <<location, opened, choice, followed, moved>>
vars == <<modalVars, dialogVars>>

Overview == [page |-> "overview", names |-> <<>>]
BranchPage(names) == [page |-> "branch", names |-> names]
NoChoice == [to |-> Overview, toggled |-> "none"]

SearchInit ==
    /\ Init
    /\ location = Overview
    /\ opened = [m \in Modals |-> Overview]
    /\ choice = [m \in Modals |-> NoChoice]
    /\ followed = {} /\ moved = {}

(* handleSearch, up to the await.                                          *)
Search(m) ==
    /\ m \in Dialogs
    /\ Launch(m)
    /\ opened' = [opened EXCEPT ![m] = location]
    /\ UNCHANGED <<location, choice, followed, moved>>

ToggleAlone(names, b) == IF b \in ToSet(names) THEN <<>> ELSE <<b>>

(* extraLinkFor: the URL of the dialog's location with the branch added or *)
(* removed; there is none without a name.                                  *)
Toggle(names, b) ==
    IF b \in ToSet(names) THEN Only(names, Branches \ {b}) ELSE Append(names, b)

Destinations(m) ==
    {[to |-> BranchPage(<<b>>), toggled |-> "none"] : b \in Branches}
    \cup (IF opened[m].names = <<>> THEN {}
          ELSE {[to |-> [opened[m] EXCEPT !.names = Toggle(@, b)], toggled |-> b] : b \in Branches})

(* onClose and onDismiss.                                                  *)
Choose(m) ==
    /\ m \in Dialogs
    /\ Answer(m, "resolved")
    /\ \E d \in Destinations(m) :
         choice' = IF promise[m] = "pending" THEN [choice EXCEPT ![m] = d] ELSE choice
    /\ UNCHANGED <<location, opened, followed, moved>>

Dismiss(m) == Answer(m, "dismissed") /\ UNCHANGED dialogVars

(* A navigation concerns every dialog that is open.                        *)
GoTo(l, followedBy) ==
    /\ location' = l
    /\ moved' = moved \cup {m \in Modals : promise[m] # "new" /\ m \notin followed \cup followedBy /\ l # location}

(* handleSearch, after the await.                                          *)
Navigate(m) ==
    /\ m \in Dialogs \ followed
    /\ promise[m] = "resolved" /\ ~shouldShow[m]
    /\ followed' = followed \cup {m}
    /\ GoTo(choice[m].to, {m})
    /\ UNCHANGED <<modalVars, opened, choice>>

(* The browser's Back button, and links of the page.                       *)
Leave(l) ==
    /\ l # location
    /\ GoTo(l, {})
    /\ UNCHANGED <<modalVars, opened, choice, followed>>

Links == {Overview} \cup {BranchPage(<<b>>) : b \in Branches}

SearchNext ==
    \/ (RenderModals \/ BindEscape \/ PressEscape) /\ UNCHANGED dialogVars
    \/ \E m \in Modals :
         \/ (Display(m) \/ Abort(m) \/ ClickBackdrop(m)) /\ UNCHANGED dialogVars
         \/ m \in Abortable /\ Launch(m) /\ UNCHANGED dialogVars
         \/ Search(m) \/ Choose(m) \/ Dismiss(m) \/ Navigate(m)
    \/ \E l \in Links : Leave(l)

SearchSpec ==
    /\ SearchInit /\ [][SearchNext]_vars
    /\ WF_vars(RenderModals /\ UNCHANGED dialogVars)
    /\ WF_vars(BindEscape /\ UNCHANGED dialogVars)
    /\ \A m \in Modals : WF_vars(Display(m) /\ UNCHANGED dialogVars) /\ WF_vars(Navigate(m))
-----------------------------------------------------------------------------
(* A dialog can be clicked while it animates away: however often it is     *)
(* answered, dismissed or covered, the await of handleSearch ends once,    *)
(* with the first of them, and the page goes there and nowhere else.       *)
Await(m) ==
    CASE promise[m] = "new" -> "closed"
      [] promise[m] = "pending" -> "open"
      [] promise[m] = "resolved" -> IF m \in followed THEN "followed" ELSE "answered"
      [] OTHER -> "refused"

Awaited == INSTANCE AwaitedDialogs
             WITH state <- [m \in Dialogs |-> Await(m)],
                  answer <- [m \in Dialogs |-> choice[m].to]

AnswersAreFollowedOnce == Awaited!Spec

(* Adding a branch to the selection, or removing one, keeps the others     *)
(* that are selected, unless the page moved on while the dialog was open:  *)
(* the dialog keeps the location it was opened with.                       *)
SelectionIsKept ==
    [][\A m \in Dialogs :
         (m \in followed' \ followed /\ choice[m].toggled # "none" /\ m \notin moved) =>
            ToSet(location'.names) \ {choice[m].toggled} = ToSet(location.names) \ {choice[m].toggled}]_vars
=============================================================================
