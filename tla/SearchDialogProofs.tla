------------------------- MODULE SearchDialogProofs -------------------------
(***************************************************************************)
(* The modal service and the search of the header for any modals and any   *)
(* branches: whoever awaits a modal has its one entry on the stack, and    *)
(* the header follows each answer once, whatever is clicked meanwhile.     *)
(***************************************************************************)
EXTENDS SearchDialog, SubsequenceProofs

-----------------------------------------------------------------------------
\* A pending modal has an entry, of which there are no two.
StackInv ==
    /\ IsInjective(stack)
    /\ \A m \in ToSet(stack) : promise[m] \notin {"new", "refused"}
    /\ \A m \in Modals : promise[m] = "pending" => m \in ToSet(stack)

\* Only a settled modal is told to leave, and only such a one leaves.
LeaveInv ==
    \A m \in Modals :
        /\ ~shouldShow[m] => promise[m] \in Settled
        /\ FALSE \in ToSet(timers[m]) => ~shouldShow[m]
        /\ view[m] = "leaving" => ~shouldShow[m]

ModalInv == TypeOK /\ StackInv /\ LeaveInv

-----------------------------------------------------------------------------
\* What a timer adds to those that are pending, and what is left of them.
LEMMA WithTimerType ==
    ASSUME NEW pending \in Seq(BOOLEAN), NEW should \in BOOLEAN, NEW isShowing \in BOOLEAN
    PROVE  /\ WithTimer(pending, should, isShowing) \in Seq(BOOLEAN)
           /\ ToSet(WithTimer(pending, should, isShowing)) \subseteq ToSet(pending) \cup {should}
<1>1. /\ Append(pending, should) \in Seq(BOOLEAN)
      /\ ToSet(Append(pending, should)) = ToSet(pending) \cup {should}
  BY AppendElements
<1> QED
  BY <1>1, Zenon DEF WithTimer

LEMMA TailElements ==
    ASSUME NEW T, NEW s \in Seq(T), s # <<>>
    PROVE  Tail(s) \in Seq(T) /\ Head(s) \in ToSet(s) /\ ToSet(Tail(s)) \subseteq ToSet(s)
<1>1. /\ Tail(s) \in Seq(T) /\ Len(s) \in Nat \ {0} /\ Len(Tail(s)) = Len(s) - 1 /\ Head(s) = s[1]
      /\ \A i \in 1..Len(Tail(s)) : Tail(s)[i] = s[i + 1]
  OBVIOUS
<1> QED
  BY <1>1 DEF ToSet

-----------------------------------------------------------------------------
LEMMA ModalInitInv == Init => ModalInv
<1> SUFFICES ASSUME Init PROVE ModalInv
  OBVIOUS
<1>1. <<>> \in Seq(Modals) /\ <<>> \in Seq(BOOLEAN) /\ ToSet(<<>>) = {} /\ IsInjective(<<>>)
  BY DEF ToSet, IsInjective
<1>2. TypeOK
  BY <1>1 DEF Init, TypeOK, Promises, Views
<1>3. StackInv /\ LeaveInv
  BY <1>1 DEF Init, StackInv, LeaveInv
<1> QED
  BY <1>2, <1>3 DEF ModalInv

\* Settling a modal changes its promise from pending, or nothing.
LEMMA SettleStep ==
    ASSUME ModalInv, NEW m \in Modals, NEW how \in Settled, Settle(m, how),
           UNCHANGED <<stack, shouldShow, drawn, view, timers, stale, escape>>,
           aborted' \subseteq Abortable
    PROVE  ModalInv'
<1>1. promise' \in [Modals -> Promises] /\ \A n \in Modals :
          promise'[n] = promise[n] \/ (promise[n] = "pending" /\ promise'[n] = how)
  BY DEF ModalInv, TypeOK, Settle, Promises, Settled
<1>2. TypeOK'
  BY <1>1 DEF ModalInv, TypeOK
<1>3. StackInv'
  <2>1. ToSet(stack') = ToSet(stack) /\ ToSet(stack) \subseteq Modals /\ IsInjective(stack')
    BY DEF ModalInv, StackInv, TypeOK, ToSet
  <2> QED
    BY <1>1, <2>1 DEF ModalInv, StackInv, Settled
<1>4. LeaveInv'
  BY <1>1 DEF ModalInv, LeaveInv, Settled
<1> QED
  BY <1>2, <1>3, <1>4 DEF ModalInv

LEMMA LaunchStep ==
    ASSUME ModalInv, NEW m \in Modals, Launch(m)
    PROVE  ModalInv'
<1>1. m \notin ToSet(stack) /\ promise[m] = "new"
  BY DEF Launch, ModalInv, StackInv
<1>2. /\ Append(stack, m) \in Seq(Modals) /\ IsInjective(Append(stack, m))
      /\ ToSet(Append(stack, m)) = ToSet(stack) \cup {m}
  BY <1>1, AppendElements DEF ModalInv, TypeOK, StackInv
<1>3. CASE m \in aborted
  <2>1. promise' = [promise EXCEPT ![m] = "refused"] /\ stack' = stack
    BY <1>3 DEF Launch
  <2>2. \A n \in ToSet(stack) : n # m /\ n \in Modals
    BY <1>1 DEF ModalInv, TypeOK, ToSet
  <2>3. TypeOK' /\ LeaveInv'
    BY <1>1, <2>1 DEF Launch, ModalInv, TypeOK, LeaveInv, Settled, Promises
  <2>4. StackInv'
    BY <1>1, <2>1, <2>2 DEF ModalInv, TypeOK, StackInv
  <2> QED
    BY <2>3, <2>4 DEF ModalInv
<1>4. CASE m \notin aborted
  <2>1. promise' = [promise EXCEPT ![m] = "pending"] /\ stack' = Append(stack, m)
    BY <1>4 DEF Launch
  <2>2. \A n \in ToSet(stack) : n # m /\ n \in Modals
    BY <1>1 DEF ModalInv, TypeOK, ToSet
  <2>3. TypeOK' /\ LeaveInv'
    BY <1>1, <1>2, <2>1 DEF Launch, ModalInv, TypeOK, LeaveInv, Settled, Promises
  <2>4. StackInv'
    BY <1>1, <1>2, <2>1, <2>2 DEF ModalInv, TypeOK, StackInv
  <2> QED
    BY <2>3, <2>4 DEF ModalInv
<1> QED
  BY <1>3, <1>4

LEMMA RenderModalsStep ==
    ASSUME ModalInv, RenderModals
    PROVE  ModalInv'
<1>1. ASSUME NEW m \in Modals
      PROVE  /\ timers'[m] \in Seq(BOOLEAN)
             /\ FALSE \in ToSet(timers'[m]) => ~shouldShow[m]
             /\ view'[m] \in Views /\ (view'[m] = "leaving" => view[m] = "leaving")
  <2>1. view'[m] \in Views /\ (view'[m] = "leaving" => view[m] = "leaving")
    BY DEF RenderModals, ModalInv, TypeOK, Views
  <2>2. CASE m \notin ToSet(stack)
    <3>1. timers'[m] = <<>>
      BY <2>2 DEF RenderModals
    <3> QED
      BY <2>1, <3>1 DEF ToSet
  <2>3. CASE m \in ToSet(stack)
    <3>1. timers'[m] = WithTimer(timers[m], shouldShow[m], view[m] = "shown")
      BY <2>3 DEF RenderModals
    <3>2. timers[m] \in Seq(BOOLEAN) /\ shouldShow[m] \in BOOLEAN
      BY DEF ModalInv, TypeOK
    <3> QED
      BY <2>1, <3>1, <3>2, WithTimerType DEF ModalInv, LeaveInv
  <2> QED
    BY <2>2, <2>3
<1>2. TypeOK'
  BY <1>1 DEF RenderModals, ModalInv, TypeOK
<1>3. StackInv' /\ LeaveInv'
  BY <1>1 DEF RenderModals, ModalInv, StackInv, LeaveInv
<1> QED
  BY <1>2, <1>3 DEF ModalInv

LEMMA RenderModalStep ==
    ASSUME ModalInv, NEW m \in Modals, RenderModal(m)
    PROVE  ModalInv'
<1>1. timers[m] \in Seq(BOOLEAN) /\ shouldShow[m] \in BOOLEAN
  BY DEF ModalInv, TypeOK
<1>2. /\ timers'[m] \in Seq(BOOLEAN)
      /\ FALSE \in ToSet(timers'[m]) => ~shouldShow[m]
      /\ timers' = [timers EXCEPT ![m] = timers'[m]]
  BY <1>1, WithTimerType DEF RenderModal, ModalInv, TypeOK, LeaveInv
<1>3. TypeOK' /\ StackInv'
  BY <1>2 DEF RenderModal, ModalInv, TypeOK, StackInv
<1>4. LeaveInv'
  BY <1>2 DEF RenderModal, ModalInv, TypeOK, LeaveInv
<1> QED
  BY <1>3, <1>4 DEF ModalInv

LEMMA FireTimerStep ==
    ASSUME ModalInv, NEW m \in Modals, FireTimer(m)
    PROVE  ModalInv'
<1> DEFINE showing == Head(timers[m])
<1>1. /\ timers[m] \in Seq(BOOLEAN) /\ shouldShow[m] \in BOOLEAN
      /\ Tail(timers[m]) \in Seq(BOOLEAN) /\ showing \in ToSet(timers[m])
      /\ ToSet(Tail(timers[m])) \subseteq ToSet(timers[m])
  BY TailElements DEF ModalInv, TypeOK, FireTimer
<1>2. showing \in BOOLEAN /\ (~showing => ~shouldShow[m])
  <2>1. showing \in BOOLEAN
    BY <1>1 DEF ToSet
  <2> HIDE DEF showing
  <2> QED
    BY <1>1, <2>1 DEF ModalInv, LeaveInv
<1>3. /\ timers' = [timers EXCEPT ![m] = timers'[m]]
      /\ timers'[m] = WithTimer(Tail(timers[m]), shouldShow[m], view'[m] = "shown")
  BY DEF FireTimer, ModalInv, TypeOK
<1>4. timers'[m] \in Seq(BOOLEAN) /\ (FALSE \in ToSet(timers'[m]) => ~shouldShow[m])
  <2> DEFINE isShowing == view'[m] = "shown"
  <2>1. isShowing \in BOOLEAN /\ timers'[m] = WithTimer(Tail(timers[m]), shouldShow[m], isShowing)
    BY <1>3
  <2> HIDE DEF isShowing
  <2>2. /\ timers'[m] \in Seq(BOOLEAN)
        /\ ToSet(timers'[m]) \subseteq ToSet(Tail(timers[m])) \cup {shouldShow[m]}
    BY <1>1, <2>1, WithTimerType
  <2> QED
    BY <1>1, <2>2 DEF ModalInv, LeaveInv
<1>5. /\ view' = [view EXCEPT ![m] = view'[m]] /\ view'[m] \in Views
      /\ view'[m] = "leaving" => view[m] = "leaving" \/ ~showing
  BY <1>2 DEF FireTimer, ModalInv, TypeOK, Views
<1>6. UNCHANGED <<stack, promise, shouldShow, drawn, escape, aborted>> /\ stale' = stale \ {m}
  BY DEF FireTimer
<1>7. TypeOK' /\ StackInv'
  BY <1>3, <1>4, <1>5, <1>6 DEF ModalInv, TypeOK, StackInv
<1>8. LeaveInv'
  BY <1>2, <1>3, <1>4, <1>5, <1>6 DEF ModalInv, TypeOK, LeaveInv
<1> QED
  BY <1>7, <1>8 DEF ModalInv

\* The entry of a modal that has left was settled, and no other goes with it.
LEMMA ReadyToUnmountStep ==
    ASSUME ModalInv, NEW m \in Modals, ReadyToUnmount(m)
    PROVE  ModalInv'
<1>1. /\ stack' \in Seq(Modals) /\ ToSet(stack') = ToSet(stack) \cap (Modals \ {m})
      /\ IsInjective(stack')
  BY OnlyProperties DEF ModalInv, TypeOK, StackInv, ReadyToUnmount, WithoutEntry
<1>2. promise[m] \in Settled
  BY DEF ModalInv, LeaveInv, ReadyToUnmount
<1>3. TypeOK' /\ LeaveInv'
  BY <1>1 DEF ReadyToUnmount, ModalInv, TypeOK, LeaveInv, Views
<1>4. StackInv'
  BY <1>1, <1>2 DEF ReadyToUnmount, ModalInv, StackInv, Settled
<1> QED
  BY <1>3, <1>4 DEF ModalInv

LEMMA FinallyStep ==
    ASSUME ModalInv, NEW m \in Modals, Finally(m)
    PROVE  ModalInv'
<1>1. TypeOK' /\ StackInv'
  BY DEF Finally, ModalInv, TypeOK, StackInv
<1>2. LeaveInv'
  BY DEF Finally, ModalInv, TypeOK, LeaveInv
<1> QED
  BY <1>1, <1>2 DEF ModalInv

LEMMA ModalStep == ModalInv /\ [Next]_modalVars => ModalInv'
<1> SUFFICES ASSUME ModalInv, [Next]_modalVars PROVE ModalInv'
  OBVIOUS
<1>1. CASE RenderModals
  BY <1>1, RenderModalsStep
<1>2. CASE BindEscape
  <2>1. Top(drawn) \in Modals \cup {NoModal}
    BY DEF Top, ModalInv, TypeOK
  <2>2. TypeOK' /\ StackInv' /\ LeaveInv'
    BY <1>2, <2>1 DEF BindEscape, ModalInv, TypeOK, StackInv, LeaveInv
  <2> QED
    BY <2>2 DEF ModalInv
<1>3. CASE PressEscape
  BY <1>3, SettleStep DEF PressEscape, ModalInv, TypeOK, Settled
<1>4. ASSUME NEW m \in Modals, Display(m) PROVE ModalInv'
  BY <1>4, FinallyStep, RenderModalStep, FireTimerStep, ReadyToUnmountStep DEF Display
<1>5. ASSUME NEW m \in Modals, User(m) PROVE ModalInv'
  <2>1. CASE Launch(m)
    BY <2>1, LaunchStep
  <2>2. CASE Abort(m)
    BY <2>2, SettleStep DEF Abort, ModalInv, TypeOK, Settled
  <2>3. CASE ClickBackdrop(m)
    BY <2>3, SettleStep DEF ClickBackdrop, ModalInv, TypeOK, Settled
  <2>4. ASSUME NEW how \in {"resolved", "dismissed"}, Answer(m, how) PROVE ModalInv'
    BY <2>4, SettleStep DEF Answer, ModalInv, TypeOK, Settled
  <2> QED
    BY <1>5, <2>1, <2>2, <2>3, <2>4 DEF User
<1>6. CASE UNCHANGED modalVars
  BY <1>6 DEF modalVars, ModalInv, TypeOK, StackInv, LeaveInv
<1> QED
  BY <1>1, <1>2, <1>3, <1>4, <1>5, <1>6 DEF Next

-----------------------------------------------------------------------------
\* The modal service alone, whoever uses it.
THEOREM ModalInvariance == Spec => []ModalInv
  BY ModalInitInv, ModalStep, PTL DEF Spec

LEMMA OneEntry == ModalInv => PendingIsOnStack
<1> SUFFICES ASSUME ModalInv, NEW m \in Modals, promise[m] = "pending"
             PROVE  Cardinality({i \in DOMAIN stack : stack[i] = m}) = 1
  BY DEF PendingIsOnStack
<1>1. PICK i \in DOMAIN stack : stack[i] = m
  BY DEF ModalInv, StackInv, ToSet
<1>2. {j \in DOMAIN stack : stack[j] = m} = {i}
  BY <1>1 DEF ModalInv, StackInv, IsInjective
<1> QED
  BY <1>2, FS_Singleton

-----------------------------------------------------------------------------
Location == [page : {"overview", "branch"}, names : Seq(Branches)]
Choice == [to : Location, toggled : Branches \cup {"none"}]

DialogTypeOK ==
    /\ location \in Location /\ opened \in [Modals -> Location]
    /\ choice \in [Modals -> Choice]
    /\ followed \subseteq Dialogs

\* A dialog is resolved with a destination of its own, and followed only then;
\* until it is followed, the page is where the dialog was opened, or has moved.
ChoiceInv ==
    \A m \in Dialogs :
        /\ promise[m] = "resolved" => choice[m] \in Destinations(m)
        /\ m \in followed => promise[m] = "resolved"
        /\ promise[m] # "new" /\ m \notin followed \cup moved => location = opened[m]

DialogInv == ModalInv /\ DialogTypeOK /\ ChoiceInv

LEMMA ToggleType ==
    ASSUME NEW names \in Seq(Branches), NEW b \in Branches
    PROVE  /\ Toggle(names, b) \in Seq(Branches)
           /\ ToSet(Toggle(names, b)) \ {b} = ToSet(names) \ {b}
<1>1. ToSet(names) \subseteq Branches
  BY DEF ToSet
<1>2. CASE b \in ToSet(names)
  BY <1>1, <1>2, OnlyProperties DEF Toggle
<1>3. CASE b \notin ToSet(names)
  BY <1>3, AppendElements DEF Toggle
<1> QED
  BY <1>2, <1>3

LEMMA DestinationType ==
    ASSUME NEW m \in Modals, opened[m] \in Location, NEW d \in Destinations(m)
    PROVE  /\ d \in Choice
           /\ d.toggled # "none" =>
                 ToSet(d.to.names) \ {d.toggled} = ToSet(opened[m].names) \ {d.toggled}
<1>1. CASE \E b \in Branches : d = [to |-> BranchPage(<<b>>), toggled |-> "none"]
  BY <1>1 DEF BranchPage, Location, Choice
<1>2. CASE \E b \in Branches : d = [to |-> [opened[m] EXCEPT !.names = Toggle(@, b)], toggled |-> b]
  <2>1. PICK b \in Branches : d = [to |-> [opened[m] EXCEPT !.names = Toggle(@, b)], toggled |-> b]
    BY <1>2
  <2>2. opened[m].names \in Seq(Branches) /\ opened[m].page \in {"overview", "branch"}
    BY DEF Location
  <2>3. d.toggled = b /\ d.to = [page |-> opened[m].page, names |-> Toggle(opened[m].names, b)]
    BY <2>1 DEF Location
  <2> QED
    BY <2>1, <2>2, <2>3, ToggleType DEF Location, Choice
<1> QED
  BY <1>1, <1>2, Zenon DEF Destinations

\* What a dialog offers depends on the location it was opened with.
LEMMA SameDestinations ==
    ASSUME NEW m \in Modals, opened'[m] = opened[m]
    PROVE  Destinations(m)' = Destinations(m)
  BY DEF Destinations

LEMMA DialogInitInv == SearchInit => DialogInv
<1> SUFFICES ASSUME SearchInit PROVE DialogInv
  OBVIOUS
<1>1. Overview \in Location /\ NoChoice \in Choice
  BY DEF Overview, NoChoice, Location, Choice
<1>2. ModalInv /\ \A m \in Modals : promise[m] = "new"
  BY ModalInitInv DEF SearchInit, Init
<1> QED
  BY <1>1, <1>2 DEF SearchInit, DialogInv, DialogTypeOK, ChoiceInv, Dialogs

\* A step of the dialogs is one of the modal service, or does not concern it.
LEMMA SearchStepsModals == [SearchNext]_vars => [Next]_modalVars
<1> SUFFICES ASSUME [SearchNext]_vars PROVE [Next]_modalVars
  OBVIOUS
<1>1. CASE UNCHANGED vars
  BY <1>1 DEF vars
<1>2. CASE (RenderModals \/ BindEscape \/ PressEscape) /\ UNCHANGED dialogVars
  BY <1>2 DEF Next
<1>3. ASSUME NEW m \in Modals,
             \/ (Display(m) \/ Abort(m) \/ ClickBackdrop(m)) /\ UNCHANGED dialogVars
             \/ m \in Abortable /\ Launch(m) /\ UNCHANGED dialogVars
             \/ Search(m) \/ Choose(m) \/ Dismiss(m) \/ Navigate(m)
      PROVE  [Next]_modalVars
  <2>1. Display(m) \/ User(m) \/ UNCHANGED modalVars
    BY <1>3 DEF Search, Choose, Dismiss, Navigate, User
  <2> QED
    BY <2>1 DEF Next
<1>4. ASSUME NEW l \in Links, Leave(l) PROVE [Next]_modalVars
  BY <1>4 DEF Leave
<1> QED
  BY <1>1, <1>2, <1>3, <1>4 DEF SearchNext

\* A navigation marks the open dialogs from whose location the page moves.
LEMMA GoToMoves ==
    ASSUME ChoiceInv, NEW l, NEW followedBy, GoTo(l, followedBy), opened' = opened
    PROVE  \A m \in Dialogs :
             promise[m] # "new" /\ m \notin followed \cup followedBy \cup moved' => location' = opened'[m]
  BY DEF GoTo, ChoiceInv, Dialogs

LEMMA DialogStep == DialogInv /\ [SearchNext]_vars => DialogInv'
<1> SUFFICES ASSUME DialogInv, [SearchNext]_vars PROVE DialogInv'
  OBVIOUS
<1>i. ModalInv /\ DialogTypeOK /\ ChoiceInv /\ promise \in [Modals -> Promises]
  BY DEF DialogInv, ModalInv, TypeOK
<1>m. ModalInv'
  BY <1>i, SearchStepsModals, ModalStep
\* Steps that leave the dialogs alone resolve none of them.
<1>a. ASSUME UNCHANGED dialogVars,
             \A m \in Dialogs : /\ promise'[m] = "resolved" => promise[m] = "resolved"
                                /\ m \in followed => promise'[m] = promise[m]
                                /\ promise'[m] # "new" => promise[m] # "new"
      PROVE  DialogInv'
  <2>1. UNCHANGED <<location, opened, choice, followed, moved>>
    BY <1>a DEF dialogVars
  <2>2. DialogTypeOK'
    BY <1>i, <2>1 DEF DialogTypeOK
  <2>3. \A m \in Dialogs : Destinations(m)' = Destinations(m)
    BY <2>1, SameDestinations DEF Dialogs
  <2>4. ChoiceInv'
    BY <1>i, <1>a, <2>1, <2>3 DEF ChoiceInv
  <2> QED
    BY <1>m, <2>2, <2>4 DEF DialogInv
<1>b. ASSUME NEW m \in Modals, NEW how \in Settled \ {"resolved"}, Settle(m, how), UNCHANGED dialogVars
      PROVE  DialogInv'
  <2>1. \A n \in Modals : promise'[n] = promise[n] \/ (promise[n] = "pending" /\ promise'[n] = how)
    BY <1>b, <1>i DEF Settle
  <2> QED
    BY <1>i, <1>a, <1>b, <2>1 DEF ChoiceInv, Dialogs, Settled
<1>1. CASE (RenderModals \/ BindEscape \/ PressEscape) /\ UNCHANGED dialogVars
  <2>1. CASE RenderModals \/ BindEscape
    BY <1>1, <2>1, <1>a DEF RenderModals, BindEscape
  <2>2. CASE PressEscape
    BY <1>1, <2>2, <1>b, <1>i DEF PressEscape, ModalInv, TypeOK, Settled
  <2> QED
    BY <1>1, <2>1, <2>2
<1>2. ASSUME NEW m \in Modals, Display(m), UNCHANGED dialogVars PROVE DialogInv'
  <2>1. promise' = promise
    BY <1>2 DEF Display, Finally, RenderModal, FireTimer, ReadyToUnmount
  <2> QED
    BY <1>2, <2>1, <1>a
<1>3. ASSUME NEW m \in Modals, Abort(m) \/ ClickBackdrop(m) \/ Dismiss(m), UNCHANGED dialogVars
      PROVE  DialogInv'
  BY <1>3, <1>b DEF Abort, ClickBackdrop, Dismiss, Answer, Settled
<1>4. ASSUME NEW m \in Abortable, Launch(m), UNCHANGED dialogVars PROVE DialogInv'
  <2>1. \A n \in Dialogs : promise'[n] = promise[n]
    BY <1>4, <1>i, ModalsAssumption DEF Launch, Dialogs
  <2> QED
    BY <1>4, <2>1, <1>a
<1>5. ASSUME NEW m \in Modals, Search(m) PROVE DialogInv'
  <2>1. m \in Dialogs /\ promise[m] = "new" /\ promise' = [promise EXCEPT ![m] = "pending"]
    BY <1>5, <1>i DEF Search, Launch, Dialogs, ModalInv, TypeOK
  <2>2. opened' = [opened EXCEPT ![m] = location] /\ UNCHANGED <<location, choice, followed, moved>>
    BY <1>5 DEF Search
  <2>3. DialogTypeOK'
    BY <1>i, <2>2 DEF DialogTypeOK
  <2>4. \A n \in Dialogs \ {m} : opened'[n] = opened[n] /\ promise'[n] = promise[n]
    BY <1>i, <2>1, <2>2 DEF DialogTypeOK, Dialogs
  <2>5. \A n \in Dialogs \ {m} : Destinations(n)' = Destinations(n)
    BY <2>4, SameDestinations DEF Dialogs
  <2>6. opened'[m] = location /\ promise'[m] = "pending" /\ m \notin followed
    BY <1>i, <2>1, <2>2 DEF DialogTypeOK, ChoiceInv, Dialogs
  <2>7. ChoiceInv'
    BY <1>i, <2>2, <2>4, <2>5, <2>6 DEF ChoiceInv
  <2> QED
    BY <1>m, <2>3, <2>7 DEF DialogInv
<1>6. ASSUME NEW m \in Modals, Choose(m) PROVE DialogInv'
  <2>1. m \in Dialogs /\ Settle(m, "resolved") /\ UNCHANGED <<location, opened, followed, moved>>
    BY <1>6 DEF Choose, Answer
  <2>2. PICK d \in Destinations(m) :
           choice' = IF promise[m] = "pending" THEN [choice EXCEPT ![m] = d] ELSE choice
    BY <1>6 DEF Choose
  <2>3. d \in Choice
    BY <1>i, DestinationType DEF DialogTypeOK
  <2>4. DialogTypeOK'
    BY <1>i, <2>1, <2>2, <2>3 DEF DialogTypeOK
  <2>5. \A n \in Modals : Destinations(n)' = Destinations(n)
    BY <2>1, SameDestinations
  <2>6. CASE promise[m] # "pending"
    BY <1>i, <2>1, <2>2, <2>5, <2>6, <2>4, <1>m DEF Settle, ChoiceInv, DialogInv, Dialogs
  <2>7. CASE promise[m] = "pending"
    <3>1. /\ promise' = [promise EXCEPT ![m] = "resolved"]
          /\ choice' = [choice EXCEPT ![m] = d]
      BY <2>1, <2>2, <2>7 DEF Settle
    <3>2. ChoiceInv'
      BY <1>i, <2>1, <2>5, <2>7, <3>1 DEF ChoiceInv, DialogTypeOK, Dialogs
    <3> QED
      BY <1>m, <2>4, <3>2 DEF DialogInv
  <2> QED
    BY <2>6, <2>7
<1>7. ASSUME NEW m \in Modals, Navigate(m) PROVE DialogInv'
  <2>1. /\ m \in Dialogs /\ promise[m] = "resolved" /\ followed' = followed \cup {m}
        /\ GoTo(choice[m].to, {m}) /\ UNCHANGED <<promise, opened, choice>>
    BY <1>7 DEF Navigate, modalVars
  <2>2. DialogTypeOK'
    BY <1>i, <2>1 DEF DialogTypeOK, GoTo, Choice, Dialogs
  <2>3. \A n \in Dialogs : Destinations(n)' = Destinations(n)
    BY <2>1, SameDestinations DEF Dialogs
  <2>4. ChoiceInv'
    BY <1>i, <2>1, <2>3, GoToMoves DEF ChoiceInv
  <2> QED
    BY <1>m, <2>2, <2>4 DEF DialogInv
<1>8. ASSUME NEW l \in Links, Leave(l) PROVE DialogInv'
  <2>1. GoTo(l, {}) /\ UNCHANGED <<promise, opened, choice, followed>>
    BY <1>8 DEF Leave, modalVars
  <2>2. l \in Location
    <3>1. <<>> \in Seq(Branches) /\ \A b \in Branches : <<b>> \in Seq(Branches)
      OBVIOUS
    <3>2. Overview \in Location /\ \A b \in Branches : BranchPage(<<b>>) \in Location
      BY <3>1 DEF Overview, BranchPage, Location
    <3> QED
      BY <3>2 DEF Links
  <2>3. DialogTypeOK'
    BY <1>i, <2>1, <2>2 DEF DialogTypeOK, GoTo
  <2>4. \A n \in Dialogs : Destinations(n)' = Destinations(n)
    BY <2>1, SameDestinations DEF Dialogs
  <2>5. ChoiceInv'
    BY <1>i, <2>1, <2>4, GoToMoves DEF ChoiceInv
  <2> QED
    BY <1>m, <2>3, <2>5 DEF DialogInv
<1>9. CASE UNCHANGED vars
  BY <1>9, <1>a DEF vars, modalVars
<1> QED
  BY <1>1, <1>2, <1>3, <1>4, <1>5, <1>6, <1>7, <1>8, <1>9 DEF SearchNext, Dismiss

-----------------------------------------------------------------------------
\* The header's dialogs and whatever else the page shows.
THEOREM DialogInvariance == SearchSpec => []DialogInv
  BY DialogInitInv, DialogStep, PTL DEF SearchSpec

\* Whoever launched a modal and still awaits it has exactly one entry of the
\* stack, where the modal is shown and can be settled (modal-service.tsx).
THEOREM PendingStaysOnStack == SearchSpec => [](TypeOK /\ PendingIsOnStack)
<1>1. DialogInv => TypeOK /\ PendingIsOnStack
  BY OneEntry DEF DialogInv, ModalInv
<1> QED
  BY <1>1, DialogInvariance, PTL

\* Adding a branch to the selection or removing one keeps the others, unless
\* the page moved while the dialog was open (SearchDialog.tsx, header.container.tsx).
THEOREM SelectionKept == SearchSpec => SelectionIsKept
<1> DEFINE Kept(m) ==
      (m \in followed' \ followed /\ choice[m].toggled # "none" /\ m \notin moved) =>
        ToSet(location'.names) \ {choice[m].toggled} = ToSet(location.names) \ {choice[m].toggled}
<1>1. ASSUME DialogInv, SearchNext, NEW m \in Dialogs PROVE Kept(m)
  <2> SUFFICES ASSUME m \in followed' \ followed, choice[m].toggled # "none", m \notin moved
               PROVE  ToSet(location'.names) \ {choice[m].toggled} = ToSet(location.names) \ {choice[m].toggled}
    OBVIOUS
  <2>1. Navigate(m)
    BY <1>1 DEF SearchNext, Search, Choose, Dismiss, Answer, Navigate, Leave, dialogVars
  <2>2. location' = choice[m].to /\ promise[m] = "resolved"
    BY <2>1 DEF Navigate, GoTo
  <2>3. choice[m] \in Destinations(m) /\ location = opened[m] /\ opened[m] \in Location
    BY <1>1, <2>2 DEF DialogInv, DialogTypeOK, ChoiceInv, Dialogs
  <2> QED
    BY <2>2, <2>3, DestinationType DEF Dialogs
<1>2. DialogInv /\ [SearchNext]_vars => [\A m \in Dialogs : Kept(m)]_vars
  BY <1>1
<1> QED
  BY <1>2, DialogInvariance, PTL DEF SearchSpec, SelectionIsKept

-----------------------------------------------------------------------------
\* The header implements what it relies on (AwaitedDialogs).

AwaitIs(m) ==
    /\ promise[m] = "new" => Await(m) = "closed"
    /\ promise[m] = "pending" => Await(m) = "open"
    /\ promise[m] = "resolved" /\ m \notin followed => Await(m) = "answered"
    /\ promise[m] = "resolved" /\ m \in followed => Await(m) = "followed"
    /\ promise[m] \notin {"new", "pending", "resolved"} => Await(m) = "refused"

LEMMA AwaitStates ==
    ASSUME NEW m
    PROVE  AwaitIs(m) /\ AwaitIs(m)'
<1>1. AwaitIs(m)
  BY Zenon DEF AwaitIs, Await
<1>2. AwaitIs(m)'
  BY Zenon DEF AwaitIs, Await
<1> QED
  BY <1>1, <1>2

LEMMA AwaitMoves ==
    ASSUME NEW d \in Dialogs, NEW from, NEW to, Await(d) = from, Await(d)' = to,
           \A e \in Dialogs \ {d} : Await(e)' = Await(e)
    PROVE  Awaited!Moves(d, from, to)
  BY DEF Awaited!Moves

LEMMA AnswersStay ==
    ASSUME choice' = choice
    PROVE  [d \in Dialogs |-> choice[d].to]' = [d \in Dialogs |-> choice[d].to]
  OBVIOUS

LEMMA AwaitStays ==
    ASSUME \A d \in Dialogs : Await(d)' = Await(d), choice' = choice
    PROVE  Awaited!Wander
  BY AnswersStay DEF Awaited!Wander

\* A modal that is settled otherwise than by a choice is a refusal, once.
LEMMA SettledIsRefused ==
    ASSUME DialogInv, NEW m \in Modals, NEW how \in Settled \ {"resolved"},
           Settle(m, how), UNCHANGED dialogVars
    PROVE  Awaited!Next
<1>1. promise \in [Modals -> Promises] /\ \A n \in Dialogs : n \in Modals
  BY DEF DialogInv, ModalInv, TypeOK, Dialogs
<1>2. UNCHANGED <<location, choice, followed>>
  BY DEF dialogVars
<1>3. \A n \in Modals \ {m} : promise'[n] = promise[n]
  BY <1>1 DEF Settle
<1>4. \A n \in Dialogs \ {m} : Await(n)' = Await(n)
  BY <1>1, <1>2, <1>3, Zenon DEF Await
<1>5. CASE promise[m] = "pending" /\ m \in Dialogs
  <2>1. promise'[m] = how
    BY <1>1, <1>5 DEF Settle
  <2>2. Await(m) = "open" /\ Await(m)' = "refused"
    BY <1>5, <2>1, AwaitStates DEF AwaitIs, Settled
  <2>3. Awaited!Refuse(m)
    BY <1>2, <1>4, <1>5, <2>2, AwaitMoves, AnswersStay DEF Awaited!Refuse
  <2> QED
    BY <1>5, <2>3 DEF Awaited!Next
<1>6. CASE ~(promise[m] = "pending" /\ m \in Dialogs)
  <2>1. \A n \in Dialogs : promise'[n] = promise[n]
    BY <1>1, <1>3, <1>6 DEF Settle
  <2>2. \A n \in Dialogs : Await(n)' = Await(n)
    BY <1>2, <2>1, Zenon DEF Await
  <2> QED
    BY <1>2, <2>2, AwaitStays DEF Awaited!Next
<1> QED
  BY <1>5, <1>6

LEMMA HeaderStep == DialogInv /\ [SearchNext]_vars => [Awaited!Next]_(Awaited!vars)
<1> SUFFICES ASSUME DialogInv, [SearchNext]_vars PROVE Awaited!Next
  OBVIOUS
<1>i. ModalInv /\ DialogTypeOK /\ ChoiceInv /\ promise \in [Modals -> Promises] /\ Dialogs \subseteq Modals
  BY DEF DialogInv, ModalInv, TypeOK, Dialogs
\* Steps that change neither a promise nor what is followed.
<1>a. ASSUME UNCHANGED <<promise, choice, followed>> PROVE Awaited!Next
  <2>1. \A n \in Dialogs : Await(n)' = Await(n)
    BY <1>a, Zenon DEF Await
  <2> QED
    BY <1>a, <2>1, AwaitStays DEF Awaited!Next
<1>1. CASE (RenderModals \/ BindEscape \/ PressEscape) /\ UNCHANGED dialogVars
  <2>1. CASE RenderModals \/ BindEscape
    BY <1>1, <2>1, <1>a DEF RenderModals, BindEscape, dialogVars
  <2>2. CASE PressEscape
    BY <1>1, <2>2, <1>i, SettledIsRefused DEF PressEscape, ModalInv, TypeOK, Settled
  <2> QED
    BY <1>1, <2>1, <2>2
<1>2. ASSUME NEW m \in Modals, Display(m), UNCHANGED dialogVars PROVE Awaited!Next
  BY <1>2, <1>a DEF Display, Finally, RenderModal, FireTimer, ReadyToUnmount, dialogVars
<1>3. ASSUME NEW m \in Modals, Abort(m) \/ ClickBackdrop(m) \/ Dismiss(m), UNCHANGED dialogVars
      PROVE  Awaited!Next
  BY <1>3, SettledIsRefused DEF Abort, ClickBackdrop, Dismiss, Answer, Settled
<1>4. ASSUME NEW m \in Abortable, Launch(m), UNCHANGED dialogVars PROVE Awaited!Next
  <2>1. \A n \in Dialogs : promise'[n] = promise[n]
    BY <1>4, <1>i DEF Launch, Dialogs
  <2>2. UNCHANGED <<choice, followed>>
    BY <1>4 DEF dialogVars
  <2>3. \A n \in Dialogs : Await(n)' = Await(n)
    BY <2>1, <2>2, Zenon DEF Await
  <2> QED
    BY <2>2, <2>3, AwaitStays DEF Awaited!Next
\* A search asks.
<1>5. ASSUME NEW m \in Modals, Search(m) PROVE Awaited!Next
  <2>1. /\ m \in Dialogs /\ promise[m] = "new" /\ promise' = [promise EXCEPT ![m] = "pending"]
        /\ UNCHANGED <<location, choice, followed>>
    BY <1>5, <1>i DEF Search, Launch, Dialogs, ModalInv, TypeOK
  <2>2. Await(m) = "closed" /\ Await(m)' = "open"
    BY <1>i, <2>1, AwaitStates DEF AwaitIs
  <2>3. \A n \in Dialogs \ {m} : promise'[n] = promise[n]
    BY <1>i, <2>1
  <2>4. \A n \in Dialogs \ {m} : Await(n)' = Await(n)
    BY <2>1, <2>3, Zenon DEF Await
  <2>5. Awaited!Ask(m)
    BY <2>1, <2>2, <2>4, AwaitMoves, AnswersStay DEF Awaited!Ask
  <2> QED
    BY <2>1, <2>5 DEF Awaited!Next
\* The first choice answers; a later one changes nothing.
<1>6. ASSUME NEW m \in Modals, Choose(m) PROVE Awaited!Next
  <2>1. m \in Dialogs /\ Settle(m, "resolved") /\ UNCHANGED <<location, followed>>
    BY <1>6 DEF Choose, Answer
  <2>2. PICK d \in Destinations(m) :
           choice' = IF promise[m] = "pending" THEN [choice EXCEPT ![m] = d] ELSE choice
    BY <1>6 DEF Choose
  <2>3. CASE promise[m] # "pending"
    BY <1>a, <2>1, <2>2, <2>3 DEF Settle
  <2>4. CASE promise[m] = "pending"
    <3>1. promise' = [promise EXCEPT ![m] = "resolved"] /\ choice' = [choice EXCEPT ![m] = d]
      BY <2>1, <2>2, <2>4 DEF Settle
    <3>2. m \notin followed /\ promise'[m] = "resolved"
      BY <1>i, <2>1, <2>4, <3>1 DEF ChoiceInv
    <3>3. Await(m) = "open" /\ Await(m)' = "answered"
      BY <2>1, <2>4, <3>2, AwaitStates DEF AwaitIs
    <3>4. \A n \in Dialogs \ {m} : promise'[n] = promise[n] /\ choice'[n] = choice[n]
      BY <1>i, <3>1 DEF DialogTypeOK
    <3>5. \A n \in Dialogs \ {m} : Await(n)' = Await(n)
      BY <2>1, <3>4, Zenon DEF Await
    <3>6. Awaited!Answer(m)
      BY <2>1, <3>3, <3>4, <3>5, AwaitMoves DEF Awaited!Answer
    <3> QED
      BY <2>1, <3>6 DEF Awaited!Next
  <2> QED
    BY <2>3, <2>4
\* The navigation after the await follows the answer.
<1>7. ASSUME NEW m \in Modals, Navigate(m) PROVE Awaited!Next
  <2>1. /\ m \in Dialogs /\ m \notin followed /\ promise[m] = "resolved" /\ followed' = followed \cup {m}
        /\ location' = choice[m].to /\ UNCHANGED <<promise, choice>>
    BY <1>7 DEF Navigate, GoTo, modalVars
  <2>2. Await(m) = "answered" /\ Await(m)' = "followed"
    BY <2>1, AwaitStates DEF AwaitIs
  <2>3. \A n \in Dialogs \ {m} : n \in followed' <=> n \in followed
    BY <2>1
  <2>4. \A n \in Dialogs \ {m} : Await(n)' = Await(n)
    BY <2>1, <2>3, Zenon DEF Await
  <2>5. Awaited!Follow(m)
    BY <2>1, <2>2, <2>4, AwaitMoves, AnswersStay DEF Awaited!Follow
  <2> QED
    BY <2>1, <2>5 DEF Awaited!Next
<1>8. ASSUME NEW l \in Links, Leave(l) PROVE Awaited!Next
  BY <1>8, <1>a DEF Leave, modalVars
<1>9. CASE UNCHANGED vars
  BY <1>9, <1>a DEF vars, modalVars, dialogVars
<1> QED
  BY <1>1, <1>2, <1>3, <1>4, <1>5, <1>6, <1>7, <1>8, <1>9 DEF SearchNext, Dismiss

\* However often a dialog is answered, dismissed or covered, the await of
\* handleSearch ends once, with the first of them, and the page goes to just
\* that answer: every step of the header is one of AwaitedDialogs.
THEOREM HeaderFollowsOnce == SearchSpec => Awaited!Safety
<1>1. SearchInit => Awaited!Init
  <2> SUFFICES ASSUME SearchInit PROVE \A m \in Dialogs : Await(m) = "closed"
    BY DEF Awaited!Init
  <2> QED
    BY AwaitStates DEF SearchInit, Init, Dialogs, AwaitIs
<1> QED
  BY <1>1, HeaderStep, DialogInvariance, PTL DEF SearchSpec, Awaited!Safety

=============================================================================
