--------------------------- MODULE GraphAnimation ---------------------------
(***************************************************************************)
(* The graph in motion: the simulation cools as it ticks, on the animation *)
(* frames of the component and on a timer of its own; a render and a drag  *)
(* heat it up and restart both.  The listeners of a drag are on the        *)
(* document, and outlive renders and the component.                        *)
(***************************************************************************)
EXTENDS BranchGraph

CONSTANTS
    Heat,      \* ticks that cool the simulation from restart to alphaMin
    MaxActs    \* bound on what the user does

ASSUME HeatAssumption == {Heat, MaxActs} \subseteq Nat

VARIABLES
    mounted,   \* the component is on the page
    heat,      \* alpha, as the number of ticks above alphaMin
    ticking,   \* d3's own timer runs
    frames,    \* animation frames requested
    token,     \* cancelToken is that of a requested frame
    drags,     \* handlers on the document: [node, render, moved]
    pinned,    \* nodes with fx and fy
    acts,
    odd        \* history: nodes pressed while dragged, or released by another button

motionVars == <<mounted, heat, ticking, frames, token, drags, pinned, acts, odd>>
vars == <<graphVars, motionVars>>

Init ==
    /\ GraphInit
    /\ mounted = FALSE /\ heat = 0 /\ ticking = FALSE
    /\ frames = 0 /\ token = FALSE
    /\ drags = {} /\ pinned = {} /\ acts = 0 /\ odd = {}

(* animator.cancel and animator.restart                                    *)
Uncancelled == IF token THEN frames - 1 ELSE frames

RestartWithoutCancel == frames' = frames + 1 /\ token' = TRUE
Restart == frames' = Uncancelled + 1 /\ token' = TRUE

(* restartSimulation                                                       *)
RestartTimerOnly == heat' = Heat /\ ticking' = TRUE /\ UNCHANGED <<frames, token>>
RestartSimulation == heat' = Heat /\ ticking' = TRUE /\ Restart

Act == acts < MaxActs /\ acts' = acts + 1

-----------------------------------------------------------------------------
(* The first render, a render with other data, and leaving the page: the   *)
(* cleanup of the effect cancels the frame.                                *)
Render(d) ==
    /\ Act
    /\ mounted \/ updates = 0
    /\ Update(d)
    /\ mounted' = TRUE
    /\ RestartSimulation
    /\ UNCHANGED <<drags, pinned, odd>>

Unmount ==
    /\ Act /\ mounted
    /\ mounted' = FALSE
    /\ frames' = Uncancelled /\ token' = FALSE
    /\ UNCHANGED <<graphVars, heat, ticking, drags, pinned, odd>>

-----------------------------------------------------------------------------
(* A tick cools the simulation and applies its forces.                     *)
CooledFurther == heat - 1
Cooled == IF heat = 0 THEN 0 ELSE heat - 1
Tick == heat' = Cooled /\ ForceHierarchy

FrameWithoutEnd ==
    /\ frames > 0
    /\ Tick
    /\ token' = TRUE
    /\ UNCHANGED <<mounted, frames, ticking, drags, pinned, acts, odd>>

(* animate: another frame is requested while the simulation is warm.  The  *)
(* frame may be one that the token does not name.                          *)
Frame ==
    /\ frames > 0
    /\ Tick
    /\ IF Cooled > 0
       THEN token' = TRUE /\ UNCHANGED frames
       ELSE frames' = frames - 1 /\ token' \in {t \in {token, FALSE} : t => frames > 1}
    /\ UNCHANGED <<mounted, ticking, drags, pinned, acts, odd>>

SimulationTimer ==
    /\ ticking
    /\ Tick
    /\ ticking' = (Cooled > 0)
    /\ UNCHANGED <<mounted, frames, token, drags, pinned, acts, odd>>

-----------------------------------------------------------------------------
(* setupDragHandler.  Each render makes new handlers: a second press of a  *)
(* node finds its handler on the document, and starts it again, or adds    *)
(* that of a later render.                                                 *)
Press(n) ==
    /\ Act /\ mounted
    /\ LET handler == [node |-> n, render |-> updates, moved |-> FALSE]
       IN drags' = (drags \ {[handler EXCEPT !.moved = TRUE]}) \cup {handler}
    /\ odd' = IF drags = {} THEN odd ELSE odd \cup {n} \cup {h.node : h \in drags}
    /\ UNCHANGED <<graphVars, mounted, heat, ticking, frames, token, pinned>>

(* trackMovement: handlers that have now moved by more than five pixels.   *)
Far == {far \in SUBSET drags : \A h \in drags : h.moved => h \in far}
NodesIn(handlers) == {h.node : h \in handlers}

Move ==
    /\ Act
    /\ \E far \in Far \ {{}} :
         /\ drags' = (drags \ far) \cup {[h EXCEPT !.moved = TRUE] : h \in far}
         /\ pinned' = pinned \cup NodesIn(far)
    /\ RestartSimulation
    /\ UNCHANGED <<graphVars, mounted, odd>>

LetGoOfDisplayed(handlers) == pinned \ (NodesIn(handlers) \cap ToSet(nodes))
LetGo(handlers) == pinned \ NodesIn(handlers)

(* A drag ends with the release of any button; only the left one lets go   *)
(* of the node.  A press that did not move is a click.                     *)
Release(left) ==
    /\ Act
    /\ drags # {} /\ drags' = {}
    /\ \E far \in Far :
         /\ pinned' = IF left THEN LetGo(far) ELSE pinned
         /\ odd' = IF left THEN odd ELSE odd \cup NodesIn(far)
         /\ IF far = {} THEN UNCHANGED <<heat, ticking, frames, token>> ELSE RestartSimulation
    /\ UNCHANGED <<graphVars, mounted>>

User ==
    \/ \E d \in Data : Render(d)
    \/ Unmount \/ Move
    \/ \E n \in ToSet(nodes) : Press(n)
    \/ \E left \in BOOLEAN : Release(left)

Next == User \/ Frame \/ SimulationTimer

(* The browser runs animation frames and timers.                           *)
Spec == Init /\ [][Next]_vars /\ WF_vars(Frame) /\ WF_vars(SimulationTimer)
-----------------------------------------------------------------------------
TypeOK ==
    /\ mounted \in BOOLEAN /\ ticking \in BOOLEAN /\ token \in BOOLEAN
    /\ heat \in 0..Heat /\ frames \in Nat /\ acts \in 0..MaxActs /\ updates \in 0..MaxUpdates
    /\ \A h \in drags : h.render \in 1..updates /\ h.moved \in BOOLEAN

(* Renders, drags and frames each ask for the next frame, and never is     *)
(* more than one under way: the animation does not speed up or multiply.   *)
OneFrameAtATime == frames <= (IF token THEN 1 ELSE 0)

(* While the simulation moves the nodes of a graph on display, a frame is  *)
(* due that draws them, though the simulation also ticks by itself.        *)
MovingNodesAreDrawn == mounted /\ heat > 0 => frames > 0

(* "`fx`/`fy` are fixed positions - use them while moving them" (BranchNode*)
(* .tsx:33): a node that is dropped is free, also when the graph was       *)
(* rendered again or left during the drag.  Use of two buttons at once, or *)
(* of another than the left, is left out.                                  *)
DroppedNodesAreFree == pinned \subseteq odd \cup NodesIn(drags)

(* When the user has stopped, the animation comes to rest, on the page or  *)
(* after the page was left in the middle of a drag.                        *)
AnimationEnds == <>[](frames = 0 /\ ~ticking)
=============================================================================
