--------------------------- MODULE UpstreamClosure ---------------------------
(***************************************************************************)
(* UpstreamUtilities.GetAllUpstream, step by step: a stack of branches to  *)
(* look at and a set of branches found, over any configuration, recursive  *)
(* ones included.  The order in which the stack yields its branches plays  *)
(* no part in the result, so it is a set here.                             *)
(***************************************************************************)
EXTENDS Upstreams

CONSTANTS
    None,
    Structures   \* the configurations that may be met

ASSUME BranchesAssumption == Branches # {} /\ None \notin Branches
ASSUME StructuresAssumption == Structures \subseteq Configuration

VARIABLES
    upstreams,   \* the configuration
    branch,      \* the branch asked about
    stack,       \* branches still to be looked at
    current,     \* the branch that is looked at, or None
    remaining,   \* the upstream branches of current not yet visited
    allBranches  \* the branches found

closureVars == <<upstreams, branch, stack, current, remaining, allBranches>>

ClosureTypeOK ==
    /\ upstreams \in Configuration
    /\ branch \in Branches
    /\ stack \subseteq Branches
    /\ current \in Branches \cup {None}
    /\ remaining \subseteq Branches
    /\ allBranches \subseteq Branches

Started ==
    /\ stack = {branch}
    /\ current = None
    /\ remaining = {}
    /\ allBranches = {}

ClosureInit ==
    /\ upstreams \in Structures
    /\ branch \in Branches
    /\ Started

TryPopWithoutContinue ==
    /\ current = None
    /\ \E b \in stack :
        /\ stack' = stack \ {b}
        /\ current' = b
        /\ remaining' = IF upstreams[b] = {} THEN {None} ELSE upstreams[b]
    /\ UNCHANGED <<upstreams, branch, allBranches>>

\* while (stack.TryPop(out var current)): a branch that is not configured has
\* nothing to visit.
TryPop ==
    /\ current = None
    /\ \E b \in stack :
        /\ stack' = stack \ {b}
        /\ current' = b
        /\ remaining' = upstreams[b]
    /\ UNCHANGED <<upstreams, branch, allBranches>>

VisitWithoutPush ==
    \E u \in remaining :
        /\ remaining' = remaining \ {u}
        /\ allBranches' = allBranches \cup {u}
        /\ UNCHANGED <<upstreams, branch, stack, current>>

VisitPushingAgain ==
    \E u \in remaining :
        /\ remaining' = remaining \ {u}
        /\ allBranches' = allBranches \cup {u}
        /\ stack' = stack \cup {u}
        /\ UNCHANGED <<upstreams, branch, current>>

\* The body of the foreach: a branch that is already found is not pushed.
Visit ==
    \E u \in remaining :
        /\ remaining' = remaining \ {u}
        /\ \/ /\ u \in allBranches
              /\ UNCHANGED <<stack, allBranches>>
           \/ /\ u \notin allBranches
              /\ allBranches' = allBranches \cup {u}
              /\ stack' = stack \cup {u}
        /\ UNCHANGED <<upstreams, branch, current>>

EndForeach ==
    /\ current # None
    /\ remaining = {}
    /\ current' = None
    /\ UNCHANGED <<upstreams, branch, stack, remaining, allBranches>>

Returned == current = None /\ stack = {}

ClosureNext == TryPop \/ Visit \/ EndForeach

ClosureSpec == ClosureInit /\ [][ClosureNext]_closureVars /\ WF_closureVars(ClosureNext)

-----------------------------------------------------------------------------
\* The result is what lies above the branch, no less and no more, for
\* recursive configurations too.
ReturnsAllUpstream == Returned => allBranches = AllUpstream(upstreams, branch)

=============================================================================
