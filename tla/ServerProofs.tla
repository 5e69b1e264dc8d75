---------------------------- MODULE ServerProofs ----------------------------
(***************************************************************************)
(* The start of the server and its requests, for any number of processes,  *)
(* any settings and any upstream structure: a clone that a process has     *)
(* made is whole before it is served, and what a request is answered is    *)
(* what lies above its branch.                                             *)
(***************************************************************************)
EXTENDS Server, TLAPS

-----------------------------------------------------------------------------
(* UpstreamUtilities.GetAllUpstream, on its own: what the loop returns is  *)
(* the least set of branches that is closed upward and holds the upstream  *)
(* branches of the one asked for.                                          *)

\* What lies directly above a branch lies above it.
LEMMA ImmediateIsUpstream ==
    ASSUME NEW config \in Configuration, NEW b \in Branches
    PROVE  config[b] \subseteq AllUpstream(config, b)
  BY DEF Configuration, AllUpstream

\* What lies directly above a branch that lies above b lies above b.
LEMMA UpstreamIsClosed ==
    ASSUME NEW config \in Configuration, NEW b \in Branches,
           NEW u \in AllUpstream(config, b)
    PROVE  config[u] \subseteq AllUpstream(config, b)
  BY DEF Configuration, AllUpstream, ClosedUpward

\* A set that is closed upward and holds what is directly above b holds all.
LEMMA UpstreamIsLeast ==
    ASSUME NEW config \in Configuration, NEW b \in Branches, NEW S \in SUBSET Branches,
           config[b] \subseteq S, ClosedUpward(config, S)
    PROVE  AllUpstream(config, b) \subseteq S
  BY DEF AllUpstream

-----------------------------------------------------------------------------
\* Only what lies above the branch has been found or is still to be visited.
FoundInv ==
    /\ allBranches \subseteq AllUpstream(upstreams, branch)
    /\ stack \subseteq allBranches \cup {branch}
    /\ current # None => current \in allBranches \cup {branch} /\ remaining \subseteq upstreams[current]
    /\ current = None => remaining = {}

\* What has been looked at has all its upstream branches among those found.
LookedAtInv ==
    /\ \A b \in (allBranches \cup {branch}) \ (stack \cup {current}) : upstreams[b] \subseteq allBranches
    /\ current # None => upstreams[current] \ remaining \subseteq allBranches

IInv == ClosureTypeOK /\ FoundInv /\ LookedAtInv

LEMMA StartedInv ==
    ASSUME upstreams \in Configuration, branch \in Branches, Started
    PROVE  IInv
  BY BranchesAssumption DEF Started, IInv, ClosureTypeOK, FoundInv, LookedAtInv

LEMMA InitInv == ClosureInit => IInv
  BY StartedInv, StructuresAssumption DEF ClosureInit

LEMMA TypeStep == ClosureTypeOK /\ [ClosureNext]_closureVars => ClosureTypeOK'
<1> SUFFICES ASSUME ClosureTypeOK, [ClosureNext]_closureVars PROVE ClosureTypeOK'
  OBVIOUS
<1> USE DEF ClosureTypeOK, Configuration
<1>1. CASE TryPop
  BY <1>1 DEF TryPop
<1>2. CASE Visit
  BY <1>2 DEF Visit
<1>3. CASE EndForeach
  BY <1>3 DEF EndForeach
<1>4. CASE UNCHANGED closureVars
  BY <1>4 DEF closureVars
<1> QED
  BY <1>1, <1>2, <1>3, <1>4 DEF ClosureNext

LEMMA LoopStep == IInv /\ [ClosureNext]_closureVars => FoundInv' /\ LookedAtInv'
<1> SUFFICES ASSUME IInv, [ClosureNext]_closureVars PROVE FoundInv' /\ LookedAtInv'
  OBVIOUS
<1> ClosureTypeOK /\ FoundInv /\ LookedAtInv
  BY DEF IInv
<1>a. upstreams \in Configuration /\ branch \in Branches
  BY DEF ClosureTypeOK
<1>b. \A b \in allBranches \cup {branch} : upstreams[b] \subseteq AllUpstream(upstreams, branch)
  BY <1>a, ImmediateIsUpstream, UpstreamIsClosed DEF FoundInv
<1>1. CASE TryPop
  <2>1. PICK b \in stack : /\ stack' = stack \ {b} /\ current' = b /\ remaining' = upstreams[b]
                           /\ UNCHANGED <<upstreams, branch, allBranches>> /\ current = None
    BY <1>1 DEF TryPop
  <2>2. b # None
    BY BranchesAssumption DEF ClosureTypeOK
  <2>3. FoundInv'
    BY <2>1, <2>2 DEF FoundInv
  <2>4. LookedAtInv'
    BY <2>1, <2>2, BranchesAssumption DEF LookedAtInv, ClosureTypeOK
  <2> QED
    BY <2>3, <2>4
<1>2. CASE Visit
  <2>1. PICK u \in remaining :
           /\ remaining' = remaining \ {u}
           /\ \/ u \in allBranches /\ UNCHANGED <<stack, allBranches>>
              \/ allBranches' = allBranches \cup {u} /\ stack' = stack \cup {u}
           /\ UNCHANGED <<upstreams, branch, current>>
    BY <1>2 DEF Visit
  <2>2. current # None /\ u \in upstreams[current] /\ u \in AllUpstream(upstreams, branch)
    BY <2>1, <1>b DEF FoundInv
  <2>3. FoundInv'
    BY <2>1, <2>2 DEF FoundInv
  <2>4. LookedAtInv'
    BY <2>1, <2>2 DEF LookedAtInv
  <2> QED
    BY <2>3, <2>4
<1>3. CASE EndForeach
  BY <1>3 DEF EndForeach, FoundInv, LookedAtInv, ClosureTypeOK
<1>4. CASE UNCHANGED closureVars
  BY <1>4 DEF closureVars, FoundInv, LookedAtInv
<1> QED
  BY <1>1, <1>2, <1>3, <1>4 DEF ClosureNext

-----------------------------------------------------------------------------
\* The loop's invariant.
THEOREM SearchInvariance == ClosureSpec => []IInv
<1>1. IInv /\ [ClosureNext]_closureVars => IInv'
  BY TypeStep, LoopStep DEF IInv
<1> QED
  BY <1>1, InitInv, PTL DEF ClosureSpec

\* Every variable keeps its type.
THEOREM SearchTypeCorrect == ClosureSpec => []ClosureTypeOK
<1>1. IInv => ClosureTypeOK
  BY DEF IInv
<1> QED
  BY <1>1, SearchInvariance, PTL

\* When the loop ends, the set found is closed.
LEMMA InvImpliesClosure == IInv => ReturnsAllUpstream
<1> SUFFICES ASSUME IInv, Returned
             PROVE  allBranches = AllUpstream(upstreams, branch)
  BY DEF ReturnsAllUpstream
<1>1. upstreams[branch] \subseteq allBranches /\ ClosedUpward(upstreams, allBranches)
  BY BranchesAssumption DEF IInv, Returned, LookedAtInv, ClosureTypeOK, ClosedUpward
<1>2. AllUpstream(upstreams, branch) \subseteq allBranches
  BY <1>1, UpstreamIsLeast DEF IInv, ClosureTypeOK
<1> QED
  BY <1>2 DEF IInv, FoundInv

\* What GetAllUpstream returns is what lies above the branch.
THEOREM ClosureCorrect == ClosureSpec => []ReturnsAllUpstream
  BY InvImpliesClosure, SearchInvariance, PTL

\* The branches common to one branch are those above it and itself.
THEOREM CommonOfOne ==
    ASSUME NEW config \in Configuration, NEW b \in Branches
    PROVE  CommonUpstream(config, {b}) = AllUpstream(config, b) \cup {b}
  BY DEF CommonUpstream, AllUpstream

-----------------------------------------------------------------------------
(* The server.                                                             *)

\* What a process that found no directory has made of it, at each step.
StageInv ==
    found = "none" =>
      /\ step \in {"load", "clone"} => directory = "none"
      /\ step = "checkout" => directory = "cloned"
      /\ step = "rm" => directory = "orphaned"
      /\ step = "branch" => directory = "emptied"
      /\ step = "remotes" => directory \in {"none", "whole"}
      /\ step = "configure" => directory = "whole"

CloneInv ==
    /\ CloneTypeOK
    /\ task # "pending" => step = "done"
    /\ StageInv
    /\ found # "none" => directory = found /\ step \notin {"checkout", "rm", "branch"}
    /\ NewClonesAreWhole

\* A request is on its way only while the server runs, and gets past the
\* commands only with a configuration.  Those for conflicts come to a server
\* that has one.
RequestInv ==
    /\ query # "none" => step # "stopped"
    /\ query \in {"searching", "answered", "conflicts"} => task = "configured"
    /\ query = "refused" => task = "failed"
    /\ query = "answered" => Returned

ServerInv ==
    /\ ServerTypeOK
    /\ CloneInv
    /\ RequestInv
    /\ FoundInv /\ LookedAtInv

-----------------------------------------------------------------------------
\* The background task keeps to its stages, and goes on from a pending state.
LEMMA CloneStep ==
    ASSUME CloneInv, DetectCloneConfiguration
    PROVE  CloneInv' /\ task = "pending" /\ step # "stopped" /\ step' # "stopped"
<1> USE DEF CloneInv, CloneTypeOK, NewClonesAreWhole, StageInv, Directories, Options,
            Working, CloneSteps, Run, SettleTask
<1>1. CASE EnsureGitClone
  BY <1>1 DEF EnsureGitClone
<1>2. CASE GitClone
  BY <1>2 DEF GitClone
<1>3. CASE GitRemote
  BY <1>3 DEF GitRemote
<1>4. CASE Configure
  BY <1>4 DEF Configure
<1>5. CASE ReadingFails
  BY <1>5 DEF ReadingFails
<1>6. CASE CloneFails
  BY <1>6 DEF CloneFails
<1> QED
  BY <1>1, <1>2, <1>3, <1>4, <1>5, <1>6 DEF DetectCloneConfiguration

\* What the next process finds is what this one left.
LEMMA StartStep ==
    ASSUME CloneInv, StartAsync
    PROVE  CloneInv' /\ step = "stopped" /\ step' = "load"
  BY StartsAssumption DEF StartAsync, CloneInv, CloneTypeOK, NewClonesAreWhole, StageInv, Directories,
     Working, CloneSteps

LEMMA StopStep ==
    ASSUME CloneInv, Stop
    PROVE  CloneInv'
  BY DEF Stop, CloneInv, CloneTypeOK, NewClonesAreWhole, StageInv, Directories, Working, CloneSteps

-----------------------------------------------------------------------------
LEMMA ServerInitInv == ServerInit => ServerInv
<1> SUFFICES ASSUME ServerInit PROVE ServerInv
  OBVIOUS
<1>1. upstreams \in Configuration /\ branch \in Branches /\ Started /\ query \in {"none", "conflicts"}
  <2>1. CASE ClosureInit /\ query = "none"
    BY <2>1, StructuresAssumption DEF ClosureInit
  <2>2. CASE query = "conflicts" /\ upstreams = repo.upstreams /\ branch = AnyBranch /\ Started
    BY <2>2, RepositoriesAssumption, BranchesAssumption DEF AnyBranch, ServerInit, Init, Repository
  <2> QED
    BY <2>1, <2>2 DEF ServerInit
<1>3. IInv
  BY <1>1, StartedInv
<1>2. CloneInv
  <2>1. CASE Up
    BY <2>1, StartsAssumption DEF Up, CloneInv, CloneTypeOK, NewClonesAreWhole, StageInv, Directories,
       Options, Working
  <2>2. CASE CloneInit
    BY <2>2, StartsAssumption DEF CloneInit, CloneInv, CloneTypeOK, NewClonesAreWhole, StageInv, Directories
  <2> QED
    BY <2>1, <2>2 DEF ServerInit
<1> QED
  <2>1. query = "conflicts" => step = "done" /\ task = "configured"
    BY DEF ServerInit, Up
  <2>2. RequestInv
    BY <1>1, <2>1 DEF RequestInv
  <2> QED
    BY <1>1, <1>2, <1>3, <2>2 DEF ServerInv, ServerTypeOK, IInv, CloneInv

\* The search is untouched while the clone is made and requests come and go.
LEMMA SearchUnchanged == UNCHANGED closureVars => (IInv <=> IInv')
  BY DEF closureVars, IInv, ClosureTypeOK, FoundInv, LookedAtInv

LEMMA CloneUnchanged == UNCHANGED cloneVars => (CloneInv <=> CloneInv')
  BY DEF cloneVars, CloneInv, CloneTypeOK, NewClonesAreWhole, StageInv

LEMMA ServerStep == ServerInv /\ [ServerNext]_serverVars => ServerInv'
<1> SUFFICES ASSUME ServerInv, [ServerNext]_serverVars PROVE ServerInv'
  OBVIOUS
<1>i. IInv /\ CloneInv /\ RequestInv /\ ServerTypeOK
  BY DEF ServerInv, ServerTypeOK, IInv
<1>a. ASSUME IInv', CloneInv', RequestInv',
             query' \in {"none", "waiting", "searching", "answered", "refused", "conflicts"}
      PROVE  ServerInv'
  BY <1>a DEF ServerInv, ServerTypeOK, IInv, CloneInv
<1>1. CASE DetectCloneConfiguration /\ UNCHANGED <<closureVars, query>>
  <2>1. CloneInv' /\ task = "pending" /\ step' # "stopped"
    BY <1>1, <1>i, CloneStep
  <2>2. IInv' /\ query' \in {"none", "waiting"}
    BY <1>1, <1>i, <2>1, SearchUnchanged DEF RequestInv, ServerTypeOK
  <2> QED
    BY <2>1, <2>2, <1>a DEF RequestInv
<1>2. CASE StartAsync /\ UNCHANGED <<closureVars, query>>
  <2>1. CloneInv' /\ step = "stopped"
    BY <1>2, <1>i, StartStep
  <2>2. IInv' /\ query' = "none"
    BY <1>2, <1>i, <2>1, SearchUnchanged DEF RequestInv
  <2> QED
    BY <2>1, <2>2, <1>a DEF RequestInv
<1>3. CASE AskUpstream \/ RunGenericCommand
  <2>1. UNCHANGED closureVars /\ UNCHANGED cloneVars
    BY <1>3 DEF AskUpstream, RunGenericCommand
  <2>2. IInv' /\ CloneInv'
    BY <2>1, <1>i, SearchUnchanged, CloneUnchanged
  <2>3. RequestInv' /\ query' \in {"waiting", "searching", "refused"}
    BY <2>1, <1>3, <1>i DEF RequestInv, AskUpstream, RunGenericCommand, cloneVars
  <2> QED
    BY <2>2, <2>3, <1>a
<1>4. CASE Search
  <2>1. IInv' /\ CloneInv'
    BY <1>4, <1>i, TypeStep, LoopStep, CloneUnchanged DEF Search, IInv
  <2>2. RequestInv' /\ query' = query
    BY <1>4, <1>i DEF RequestInv, Search, cloneVars
  <2> QED
    BY <2>1, <2>2, <1>i, <1>a DEF ServerTypeOK
<1>5. CASE ReturnUpstream
  <2>1. IInv' /\ CloneInv'
    BY <1>5, <1>i, SearchUnchanged, CloneUnchanged DEF ReturnUpstream
  <2>2. RequestInv' /\ query' = "answered"
    BY <1>5, <1>i DEF RequestInv, ReturnUpstream, cloneVars, closureVars, Returned
  <2> QED
    BY <2>1, <2>2, <1>a
<1>6. CASE StopServer
  <2>1. CloneInv'
    BY <1>6, <1>i, StopStep DEF StopServer
  <2>2. IInv'
    BY <1>6, <1>i, BranchesAssumption DEF StopServer, IInv, ClosureTypeOK, FoundInv, LookedAtInv
  <2>3. RequestInv' /\ query' = "none"
    BY <1>6 DEF StopServer, RequestInv
  <2> QED
    BY <2>1, <2>2, <2>3, <1>a
<1>8. CASE GetConflictDetails
  <2>1. UNCHANGED closureVars /\ UNCHANGED cloneVars /\ UNCHANGED query
    BY <1>8 DEF GetConflictDetails
  <2>2. IInv' /\ CloneInv'
    BY <2>1, <1>i, SearchUnchanged, CloneUnchanged
  <2>3. RequestInv'
    BY <2>1, <1>i DEF RequestInv, cloneVars, closureVars, Returned
  <2> QED
    BY <2>1, <2>2, <2>3, <1>i, <1>a DEF ServerTypeOK
<1>7. CASE UNCHANGED serverVars
  <2>1. UNCHANGED closureVars /\ UNCHANGED cloneVars /\ UNCHANGED query
    BY <1>7 DEF serverVars
  <2>2. IInv' /\ CloneInv'
    BY <2>1, <1>i, SearchUnchanged, CloneUnchanged
  <2>3. RequestInv'
    BY <2>1, <1>i DEF RequestInv, cloneVars, closureVars, Returned
  <2> QED
    BY <2>1, <2>2, <2>3, <1>i, <1>a DEF ServerTypeOK
<1> QED
  BY <1>1, <1>2, <1>3, <1>4, <1>5, <1>6, <1>7, <1>8 DEF ServerNext, CloneNext, RunOn

-----------------------------------------------------------------------------
\* What the server does for requests for conflicts is what DetectConflicts
\* says: whatever holds of that specification holds in the server.
THEOREM ServerDetectsConflicts == ServerSpec => Spec
<1>1. ServerInit => Init
  BY DEF ServerInit
<1>2. [ServerNext]_serverVars => [Next]_vars
  <2> SUFFICES ASSUME [ServerNext]_serverVars PROVE [Next]_vars
    OBVIOUS
  <2>1. CASE GetConflictDetails
    BY <2>1 DEF GetConflictDetails
  <2>2. CASE ~GetConflictDetails
    BY <2>2 DEF ServerNext, serverVars, AskUpstream, RunGenericCommand, Search, ReturnUpstream,
       StopServer, RunOn
  <2> QED
    BY <2>1, <2>2
<1> QED
  BY <1>1, <1>2, PTL DEF ServerSpec, Spec

\* The invariant of the server as a whole.
THEOREM ServerInvariance == ServerSpec => []ServerInv
  BY ServerInitInv, ServerStep, PTL DEF ServerSpec

\* Every variable of the server keeps its type.
THEOREM ServerTypeCorrect == ServerSpec => []ServerTypeOK
<1>1. ServerInv => ServerTypeOK
  BY DEF ServerInv
<1> QED
  BY <1>1, ServerInvariance, PTL

\* A server with a configuration serves the clone it has made, whole, or the
\* directory as it found it, wherever earlier processes were stopped.
THEOREM CloneCorrect == ServerSpec => []NewClonesAreWhole
<1>1. ServerInv => NewClonesAreWhole
  BY DEF ServerInv, CloneInv
<1> QED
  BY <1>1, ServerInvariance, PTL

\* The search of a request is right under the clone, its failures and stops.
THEOREM SearchCorrect == ServerSpec => []ReturnsAllUpstream
<1>1. ServerInv => ReturnsAllUpstream
  BY InvImpliesClosure DEF ServerInv, ServerTypeOK, IInv
<1> QED
  BY <1>1, ServerInvariance, PTL

\* An answered request was answered by a server with a configuration, with
\* what lies above its branch.
THEOREM AnswersAreRight ==
    ServerSpec => [](query = "answered" =>
                        task = "configured" /\ allBranches = AllUpstream(upstreams, branch))
<1>1. ServerInv => (query = "answered" => task = "configured" /\ Returned)
  BY DEF ServerInv, RequestInv
<1> QED
  BY <1>1, ServerInvariance, SearchCorrect, PTL DEF ReturnsAllUpstream
=============================================================================
