------------------------------- MODULE Server -------------------------------
(***************************************************************************)
(* The requests of a server.  One for what is upstream of a branch, from   *)
(* before the server knows its clone: each command waits for the           *)
(* configuration, or fails with it (GitToolsCommandInvoker), while the     *)
(* search itself does not wait.  And, of a server that has been up for     *)
(* long, the requests for conflicts.  They share nothing but the clone, so *)
(* a server has those of one kind.                                         *)
(***************************************************************************)
EXTENDS CloneService, UpstreamClosure, DetectConflicts

CONSTANT Simple   \* the structures with which a start of the server is modelled

VARIABLE query    \* the request for what is upstream, or "conflicts", the requests of the other kind

serverVars == <<cloneVars, closureVars, vars, query>>

(* The server has been up for long, or is about to start.                  *)
Up ==
    /\ options = [repository |-> TRUE, named |-> FALSE]
    /\ directory = "whole" /\ found = "whole"
    /\ step = "done" /\ task = "configured" /\ starts = MaxStarts

(* Requests of one kind need no data of the other.                         *)
NoConflicts == repo.behind = {} /\ repo.conflicts = {} /\ \A b \in Branches : repo.upstreams[b] = {}
AnyBranch == CHOOSE b \in Branches : TRUE

ServerInit ==
    /\ Init
    /\ \/ /\ query = "none" /\ NoConflicts
          /\ ClosureInit
          /\ Up \/ (CloneInit /\ upstreams \in Simple)
       \/ /\ query = "conflicts"
          /\ upstreams = repo.upstreams /\ branch = AnyBranch /\ Started
          /\ Up

AskUpstream ==
    /\ query = "none" /\ step # "stopped"
    /\ query' = "waiting"
    /\ UNCHANGED <<cloneVars, closureVars, vars>>

RunGenericCommand ==
    /\ query = "waiting"
    /\ \/ task = "configured" /\ query' = "searching"
       \/ task = "failed" /\ query' = "refused"
    /\ UNCHANGED <<cloneVars, closureVars, vars>>

Search == query = "searching" /\ ClosureNext /\ UNCHANGED <<cloneVars, vars, query>>

ReturnUpstream ==
    /\ query = "searching" /\ Returned
    /\ query' = "answered"
    /\ UNCHANGED <<cloneVars, closureVars, vars>>

GetConflictDetails == query = "conflicts" /\ Next /\ UNCHANGED <<cloneVars, closureVars, query>>

(* What a process that stops knew is gone.                                 *)
StopServer ==
    /\ Stop
    /\ query # "conflicts" /\ query' = "none"
    /\ stack' = {branch} /\ current' = None /\ remaining' = {} /\ allBranches' = {}
    /\ UNCHANGED <<upstreams, branch, vars>>

CloneNext == StartAsync \/ DetectCloneConfiguration

(* A process that has served its request runs on.                          *)
RunOn == query \in {"answered", "refused"} /\ UNCHANGED serverVars

ServerNext ==
    \/ CloneNext /\ UNCHANGED <<closureVars, vars, query>>
    \/ AskUpstream \/ RunGenericCommand \/ Search \/ ReturnUpstream
    \/ GetConflictDetails
    \/ StopServer \/ RunOn

(* Commands of git end, and the threads of the server run.                 *)
ServerSpec ==
    /\ ServerInit /\ [][ServerNext]_serverVars
    /\ WF_serverVars(DetectCloneConfiguration /\ UNCHANGED <<closureVars, vars, query>>)
    /\ WF_serverVars(RunGenericCommand \/ Search \/ ReturnUpstream)

-----------------------------------------------------------------------------
ServerTypeOK ==
    /\ CloneTypeOK /\ ClosureTypeOK
    /\ query \in {"none", "waiting", "searching", "answered", "refused", "conflicts"}

(* A request that waits for the clone is answered, if only with the        *)
(* failure of its detection, or goes with the process: whatever becomes of *)
(* the clone the task is settled, and the search ends, for recursive       *)
(* structures too.                                                         *)
RequestsAreAnswered == query = "waiting" ~> query \notin {"waiting", "searching"}
=============================================================================
