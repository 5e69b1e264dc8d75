----------------------------- MODULE Upstreams ------------------------------
(***************************************************************************)
(* The upstream structure of a repository: which branches each branch is   *)
(* configured to be made from (GitUpstreamData), what lies above a branch, *)
(* and what lies above several.                                            *)
(*                                                                         *)
(* A configuration maps each branch to the set of its upstream branches;   *)
(* a branch without an entry has none.  Nothing forbids cycles.            *)
(***************************************************************************)
EXTENDS Naturals, FiniteSets

CONSTANT Branches

Configuration == [Branches -> SUBSET Branches]

\* Everything upstream of a branch of S is in S.
ClosedUpward(upstreams, S) == \A b \in S : upstreams[b] \subseteq S

\* What GetAllUpstream returns: the least set that holds the upstream branches
\* of the branch and is closed upward.  The branch itself is in it only if it
\* is upstream of itself.
AllUpstream(upstreams, branch) ==
    {b \in Branches :
        \A S \in SUBSET Branches :
            upstreams[branch] \subseteq S /\ ClosedUpward(upstreams, S) => b \in S}

\* What GetCommonUpstream returns for one branch or more: what each of them
\* has above it, or is.
CommonUpstream(upstreams, branches) ==
    {b \in Branches : \A c \in branches : b = c \/ b \in AllUpstream(upstreams, c)}

=============================================================================
