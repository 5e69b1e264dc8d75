---------------------------- MODULE BranchRules -----------------------------
(***************************************************************************)
(* The recommendations for a branch (ui/src/recommendations/rules), and    *)
(* the branches its page shows (useBranchDetails.ts), as functions of the  *)
(* data at hand.  `details` maps the branches with data to their details.  *)
(***************************************************************************)
EXTENDS QueryCache, SequencesExt

CONSTANTS
    Integrations,      \* the branches of type integration
    UpstreamLimit      \* upstreamLimit and downstreamLimit of useBranchDetails.ts

ASSUME UpstreamLimitAssumption == UpstreamLimit \in Nat

UpstreamNames(d) == {u.name : u \in d.upstream}

(* What is reached from some branches, by way of branches of S.            *)
Reached(from, more, S) ==
    {b \in S : \A T \in SUBSET S : from \subseteq T /\ (\A c \in T : more[c] \cap S \subseteq T) => b \in T}

(* expandBranches ends when it has reached everything or, at a branch that *)
(* the order of the server's lists decides, more than limit branches.      *)
ExpandBranches(names, more) ==
    LET all == Reached(names, more, Branches)
        last(S) == \/ Cardinality(S) = UpstreamLimit + 1
                   \/ Cardinality(names) > UpstreamLimit /\ Cardinality(S) <= Cardinality(names) + 1
    IN IF Cardinality(all) <= UpstreamLimit THEN {all}
       ELSE {S \in SUBSET all : names \subseteq S /\ last(S) /\ Reached(names, more, S) = S}

GetRelevantBranchNames(names, details) ==
    LET known(n) == n \in DOMAIN details
        down == [n \in Branches |-> IF known(n) THEN details[n].downstream ELSE {}]
        up == [n \in Branches |-> IF known(n) THEN UpstreamNames(details[n]) ELSE {}]
    IN {below \cup above : below \in ExpandBranches(names, down), above \in ExpandBranches(names, up)}

-----------------------------------------------------------------------------
RecursiveUpstream(b, up) == AllUpstream(up, b)

(* remove-unused-branch and remove-invalid-integration                     *)
RemoveUnused(b, d) ==
    {[rule |-> "remove-unused", branch |-> b, other |-> u] :
        u \in {v \in UpstreamNames(d) : ~d.unmerged /\ Cardinality(d.upstream) = 1 /\ b \notin Integrations}}

RemoveInvalid(b, d, up) ==
    {[rule |-> "remove-invalid", branch |-> b, other |-> u] :
        u \in {v \in UpstreamNames(d) : b \in Integrations /\ UpstreamNames(d) \ {v} \subseteq RecursiveUpstream(v, up)}}

-----------------------------------------------------------------------------
(* pull-upstream: what the branches above b, and b, say of their immediate *)
(* upstream branches, as far as they are cached.                           *)
HasIncoming(d) == \E u \in d.upstream : u.behind \/ u.conflict
HasConflict(d) == \E u \in d.upstream : u.conflict

RelevantBranches(b, up, details) ==
    {n \in (RecursiveUpstream(b, up) \cup {b}) \cap DOMAIN details : HasIncoming(details[n])}

Conflicts(b, up, details) == {n \in RelevantBranches(b, up, details) : HasConflict(details[n])}

(* Only b has conflicts: an integration branch may have resolved them.     *)
NeedsReintegration(b, up, details) == Conflicts(b, up, details) = {b}

(* The integration branches downstream of b, with their other upstreams.   *)
OtherUpstreams(b, d, up) == [i \in d.downstream \cap Integrations |-> up[i] \ {b}]

SuggestReintegration(b, candidates) ==
    {[rule |-> "reintegrate", branch |-> b, other |-> i] : i \in candidates}

ConflictsWithMain(b, d) ==
    {[rule |-> "conflict", branch |-> b, other |-> u.name] : u \in {v \in d.upstream : v.conflict}}

ConflictsInUpstream(b, names) == {[rule |-> "conflict-upstream", branch |-> b, other |-> n] : n \in names}

StandardPull(b, recurse) == {[rule |-> IF recurse THEN "pull-recurse" ELSE "pull", branch |-> b, other |-> b]}

(* Otherwise conflicts further up come first; `b !== branch` compares the  *)
(* cached details with those that the page was rendered with.              *)
PullUpstream(b, d, up, details) ==
    LET relevant == RelevantBranches(b, up, details)
        conflicts == Conflicts(b, up, details)
    IN CASE relevant = {} -> {}
         [] conflicts # {} -> ConflictsInUpstream(b, {c \in conflicts : c # b \/ details[b] # d})
         [] OTHER -> StandardPull(b, relevant # {b})
=============================================================================
