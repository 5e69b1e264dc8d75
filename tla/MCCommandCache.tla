--------------------------- MODULE MCCommandCache ---------------------------
(***************************************************************************)
(* The command cache on a small server: GitUpstreamData asks git itself,   *)
(* GitBranchUpstreamDetails runs it, GitGetObject is not cached.           *)
(***************************************************************************)
EXTENDS CommandCache, TLC

CONSTANTS GitUpstreamData, GitBranchUpstreamDetails, GitGetObject

MCCommands  == {GitUpstreamData, GitBranchUpstreamDetails, GitGetObject}
MCCacheable == {GitUpstreamData, GitBranchUpstreamDetails}
MCUses      == [c \in MCCommands |->
                  IF c = GitBranchUpstreamDetails THEN {GitUpstreamData} ELSE {}]

Symmetry == Permutations(Tasks) \cup Permutations(Fetchers)

=============================================================================
