------------------------- MODULE MCDetectConflicts --------------------------
(***************************************************************************)
(* Five branches, 1 to 5 in the order of their names.  1 is at the top,    *)
(* 2 and 3 may be made from those before, 4 and 5 from the first three,    *)
(* 5 from no fewer than 4; or 2 and 3, and 4 and 5, are above each other.  *)
(* Up to two pairs of branches not above one another conflict, and a third *)
(* if a branch is made from just the two of it; one branch may be behind.  *)
(***************************************************************************)
EXTENDS DetectConflicts

MCBranches == 1 .. 5

MCConfigurations ==
    {c \in {<<{}, c2, c3, c4, c5>> :
               c2 \in SUBSET {1}, c3 \in SUBSET (1 .. 2), c4 \in SUBSET (1 .. 3), c5 \in SUBSET (1 .. 3)} :
        Cardinality(c[4]) <= Cardinality(c[5])}
      \cup {<<{}, {3}, {2}, {5}, {4}>>}

Unrelated(c) ==
    {{a, b} : <<a, b>> \in {p \in MCBranches \X MCBranches :
                              /\ p[1] < p[2]
                              /\ p[1] \notin AllUpstream(c, p[2])}}

MCConflicts(c) ==
    LET unrelated == Unrelated(c)
        resolved  == {c[b] : b \in MCBranches} \cap unrelated
    IN  {{p, q} : p, q \in unrelated} \cup {{p, q, r} : p, q \in unrelated, r \in resolved} \cup {{}}

\* What the retry can tell apart: whether git knows the integration branches by
\* their short names, and which of the other conflicts go away with them.
Resolvers(c, conflicts) == {b \in MCBranches : c[b] \in conflicts}

Merging(c, conflicts) ==
    {{[branches |-> p, integrations |-> used] : p \in merged, used \in SUBSET Resolvers(c, conflicts) \ {{}}} :
        merged \in SUBSET (conflicts \ {c[b] : b \in MCBranches})}

Clones(c, conflicts) ==
    {[upstreams |-> c, behind |-> {}, conflicts |-> conflicts, merging |-> {}, local |-> {}]}
      \cup IF Resolvers(c, conflicts) = {} THEN {}
           ELSE {[upstreams |-> c, behind |-> {}, conflicts |-> conflicts, merging |-> merging, local |-> MCBranches] :
                    merging \in Merging(c, conflicts)}

RepositoriesWith(configurations) ==
    UNION {UNION {Clones(c, conflicts) : conflicts \in MCConflicts(c)}
             \cup {[upstreams |-> c, behind |-> {3}, conflicts |-> {}, merging |-> {}, local |-> {}]} :
             c \in configurations}

MCRepositories == RepositoriesWith(MCConfigurations)

\* Repositories in which no branch is made from two others.
Trees == RepositoriesWith({c \in MCConfigurations : \A b \in MCBranches : Cardinality(c[b]) < 2})

MCRequests == {<<5>>, <<3, 3>>, <<4, 5>>, <<3, 4, 5>>, <<1, 2, 4>>}

=============================================================================
