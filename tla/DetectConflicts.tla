--------------------------- MODULE DetectConflicts ---------------------------
(***************************************************************************)
(* POST /api/git/detect-conflicts: which of the branches asked about are   *)
(* in conflict, and where the conflicts come from.                         *)
(*                                                                         *)
(* ConflictLocator follows a conflict between two branches to conflicts    *)
(* between their upstream branches, as far up as they go, through a        *)
(* dictionary of results that is filled while it recurses; a pair whose    *)
(* search is under way has an empty result already.                        *)
(*                                                                         *)
(* The calls of FindConflictsBetween under way are a stack; each takes the *)
(* pairs it compares in any order, and lists of upstream branches are sets *)
(* here.  A pair is the set of its branches, as BranchPair compares them.  *)
(* Every branch is one that the clone fetches.  What git says of a merge   *)
(* is data: the pairs that conflict, and those that no longer do once      *)
(* integration branches are merged into one of them first.                 *)
(***************************************************************************)
EXTENDS Upstreams, SequencesExt

CONSTANTS
    Repositories, \* the states the repository may be in
    Requests      \* the lists of branches that may be asked about, ordered

VARIABLES
    repo,     \* its configuration, the branches behind an upstream, what git can merge
    request,  \* getConflictDetailsBody.Branches.Order()
    stage,    \* how far the request is
    branches, \* the branches to be compared
    results,  \* context.Results
    calls,    \* the calls under way: their pair, the pairs still to look at, what was found
    answer    \* the status and the conflicts of the response

vars == <<repo, request, stage, branches, results, calls, answer>>

Pair     == {{a, b} : a, b \in Branches}
Conflict == [branches : Pair, hasConflict : BOOLEAN, integrations : SUBSET Branches]
Merge    == [branches : Pair, integrations : SUBSET Branches \ {{}}]

\* `local` are the branches git finds by their short names: none in a clone the
\* server made, those checked out in a clone of a developer's that it is given.
Repository ==
    [upstreams : Configuration, behind : SUBSET Branches, conflicts : SUBSET {p \in Pair : Cardinality(p) = 2},
     merging : SUBSET Merge, local : SUBSET Branches]
Call     == [pair : Pair \cup {{}}, todo : SUBSET Pair, found : SUBSET Conflict]
NoAnswer == [status |-> 0, conflicts |-> {}]
NoResults == [p \in {} |-> {}]

ASSUME RepositoriesAssumption ==
    IsFiniteSet(Branches) /\ Repositories \subseteq Repository /\ Requests \subseteq Seq(Branches)

GetImmediateUpstream(b) == repo.upstreams[b]

\* The branches in the order of their names.
Order(bs) == {s \in [1 .. Cardinality(bs) -> bs] : \A i, j \in DOMAIN s : i < j => s[i] < s[j]}

-----------------------------------------------------------------------------
(* GitDetectConflictsController.GetConflictDetails.                        *)

Init ==
    /\ repo \in Repositories
    /\ request = <<>> /\ branches = <<>>
    /\ stage = "idle"
    /\ results = NoResults /\ calls = <<>>
    /\ answer = NoAnswer

Ask ==
    /\ stage = "idle"
    /\ stage' = "asked"
    /\ request' \in Requests /\ branches' = request'
    /\ answer' = NoAnswer
    /\ UNCHANGED <<repo, results, calls>>

\* The response, an exception included, ends what is under way.
Answer(status, conflicts) ==
    /\ stage' = "idle"
    /\ answer' = [status |-> status, conflicts |-> conflicts]
    /\ results' = NoResults /\ calls' = <<>>
    /\ UNCHANGED <<repo, request>>

Throw == Answer(500, {})

\* One branch alone stands for its upstream branches, if it is configured.
Validate ==
    /\ stage = "asked"
    /\ branches' \in IF Len(request) = 1 /\ GetImmediateUpstream(request[1]) # {}
                     THEN Order(GetImmediateUpstream(request[1]))
                     ELSE {request}
    /\ IF Len(branches') < 2
       THEN Answer(400, {})
       ELSE /\ stage' = "validated"
            /\ UNCHANGED <<repo, request, results, calls, answer>>

\* GetRelevantBranches: the branches and all above them, but for what is above
\* all of them.
RelevantBranches(bs) ==
    (ToSet(bs) \cup UNION {AllUpstream(repo.upstreams, b) : b \in ToSet(bs)})
        \ CommonUpstream(repo.upstreams, ToSet(bs))

\* A mistake: the report of branches that are behind is not returned at once.
CheckUpToDateWithoutReturn ==
    /\ stage = "validated"
    /\ stage' = "upToDate"
    /\ answer' = [status    |-> IF RelevantBranches(branches) \cap repo.behind # {} THEN 409 ELSE 0,
                  conflicts |-> {}]
    /\ UNCHANGED <<repo, request, branches, results, calls>>

\* GetCommonUpstream makes a dictionary of the branches: it throws if one is
\* named twice.  Relevant branches behind an upstream branch are reported.
CheckUpToDate ==
    /\ stage = "validated"
    /\ UNCHANGED branches
    /\ IF Cardinality(ToSet(branches)) < Len(branches)
       THEN Throw
       ELSE IF RelevantBranches(branches) \cap repo.behind # {}
       THEN Answer(409, {})
       ELSE /\ stage' = "upToDate"
            /\ UNCHANGED <<repo, request, results, calls, answer>>

-----------------------------------------------------------------------------
(* ConflictLocator.                                                        *)

\* The branches that are made from just the two of the pair.
Resolving(pair) == {b \in ToSet(branches) : GetImmediateUpstream(b) = pair}

\* GatherInitialResolutions: a branch that is made from two others is taken as
\* the resolution of their conflict.
Resolution(pair) == {[branches |-> pair, hasConflict |-> FALSE, integrations |-> Resolving(pair)]}
ResolvedPairs == {p \in Pair : Cardinality(p) = 2 /\ Resolving(p) # {}}

\* The pairs of a left and a right branch that are compared.
ComparedPairs(left, right) ==
    {{a, b} : a \in left \ CommonUpstream(repo.upstreams, right),
              b \in right \ CommonUpstream(repo.upstreams, left)}

PairsAbove(pair) ==
    UNION {UNION {ComparedPairs(GetImmediateUpstream(a), GetImmediateUpstream(b)) : b \in pair \ {a}} : a \in pair}

\* FindConflictsWithin: each branch against those after it.
PairsWithin(bs) ==
    UNION {ComparedPairs({bs[i]}, {bs[j] : j \in i + 1 .. Len(bs)}) : i \in 1 .. Len(bs) - 1}

\* Results.Add throws for a second resolution of a pair.
FindConflictsWithin ==
    /\ stage = "upToDate"
    /\ UNCHANGED branches
    /\ IF \E p \in ResolvedPairs : Cardinality(Resolving(p)) > 1
       THEN Throw
       ELSE /\ stage' = "searching"
            /\ results' = [p \in ResolvedPairs |-> Resolution(p)]
            /\ calls' = <<[pair |-> {}, todo |-> PairsWithin(branches), found |-> {}]>>
            /\ UNCHANGED <<repo, request, answer>>

SetResult(pair, conflicts) ==
    [p \in DOMAIN results \cup {pair} |-> IF p = pair THEN conflicts ELSE results[p]]

\* FindConflictsBetween a pair, until it asks about the pairs above it.  A pair
\* of a branch and itself has no right branch, and GetCommonUpstream throws for
\* an empty list.
FindConflictsBetween(pair) ==
    LET call == [Last(calls) EXCEPT !.todo = @ \ {pair}]
    IN  /\ stage = "searching" /\ pair \in Last(calls).todo
        /\ UNCHANGED branches
        /\ \/ /\ pair \in DOMAIN results
              /\ calls' = Append(Front(calls), [call EXCEPT !.found = @ \cup results[pair]])
              /\ UNCHANGED <<repo, request, stage, results, answer>>
           \/ /\ pair \notin DOMAIN results
              /\ Cardinality(pair) = 2 /\ pair \notin repo.conflicts
              /\ results' = SetResult(pair, {})
              /\ calls' = Append(Front(calls), call)
              /\ UNCHANGED <<repo, request, stage, answer>>
           \/ /\ pair \notin DOMAIN results
              /\ Cardinality(pair) = 2 /\ pair \in repo.conflicts
              /\ \A b \in pair : GetImmediateUpstream(b) # {}
              /\ results' = SetResult(pair, {})
              /\ calls' = Append(Append(Front(calls), call), [pair |-> pair, todo |-> PairsAbove(pair), found |-> {}])
              /\ UNCHANGED <<repo, request, stage, answer>>
           \/ /\ pair \notin DOMAIN results
              /\ \/ Cardinality(pair) = 1
                 \/ pair \in repo.conflicts /\ \E b \in pair : GetImmediateUpstream(b) = {}
              /\ Throw

Return(conflicts) ==
    LET callers == Front(calls)
    IN  /\ results' = SetResult(Last(calls).pair, conflicts)
        /\ calls' = Append(Front(callers), [Last(callers) EXCEPT !.found = @ \cup conflicts])
        /\ UNCHANGED <<repo, request, stage, answer>>

Actual(conflicts) == {c \in conflicts : c.hasConflict}

\* The second attempt at a conflict no upstream branch accounts for: the
\* integration branches from above are merged into one branch of the pair, those
\* of them that git can merge, and the pair is tried again.  The integration
\* branches are named by their short names, which git may not know.
RetryWithIntegrations(call) ==
    LET included == UNION {c.integrations : c \in call.found}
        Tried(used) == [branches |-> call.pair, integrations |-> used,
                        hasConflict |-> [branches |-> call.pair, integrations |-> used] \notin repo.merging]
    IN  \/ included \subseteq repo.local /\ \E used \in SUBSET included : Return({Tried(used)})
        \/ ~(included \subseteq repo.local) /\ Throw

\* Two mistakes: the pair itself is always to blame, or never.
BlameThePair(call) == RetryWithIntegrations(call)
BlameOnlyUpstreams(call) == Return(Actual(call.found))

ActualOrRetry(call) ==
    IF Actual(call.found) # {} THEN Return(Actual(call.found)) ELSE RetryWithIntegrations(call)

EndPair ==
    /\ stage = "searching" /\ Len(calls) > 1 /\ Last(calls).todo = {}
    /\ ActualOrRetry(Last(calls))
    /\ UNCHANGED branches

EndSearch ==
    /\ stage = "searching" /\ Len(calls) = 1 /\ Last(calls).todo = {}
    /\ Answer(200, Actual(Last(calls).found))
    /\ UNCHANGED branches

Next ==
    \/ Ask \/ Validate \/ CheckUpToDate
    \/ FindConflictsWithin \/ EndPair \/ EndSearch
    \/ \E pair \in Pair : FindConflictsBetween(pair)

Spec == Init /\ [][Next]_vars

-----------------------------------------------------------------------------
TypeOK ==
    /\ repo \in Repository
    /\ request \in Seq(Branches) /\ branches \in Seq(Branches)
    /\ stage \in {"idle", "asked", "validated", "upToDate", "searching"}
    /\ DOMAIN results \subseteq Pair /\ \A p \in DOMAIN results : results[p] \subseteq Conflict
    /\ calls \in Seq(Call) /\ (calls # <<>> <=> stage = "searching")
    /\ answer \in [status : {0, 200, 400, 409, 500}, conflicts : SUBSET Conflict]
    /\ stage # "idle" => answer = NoAnswer

Reported == {c.branches : c \in answer.conflicts}
Above(b) == AllUpstream(repo.upstreams, b) \cup {b}

\* No branch is above itself.
Acyclic == \A b \in Branches : b \notin AllUpstream(repo.upstreams, b)

\* The pair r lies above the pair p.
Higher(r, p) ==
    \E a, b \in Branches :
        p = {a, b} /\ \E x \in AllUpstream(repo.upstreams, a), y \in AllUpstream(repo.upstreams, b) : r = {x, y}

\* The integration branches for a pair: the branches asked about that are made
\* from just the two of it, or of a pair above it.
Integrations(p) == UNION {Resolving(r) : r \in {q \in ResolvedPairs : q = p \/ Higher(q, p)}}

\* A conflict somebody has taken care of: one of the branches asked about is its
\* resolution, or it goes away once some of its integration branches are merged.
Integrated(p) ==
    \/ p \in ResolvedPairs
    \/ \E merge \in repo.merging : merge.branches = p /\ merge.integrations \subseteq Integrations(p)

\* Nothing is lost on the way up (FindConflictsWithin): a conflict between two
\* of the branches that nobody has taken care of is accounted for by a reported
\* conflict between the one, or what lies above it, and the other, or what lies
\* above that.
ConflictsAreExplained ==
    answer.status = 200 =>
        \A a, b \in ToSet(branches) :
            /\ {a, b} \in repo.conflicts /\ {a, b} \in ComparedPairs({a}, {b})
            /\ ~Integrated({a, b})
            => \E x \in Above(a), y \in Above(b) : {x, y} \in Reported

\* Conflicts are reported where they belong (FindConflictsBetween): unless
\* some branch is above itself, a reported pair is in conflict, and whatever
\* upstream branches of its two are in conflict, somebody has taken care of.
ConflictsAreMinimal ==
    answer.status = 200 /\ Acyclic =>
        \A pair \in Reported :
            pair \in repo.conflicts /\ \A p \in PairsAbove(pair) \cap repo.conflicts : Integrated(p)

\* A request for distinct branches gets one of the answers the API lists, 200,
\* 400 or 409.  Refuted: a conflict followed up to a branch with no upstream
\* branch, or to an upstream branch both sides have, ends in an exception.
AnswersAreListed == answer.status = 500 => Cardinality(ToSet(request)) < Len(request)

=============================================================================
