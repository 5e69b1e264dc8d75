----------------------------- MODULE QueryCache -----------------------------
(***************************************************************************)
(* The query cache of a page, as the branch page uses it (react-query with *)
(* staleTime Infinity, ui/src/main.tsx): what is cached, which loads are   *)
(* in flight, and what the server would answer at each moment.             *)
(*                                                                         *)
(* The server goes through Worlds, one per git fetch.  A world gives the   *)
(* upstream branches of each branch (up), the pairs of a branch and its    *)
(* upstream that it is behind or in conflict with (behind, conflict), the  *)
(* branches with commits of their own (unmerged) and the sets of branches  *)
(* in conflict (clash).                                                    *)
(***************************************************************************)
EXTENDS Upstreams, Sequences

CONSTANTS
    Worlds,
    MaxEvents          \* bound on fetches, failures and acts of the user together

WorldType ==
    [up : [Branches -> SUBSET Branches], behind : SUBSET (Branches \X Branches),
     conflict : SUBSET (Branches \X Branches), unmerged : SUBSET Branches, clash : SUBSET SUBSET Branches]

ASSUME WorldsAssumption == Worlds \in Seq(WorldType) \ {<<>>}
ASSUME EventsAssumption == MaxEvents \in Nat

VARIABLES
    world,     \* index in Worlds
    data,      \* query -> its data
    load,      \* query in flight -> <<>>, or <<answer>> if it was answered before a fetch
    invalid,   \* queries with data that was invalidated
    failed,    \* queries whose status is error
    events

cacheVars == <<world, data, load, invalid, failed, events>>

DetailsOf(branch) == <<"branch-details", branch>>
UpstreamData == <<"upstream-data">>
ConflictDetails(names) == <<"conflict-details", names>>

BranchDetails(w, b) ==
    [upstream |-> {[name |-> u, behind |-> <<b, u>> \in w.behind, conflict |-> <<b, u>> \in w.conflict] : u \in w.up[b]},
     downstream |-> {d \in Branches : b \in w.up[d]},
     unmerged |-> b \in w.unmerged]

Answer(w, q) ==
    CASE q[1] = "branch-details" -> BranchDetails(Worlds[w], q[2])
      [] q[1] = "upstream-data" -> Worlds[w].up
      [] q[1] = "conflict-details" -> \E i, j \in DOMAIN q[2] : {q[2][i], q[2][j]} \in Worlds[w].clash

HasData(q) == q \in DOMAIN data
Idle(q) == q \notin DOMAIN load
Fresh(q) == HasData(q) /\ q \notin invalid

Event == events < MaxEvents /\ events' = events + 1

(* Begin the loads of some queries, except those in flight.                *)
Begin(queries) ==
    /\ load' = [q \in DOMAIN load \cup queries |-> IF Idle(q) THEN <<>> ELSE load[q]]
    /\ failed' = failed \ {q \in queries : Idle(q)}

CacheInit ==
    /\ world = 1
    /\ data = [q \in {} |-> q] /\ load = [q \in {} |-> q]
    /\ invalid = {} /\ failed = {} /\ events = 0

(* A git fetch, and invalidateQueries when its message is received.  The   *)
(* observed queries are loaded again: a load in flight is cancelled for    *)
(* that only if the query has data.  Of the other loads in flight, some    *)
(* were answered before the fetch.                                         *)
Restarted(observed) == {q \in observed : Idle(q) \/ HasData(q)}

Fetch(observed) ==
    LET kept == DOMAIN load \ Restarted(observed)
        pending == {q \in kept : load[q] = <<>>}
    IN /\ Event /\ world < Len(Worlds)
       /\ world' = world + 1
       /\ invalid' = DOMAIN data
       /\ \E answered \in SUBSET pending :
            load' = [q \in kept \cup Restarted(observed) |->
                       IF q \in answered THEN <<Answer(world, q)>>
                       ELSE IF q \in kept THEN load[q] ELSE <<>>]
       /\ failed' = failed \ Restarted(observed)
       /\ UNCHANGED data

WithoutLoad(q) == [p \in DOMAIN load \ {q} |-> load[p]]

(* Data counts as fresh when it arrives, whenever it was answered.         *)
Arrive(q) ==
    /\ ~Idle(q)
    /\ data' = [p \in DOMAIN data \cup {q} |->
                  IF p # q THEN data[p] ELSE IF load[q] = <<>> THEN Answer(world, q) ELSE load[q][1]]
    /\ load' = WithoutLoad(q)
    /\ invalid' = invalid \ {q}
    /\ failed' = failed \ {q}
    /\ UNCHANGED <<world, events>>

(* The last retry of a load fails, if it has any.                          *)
LoadFails(q) ==
    /\ Event
    /\ ~Idle(q)
    /\ load' = WithoutLoad(q)
    /\ failed' = failed \cup {q}
    /\ UNCHANGED <<world, data, invalid>>

(* Data that was answered before a fetch and arrived after it, or whose    *)
(* loading failed: nothing loads it again until the next fetch.            *)
Lost(q) ==
    Idle(q) /\ (q \in failed \/ (Fresh(q) /\ data[q] # Answer(world, q)))
=============================================================================
