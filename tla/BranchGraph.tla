----------------------------- MODULE BranchGraph -----------------------------
(***************************************************************************)
(* The nodes and links of the branch graph (ui/src/components/branch-graph)*)
(* as its data is replaced.  Nodes and links are objects that the force    *)
(* simulation moves, so an update keeps the object of a branch that stays. *)
(* A name is the sequence of its parts, which dashes separate.             *)
(***************************************************************************)
EXTENDS Naturals, Sequences, FiniteSets, Subsequences

CONSTANTS
    Data,              \* the values of upstreamData: sequences of [name, down, up]
    PerNode,           \* maxUnknownBranchPerNodeCount
    MaxUnknown,        \* maxUnknownBranchCount
    Tolerance,         \* branchCountTolerance
    MaxUpdates         \* bound on the updates, which number the objects

Name == Seq(STRING)
ASSUME DataAssumption == Data \subseteq Seq([name : Name, down : Seq(Name), up : Seq(Name)])
ASSUME LimitsAssumption == {PerNode, MaxUnknown, Tolerance, MaxUpdates} \subseteq Nat

VARIABLES
    data,     \* upstreamData at the last render
    nodes,    \* simulation.nodes(): [name, born], born being the update that created it
    links,    \* linkForce.links(), a set of [id, source, target]
    memo,     \* node -> [up, down], what forceHierarchy has looked up
    updates,
    clash     \* history: two links of one update, or of successive ones, had the same id

graphVars == <<data, nodes, links, memo, updates, clash>>

Names(d) == {d[i].name : i \in DOMAIN d}

(* The keys of configsByName, in the order in which each is first set: the *)
(* page of a branch passes it three times.                                 *)
ConfigsByName(d) ==
    LET first == {i \in DOMAIN d : \A j \in 1..(i - 1) : d[j].name # d[i].name}
        kept == Only([i \in DOMAIN d |-> i], first)
    IN [k \in DOMAIN kept |-> d[kept[k]].name]

NoMemo == [n \in {} |-> n]

-----------------------------------------------------------------------------
(* toLookups: branches that the data mentions but does not describe are    *)
(* shown up to a number per branch and a number in all, or not at all.     *)
(* before has those added for the branches before.                         *)
TryAddUnknownBranch(d, before, extra, b) ==
    IF \/ b \in Names(d) \cup ToSet(extra)
       \/ Len(extra) >= MaxUnknown
       \/ Len(extra) - Len(before) >= PerNode
    THEN extra
    ELSE Append(extra, b)

UnknownOf(d, before, mentioned) ==
    LET extra[k \in 0..Len(mentioned)] ==
          IF k = 0 THEN before ELSE TryAddUnknownBranch(d, before, extra[k - 1], mentioned[k])
    IN extra[Len(mentioned)]

ExtraBranches(d) ==
    LET extra[i \in 0..Len(d)] == IF i = 0 THEN <<>> ELSE UnknownOf(d, extra[i - 1], d[i].down \o d[i].up)
    IN extra[Len(d)]

DataLookupUpToTolerance(d) ==
    LET known == ConfigsByName(d)
        extra == ExtraBranches(d)
    IN IF Len(d) + Len(extra) <= Tolerance THEN known \o extra ELSE known

DataLookup(d) ==
    LET known == ConfigsByName(d)
        extra == ExtraBranches(d)
    IN IF Len(d) + Len(extra) < Tolerance THEN known \o extra ELSE known

(* tryAddLink: the pairs of an upstream and a downstream branch.           *)
ConfiguredLinks(d) ==
    UNION {({c.name} \X ToSet(c.down)) \cup (ToSet(c.up) \X {c.name}) : c \in ToSet(d)}

NodeAnew(name) == [name |-> name, born |-> updates + 1]

(* findOrCreate                                                            *)
NodeFor(name) ==
    IF \E n \in ToSet(nodes) : n.name = name
    THEN CHOOSE n \in ToSet(nodes) : n.name = name
    ELSE [name |-> name, born |-> updates + 1]

NodesOf(d) == LET names == DataLookup(d) IN [i \in DOMAIN names |-> NodeFor(names[i])]

(* `${entry.downstream}-${entry.upstream}`                                 *)
LinkId(up, down) == down \o up

(* A link that is found keeps the source and target it was created with.   *)
(* There may be several only after a clash.                                *)
LinkFor(source, target) ==
    LET id == LinkId(source.name, target.name)
    IN IF \E l \in links : l.id = id
       THEN CHOOSE l \in links : l.id = id
       ELSE [id |-> id, source |-> source, target |-> target]

(* Links with an end that is not displayed are left out.                   *)
LinksOf(d, newNodes) ==
    LET node(name) == CHOOSE n \in ToSet(newNodes) : n.name = name
        names == {n.name : n \in ToSet(newNodes)}
    IN {LinkFor(node(p[1]), node(p[2])) : p \in ConfiguredLinks(d) \cap (names \X names)}

(* hierarchyForce.links forgets what was looked up in the links before.    *)
MemoKept == memo
MemoCleared == NoMemo

(* updateNodes                                                             *)
Update(d) ==
    /\ updates < MaxUpdates
    /\ updates' = updates + 1
    /\ data' = d
    /\ nodes' = NodesOf(d)
    /\ links' = LinksOf(d, nodes')
    /\ memo' = MemoCleared
    /\ clash' = (clash \/ \E p \in ConfiguredLinks(d), q \in ConfiguredLinks(d) \cup ConfiguredLinks(data) :
                              p # q /\ LinkId(p[1], p[2]) = LinkId(q[1], q[2]))

-----------------------------------------------------------------------------
(* The pass of forceHierarchy over the nodes, in their order.  It looks up *)
(* the neighbours of a node once per update, and ends at the first node    *)
(* that has none.                                                          *)
Neighbours(n) ==
    [up |-> {l.source : l \in {k \in links : k.target = n}},
     down |-> {l.target : l \in {k \in links : k.source = n}}]

Lookup(n) == IF n \in DOMAIN memo THEN memo[n] ELSE Neighbours(n)

ForceHierarchy ==
    LET alone == {i \in DOMAIN nodes : Lookup(nodes[i]) = [up |-> {}, down |-> {}]}
        visited == {i \in DOMAIN nodes : \A j \in alone : i <= j}
    IN /\ memo' = [n \in DOMAIN memo \cup {nodes[i] : i \in visited} |-> Lookup(n)]
       /\ UNCHANGED <<data, nodes, links, updates, clash>>

GraphInit ==
    /\ data = <<>> /\ nodes = <<>> /\ links = {}
    /\ memo = NoMemo /\ updates = 0 /\ clash = FALSE
-----------------------------------------------------------------------------
(* However often the data was replaced, with branches gone and back again, *)
(* each link joins two of the objects that are displayed, and those of the *)
(* branches that the data links; and no link of the data between displayed *)
(* branches is missing.  Names whose parts make the same id are left out.   *)
LinksJoinTheirBranches ==
    LET shown == {n.name : n \in ToSet(nodes)}
    IN ~clash =>
         /\ \A l \in links : {l.source, l.target} \subseteq ToSet(nodes)
         /\ {<<l.source.name, l.target.name>> : l \in links} = ConfiguredLinks(data) \cap (shown \X shown)

(* What is displayed stays within the limits: every branch of the data is  *)
(* there, once; others are linked to one of the data, at most PerNode that *)
(* only it links to, at most MaxUnknown in all, and none in a large graph. *)
NodesAreLimited ==
    LET shown == {n.name : n \in ToSet(nodes)}
        unknown == shown \ Names(data)
        linkedTo(i) == ToSet(data[i].up \o data[i].down) \cap unknown
    IN /\ Cardinality(shown) = Len(nodes) /\ Names(data) \subseteq shown
       /\ Cardinality(unknown) <= MaxUnknown
       /\ unknown # {} => Len(nodes) < Tolerance
       /\ unknown \subseteq UNION {linkedTo(i) : i \in DOMAIN data}
       /\ \A i \in DOMAIN data :
            Cardinality(linkedTo(i) \ UNION {linkedTo(j) : j \in DOMAIN data \ {i}}) <= PerNode

(* What the hierarchy has looked up about a node are its neighbours in the *)
(* data on display, not those in data that was replaced.                   *)
HierarchyIsCurrent == \A n \in DOMAIN memo : memo[n] = Neighbours(n)
=============================================================================
