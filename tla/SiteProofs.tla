----------------------------- MODULE SiteProofs -----------------------------
(***************************************************************************)
(* The graph of the branches and the page of their conflicts for any data, *)
(* any analyses and any number of acts: one frame at a time draws what     *)
(* moves, links join the objects on display, and the selectors show the    *)
(* choice made last.                                                       *)
(***************************************************************************)
EXTENDS Site, SubsequenceProofs

-----------------------------------------------------------------------------
\* The nodes and links.  Objects are told apart by the names of their branches,
\* and a link by its id, as long as no two pairs of branches have the same id.
LinksInv ==
    /\ \A m, n \in ToSet(nodes) : m.name = n.name => m = n
    /\ \A l \in links : l.id = LinkId(l.source.name, l.target.name)
    /\ LinksJoinTheirBranches

\* The object for a name has that name, and is the displayed one if there is one.
LEMMA NodeForName ==
    ASSUME NEW name
    PROVE  /\ NodeFor(name).name = name
           /\ NodeFor(name) \in ToSet(nodes) \/ \A n \in ToSet(nodes) : n.name # name
  BY DEF NodeFor

LEMMA NodesOfData ==
    ASSUME NEW d, NEW n \in ToSet(NodesOf(d))
    PROVE  n = NodeFor(n.name)
<1> DEFINE names == DataLookup(d)
<1>1. NodesOf(d) = [i \in DOMAIN names |-> NodeFor(names[i])]
  BY DEF NodesOf
<1> HIDE DEF names
<1>2. PICK i \in DOMAIN names : n = NodeFor(names[i])
  BY <1>1 DEF ToSet
<1> QED
  BY <1>2, NodeForName

\* A link that is found joins the objects that a new one would.
LEMMA LinkForJoins ==
    ASSUME LinksInv, ~clash,
           NEW source, NEW target,
           source = NodeFor(source.name), target = NodeFor(target.name),
           \A q \in ConfiguredLinks(data) :
               LinkId(q[1], q[2]) = LinkId(source.name, target.name) => q = <<source.name, target.name>>
    PROVE  LinkFor(source, target).source = source /\ LinkFor(source, target).target = target
<1> DEFINE id == LinkId(source.name, target.name)
<1>1. CASE ~\E l \in links : l.id = id
  BY <1>1 DEF LinkFor
<1>2. CASE \E l \in links : l.id = id
  <2> DEFINE l == CHOOSE k \in links : k.id = id
  <2>1. LinkFor(source, target) = l /\ l \in links /\ l.id = id
    BY <1>2 DEF LinkFor
  <2> HIDE DEF l
  <2>2. /\ <<l.source.name, l.target.name>> \in ConfiguredLinks(data)
        /\ l.source \in ToSet(nodes) /\ l.target \in ToSet(nodes)
        /\ l.id = LinkId(l.source.name, l.target.name)
    BY <2>1, Zenon DEF LinksInv, LinksJoinTheirBranches
  <2>3. l.source.name = source.name /\ l.target.name = target.name
    <3> DEFINE q == <<l.source.name, l.target.name>>
    <3>1. q[1] = l.source.name /\ q[2] = l.target.name
      OBVIOUS
    <3>2. q = <<source.name, target.name>>
      BY <2>1, <2>2, <3>1
    <3> QED
      BY <3>2
  <2>4. l.source = NodeFor(source.name) /\ l.target = NodeFor(target.name)
    BY <2>2, <2>3, NodeForName DEF LinksInv
  <2> QED
    BY <2>1, <2>4
<1> QED
  BY <1>1, <1>2

LEMMA LinkForId ==
    ASSUME LinksInv, NEW source, NEW target
    PROVE  LET l == LinkFor(source, target) IN l.id = LinkId(l.source.name, l.target.name)
  BY DEF LinkFor, LinksInv

LEMMA UpdateStep ==
    ASSUME LinksInv, NEW d, Update(d)
    PROVE  LinksInv'
<1> DEFINE new == ToSet(nodes')
           names == {n.name : n \in new}
           node(name) == CHOOSE n \in new : n.name = name
           pairs == ConfiguredLinks(d) \cap (names \X names)
<1>1. data' = d /\ nodes' = NodesOf(d) /\ links' = {LinkFor(node(p[1]), node(p[2])) : p \in pairs}
  BY DEF Update, LinksOf
<1>2. \A n \in new : n = NodeFor(n.name)
  BY <1>1, NodesOfData
<1>3. \A name \in names : node(name) \in new /\ node(name).name = name
  OBVIOUS
<1> HIDE DEF node
<1>4. \A l \in links' : l.id = LinkId(l.source.name, l.target.name)
  BY <1>1, LinkForId
<1>5. ASSUME ~clash', NEW p \in pairs
      PROVE  /\ LinkFor(node(p[1]), node(p[2])).source = node(p[1])
             /\ LinkFor(node(p[1]), node(p[2])).target = node(p[2])
             /\ node(p[1]) \in new /\ node(p[2]) \in new
             /\ p = <<node(p[1]).name, node(p[2]).name>>
  <2>1. p = <<p[1], p[2]>> /\ p[1] \in names /\ p[2] \in names
    OBVIOUS
  <2>2. /\ node(p[1]) \in new /\ node(p[1]).name = p[1] /\ node(p[1]) = NodeFor(p[1])
        /\ node(p[2]) \in new /\ node(p[2]).name = p[2] /\ node(p[2]) = NodeFor(p[2])
    BY <1>2, <1>3, <2>1
  <2>3. ~clash /\ \A q \in ConfiguredLinks(data) :
                     LinkId(q[1], q[2]) = LinkId(p[1], p[2]) => q = p
    BY <1>5 DEF Update
  <2> QED
    BY <2>1, <2>2, <2>3, LinkForJoins
<1>6. LinksJoinTheirBranches'
  <2> SUFFICES ASSUME ~clash'
               PROVE  /\ \A l \in links' : {l.source, l.target} \subseteq new
                      /\ {<<l.source.name, l.target.name>> : l \in links'} = pairs
    BY <1>1 DEF LinksJoinTheirBranches
  <2>1. \A l \in links' : {l.source, l.target} \subseteq new
    BY <1>1, <1>5
  <2>2. {<<l.source.name, l.target.name>> : l \in links'} \subseteq pairs
    BY <1>1, <1>5
  <2>3. ASSUME NEW p \in pairs PROVE p \in {<<l.source.name, l.target.name>> : l \in links'}
    BY <1>1, <1>5, <2>3
  <2> QED
    BY <2>1, <2>2, <2>3
<1> QED
  BY <1>2, <1>4, <1>6 DEF LinksInv

-----------------------------------------------------------------------------
\* The limits on what is displayed.
Config == [name : Name, down : Seq(Name), up : Seq(Name)]

LEMMA DataType ==
    ASSUME NEW d \in Data
    PROVE  /\ d \in Seq(Config) /\ Len(d) \in Nat /\ DOMAIN d = 1..Len(d)
           /\ \A i \in DOMAIN d : d[i] \in Config /\ d[i].name \in Name
<1>1. d \in Seq(Config)
  BY DataAssumption DEF Config
<1>2. Len(d) \in Nat /\ DOMAIN d = 1..Len(d) /\ \A i \in DOMAIN d : d[i] \in Config
  BY <1>1
<1>3. \A c \in Config : c.name \in Name
  BY DEF Config
<1> QED
  BY <1>1, <1>2, <1>3

\* Every name of the data is a key of configsByName, once.
LEMMA ConfigNames ==
    ASSUME NEW d \in Data
    PROVE  /\ ConfigsByName(d) \in Seq(Name) /\ IsInjective(ConfigsByName(d))
           /\ ToSet(ConfigsByName(d)) = Names(d) /\ Len(ConfigsByName(d)) <= Len(d)
<1> DEFINE first == {i \in DOMAIN d : \A j \in 1..(i - 1) : d[j].name # d[i].name}
           ids == [i \in DOMAIN d |-> i]
           kept == Only(ids, first)
           names == [k \in DOMAIN kept |-> d[kept[k]].name]
<1>1. Len(d) \in Nat /\ DOMAIN d = 1..Len(d) /\ \A i \in DOMAIN d : d[i].name \in Name
  BY DataType
<1>2. ids \in Seq(Nat) /\ Len(ids) = Len(d) /\ ToSet(ids) = DOMAIN d /\ IsInjective(ids)
  <2>1. ids \in Seq(Nat) /\ Len(ids) = Len(d) /\ DOMAIN ids = DOMAIN d
    BY <1>1
  <2> QED
    BY <2>1 DEF ToSet, IsInjective
<1>3. /\ kept \in Seq(Nat) /\ ToSet(kept) = first /\ Len(kept) <= Len(d) /\ IsInjective(kept)
  <2> HIDE DEF ids, first
  <2>1. /\ kept \in Seq(Nat) /\ ToSet(kept) = ToSet(ids) \cap first /\ Len(kept) <= Len(ids)
        /\ IsInjective(kept)
    BY <1>2, OnlyProperties
  <2>2. first \subseteq DOMAIN d
    BY DEF first
  <2> QED
    BY <1>2, <2>1, <2>2
<1>4. Len(kept) \in Nat /\ DOMAIN kept = 1..Len(kept) /\ \A k \in DOMAIN kept : kept[k] \in first
  <2> HIDE DEF kept, first
  <2> QED
    BY <1>3 DEF ToSet
<1>5. ConfigsByName(d) = names
  BY DEF ConfigsByName
<1> HIDE DEF kept
<1>6. names \in Seq(Name) /\ Len(names) = Len(kept) /\ DOMAIN names = DOMAIN kept
  BY <1>1, <1>4
<1>7. IsInjective(names)
  <2>1. \A i, j \in first : d[i].name = d[j].name => i = j
    BY <1>1
  <2>2. \A k, l \in DOMAIN kept : names[k] = names[l] => kept[k] = kept[l]
    BY <1>4, <2>1
  <2> QED
    BY <1>3, <1>6, <2>2 DEF IsInjective
<1>8. ToSet(names) = Names(d)
  <2>1. ASSUME NEW i \in DOMAIN d PROVE \E j \in first : d[j].name = d[i].name
    <3> DEFINE same == {j \in DOMAIN d : d[j].name = d[i].name}
    <3>1. same \in SUBSET Nat /\ same # {}
      BY <1>1
    <3>2. PICK j \in same : \A k \in same : j <= k
      <4> HIDE DEF same
      <4> QED
        BY <3>1, LeastElement
    <3>3. j \in first
      BY <1>1, <3>2
    <3> QED
      BY <3>2, <3>3
  <2>2. \A j \in first : \E k \in DOMAIN kept : kept[k] = j
    BY <1>3 DEF ToSet
  <2>3. Names(d) \subseteq ToSet(names)
    <3> SUFFICES ASSUME NEW i \in DOMAIN d PROVE d[i].name \in ToSet(names)
      BY DEF Names
    <3>1. PICK k \in DOMAIN kept : d[kept[k]].name = d[i].name
      BY <2>1, <2>2
    <3> QED
      BY <1>6, <3>1 DEF ToSet
  <2>4. ToSet(names) \subseteq Names(d)
    BY <1>4, <1>6 DEF ToSet, Names
  <2> QED
    BY <2>3, <2>4
<1> QED
  BY <1>3, <1>5, <1>6, <1>7, <1>8

\* The unknown branches found so far, when those before were found for other
\* branches of the data.
Unknown(d, extra) ==
    /\ extra \in Seq(Name) /\ IsInjective(extra) /\ Len(extra) <= MaxUnknown
    /\ ToSet(extra) \cap Names(d) = {}

Added(before, mentioned, extra) ==
    /\ ToSet(before) \subseteq ToSet(extra)
    /\ ToSet(extra) \subseteq ToSet(before) \cup ToSet(mentioned)
    /\ Len(extra) - Len(before) <= PerNode

LEMMA TryAddStep ==
    ASSUME NEW d, NEW before \in Seq(Name), NEW mentioned, NEW extra, NEW b \in ToSet(mentioned) \cap Name,
           Unknown(d, extra), Added(before, mentioned, extra)
    PROVE  LET e == TryAddUnknownBranch(d, before, extra, b) IN Unknown(d, e) /\ Added(before, mentioned, e)
<1> DEFINE e == TryAddUnknownBranch(d, before, extra, b)
<1>1. CASE e = extra
  BY <1>1
<1>2. CASE e # extra
  <2>1. /\ e = Append(extra, b) /\ b \notin Names(d) /\ b \notin ToSet(extra)
        /\ ~(Len(extra) >= MaxUnknown) /\ ~(Len(extra) - Len(before) >= PerNode)
    BY <1>2 DEF TryAddUnknownBranch
  <2>2. /\ e \in Seq(Name) /\ ToSet(e) = ToSet(extra) \cup {b} /\ IsInjective(e)
    BY <2>1, AppendElements DEF Unknown
  <2>3. Len(e) = Len(extra) + 1 /\ Len(extra) \in Nat /\ Len(before) \in Nat
    BY <2>1 DEF Unknown
  <2>4. Len(e) <= MaxUnknown /\ Len(e) - Len(before) <= PerNode
    BY <2>1, <2>3, LimitsAssumption
  <2> QED
    BY <2>1, <2>2, <2>4 DEF Unknown, Added
<1> QED
  BY <1>1, <1>2

\* The recursion over what a branch of the data mentions.
LEMMA UnknownOfDefined ==
    ASSUME NEW d, NEW before, NEW mentioned \in Seq(Name)
    PROVE  \E f : /\ f[0] = before
                  /\ \A n \in Nat : n + 1 <= Len(mentioned) =>
                       f[n + 1] = TryAddUnknownBranch(d, before, f[n], mentioned[n + 1])
                  /\ UnknownOf(d, before, mentioned) = f[Len(mentioned)]
<1> DEFINE Body(f, n) == [k \in 0..n |->
                            IF k = 0 THEN before
                            ELSE TryAddUnknownBranch(d, before, f[k - 1], mentioned[k])]
           h == CHOOSE f : f = Body(f, Len(mentioned))
           G == {n \in Nat : \E f : f = Body(f, n)}
<1>1. UnknownOf(d, before, mentioned) = h[Len(mentioned)]
  BY DEF UnknownOf
<1>2. Len(mentioned) \in Nat
  OBVIOUS
<1>3. 0 \in G
  <2>1. [k \in 0..0 |-> before] = Body([k \in 0..0 |-> before], 0)
    OBVIOUS
  <2> QED
    BY <2>1
<1>4. ASSUME NEW n \in Nat, n \in G PROVE n + 1 \in G
  <2>1. PICK f : f = Body(f, n)
    BY <1>4
  <2> DEFINE g == [k \in 0..(n + 1) |->
                    IF k <= n THEN f[k] ELSE TryAddUnknownBranch(d, before, f[n], mentioned[n + 1])]
  <2>2. \A k \in 0..n : f[k] = Body(f, n)[k]
    <3> HIDE DEF Body
    <3> QED
      BY <2>1
  <2> DEFINE last == TryAddUnknownBranch(d, before, f[n], mentioned[n + 1])
  <2>3. \A k \in 0..n : g[k] = f[k]
    OBVIOUS
  <2>4. g[n + 1] = last
    OBVIOUS
  <2>5. Body(g, n + 1)[n + 1] = last
    BY <2>3
  <2>6. \A k \in 0..n : Body(g, n + 1)[k] = f[k]
    BY <2>2, <2>3
  <2>7. \A k \in 0..(n + 1) : g[k] = Body(g, n + 1)[k]
    <3> HIDE DEF g, Body, last
    <3> QED
      BY <2>3, <2>4, <2>5, <2>6
  <2>8. g = Body(g, n + 1)
    BY <2>7
  <2> HIDE DEF Body, g
  <2> QED
    BY <2>8
<1>5. Len(mentioned) \in G
  <2> HIDE DEF G
  <2> QED
    BY <1>2, <1>3, <1>4, SetInduction
<1>6. h = Body(h, Len(mentioned))
  <2> HIDE DEF Body
  <2> QED
    BY <1>5
<1>7. \A k \in 0..Len(mentioned) : h[k] = Body(h, Len(mentioned))[k]
  <2> HIDE DEF Body, h
  <2> QED
    BY <1>6
<1> HIDE DEF h
<1>8. /\ h[0] = before
      /\ \A n \in Nat : n + 1 <= Len(mentioned) =>
           h[n + 1] = TryAddUnknownBranch(d, before, h[n], mentioned[n + 1])
  BY <1>2, <1>7
<1> QED
  BY <1>1, <1>2, <1>8

LEMMA UnknownOfLimits ==
    ASSUME NEW d, NEW before, Unknown(d, before), NEW mentioned \in Seq(Name)
    PROVE  LET extra == UnknownOf(d, before, mentioned)
           IN  Unknown(d, extra) /\ Added(before, mentioned, extra)
<1> DEFINE extra == UnknownOf(d, before, mentioned)
<1>1. mentioned \in Seq(Name)
  OBVIOUS
<1>2. PICK f : /\ f[0] = before
               /\ \A n \in Nat : n + 1 <= Len(mentioned) =>
                    f[n + 1] = TryAddUnknownBranch(d, before, f[n], mentioned[n + 1])
               /\ extra = f[Len(mentioned)]
  BY UnknownOfDefined
<1> HIDE DEF extra
<1> DEFINE P(n) == Unknown(d, f[n]) /\ Added(before, mentioned, f[n])
           G == {n \in Nat : n <= Len(mentioned) => P(n)}
<1>3. P(0)
  <2>1. Len(before) \in Nat
    BY DEF Unknown
  <2>2. Len(before) - Len(before) <= PerNode
    BY <2>1, LimitsAssumption
  <2> QED
    BY <1>2, <2>2 DEF Added
<1>4. ASSUME NEW n \in Nat, P(n), n + 1 <= Len(mentioned) PROVE P(n + 1)
  <2>1. mentioned[n + 1] \in ToSet(mentioned) \cap Name
    BY <1>1, <1>4 DEF ToSet
  <2>2. f[n + 1] = TryAddUnknownBranch(d, before, f[n], mentioned[n + 1])
    BY <1>2, <1>4
  <2>3. before \in Seq(Name)
    BY DEF Unknown
  <2> QED
    BY <1>4, <2>1, <2>2, <2>3, TryAddStep
<1> HIDE DEF P
<1>5. Len(mentioned) \in G
  <2>1. ASSUME NEW n \in Nat, n \in G PROVE n + 1 \in G
    <3>1. Len(mentioned) \in Nat
      BY <1>1
    <3>2. CASE n + 1 <= Len(mentioned)
      BY <2>1, <3>1, <3>2, <1>4
    <3>3. CASE ~(n + 1 <= Len(mentioned))
      BY <3>3
    <3> QED
      BY <3>2, <3>3
  <2>2. 0 \in G
    BY <1>3
  <2>3. Len(mentioned) \in Nat
    BY <1>1
  <2> HIDE DEF G
  <2> QED
    BY <2>1, <2>2, <2>3, SetInduction
<1>6. P(Len(mentioned))
  BY <1>1, <1>5
<1> QED
  BY <1>2, <1>6 DEF P, extra

\* The recursion over the data.
LEMMA ExtraDefined ==
    ASSUME NEW d, Len(d) \in Nat
    PROVE  \E f : /\ f[0] = <<>>
                  /\ \A n \in Nat : n + 1 <= Len(d) =>
                       f[n + 1] = UnknownOf(d, f[n], d[n + 1].down \o d[n + 1].up)
                  /\ ExtraBranches(d) = f[Len(d)]
<1> DEFINE Body(f, n) == [k \in 0..n |->
                            IF k = 0 THEN <<>>
                            ELSE UnknownOf(d, f[k - 1], d[k].down \o d[k].up)]
           h == CHOOSE f : f = Body(f, Len(d))
           G == {n \in Nat : \E f : f = Body(f, n)}
<1>1. ExtraBranches(d) = h[Len(d)]
  BY DEF ExtraBranches
<1>2. Len(d) \in Nat
  OBVIOUS
<1>3. 0 \in G
  <2>1. [k \in 0..0 |-> <<>>] = Body([k \in 0..0 |-> <<>>], 0)
    OBVIOUS
  <2> QED
    BY <2>1
<1>4. ASSUME NEW n \in Nat, n \in G PROVE n + 1 \in G
  <2>1. PICK f : f = Body(f, n)
    BY <1>4
  <2> DEFINE g == [k \in 0..(n + 1) |->
                    IF k <= n THEN f[k] ELSE UnknownOf(d, f[n], d[n + 1].down \o d[n + 1].up)]
  <2>2. \A k \in 0..n : f[k] = Body(f, n)[k]
    <3> HIDE DEF Body
    <3> QED
      BY <2>1
  <2> DEFINE last == UnknownOf(d, f[n], d[n + 1].down \o d[n + 1].up)
  <2>3. \A k \in 0..n : g[k] = f[k]
    OBVIOUS
  <2>4. g[n + 1] = last
    OBVIOUS
  <2>5. Body(g, n + 1)[n + 1] = last
    BY <2>3
  <2>6. \A k \in 0..n : Body(g, n + 1)[k] = f[k]
    BY <2>2, <2>3
  <2>7. \A k \in 0..(n + 1) : g[k] = Body(g, n + 1)[k]
    <3> HIDE DEF g, Body, last
    <3> QED
      BY <2>3, <2>4, <2>5, <2>6
  <2>8. g = Body(g, n + 1)
    BY <2>7
  <2> HIDE DEF Body, g
  <2> QED
    BY <2>8
<1>5. Len(d) \in G
  <2> HIDE DEF G
  <2> QED
    BY <1>2, <1>3, <1>4, SetInduction
<1>6. h = Body(h, Len(d))
  <2> HIDE DEF Body
  <2> QED
    BY <1>5
<1>7. \A k \in 0..Len(d) : h[k] = Body(h, Len(d))[k]
  <2> HIDE DEF Body, h
  <2> QED
    BY <1>6
<1> HIDE DEF h
<1>8. /\ h[0] = <<>>
      /\ \A n \in Nat : n + 1 <= Len(d) =>
           h[n + 1] = UnknownOf(d, h[n], d[n + 1].down \o d[n + 1].up)
  BY <1>2, <1>7
<1> QED
  BY <1>1, <1>2, <1>8

LEMMA MentionedType ==
    ASSUME NEW c \in Config
    PROVE  c.down \o c.up \in Seq(Name) /\ ToSet(c.down \o c.up) = ToSet(c.up \o c.down)
<1>1. c.down \in Seq(Name) /\ c.up \in Seq(Name)
  BY DEF Config
<1> DEFINE down == c.down
           up == c.up
<1>2. down \in Seq(Name) /\ up \in Seq(Name)
  BY <1>1
<1> HIDE DEF down, up
<1>3. /\ down \o up \in Seq(Name) /\ ToSet(down \o up) = ToSet(down) \cup ToSet(up)
      /\ ToSet(up \o down) = ToSet(up) \cup ToSet(down)
  BY <1>2, ConcatElements
<1> QED
  BY <1>3 DEF down, up

\* What was found for one branch of the data is as much as the sequence grew.
LEMMA AddedCount ==
    ASSUME NEW d, NEW before, NEW mentioned, NEW extra,
           Unknown(d, before), Unknown(d, extra), Added(before, mentioned, extra),
           NEW alone \in SUBSET (ToSet(extra) \ ToSet(before))
    PROVE  Cardinality(alone) <= PerNode
<1> DEFINE new == ToSet(extra) \ ToSet(before)
<1>1. /\ IsFiniteSet(ToSet(before)) /\ Cardinality(ToSet(before)) = Len(before)
      /\ IsFiniteSet(ToSet(extra)) /\ Cardinality(ToSet(extra)) = Len(extra)
  BY ElementCount DEF Unknown
<1>2. ToSet(extra) \cap ToSet(before) = ToSet(before)
  BY DEF Added
<1>3. IsFiniteSet(new) /\ Cardinality(new) = Len(extra) - Len(before)
  <2>1. /\ IsFiniteSet(new)
        /\ Cardinality(new) = Cardinality(ToSet(extra)) - Cardinality(ToSet(extra) \cap ToSet(before))
    BY <1>1, FS_Difference
  <2> HIDE DEF new
  <2> QED
    BY <1>1, <1>2, <2>1
<1>4. IsFiniteSet(alone) /\ Cardinality(alone) <= Cardinality(new)
  <2> HIDE DEF new
  <2>1. alone \in SUBSET new
    BY DEF new
  <2> QED
    BY <1>3, <2>1, FS_Subset
<1>5. Cardinality(alone) \in Nat
  BY <1>4, FS_CardinalityType
<1>6. Len(extra) \in Nat /\ Len(before) \in Nat /\ PerNode \in Nat
  BY LimitsAssumption DEF Unknown
<1> HIDE DEF new
<1> QED
  BY <1>3, <1>4, <1>5, <1>6 DEF Added

LEMMA ExtraLimits ==
    ASSUME NEW d \in Data
    PROVE  /\ Unknown(d, ExtraBranches(d))
           /\ \A x \in ToSet(ExtraBranches(d)) : \E i \in DOMAIN d : x \in ToSet(d[i].up \o d[i].down)
           /\ \A i \in DOMAIN d : \A alone \in SUBSET ToSet(ExtraBranches(d)) :
                 (\A j \in DOMAIN d \ {i} : alone \cap ToSet(d[j].up \o d[j].down) = {})
                   => Cardinality(alone) <= PerNode
<1> DEFINE M(i) == d[i].down \o d[i].up
           extra == ExtraBranches(d)
<1>1. /\ Len(d) \in Nat /\ DOMAIN d = 1..Len(d)
      /\ \A i \in DOMAIN d : M(i) \in Seq(Name) /\ ToSet(M(i)) = ToSet(d[i].up \o d[i].down)
  BY DataType, MentionedType
<1>2. PICK f : /\ f[0] = <<>>
               /\ \A n \in Nat : n + 1 <= Len(d) => f[n + 1] = UnknownOf(d, f[n], M(n + 1))
               /\ extra = f[Len(d)]
  BY <1>1, ExtraDefined
<1> HIDE DEF extra, M
<1> DEFINE Found(n, x) == \E k \in 1..n : x \in ToSet(f[k]) \ ToSet(f[k - 1]) /\ x \in ToSet(M(k))
           P(n) == Unknown(d, f[n]) /\ \A x \in ToSet(f[n]) : Found(n, x)
           G == {n \in Nat : n <= Len(d) => P(n)}
<1>3. P(0)
  <2>1. <<>> \in Seq(Name) /\ Len(<<>>) = 0 /\ DOMAIN <<>> = {}
    OBVIOUS
  <2>2. ToSet(<<>>) = {} /\ IsInjective(<<>>)
    BY <2>1 DEF ToSet, IsInjective
  <2>3. Unknown(d, <<>>)
    BY <2>1, <2>2, LimitsAssumption DEF Unknown
  <2> QED
    BY <1>2, <2>2, <2>3
<1>4. ASSUME NEW n \in Nat, n + 1 <= Len(d), Unknown(d, f[n])
      PROVE  Unknown(d, f[n + 1]) /\ Added(f[n], M(n + 1), f[n + 1])
  <2>1. f[n + 1] = UnknownOf(d, f[n], M(n + 1)) /\ M(n + 1) \in Seq(Name)
    BY <1>1, <1>2, <1>4
  <2> QED
    BY <1>4, <2>1, UnknownOfLimits
<1>5. ASSUME NEW n \in Nat, P(n), n + 1 <= Len(d) PROVE P(n + 1)
  <2>1. Unknown(d, f[n + 1]) /\ Added(f[n], M(n + 1), f[n + 1])
    BY <1>4, <1>5
  <2>2. ASSUME NEW x \in ToSet(f[n + 1]) PROVE Found(n + 1, x)
    <3>1. CASE x \in ToSet(f[n])
      <4>1. PICK k \in 1..n : x \in ToSet(f[k]) \ ToSet(f[k - 1]) /\ x \in ToSet(M(k))
        BY <1>5, <3>1
      <4> QED
        BY <4>1
    <3>2. CASE x \notin ToSet(f[n])
      <4>1. x \in ToSet(M(n + 1)) /\ n + 1 \in 1..(n + 1) /\ (n + 1) - 1 = n
        BY <2>1, <2>2, <3>2 DEF Added
      <4> QED
        BY <2>2, <3>2, <4>1
    <3> QED
      BY <3>1, <3>2
  <2> HIDE DEF Found
  <2> QED
    BY <2>1, <2>2
<1> HIDE DEF P
<1>6. Nat \subseteq G
  <2>1. ASSUME NEW n \in Nat, n \in G PROVE n + 1 \in G
    <3>1. CASE n + 1 <= Len(d)
      BY <1>1, <2>1, <3>1, <1>5
    <3>2. CASE ~(n + 1 <= Len(d))
      BY <3>2
    <3> QED
      BY <3>1, <3>2
  <2>2. 0 \in G
    BY <1>3
  <2> HIDE DEF G
  <2> QED
    BY <2>1, <2>2, SetInduction
<1>7. \A n \in 0..Len(d) : P(n)
  BY <1>1, <1>6
<1>8. Unknown(d, extra) /\ \A x \in ToSet(extra) : Found(Len(d), x)
  <2>1. Len(d) \in 0..Len(d)
    BY <1>1
  <2>2. Unknown(d, f[Len(d)]) /\ \A x \in ToSet(f[Len(d)]) : Found(Len(d), x)
    <3> HIDE DEF Found
    <3> QED
      BY <1>7, <2>1 DEF P
  <2> HIDE DEF Found
  <2> QED
    BY <1>2, <2>2
<1>9. \A x \in ToSet(extra) : \E i \in DOMAIN d : x \in ToSet(d[i].up \o d[i].down)
  BY <1>1, <1>8
<1>10. ASSUME NEW i \in DOMAIN d, NEW alone \in SUBSET ToSet(extra),
              \A j \in DOMAIN d \ {i} : alone \cap ToSet(d[j].up \o d[j].down) = {}
       PROVE  Cardinality(alone) <= PerNode
  <2>1. i - 1 \in Nat /\ (i - 1) + 1 = i /\ i <= Len(d) /\ i - 1 \in 0..Len(d)
    BY <1>1
  <2>2. Unknown(d, f[i - 1]) /\ Unknown(d, f[i]) /\ Added(f[i - 1], M(i), f[i])
    BY <1>4, <1>7, <2>1 DEF P
  <2>3. ASSUME NEW x \in alone PROVE x \in ToSet(f[i]) \ ToSet(f[i - 1])
    <3>1. PICK k \in 1..Len(d) : x \in ToSet(f[k]) \ ToSet(f[k - 1]) /\ x \in ToSet(M(k))
      BY <1>8
    <3>2. k = i
      BY <1>1, <1>10, <3>1
    <3> QED
      BY <3>1, <3>2
  <2> QED
    BY <2>2, <2>3, AddedCount
<1>11. \A i \in DOMAIN d : \A alone \in SUBSET ToSet(extra) :
          (\A j \in DOMAIN d \ {i} : alone \cap ToSet(d[j].up \o d[j].down) = {})
            => Cardinality(alone) <= PerNode
  BY <1>10
<1> QED
  BY <1>8, <1>9, <1>11, Zenon DEF extra

\* What is displayed.
LEMMA LookupLimits ==
    ASSUME NEW d \in Data
    PROVE  /\ DataLookup(d) \in Seq(Name) /\ IsInjective(DataLookup(d)) /\ Names(d) \subseteq ToSet(DataLookup(d))
           /\ ToSet(DataLookup(d)) \subseteq Names(d) \cup ToSet(ExtraBranches(d))
           /\ Len(DataLookup(d)) < Tolerance \/ ToSet(DataLookup(d)) = Names(d)
<1> DEFINE known == ConfigsByName(d)
           extra == ExtraBranches(d)
<1>1. known \in Seq(Name) /\ IsInjective(known) /\ ToSet(known) = Names(d) /\ Len(known) <= Len(d)
  BY ConfigNames
<1>2. Len(d) \in Nat /\ Unknown(d, extra)
  BY DataType, ExtraLimits
<1>3. DataLookup(d) = IF Len(d) + Len(extra) < Tolerance THEN known \o extra ELSE known
  BY DEF DataLookup
<1> HIDE DEF known, extra
<1>4. CASE ~(Len(d) + Len(extra) < Tolerance)
  BY <1>1, <1>3, <1>4 DEF extra
<1>5. CASE Len(d) + Len(extra) < Tolerance
  <2>1. extra \in Seq(Name) /\ IsInjective(extra) /\ ToSet(known) \cap ToSet(extra) = {}
    BY <1>1, <1>2 DEF Unknown
  <2>2. /\ known \o extra \in Seq(Name) /\ Len(known \o extra) = Len(known) + Len(extra)
        /\ ToSet(known \o extra) = ToSet(known) \cup ToSet(extra) /\ IsInjective(known \o extra)
    BY <1>1, <2>1, ConcatElements
  <2>3. Len(known) + Len(extra) < Tolerance
    <3>1. Len(known) \in Nat /\ Len(extra) \in Nat /\ Tolerance \in Nat
      BY <1>1, <2>1, LimitsAssumption
    <3> QED
      BY <1>1, <1>2, <1>5, <3>1
  <2>4. DataLookup(d) = known \o extra
    BY <1>3, <1>5
  <2> QED
    BY <1>1, <2>2, <2>3, <2>4 DEF extra
<1> QED
  BY <1>4, <1>5

\* The nodes are those of the data at the last render.
NodesInv ==
    \/ data = <<>> /\ nodes = <<>>
    \/ /\ data \in Data
       /\ nodes = [i \in DOMAIN DataLookup(data) |-> nodes[i]]
       /\ \A i \in DOMAIN nodes : nodes[i].name = DataLookup(data)[i]

LEMMA NodesStep == NodesInv /\ [Next]_vars => NodesInv'
<1> SUFFICES ASSUME NodesInv, [Next]_vars PROVE NodesInv'
  OBVIOUS
<1>1. CASE UNCHANGED <<data, nodes>>
  BY <1>1 DEF NodesInv
<1>2. ASSUME NEW d \in Data, Update(d) PROVE NodesInv'
  <2> DEFINE names == DataLookup(d)
  <2>1. data' = d /\ nodes' = [i \in DOMAIN names |-> NodeFor(names[i])]
    BY <1>2 DEF Update, NodesOf
  <2> HIDE DEF names
  <2>2. DOMAIN nodes' = DOMAIN names /\ \A i \in DOMAIN names : nodes'[i].name = names[i]
    BY <2>1, NodeForName
  <2>3. nodes' = [i \in DOMAIN names |-> nodes'[i]]
    BY <2>1
  <2> QED
    BY <2>1, <2>2, <2>3 DEF NodesInv, names
<1>3. UNCHANGED <<data, nodes>> \/ \E d \in Data : Update(d)
  BY DEF Next, User, Render, Unmount, Move, Press, Release, Frame, SimulationTimer, Tick, ForceHierarchy,
         vars, graphVars
<1> QED
  BY <1>1, <1>2, <1>3

LEMMA NodesLimited == NodesInv => NodesAreLimited
<1> SUFFICES ASSUME NodesInv PROVE NodesAreLimited
  OBVIOUS
<1> DEFINE shown == {n.name : n \in ToSet(nodes)}
           unknown == shown \ Names(data)
           linkedTo(i) == ToSet(data[i].up \o data[i].down) \cap unknown
           alone(i) == linkedTo(i) \ UNION {linkedTo(j) : j \in DOMAIN data \ {i}}
<1>1. CASE data = <<>> /\ nodes = <<>>
  <2>1. shown = {} /\ Names(data) = {} /\ DOMAIN data = {} /\ Len(nodes) = 0
    BY <1>1 DEF ToSet, Names
  <2>2. unknown = {} /\ Cardinality({}) = 0 /\ 0 <= MaxUnknown
    BY <2>1, FS_EmptySet, LimitsAssumption
  <2> QED
    BY <2>1, <2>2 DEF NodesAreLimited
<1>2. CASE data \in Data /\ ~(data = <<>> /\ nodes = <<>>)
  <2> DEFINE names == DataLookup(data)
             extra == ExtraBranches(data)
  <2>1. /\ names \in Seq(Name) /\ IsInjective(names) /\ Names(data) \subseteq ToSet(names)
        /\ ToSet(names) \subseteq Names(data) \cup ToSet(extra)
        /\ Len(names) < Tolerance \/ ToSet(names) = Names(data)
    BY <1>2, LookupLimits
  <2>2. /\ nodes = [i \in DOMAIN names |-> nodes[i]]
        /\ \A i \in DOMAIN nodes : nodes[i].name = names[i]
    BY <1>2 DEF NodesInv
  <2>e. Unknown(data, extra)
    BY <1>2, ExtraLimits
  <2>u. \A x \in ToSet(extra) : \E i \in DOMAIN data : x \in ToSet(data[i].up \o data[i].down)
    BY <1>2, ExtraLimits
  <2>n. \A i \in DOMAIN data : \A some \in SUBSET ToSet(extra) :
          (\A j \in DOMAIN data \ {i} : some \cap ToSet(data[j].up \o data[j].down) = {})
            => Cardinality(some) <= PerNode
    BY <1>2, ExtraLimits
  <2> HIDE DEF names, extra
  <2>3. Len(nodes) = Len(names) /\ DOMAIN nodes = DOMAIN names
    BY <2>1, <2>2
  <2>4. shown = ToSet(names)
    BY <2>2, <2>3 DEF ToSet
  <2>5. unknown \subseteq ToSet(extra)
    BY <2>1, <2>4
  <2>6. Cardinality(shown) = Len(nodes)
    BY <2>1, <2>3, <2>4, ElementCount
  <2>7. Cardinality(unknown) <= MaxUnknown
    <3>1. IsFiniteSet(ToSet(extra)) /\ Cardinality(ToSet(extra)) = Len(extra) /\ Len(extra) \in Nat
      BY <2>e, ElementCount DEF Unknown
    <3> HIDE DEF unknown
    <3>2. IsFiniteSet(unknown) /\ Cardinality(unknown) <= Len(extra)
      BY <2>5, <3>1, FS_Subset
    <3>3. Cardinality(unknown) \in Nat /\ MaxUnknown \in Nat /\ Len(extra) <= MaxUnknown
      BY <2>e, <3>2, FS_CardinalityType, LimitsAssumption DEF Unknown
    <3> QED
      BY <3>1, <3>2, <3>3
  <2>8. unknown # {} => Len(nodes) < Tolerance
    BY <2>1, <2>3, <2>4
  <2>9. unknown \subseteq UNION {linkedTo(i) : i \in DOMAIN data}
    BY <2>5, <2>u
  <2>10. ASSUME NEW i \in DOMAIN data PROVE Cardinality(alone(i)) <= PerNode
    <3>1. alone(i) \in SUBSET ToSet(extra)
      BY <2>5
    <3>2. \A j \in DOMAIN data \ {i} : alone(i) \cap ToSet(data[j].up \o data[j].down) = {}
      OBVIOUS
    <3> HIDE DEF alone
    <3> QED
      BY <2>n, <3>1, <3>2
  <2> QED
    BY <2>1, <2>4, <2>6, <2>7, <2>8, <2>9, <2>10 DEF NodesAreLimited
<1> QED
  BY <1>1, <1>2 DEF NodesInv

-----------------------------------------------------------------------------
\* The animation.  The token names the one frame that is requested, and what
\* is pinned, but for an odd use of buttons, is held by a handler that moved.
Handler(n, r, m) == [node |-> n, render |-> r, moved |-> m]

MotionInv ==
    /\ frames = IF token THEN 1 ELSE 0
    /\ mounted => updates > 0
    /\ MovingNodesAreDrawn
    /\ pinned \subseteq odd \cup NodesIn({h \in drags : h.moved})
    /\ \A h \in drags : h = Handler(h.node, h.render, h.moved)

GraphInv == TypeOK /\ LinksInv /\ HierarchyIsCurrent /\ MotionInv

LEMMA GraphInitInv == Init => GraphInv
<1> SUFFICES ASSUME Init PROVE GraphInv
  OBVIOUS
<1>1. TypeOK
  <2>1. 0 \in 0..Heat /\ 0 \in 0..MaxActs /\ 0 \in 0..MaxUpdates
    BY LimitsAssumption, HeatAssumption
  <2> QED
    BY <2>1 DEF Init, GraphInit, TypeOK
<1>2. ToSet(<<>>) = {}
  BY DEF ToSet
<1>3. LinksInv
  <2> DEFINE shown == {n.name : n \in ToSet(nodes)}
  <2>1. ToSet(nodes) = {} /\ links = {} /\ data = <<>>
    BY <1>2 DEF Init, GraphInit
  <2>2. ConfiguredLinks(data) \cap (shown \X shown) = {}
    BY <2>1
  <2> QED
    BY <2>1, <2>2 DEF LinksInv, LinksJoinTheirBranches
<1>4. HierarchyIsCurrent
  BY DEF Init, GraphInit, HierarchyIsCurrent, NoMemo
<1>5. MotionInv
  BY DEF Init, MotionInv, MovingNodesAreDrawn
<1> QED
  BY <1>1, <1>3, <1>4, <1>5 DEF GraphInv

\* What restarts the simulation leaves one frame, and heats it up.
LEMMA RestartStep ==
    ASSUME GraphInv, RestartSimulation
    PROVE  /\ frames' = 1 /\ token' = TRUE /\ ticking' = TRUE /\ heat' = Heat /\ heat' \in 0..Heat
  BY HeatAssumption DEF GraphInv, MotionInv, RestartSimulation, Restart, Uncancelled

\* A pass of the hierarchy looks up what is not known, and moves no link.
LEMMA HierarchyStep ==
    ASSUME GraphInv, ForceHierarchy
    PROVE  LinksInv' /\ HierarchyIsCurrent' /\ updates' = updates
<1>1. UNCHANGED <<data, nodes, links, updates, clash>>
  BY DEF ForceHierarchy
<1>2. LinksInv'
  BY <1>1 DEF GraphInv, LinksInv, LinksJoinTheirBranches, ToSet
<1>3. \A n : Lookup(n) = Neighbours(n)
  BY DEF Lookup, GraphInv, HierarchyIsCurrent
<1>4. \A n : Neighbours(n)' = Neighbours(n)
  BY <1>1 DEF Neighbours
<1>5. \A n \in DOMAIN memo' : memo'[n] = Neighbours(n)
  BY <1>3 DEF ForceHierarchy
<1> QED
  BY <1>1, <1>2, <1>4, <1>5 DEF HierarchyIsCurrent

LEMMA GraphKept ==
    ASSUME GraphInv, UNCHANGED graphVars
    PROVE  LinksInv' /\ HierarchyIsCurrent' /\ updates' = updates
<1>1. UNCHANGED <<data, nodes, links, memo, updates, clash>>
  BY DEF graphVars
<1>2. LinksInv'
  BY <1>1 DEF GraphInv, LinksInv, LinksJoinTheirBranches, ToSet
<1>3. HierarchyIsCurrent'
  BY <1>1 DEF GraphInv, HierarchyIsCurrent, Neighbours
<1> QED
  BY <1>1, <1>2, <1>3

LEMMA ActCounts ==
    ASSUME GraphInv, Act
    PROVE  acts' \in 0..MaxActs
  BY HeatAssumption DEF GraphInv, TypeOK, Act

LEMMA RenderStep ==
    ASSUME GraphInv, NEW d \in Data, Render(d)
    PROVE  GraphInv'
<1>1. /\ frames' = 1 /\ token' = TRUE /\ ticking' = TRUE /\ heat' \in 0..Heat /\ acts' \in 0..MaxActs
      /\ mounted' = TRUE /\ UNCHANGED <<drags, pinned, odd>>
  BY RestartStep, ActCounts DEF Render
<1>2. updates' \in 1..MaxUpdates /\ updates' = updates + 1
  BY LimitsAssumption DEF Render, Update, GraphInv, TypeOK
<1>3. LinksInv'
  BY UpdateStep DEF Render, GraphInv
<1>4. HierarchyIsCurrent'
  BY DEF Render, Update, MemoCleared, NoMemo, HierarchyIsCurrent
<1>5. TypeOK'
  BY <1>1, <1>2 DEF GraphInv, TypeOK
<1>6. MotionInv'
  BY <1>1, <1>2 DEF GraphInv, MotionInv, MovingNodesAreDrawn, NodesIn
<1> QED
  BY <1>3, <1>4, <1>5, <1>6 DEF GraphInv

LEMMA UnmountStep ==
    ASSUME GraphInv, Unmount
    PROVE  GraphInv'
<1>1. /\ frames' = 0 /\ token' = FALSE /\ mounted' = FALSE /\ acts' \in 0..MaxActs
      /\ UNCHANGED <<heat, ticking, drags, pinned, odd>>
  BY ActCounts DEF Unmount, Uncancelled, GraphInv, MotionInv
<1>2. LinksInv' /\ HierarchyIsCurrent' /\ updates' = updates
  BY GraphKept DEF Unmount
<1>3. TypeOK' /\ MotionInv'
  BY <1>1, <1>2 DEF GraphInv, TypeOK, MotionInv, MovingNodesAreDrawn, NodesIn
<1> QED
  BY <1>2, <1>3 DEF GraphInv

\* A frame is requested again as long as the simulation is warm.
LEMMA FrameStep ==
    ASSUME GraphInv, Frame \/ SimulationTimer
    PROVE  GraphInv'
<1>a. heat' = Cooled /\ UNCHANGED <<mounted, drags, pinned, acts, odd>> /\ ForceHierarchy
  BY DEF Frame, SimulationTimer, Tick
<1>b. Cooled \in 0..Heat /\ (Cooled > 0 => heat > 0)
  BY HeatAssumption DEF Cooled, GraphInv, TypeOK
<1>1. /\ heat' = Cooled /\ Cooled \in 0..Heat /\ (heat' > 0 => heat > 0)
      /\ UNCHANGED <<mounted, drags, pinned, acts, odd>> /\ ForceHierarchy
  BY <1>a, <1>b
<1>2. LinksInv' /\ HierarchyIsCurrent' /\ updates' = updates
  BY <1>1, HierarchyStep
<1>3. CASE Frame
  <2>1. frames = 1 /\ ticking' = ticking
    BY <1>3 DEF Frame, GraphInv, MotionInv
  <2>2. CASE Cooled > 0
    <3>1. token' = TRUE /\ frames' = 1
      BY <1>3, <2>1, <2>2 DEF Frame
    <3> QED
      BY <1>1, <1>2, <2>1, <3>1 DEF GraphInv, TypeOK, MotionInv, MovingNodesAreDrawn, NodesIn
  <2>3. CASE ~(Cooled > 0)
    <3>1. token' = FALSE /\ frames' = 0
      BY <1>3, <2>1, <2>3 DEF Frame, GraphInv, TypeOK
    <3> QED
      BY <1>1, <1>2, <2>1, <2>3, <3>1 DEF GraphInv, TypeOK, MotionInv, MovingNodesAreDrawn, NodesIn
  <2> QED
    BY <2>2, <2>3
<1>4. CASE SimulationTimer
  <2>1. UNCHANGED <<frames, token>> /\ ticking' \in BOOLEAN
    BY <1>4 DEF SimulationTimer
  <2> QED
    BY <1>1, <1>2, <2>1 DEF GraphInv, TypeOK, MotionInv, MovingNodesAreDrawn, NodesIn
<1> QED
  BY <1>3, <1>4

LEMMA PressStep ==
    ASSUME GraphInv, NEW n, Press(n)
    PROVE  GraphInv'
<1> DEFINE handler == [node |-> n, render |-> updates, moved |-> FALSE]
<1>1. /\ mounted /\ acts' \in 0..MaxActs
      /\ UNCHANGED <<mounted, heat, ticking, frames, token, pinned>>
      /\ drags' = (drags \ {[handler EXCEPT !.moved = TRUE]}) \cup {handler}
      /\ odd' = IF drags = {} THEN odd ELSE odd \cup {n} \cup {h.node : h \in drags}
  BY ActCounts DEF Press
<1>2. LinksInv' /\ HierarchyIsCurrent' /\ updates' = updates
  BY GraphKept DEF Press
<1>3. handler.render \in 1..updates /\ handler.moved \in BOOLEAN
  BY <1>1 DEF GraphInv, TypeOK, MotionInv
<1>h. handler = Handler(handler.node, handler.render, handler.moved)
  BY DEF Handler
<1> HIDE DEF handler
<1>4. TypeOK'
  BY <1>1, <1>2, <1>3 DEF GraphInv, TypeOK
\* A node that is pressed while handlers are there is an odd one, with theirs.
<1>5. pinned \subseteq odd'
  BY <1>1 DEF GraphInv, MotionInv, NodesIn
<1>6. MotionInv'
  BY <1>1, <1>2, <1>h, <1>5 DEF GraphInv, MotionInv, MovingNodesAreDrawn
<1> QED
  BY <1>2, <1>4, <1>6 DEF GraphInv

LEMMA HandlerMoved ==
    ASSUME NEW n, NEW r, NEW m, NEW b
    PROVE  [Handler(n, r, m) EXCEPT !.moved = b] = Handler(n, r, b)
  BY DEF Handler

\* Whoever moves far is pinned by a handler that has moved, then and later.
LEMMA MoveStep ==
    ASSUME GraphInv, Move
    PROVE  GraphInv'
<1>1. PICK far \in Far :
        /\ drags' = (drags \ far) \cup {[h EXCEPT !.moved = TRUE] : h \in far}
        /\ pinned' = pinned \cup NodesIn(far)
  BY DEF Move
<1>2. /\ frames' = 1 /\ token' = TRUE /\ ticking' = TRUE /\ heat' \in 0..Heat /\ acts' \in 0..MaxActs
      /\ UNCHANGED <<mounted, odd>>
  BY RestartStep, ActCounts DEF Move
<1>3. LinksInv' /\ HierarchyIsCurrent' /\ updates' = updates
  BY GraphKept DEF Move
<1>4. far \subseteq drags /\ \A h \in drags : h.moved => h \in far
  BY DEF Far
<1> DEFINE yes == TRUE
           moved(h) == [h EXCEPT !.moved = yes]
<1>n. drags' = (drags \ far) \cup {moved(h) : h \in far}
  BY <1>1
<1>y. yes = TRUE
  OBVIOUS
<1> HIDE DEF yes
<1>m. \A h \in far : /\ moved(h) = Handler(h.node, h.render, yes)
                     /\ moved(h).node = h.node /\ moved(h).render = h.render /\ moved(h).moved = yes
  <2>1. ASSUME NEW h \in far PROVE moved(h) = Handler(h.node, h.render, yes)
    <3>1. h = Handler(h.node, h.render, h.moved)
      BY <1>4 DEF GraphInv, MotionInv
    <3>2. [Handler(h.node, h.render, h.moved) EXCEPT !.moved = yes] = Handler(h.node, h.render, yes)
      BY HandlerMoved
    <3> QED
      BY <3>1, <3>2
  <2> HIDE DEF moved
  <2> QED
    BY <2>1 DEF Handler
<1> HIDE DEF moved
<1>5. TypeOK'
  <2>1. \A h \in drags' : h.render \in 1..updates /\ h.moved \in BOOLEAN
    <3>1. \A h \in drags : h.render \in 1..updates /\ h.moved \in BOOLEAN
      BY DEF GraphInv, TypeOK
    <3>2. \A h \in far : moved(h).render \in 1..updates /\ moved(h).moved \in BOOLEAN
      BY <1>4, <1>m, <1>y, <3>1
    <3> QED
      BY <1>n, <3>1, <3>2
  <2> QED
    BY <1>2, <1>3, <2>1 DEF GraphInv, TypeOK
<1>6. ASSUME NEW h \in far PROVE h.node \in NodesIn({g \in drags' : g.moved})
  BY <1>m, <1>n, <1>y, <1>6 DEF NodesIn
<1>7. NodesIn({h \in drags : h.moved}) \subseteq NodesIn(far)
  BY <1>4 DEF NodesIn
<1>8. NodesIn(far) \subseteq NodesIn({g \in drags' : g.moved})
  BY <1>6 DEF NodesIn
<1>9. \A h \in drags' : h = Handler(h.node, h.render, h.moved)
  <2>1. \A h \in drags : h = Handler(h.node, h.render, h.moved)
    BY DEF GraphInv, MotionInv
  <2>2. \A h \in far : moved(h) = Handler(moved(h).node, moved(h).render, moved(h).moved)
    BY <1>m
  <2> QED
    BY <1>n, <2>1, <2>2
<1>10. pinned' \subseteq odd' \cup NodesIn({g \in drags' : g.moved})
  BY <1>1, <1>2, <1>7, <1>8 DEF GraphInv, MotionInv
<1>11. MotionInv'
  BY <1>2, <1>3, <1>9, <1>10 DEF GraphInv, MotionInv, MovingNodesAreDrawn
<1> QED
  BY <1>3, <1>5, <1>11 DEF GraphInv

LEMMA ReleaseStep ==
    ASSUME GraphInv, NEW left \in BOOLEAN, Release(left)
    PROVE  GraphInv'
<1>1. PICK far \in Far :
        /\ pinned' = IF left THEN LetGo(far) ELSE pinned
        /\ odd' = IF left THEN odd ELSE odd \cup NodesIn(far)
        /\ IF far = {} THEN UNCHANGED <<heat, ticking, frames, token>> ELSE RestartSimulation
  BY DEF Release
<1>2. drags' = {} /\ acts' \in 0..MaxActs /\ UNCHANGED mounted
  BY ActCounts DEF Release
<1>3. LinksInv' /\ HierarchyIsCurrent' /\ updates' = updates
  BY GraphKept DEF Release
<1>4. \/ UNCHANGED <<heat, ticking, frames, token>>
      \/ frames' = 1 /\ token' = TRUE /\ ticking' = TRUE /\ heat' \in 0..Heat
  BY <1>1, RestartStep
<1>5. NodesIn({h \in drags : h.moved}) \subseteq NodesIn(far)
  BY DEF Far, NodesIn
<1>6. pinned' \subseteq odd'
  BY <1>1, <1>5 DEF GraphInv, MotionInv, LetGo
<1>7. TypeOK'
  <2>1. heat' \in 0..Heat /\ frames' \in Nat /\ ticking' \in BOOLEAN /\ token' \in BOOLEAN
    <3>1. heat \in 0..Heat /\ frames \in Nat /\ ticking \in BOOLEAN /\ token \in BOOLEAN
      BY DEF GraphInv, TypeOK
    <3>2. CASE UNCHANGED <<heat, ticking, frames, token>>
      BY <3>1, <3>2
    <3>3. CASE frames' = 1 /\ token' = TRUE /\ ticking' = TRUE /\ heat' \in 0..Heat
      BY <3>3
    <3> QED
      BY <1>4, <3>2, <3>3
  <2> QED
    BY <1>2, <1>3, <2>1 DEF GraphInv, TypeOK
<1>8. MotionInv'
  BY <1>2, <1>3, <1>4, <1>6 DEF GraphInv, MotionInv, MovingNodesAreDrawn
<1> QED
  BY <1>3, <1>7, <1>8 DEF GraphInv

LEMMA GraphStep == GraphInv /\ [Next]_vars => GraphInv'
<1> SUFFICES ASSUME GraphInv, [Next]_vars PROVE GraphInv'
  OBVIOUS
<1>1. CASE UNCHANGED vars
  <2>1. UNCHANGED graphVars /\ UNCHANGED <<mounted, heat, ticking, frames, token, drags, pinned, acts, odd>>
    BY <1>1 DEF vars, motionVars
  <2>2. LinksInv' /\ HierarchyIsCurrent' /\ updates' = updates
    BY <2>1, GraphKept
  <2> QED
    BY <2>1, <2>2 DEF GraphInv, TypeOK, MotionInv, MovingNodesAreDrawn, NodesIn
<1>2. CASE Next
  BY <1>2, RenderStep, UnmountStep, FrameStep, PressStep, MoveStep, ReleaseStep DEF Next, User
<1> QED
  BY <1>1, <1>2

LEMMA GraphInvImplies ==
    GraphInv => OneFrameAtATime /\ MovingNodesAreDrawn /\ DroppedNodesAreFree
                  /\ LinksJoinTheirBranches /\ HierarchyIsCurrent /\ TypeOK
<1>1. NodesIn({h \in drags : h.moved}) \subseteq NodesIn(drags)
  BY DEF NodesIn
<1>2. GraphInv => OneFrameAtATime
  BY DEF GraphInv, MotionInv, OneFrameAtATime
<1>3. GraphInv => DroppedNodesAreFree
  BY <1>1 DEF GraphInv, MotionInv, DroppedNodesAreFree
<1> QED
  BY <1>2, <1>3 DEF GraphInv, MotionInv, LinksInv

-----------------------------------------------------------------------------
\* The page of the conflicts.

Rendered == page.kind \in {"inspect", "redirect", "empty"}

\* The redirects of the root lead from what was asked for to its first conflict.
Leads(l, m) ==
    \/ m = l
    \/ /\ l.at = "root"
       /\ m.at = "root" \/ (m.at = "inspect" /\ m.index = 1 /\ m.file = NoFile)

\* A location that is not pending is on display, with the forms that go with
\* it; a redirect is that of the page on display; and the URL is where what
\* the user asked for leads to, but for choices that are unheard.
PageInv ==
    /\ IsLocation(location) /\ IsLocation(page.loc)
    /\ page.kind \in {"loading", "inspect", "redirect", "empty"}
    /\ ~pending => Rendered /\ page.loc = location /\ form = FormFor(page.loc, page.list)
    /\ Rendered => page.kind = Kind(page.loc, page.list) /\ page.loc.at # "graph"
    /\ due => page.kind = "redirect"
    /\ unheard \/ Leads(asked, location)

\* The graph's page is the last.
ConflictInv == page.kind = "graph" \/ PageInv

LEMMA Locations ==
    /\ IsLocation(Graph)
    /\ \A n : IsLocation(Root(n))
    /\ \A n, i, f : IsLocation(Inspect(n, i, f))
    /\ \A l, f : IsLocation(l) => /\ IsLocation([l EXCEPT !.file = f])
                                /\ [l EXCEPT !.file = f].at = l.at
<1>1. ASSUME NEW l, NEW f, IsLocation(l)
      PROVE  IsLocation([l EXCEPT !.file = f]) /\ [l EXCEPT !.file = f].at = l.at
  <2>1. l = [at |-> l.at, names |-> l.names, index |-> l.index, file |-> l.file]
    BY <1>1 DEF IsLocation
  <2>2. [l EXCEPT !.file = f] = [at |-> l.at, names |-> l.names, index |-> l.index, file |-> f]
    BY <2>1
  <2> QED
    BY <1>1, <2>2 DEF IsLocation
<1>2. IsLocation(Graph) /\ (\A n : IsLocation(Root(n))) /\ \A n, i, f : IsLocation(Inspect(n, i, f))
  BY DEF IsLocation, Graph, Root, Inspect
<1> QED
  BY <1>1, <1>2

LEMMA Kinds ==
    ASSUME NEW l, NEW list
    PROVE  /\ l.at = "inspect" => Kind(l, list) = IF FilesAt(l, list) = <<>> THEN "redirect" ELSE "inspect"
           /\ l.at = "root" => Kind(l, list) \in {"redirect", "empty"}
  BY Zenon DEF Kind

LEMMA ConflictInitInv == ConflictInit => ConflictInv
  BY LinksAssumption, Locations DEF ConflictInit, ConflictInv, PageInv, Blank, Rendered, Leads

\* What is rendered, be it the location or the page before once more, is on
\* display with its forms.
LEMMA RenderAtStep ==
    ASSUME PageInv, NEW l, IsLocation(l), RenderAt(l), pending' = FALSE => l = location
    PROVE  PageInv'
<1> DEFINE list == analysis[l.names]
           kind == Kind(l, list)
<1>1. /\ l.at # "graph" /\ page' = [kind |-> kind, loc |-> l, list |-> list]
      /\ due' = (kind = "redirect" /\ Remounts(l)) /\ form' = FormFor(l, list)
      /\ UNCHANGED <<location, asked, unheard>>
  BY DEF RenderAt, MountedForm
<1>2. kind \in {"inspect", "redirect", "empty"}
  BY <1>1, Kinds DEF IsLocation
<1> HIDE DEF list
<1>3. page'.kind = kind /\ page'.loc = l /\ page'.list = list
  BY <1>1
<1> HIDE DEF kind
<1>4. Rendered' /\ IsLocation(location)' /\ IsLocation(page.loc)' /\ (unheard \/ Leads(asked, location))'
  BY <1>1, <1>2, <1>3 DEF Rendered, PageInv, Leads, IsLocation
<1>5. (form = FormFor(page.loc, page.list))' /\ (page.kind = Kind(page.loc, page.list))'
  BY <1>1, <1>3 DEF kind, FormFor, Kind, StandsForMore, FilesAt, SelectedFile
<1>6. due' => page'.kind = "redirect"
  BY <1>1, <1>3
<1> QED
  BY <1>1, <1>2, <1>3, <1>4, <1>5, <1>6 DEF PageInv

LEMMA RenderConflictsStep ==
    ASSUME PageInv, RenderConflicts \/ RerenderConflicts
    PROVE  PageInv'
<1>1. CASE RenderConflicts
  BY <1>1, RenderAtStep DEF RenderConflicts, PageInv
<1>2. CASE RerenderConflicts
  <2>1. IsLocation(page.loc) /\ RenderAt(page.loc) /\ (pending' = FALSE => page.loc = location)
    BY <1>2 DEF RerenderConflicts, PageInv
  <2> QED
    BY <2>1, RenderAtStep
<1> QED
  BY <1>1, <1>2

LEMMA RedirectStep ==
    ASSUME PageInv, Redirect
    PROVE  PageInv'
<1> DEFINE target == IF page.loc.at = "root" THEN RootTarget(page.loc) ELSE LostTarget(page.loc)
<1>1. /\ due /\ due' = FALSE /\ pending' = TRUE /\ location' = target
      /\ unheard' = (unheard \/ page.loc.at = "inspect" \/ location \notin {page.loc, target})
      /\ UNCHANGED <<page, form, asked>>
  BY DEF Redirect, Navigate
<1>2. page.loc.at \in {"root", "inspect"} /\ Rendered
  BY <1>1 DEF PageInv, IsLocation, Rendered
<1>3. IsLocation(target)
  BY <1>2, Locations DEF RootTarget, LostTarget, PageInv
<1>4. page.loc.at = "root" => target.at = "root" \/ (target.at = "inspect" /\ target.index = 1 /\ target.file = NoFile)
  BY DEF RootTarget, Root, Inspect
<1> HIDE DEF target
<1>5. unheard' \/ Leads(asked, location')
  BY <1>1, <1>2, <1>4 DEF PageInv, Leads
<1>6. Rendered' /\ IsLocation(location') /\ page.kind' = Kind(page.loc, page.list)'
  BY <1>1, <1>2, <1>3 DEF PageInv, Rendered, Kind, StandsForMore, FilesAt
<1> QED
  BY <1>1, <1>2, <1>5, <1>6 DEF PageInv, Leads, Rendered

\* What the user asks for is loaded before it is on display.
LEMMA AskForStep ==
    ASSUME PageInv, NEW l, IsLocation(l), AskFor(l), UNCHANGED <<page, due>>, ~due
    PROVE  PageInv'
<1>1. pending' = TRUE /\ location' = l /\ asked' = l /\ ~due'
  BY DEF AskFor, Navigate
<1>2. Rendered' = Rendered /\ Kind(page.loc, page.list)' = Kind(page.loc, page.list)
  BY DEF Rendered, Kind, StandsForMore, FilesAt
<1> QED
  BY <1>1, <1>2 DEF PageInv, Leads

\* A selector that stays as the page shows it is told of no change: the value
\* of the last render is chosen only while another location is pending.
LEMMA SyncStep ==
    ASSUME PageInv, NEW value, NEW selected, NEW l, IsLocation(l), Sync(value, selected, l),
           UNCHANGED <<page, due>>, ~due, ~pending => value # selected
    PROVE  PageInv'
<1>1. CASE value # selected
  BY <1>1, AskForStep DEF Sync
<1>2. CASE value = selected
  <2>1. unheard' = TRUE /\ pending /\ UNCHANGED <<location, pending, asked>>
    BY <1>2 DEF Sync, PageInv
  <2>2. Rendered' = Rendered /\ Kind(page.loc, page.list)' = Kind(page.loc, page.list)
    BY DEF Rendered, Kind, StandsForMore, FilesAt
  <2> QED
    BY <2>1, <2>2 DEF PageInv, IsLocation
<1> QED
  BY <1>1, <1>2

LEMMA ShownForm ==
    ASSUME PageInv, ~pending, page.kind = "inspect"
    PROVE  form.index = page.loc.index /\ form.file = SelectedFile(page.loc, page.list)
  BY DEF PageInv, Rendered, FormFor

LEMMA ChoosesStep ==
    ASSUME PageInv, Chooses
    PROVE  PageInv'
<1>1. ASSUME NEW i, ChooseConflict(i) PROVE PageInv'
  <2>1. ~due /\ form.index # i /\ page.kind = "inspect" /\ UNCHANGED <<page, due>>
        /\ Sync(i, page.loc.index, Inspect(page.loc.names, i, NoFile))
    BY <1>1 DEF ChooseConflict, Choice, AtomChanges
  <2>2. IsLocation(Inspect(page.loc.names, i, NoFile)) /\ (~pending => i # page.loc.index)
    BY <2>1, Locations, ShownForm
  <2> QED
    BY <2>1, <2>2, SyncStep
<1>2. ASSUME NEW f, ChooseFile(f) PROVE PageInv'
  <2>1. ~due /\ form.file # f /\ page.kind = "inspect" /\ UNCHANGED <<page, due>>
        /\ Sync(f, SelectedFile(page.loc, page.list), [page.loc EXCEPT !.file = f])
    BY <1>2 DEF ChooseFile, Choice, AtomChanges
  <2>2. IsLocation([page.loc EXCEPT !.file = f]) /\ (~pending => f # SelectedFile(page.loc, page.list))
    BY <2>1, Locations, ShownForm DEF PageInv
  <2> QED
    BY <2>1, <2>2, SyncStep
<1>3. ASSUME NEW f, ClickFile(f) PROVE PageInv'
  <2>1. IsLocation([page.loc EXCEPT !.file = f])
    BY Locations DEF PageInv
  <2> QED
    BY <1>3, <2>1, AskForStep DEF ClickFile, Choice
<1>4. CASE ClickGraph
  BY <1>4, Locations, AskForStep DEF ClickGraph, Choice
<1>5. ASSUME NEW l \in Links, GoTo(l) PROVE PageInv'
  BY <1>5, LinksAssumption, AskForStep DEF GoTo, Choice
<1> QED
  BY <1>1, <1>2, <1>3, <1>4, <1>5 DEF Chooses

LEMMA ConflictStep == ConflictInv /\ [ConflictNext]_conflictVars => ConflictInv'
<1> SUFFICES ASSUME ConflictInv, [ConflictNext]_conflictVars PROVE ConflictInv'
  OBVIOUS
\* The queries do not concern what is rendered.
<1>a. ASSUME PageInv, UNCHANGED <<location, pending, page, due, form, asked, unheard>> PROVE PageInv'
  <2>1. Rendered' = Rendered /\ (IsLocation(location))' /\ (IsLocation(page.loc))'
        /\ Kind(page.loc, page.list)' = Kind(page.loc, page.list)
        /\ FormFor(page.loc, page.list)' = FormFor(page.loc, page.list)
        /\ Leads(asked, location)' = Leads(asked, location)
    BY <1>a DEF PageInv, Rendered, IsLocation, Kind, StandsForMore, FilesAt, FormFor, SelectedFile, Leads
  <2> QED
    BY <1>a, <2>1 DEF PageInv
<1>1. CASE UNCHANGED conflictVars
  BY <1>1, <1>a DEF conflictVars, ConflictInv
<1>2. CASE ConflictNext
  <2>1. PageInv
    BY <1>2 DEF ConflictNext, ConflictInv
  <2>2. CASE RenderGraph
    BY <2>2 DEF RenderGraph, ConflictInv, Blank
  <2>3. CASE LoadAnalysis \/ LoadObject \/ ReloadAnalysis
    BY <2>1, <2>3, <1>a DEF LoadAnalysis, LoadObject, ReloadAnalysis, ConflictInv
  <2>4. CASE RenderConflicts \/ RerenderConflicts \/ Redirect \/ Chooses
    BY <2>1, <2>4, RenderConflictsStep, RedirectStep, ChoosesStep DEF ConflictInv
  <2> QED
    BY <1>2, <2>2, <2>3, <2>4 DEF ConflictNext, Proceeds
<1> QED
  BY <1>1, <1>2

LEMMA ConflictInvImplies == ConflictInv => LastChoiceIsShown
<1> SUFFICES ASSUME PageInv, AtRest, page.kind = "inspect"
             PROVE  /\ form = FormFor(page.loc, page.list)
                    /\ unheard \/ (asked.at # "graph" /\ form = Shows(asked, page.list))
  BY DEF ConflictInv, LastChoiceIsShown
<1>1. page.loc = location /\ form = FormFor(location, page.list) /\ location.at = "inspect"
  BY Kinds DEF PageInv, AtRest, Rendered, IsLocation
<1>2. CASE asked = location
  BY <1>1, <1>2 DEF Shows
<1>3. CASE asked.at = "root" /\ location.index = 1 /\ location.file = NoFile
  <2> DEFINE first == Inspect(asked.names, 1, NoFile)
  <2>1. first.at = "inspect" /\ first.index = 1 /\ first.file = NoFile
    BY DEF Inspect
  <2>2. Shows(asked, page.list) = FormFor(first, page.list)
    BY <1>3 DEF Shows
  <2> HIDE DEF first
  <2>3. FilesAt(first, page.list) = FilesAt(location, page.list)
    BY <1>3, <2>1 DEF FilesAt
  <2>4. SelectedFile(first, page.list) = SelectedFile(location, page.list)
    BY <1>3, <2>1, <2>3 DEF SelectedFile
  <2>5. FormFor(first, page.list) = FormFor(location, page.list)
    BY <1>1, <1>3, <2>1, <2>3, <2>4, Kinds DEF FormFor
  <2> QED
    BY <1>1, <1>3, <2>2, <2>5
<1> QED
  BY <1>1, <1>2, <1>3 DEF PageInv, Leads

-----------------------------------------------------------------------------
\* Each page moves while the other rests.
LEMMA SiteSteps == [SiteNext]_siteVars => [Next]_vars /\ [ConflictNext]_conflictVars
  BY DEF SiteNext, OnGraph, siteVars

\* The graph and the conflicts page keep their invariants, on display or not.
THEOREM SiteInvariance == SiteSpec => [](GraphInv /\ ConflictInv)
<1>1. SiteInit => GraphInv /\ ConflictInv
  BY GraphInitInv, ConflictInitInv DEF SiteInit
<1>2. GraphInv /\ ConflictInv /\ [SiteNext]_siteVars => (GraphInv /\ ConflictInv)'
  BY SiteSteps, GraphStep, ConflictStep
<1> QED
  BY <1>1, <1>2, PTL DEF SiteSpec

\* The graph by itself, drawn from any data, is as correct as on the way to it.
THEOREM GraphInvariance == Spec => []GraphInv
  BY GraphInitInv, GraphStep, PTL DEF Spec

\* However often the data was replaced, with branches gone and back again, the
\* links join the displayed objects of the branches that the data links, all
\* of them (updateNodes), and what the hierarchy has looked up about a node
\* are those it is linked to now (forceHierarchy.links).
THEOREM LinksAreCurrent == SiteSpec => [](LinksJoinTheirBranches /\ HierarchyIsCurrent)
<1>1. GraphInv /\ ConflictInv => LinksJoinTheirBranches /\ HierarchyIsCurrent
  BY GraphInvImplies
<1> QED
  BY <1>1, SiteInvariance, PTL

\* Every branch of the data is displayed, once; of those it only mentions, no
\* more than the limits allow, and none in a large graph, though one may be
\* mentioned by several branches and a branch be in the data again (toLookups).
THEOREM LimitsHold == SiteSpec => []NodesAreLimited
<1>1. SiteInit => NodesInv
  BY DEF SiteInit, Init, GraphInit, NodesInv
<1>2. NodesInv /\ [SiteNext]_siteVars => NodesInv'
  BY SiteSteps, NodesStep
<1>3. NodesInv => NodesAreLimited
  BY NodesLimited
<1> QED
  BY <1>1, <1>2, <1>3, PTL DEF SiteSpec

\* Renders, drags and frames each ask for the next frame: never are two under
\* way, and one is while nodes on display move (useAnimationFrame).
THEOREM FramesAreRight == SiteSpec => [](TypeOK /\ OneFrameAtATime /\ MovingNodesAreDrawn)
<1>1. GraphInv /\ ConflictInv => TypeOK /\ OneFrameAtATime /\ MovingNodesAreDrawn
  BY GraphInvImplies
<1> QED
  BY <1>1, SiteInvariance, PTL

\* A node that is dropped is free, also when the graph was rendered again or
\* left during the drag (setupDragHandler, drag.onMouseUp).
THEOREM DropsFree == SiteSpec => []DroppedNodesAreFree
<1>1. GraphInv /\ ConflictInv => DroppedNodesAreFree
  BY GraphInvImplies
<1> QED
  BY <1>1, SiteInvariance, PTL

\* At rest, the selectors and the page show the choice made last, in whatever
\* order data, redirects and choices came (useLocationAtom), unless the choice
\* was one of those that the page drops or that a redirect overrules.
THEOREM ChoiceIsShown == SiteSpec => []LastChoiceIsShown
<1>1. GraphInv /\ ConflictInv => LastChoiceIsShown
  BY ConflictInvImplies
<1> QED
  BY <1>1, SiteInvariance, PTL

=============================================================================
