------------------------ MODULE DetectConflictsProofs ------------------------
(***************************************************************************)
(* The search of ConflictLocator, for any branches, configurations,        *)
(* conflicts and requests, whatever order pairs are taken in: no conflict  *)
(* between branches asked about is lost on the way up, and, unless some    *)
(* branch is above itself, only the uppermost conflicts are reported, but  *)
(* for those that an integration branch takes care of.                     *)
(***************************************************************************)
EXTENDS DetectConflicts, FiniteSetTheorems, SequenceTheorems, TLAPS

-----------------------------------------------------------------------------
\* A conflict of the pair r accounts for one of the pair p: the one branch of r
\* is the one of p or above it, the other is the other or above that.
Accounts(r, p) ==
    \E a, b \in Branches : p = {a, b} /\ \E x \in Above(a), y \in Above(b) : r = {x, y}

\* What is found for the pair p comes from p or from above it.
Belongs(c, p) == c.integrations \subseteq Integrations(p) /\ (c.hasConflict => Accounts(c.branches, p))

\* A pair that is rightly reported.
Minimal(pair) ==
    pair \in repo.conflicts /\ (Acyclic => \A p \in PairsAbove(pair) \cap repo.conflicts : Integrated(p))

\* The pairs that a call under way has to look at, and those it has looked at.
PairsOf(i) == IF i = 1 THEN PairsWithin(branches) ELSE PairsAbove(calls[i].pair)
Seen(i) == PairsOf(i) \ calls[i].todo
Open(pair) == \E i \in 2 .. Len(calls) : calls[i].pair = pair

\* A resolved pair keeps its resolution.  The result of any other is empty while
\* its search is under way; afterwards what it has belongs to the pair, and it
\* has a conflict if the pair is in one that nobody has taken care of.
ResultsInv ==
    /\ \A p \in ResolvedPairs : p \in DOMAIN results /\ results[p] = Resolution(p)
    /\ \A p \in DOMAIN results \ ResolvedPairs :
         /\ \A c \in results[p] : Belongs(c, p) /\ (c.hasConflict => Minimal(c.branches))
         /\ Open(p) => results[p] = {}
         /\ p \in repo.conflicts /\ ~Open(p) => Integrated(p) \/ \E c \in results[p] : c.hasConflict

\* The calls under way are for pairs in conflict, each above those before.
CallsInv ==
    /\ calls[1].pair = {}
    /\ \A i \in 2 .. Len(calls) : calls[i].pair \in (DOMAIN results \cap repo.conflicts) \ ResolvedPairs
    /\ \A i, j \in 2 .. Len(calls) : i < j => Higher(calls[j].pair, calls[i].pair)
    /\ \A i, j \in 2 .. Len(calls) : calls[i].pair = calls[j].pair => i = j

\* A call has the conflicts of the pairs it has looked at, but for those that
\* are still searched, one of them by the next call.
GatheredInv(i) ==
    /\ calls[i].todo \subseteq PairsOf(i)
    /\ \A p \in Seen(i) : p \in DOMAIN results /\ (Open(p) \/ results[p] \subseteq calls[i].found)
    /\ \A j \in 2 .. Len(calls) : calls[j].pair \in Seen(i) => j <= i + 1
    /\ \A c \in calls[i].found :
          (c.hasConflict => Minimal(c.branches)) /\ (i > 1 => Belongs(c, calls[i].pair))

SearchInv == stage = "searching" => ResultsInv /\ CallsInv /\ \A i \in 1 .. Len(calls) : GatheredInv(i)

IInv == TypeOK /\ SearchInv /\ ConflictsAreExplained /\ ConflictsAreMinimal
-----------------------------------------------------------------------------
(* What lies above a branch and above a pair.                              *)

LEMMA DirectlyAbove ==
    ASSUME NEW config \in Configuration, NEW b \in Branches
    PROVE  config[b] \subseteq AllUpstream(config, b)
  BY DEF Configuration, AllUpstream

LEMMA AboveAbove ==
    ASSUME NEW config \in Configuration, NEW b \in Branches, NEW u \in AllUpstream(config, b)
    PROVE  AllUpstream(config, u) \subseteq AllUpstream(config, b)
  BY DEF Configuration, AllUpstream, ClosedUpward

LEMMA ConfigurationOK ==
    ASSUME TypeOK
    PROVE  /\ repo.upstreams \in Configuration
           /\ \A b \in Branches : GetImmediateUpstream(b) \in SUBSET Branches
           /\ repo.conflicts \subseteq {p \in Pair : Cardinality(p) = 2}
  BY DEF TypeOK, Repository, Configuration, GetImmediateUpstream

LEMMA SamePair ==
    ASSUME NEW a, NEW b, NEW c, NEW d, {a, b} = {c, d}
    PROVE  (a = c /\ b = d) \/ (a = d /\ b = c)
  OBVIOUS

LEMMA HigherStill ==
    ASSUME TypeOK, NEW p, NEW q, NEW r, Higher(q, p), Higher(r, q)
    PROVE  Higher(r, p)
<1> DEFINE All(b) == AllUpstream(repo.upstreams, b)
<1>1. PICK a \in Branches, b \in Branches : p = {a, b} /\ \E x \in All(a), y \in All(b) : q = {x, y}
  BY DEF Higher
<1>2. PICK c \in Branches, d \in Branches : q = {c, d} /\ \E u \in All(c), v \in All(d) : r = {u, v}
  BY DEF Higher
<1>x. PICK x \in All(a), y \in All(b) : q = {x, y}
  BY <1>1
<1>u. PICK u \in All(c), v \in All(d) : r = {u, v}
  BY <1>2
<1>3. All(x) \subseteq All(a) /\ All(y) \subseteq All(b)
  BY ConfigurationOK, AboveAbove
<1>4. (x = c /\ y = d) \/ (x = d /\ y = c)
  BY <1>1, <1>2, <1>x, SamePair
<1>5. \E w \in All(a), z \in All(b) : r = {w, z}
  <2>1. CASE x = c /\ y = d
    BY <1>u, <1>3, <2>1
  <2>2. CASE x = d /\ y = c
    <3>1. v \in All(a) /\ u \in All(b) /\ r = {v, u}
      BY <1>u, <1>3, <2>2
    <3> QED
      BY <3>1
  <2> QED
    BY <1>4, <2>1, <2>2
<1> QED
  BY <1>1, <1>5 DEF Higher

LEMMA AccountsFromAbove ==
    ASSUME TypeOK, NEW p, NEW q, NEW r, Higher(q, p), Accounts(r, q)
    PROVE  Accounts(r, p)
<1> DEFINE All(b) == AllUpstream(repo.upstreams, b)
<1>1. PICK a \in Branches, b \in Branches : p = {a, b} /\ \E x \in All(a), y \in All(b) : q = {x, y}
  BY DEF Higher
<1>2. PICK c \in Branches, d \in Branches : q = {c, d} /\ \E u \in Above(c), v \in Above(d) : r = {u, v}
  BY DEF Accounts
<1>x. PICK x \in All(a), y \in All(b) : q = {x, y}
  BY <1>1
<1>u. PICK u \in Above(c), v \in Above(d) : r = {u, v}
  BY <1>2
<1>3. Above(x) \subseteq Above(a) /\ Above(y) \subseteq Above(b)
  BY ConfigurationOK, AboveAbove DEF Above
<1>4. (x = c /\ y = d) \/ (x = d /\ y = c)
  BY <1>1, <1>2, <1>x, SamePair
<1>5. \E w \in Above(a), z \in Above(b) : r = {w, z}
  <2>1. CASE x = c /\ y = d
    BY <1>u, <1>3, <2>1
  <2>2. CASE x = d /\ y = c
    <3>1. v \in Above(a) /\ u \in Above(b) /\ r = {v, u}
      BY <1>u, <1>3, <2>2
    <3> QED
      BY <3>1
  <2> QED
    BY <1>4, <2>1, <2>2
<1> QED
  BY <1>1, <1>5 DEF Accounts

LEMMA IntegrationsFromAbove ==
    ASSUME TypeOK, NEW p, NEW q, Higher(q, p)
    PROVE  Integrations(q) \subseteq Integrations(p)
<1>1. \A r \in ResolvedPairs : r = q \/ Higher(r, q) => Higher(r, p)
  BY HigherStill
<1> QED
  BY <1>1 DEF Integrations

LEMMA BelongsFromAbove ==
    ASSUME TypeOK, NEW p, NEW q, NEW c, Higher(q, p), Belongs(c, q)
    PROVE  Belongs(c, p)
<1>1. c.integrations \subseteq Integrations(p)
  BY IntegrationsFromAbove DEF Belongs
<1>2. c.hasConflict => Accounts(c.branches, p)
  BY AccountsFromAbove DEF Belongs
<1> QED
  BY <1>1, <1>2 DEF Belongs

LEMMA AccountsForItself ==
    ASSUME NEW p \in Pair
    PROVE  Accounts(p, p)
  BY DEF Pair, Accounts, Above

LEMMA PairsAboveAreHigher ==
    ASSUME TypeOK, NEW p \in Pair, NEW q \in PairsAbove(p)
    PROVE  Higher(q, p)
<1>1. PICK a \in p : \E b \in p \ {a} : q \in ComparedPairs(GetImmediateUpstream(a), GetImmediateUpstream(b))
  BY DEF PairsAbove
<1>b. PICK b \in p \ {a} : q \in ComparedPairs(GetImmediateUpstream(a), GetImmediateUpstream(b))
  BY <1>1
<1>2. p = {a, b} /\ a \in Branches /\ b \in Branches
  BY <1>b DEF Pair
<1>3. PICK x \in GetImmediateUpstream(a), y \in GetImmediateUpstream(b) : q = {x, y}
  BY <1>b DEF ComparedPairs
<1>4. x \in AllUpstream(repo.upstreams, a) /\ y \in AllUpstream(repo.upstreams, b)
  BY <1>2, <1>3, ConfigurationOK, DirectlyAbove DEF GetImmediateUpstream
<1> QED
  BY <1>2, <1>3, <1>4 DEF Higher

LEMMA NoCircle ==
    ASSUME TypeOK, Acyclic, NEW p
    PROVE  ~Higher(p, p)
<1> DEFINE All(b) == AllUpstream(repo.upstreams, b)
<1> SUFFICES ASSUME Higher(p, p) PROVE FALSE
  OBVIOUS
<1>1. PICK a \in Branches, b \in Branches : p = {a, b} /\ \E x \in All(a), y \in All(b) : p = {x, y}
  BY DEF Higher
<1>x. PICK x \in All(a), y \in All(b) : p = {x, y}
  BY <1>1
<1>2. (a = x /\ b = y) \/ (a = y /\ b = x)
  BY <1>1, <1>x, SamePair
<1>3. All(x) \subseteq All(a)
  BY ConfigurationOK, AboveAbove
<1> QED
  BY <1>1, <1>2, <1>3 DEF Acyclic

-----------------------------------------------------------------------------
(* The stack of calls, and what does not change while they run.            *)

LEMMA FrontIs ==
    ASSUME NEW T, NEW s \in Seq(T), s # <<>>
    PROVE  /\ Front(s) \in Seq(T) /\ Len(Front(s)) = Len(s) - 1 /\ Len(s) \in Nat \ {0}
           /\ \A i \in 1 .. Len(s) - 1 : Front(s)[i] = s[i]
           /\ Last(s) \in T /\ Last(s) = s[Len(s)]
<1> DEFINE n == Len(s)
<1>1. n \in Nat /\ n # 0
  OBVIOUS
<1>2. 1 \in Int /\ n - 1 \in Int /\ \A i \in 1 .. n - 1 : s[i] \in T
  BY <1>1
<1>3. /\ Front(s) \in Seq(T) /\ Len(Front(s)) = n - 1
      /\ \A i \in 1 .. n - 1 : Front(s)[i] = s[i]
  <2>1. /\ Front(s) \in Seq(T)
        /\ Len(Front(s)) = IF 1 <= n - 1 THEN n - 1 - 1 + 1 ELSE 0
        /\ \A i \in 1 .. n - 1 - 1 + 1 : Front(s)[i] = s[1 + i - 1]
    BY <1>2, SubSeqProperties DEF Front
  <2> HIDE DEF n
  <2> QED
    BY <1>1, <2>1
<1>4. Last(s) \in T /\ Last(s) = s[n]
  BY <1>1 DEF Last
<1> QED
  BY <1>1, <1>3, <1>4

LEMMA AppendIs ==
    ASSUME NEW T, NEW s \in Seq(T), NEW e \in T
    PROVE  /\ Append(s, e) \in Seq(T) /\ Len(Append(s, e)) = Len(s) + 1 /\ Len(s) \in Nat
           /\ Append(s, e)[Len(s) + 1] = e
           /\ \A i \in 1 .. Len(s) : Append(s, e)[i] = s[i]
  OBVIOUS

LEMMA Replaced ==
    ASSUME NEW T, NEW s \in Seq(T), s # <<>>, NEW e \in T, NEW t, t = Append(Front(s), e)
    PROVE  /\ t \in Seq(T) /\ Len(t) = Len(s) /\ t[Len(s)] = e
           /\ \A i \in 1 .. Len(s) : i # Len(s) => t[i] = s[i]
<1> DEFINE u == Front(s)
<1>1. /\ u \in Seq(T) /\ Len(u) = Len(s) - 1 /\ Len(s) \in Nat \ {0}
      /\ \A i \in 1 .. Len(s) - 1 : u[i] = s[i]
  BY FrontIs
<1>2. /\ t \in Seq(T) /\ Len(t) = Len(u) + 1 /\ t[Len(u) + 1] = e
      /\ \A i \in 1 .. Len(u) : t[i] = u[i]
  BY <1>1, AppendIs
<1> HIDE DEF u
<1> QED
  BY <1>1, <1>2

LEMMA Pushed ==
    ASSUME NEW T, NEW s \in Seq(T), s # <<>>, NEW e \in T, NEW f \in T,
           NEW t, t = Append(Append(Front(s), e), f)
    PROVE  /\ t \in Seq(T) /\ Len(t) = Len(s) + 1 /\ t[Len(s)] = e /\ t[Len(s) + 1] = f
           /\ \A i \in 1 .. Len(s) : i # Len(s) => t[i] = s[i]
<1> DEFINE u == Append(Front(s), e)
<1>1. /\ u \in Seq(T) /\ Len(u) = Len(s) /\ u[Len(s)] = e /\ Len(s) \in Nat \ {0}
      /\ \A i \in 1 .. Len(s) : i # Len(s) => u[i] = s[i]
  BY Replaced, FrontIs
<1>2. /\ t \in Seq(T) /\ Len(t) = Len(u) + 1 /\ t[Len(u) + 1] = f
      /\ \A i \in 1 .. Len(u) : t[i] = u[i]
  BY <1>1, AppendIs
<1> HIDE DEF u
<1> QED
  BY <1>1, <1>2

LEMMA Popped ==
    ASSUME NEW T, NEW s \in Seq(T), Len(s) > 1, NEW e \in T, NEW t, t = Append(Front(Front(s)), e)
    PROVE  /\ t \in Seq(T) /\ Len(t) = Len(s) - 1 /\ t[Len(s) - 1] = e
           /\ \A i \in 1 .. Len(s) : i < Len(s) - 1 => t[i] = s[i]
<1>1. PICK u \in Seq(T) : /\ u = Front(s) /\ Len(u) = Len(s) - 1 /\ Len(s) \in Nat
                         /\ \A i \in 1 .. Len(s) - 1 : u[i] = s[i]
  <2>1. s # <<>>
    OBVIOUS
  <2> QED
    BY <2>1, FrontIs
<1>2. u # <<>> /\ t = Append(Front(u), e)
  BY <1>1
<1>3. t \in Seq(T)
  BY <1>2, Replaced
<1>4. Len(t) = Len(u)
  BY <1>2, Replaced
<1>5. t[Len(u)] = e
  BY <1>2, Replaced
<1>6. \A i \in 1 .. Len(u) : i # Len(u) => t[i] = u[i]
  BY <1>2, Replaced
<1>7. \A i \in 1 .. Len(s) : i < Len(s) - 1 => t[i] = s[i]
  <2> TAKE i \in 1 .. Len(s)
  <2> HAVE i < Len(s) - 1
  <2>1. i \in 1 .. Len(u) /\ i # Len(u) /\ i \in 1 .. Len(s) - 1
    BY <1>1
  <2> QED
    BY <2>1, <1>1, <1>6
<1> QED
  BY <1>1, <1>3, <1>4, <1>5, <1>7

LEMMA SameRepository ==
    ASSUME UNCHANGED <<repo, branches>>
    PROVE  /\ ResolvedPairs' = ResolvedPairs
           /\ Acyclic' <=> Acyclic
           /\ PairsWithin(branches)' = PairsWithin(branches)
           /\ \A p : /\ Resolution(p)' = Resolution(p)
                     /\ PairsAbove(p)' = PairsAbove(p)
                     /\ Integrated(p)' <=> Integrated(p)
                     /\ Minimal(p)' <=> Minimal(p)
           /\ \A p, q : /\ Accounts(q, p)' <=> Accounts(q, p)
                        /\ Higher(q, p)' <=> Higher(q, p)
                        /\ Belongs(q, p)' <=> Belongs(q, p)
<1>1. \A S, T : ComparedPairs(S, T)' = ComparedPairs(S, T)
  BY DEF ComparedPairs
<1>2. \A b : GetImmediateUpstream(b)' = GetImmediateUpstream(b)
  BY DEF GetImmediateUpstream
<1>3. \A p : PairsAbove(p)' = PairsAbove(p)
  BY <1>1, <1>2 DEF PairsAbove
<1>4. \A p : Resolving(p)' = Resolving(p)
  BY <1>2 DEF Resolving
<1>5. Acyclic' <=> Acyclic
  BY DEF Acyclic
<1>6. ResolvedPairs' = ResolvedPairs
  BY <1>4 DEF ResolvedPairs
<1>7. \A p : Resolution(p)' = Resolution(p)
  BY <1>4 DEF Resolution
<1>8. PairsWithin(branches)' = PairsWithin(branches)
  BY DEF PairsWithin, ComparedPairs
<1>9. \A p, q : (Accounts(q, p)' <=> Accounts(q, p)) /\ (Higher(q, p)' <=> Higher(q, p))
  BY DEF Accounts, Above, Higher
<1>10. \A p : Integrations(p)' = Integrations(p)
  BY <1>4, <1>6, <1>9 DEF Integrations
<1>11. \A p : Integrated(p)' <=> Integrated(p)
  BY <1>6, <1>10 DEF Integrated
<1>12. \A p : Minimal(p)' <=> Minimal(p)
  BY <1>3, <1>5, <1>11 DEF Minimal
<1>13. \A c, p : Belongs(c, p)' <=> Belongs(c, p)
  BY <1>9, <1>10 DEF Belongs
<1> QED
  BY <1>3, <1>5, <1>6, <1>7, <1>8, <1>9, <1>11, <1>12, <1>13

-----------------------------------------------------------------------------
(* Types.                                                                  *)

LEMMA ComparedPairsType ==
    ASSUME NEW left \in SUBSET Branches, NEW right \in SUBSET Branches
    PROVE  ComparedPairs(left, right) \in SUBSET Pair
  BY DEF ComparedPairs, Pair

LEMMA PairsAboveType ==
    ASSUME TypeOK, NEW p \in Pair
    PROVE  PairsAbove(p) \in SUBSET Pair
<1>1. \A a, b \in p : ComparedPairs(GetImmediateUpstream(a), GetImmediateUpstream(b)) \in SUBSET Pair
  BY ConfigurationOK, ComparedPairsType DEF Pair
<1> QED
  BY <1>1 DEF PairsAbove

LEMMA PairsWithinType ==
    ASSUME NEW bs \in Seq(Branches)
    PROVE  PairsWithin(bs) \in SUBSET Pair
<1>1. \A i \in 1 .. Len(bs) - 1 : ComparedPairs({bs[i]}, {bs[j] : j \in i + 1 .. Len(bs)}) \in SUBSET Pair
  <2> TAKE i \in 1 .. Len(bs) - 1
  <2>1. {bs[i]} \in SUBSET Branches /\ {bs[j] : j \in i + 1 .. Len(bs)} \in SUBSET Branches
    OBVIOUS
  <2> QED
    BY <2>1, ComparedPairsType
<1> QED
  BY <1>1 DEF PairsWithin

LEMMA ResolutionType ==
    ASSUME TypeOK, NEW p \in Pair
    PROVE  Resolution(p) \in SUBSET Conflict
<1>1. Resolving(p) \in SUBSET Branches
  BY DEF Resolving, ToSet, TypeOK
<1> QED
  BY <1>1 DEF Resolution, Conflict

LEMMA OrderType ==
    ASSUME NEW S \in SUBSET Branches, NEW s \in Order(S)
    PROVE  s \in Seq(Branches)
<1>1. Cardinality(S) \in Nat
  BY RepositoriesAssumption, FS_Subset, FS_CardinalityType
<1>2. s \in [1 .. Cardinality(S) -> S]
  BY DEF Order
<1> QED
  BY <1>1, <1>2

LEMMA CallType ==
    ASSUME NEW call \in Call, NEW pair, NEW found \in SUBSET Conflict
    PROVE  /\ [call EXCEPT !.todo = @ \ {pair}] \in Call
           /\ [call EXCEPT !.found = @ \cup found] \in Call
  BY DEF Call

LEMMA SetResultIs ==
    ASSUME NEW pair, NEW conflicts, results' = SetResult(pair, conflicts)
    PROVE  /\ DOMAIN results' = DOMAIN results \cup {pair} /\ results'[pair] = conflicts
           /\ \A p \in DOMAIN results : p # pair => results'[p] = results[p]
  BY DEF SetResult

LEMMA SetResultType ==
    ASSUME TypeOK, NEW pair \in Pair, NEW conflicts \in SUBSET Conflict, results' = SetResult(pair, conflicts)
    PROVE  DOMAIN results' \subseteq Pair /\ \A p \in DOMAIN results' : results'[p] \subseteq Conflict
<1>1. DOMAIN results \subseteq Pair /\ \A p \in DOMAIN results : results[p] \subseteq Conflict
  BY DEF TypeOK
<1>2. DOMAIN results' = DOMAIN results \cup {pair} /\ results'[pair] = conflicts
  BY SetResultIs
<1>3. \A p \in DOMAIN results : p # pair => results'[p] = results[p]
  BY SetResultIs
<1> QED
  BY <1>1, <1>2, <1>3

\* The call that looks at a pair next.
Looking(pair) == [Last(calls) EXCEPT !.todo = @ \ {pair}]

\* What a step does that goes on with the search.
Searches ==
    /\ stage = "searching" /\ stage' = "searching"
    /\ UNCHANGED <<repo, request, branches, answer>>

Look(pair) == stage = "searching" /\ pair \in Last(calls).todo

Read(pair) ==
    /\ Look(pair) /\ Searches
    /\ pair \in DOMAIN results
    /\ calls' = Append(Front(calls), [Looking(pair) EXCEPT !.found = @ \cup results[pair]])
    /\ results' = results

Clean(pair) ==
    /\ Look(pair) /\ Searches
    /\ pair \notin DOMAIN results /\ pair \notin repo.conflicts
    /\ calls' = Append(Front(calls), Looking(pair))
    /\ results' = SetResult(pair, {})

Descend(pair) ==
    /\ Look(pair) /\ Searches
    /\ pair \notin DOMAIN results /\ pair \in repo.conflicts
    /\ calls' = Append(Append(Front(calls), Looking(pair)), [pair |-> pair, todo |-> PairsAbove(pair), found |-> {}])
    /\ results' = SetResult(pair, {})

LEMMA FindCases ==
    ASSUME TypeOK, NEW pair, FindConflictsBetween(pair)
    PROVE  Read(pair) \/ Clean(pair) \/ Descend(pair) \/ (Throw /\ UNCHANGED branches)
  BY DEF FindConflictsBetween, Read, Clean, Descend, Look, Looking, Searches

LEMMA ReturnIs ==
    ASSUME NEW conflicts, stage = "searching", Return(conflicts), UNCHANGED branches
    PROVE  /\ Searches
           /\ results' = SetResult(Last(calls).pair, conflicts)
           /\ calls' = Append(Front(Front(calls)), [Last(Front(calls)) EXCEPT !.found = @ \cup conflicts])
  BY DEF Return, Searches

\* The result of a pair that is tried again, with the integration branches used.
Retried(pair, used) ==
    [branches |-> pair, integrations |-> used,
     hasConflict |-> [branches |-> pair, integrations |-> used] \notin repo.merging]

LEMMA EndPairCases ==
    ASSUME EndPair
    PROVE  /\ stage = "searching" /\ Len(calls) > 1 /\ Last(calls).todo = {}
           /\ UNCHANGED branches
           /\ \/ Throw
              \/ Actual(Last(calls).found) # {} /\ Return(Actual(Last(calls).found))
              \/ /\ Actual(Last(calls).found) = {}
                 /\ \E used \in SUBSET UNION {c.integrations : c \in Last(calls).found} :
                       Return({Retried(Last(calls).pair, used)})
  BY DEF EndPair, ActualOrRetry, RetryWithIntegrations, Retried

LEMMA CallsType ==
    ASSUME TypeOK, stage = "searching"
    PROVE  /\ calls \in Seq(Call) /\ calls # <<>> /\ Len(calls) \in Nat \ {0}
           /\ Last(calls) = calls[Len(calls)] /\ Last(calls) \in Call
           /\ \A i \in 1 .. Len(calls) : calls[i] \in Call
<1>1. calls \in Seq(Call) /\ calls # <<>>
  BY DEF TypeOK
<1>2. Len(calls) \in Nat \ {0} /\ Last(calls) = calls[Len(calls)] /\ Last(calls) \in Call
  BY <1>1, FrontIs
<1> QED
  BY <1>1, <1>2

-----------------------------------------------------------------------------
\* A step of the search keeps the types.
LEMMA SearchType ==
    ASSUME TypeOK, Searches, DOMAIN results' \subseteq Pair, \A p \in DOMAIN results' : results'[p] \subseteq Conflict,
           calls' \in Seq(Call), calls' # <<>>
    PROVE  TypeOK'
  BY DEF TypeOK, Searches

LEMMA LookType ==
    ASSUME TypeOK, NEW pair \in Pair, Read(pair) \/ Clean(pair) \/ Descend(pair)
    PROVE  TypeOK'
<1>1. Searches /\ stage = "searching"
  BY DEF Read, Clean, Descend, Searches
<1>2. calls \in Seq(Call) /\ calls # <<>> /\ Last(calls) \in Call
  BY <1>1, CallsType
<1>3. Looking(pair) \in Call
  BY <1>2, CallType DEF Looking
<1>4. DOMAIN results \subseteq Pair /\ \A p \in DOMAIN results : results[p] \subseteq Conflict
  BY DEF TypeOK
<1>5. CASE Read(pair)
  <2>1. PICK call \in Call : calls' = Append(Front(calls), call)
    BY <1>3, <1>4, <1>5, CallType DEF Read
  <2>2. calls' \in Seq(Call)
    BY <1>2, <2>1, Replaced
  <2>3. calls' # <<>>
    BY <1>5 DEF Read
  <2> QED
    BY <1>1, <1>4, <1>5, <2>2, <2>3, SearchType DEF Read
<1>7. CASE Clean(pair)
  <2>1. calls' \in Seq(Call)
    BY <1>2, <1>3, <1>7, Replaced DEF Clean
  <2>2. calls' # <<>>
    BY <1>7 DEF Clean
  <2> QED
    BY <1>1, <1>7, <2>1, <2>2, SetResultType, SearchType DEF Clean
<1>8. CASE Descend(pair)
  <2>1. PICK new \in Call : calls' = Append(Append(Front(calls), Looking(pair)), new)
    <3>1. [pair |-> pair, todo |-> PairsAbove(pair), found |-> {}] \in Call
      BY PairsAboveType DEF Call
    <3> QED
      BY <1>8, <3>1 DEF Descend
  <2>2. calls' \in Seq(Call)
    BY <1>2, <1>3, <2>1, Pushed
  <2>3. calls' # <<>>
    BY <1>8 DEF Descend
  <2> QED
    BY <1>1, <1>8, <2>2, <2>3, SetResultType, SearchType DEF Descend
<1> QED
  BY <1>5, <1>7, <1>8

LEMMA ReturnType ==
    ASSUME TypeOK, stage = "searching", Len(calls) > 1, NEW conflicts \in SUBSET Conflict,
           Return(conflicts), UNCHANGED branches, Last(calls).pair \in Pair
    PROVE  TypeOK'
<1>1. /\ Searches /\ results' = SetResult(Last(calls).pair, conflicts)
      /\ calls' = Append(Front(Front(calls)), [Last(Front(calls)) EXCEPT !.found = @ \cup conflicts])
  BY ReturnIs
<1>2. calls \in Seq(Call) /\ calls # <<>> /\ Len(calls) \in Nat
  BY CallsType
<1>3. Front(calls) \in Seq(Call) /\ Front(calls) # <<>>
  BY <1>2, FrontIs
<1>4. Last(Front(calls)) \in Call
  BY <1>3, FrontIs
<1>5. [Last(Front(calls)) EXCEPT !.found = @ \cup conflicts] \in Call
  BY <1>4, CallType
<1>6. calls' \in Seq(Call)
  BY <1>1, <1>2, <1>5, Popped
<1>7. calls' # <<>>
  BY <1>1
<1>8. DOMAIN results' \subseteq Pair /\ \A p \in DOMAIN results' : results'[p] \subseteq Conflict
  BY <1>1, SetResultType
<1> QED
  BY <1>1, <1>6, <1>7, <1>8, SearchType

-----------------------------------------------------------------------------
(* The steps of the search.                                                *)

LEMMA Searching ==
    ASSUME TypeOK, SearchInv, stage = "searching"
    PROVE  /\ ResultsInv /\ CallsInv /\ \A i \in 1 .. Len(calls) : GatheredInv(i)
           /\ Len(calls) \in Nat \ {0} /\ calls \in Seq(Call) /\ calls # <<>>
           /\ Last(calls) = calls[Len(calls)] /\ Last(calls) \in Call
  BY CallsType DEF SearchInv

LEMMA SeenPairs ==
    ASSUME TypeOK, SearchInv, stage = "searching", NEW i \in 1 .. Len(calls)
    PROVE  Seen(i) \subseteq DOMAIN results
  BY Searching DEF GatheredInv

\* A pair whose result a call takes over.
LEMMA ReadFound ==
    ASSUME TypeOK, SearchInv, stage = "searching", NEW pair \in Pair, pair \in DOMAIN results,
           NEW c \in results[pair]
    PROVE  (c.hasConflict => Minimal(c.branches)) /\ Belongs(c, pair)
<1>1. ResultsInv
  BY Searching
<1>2. CASE pair \in ResolvedPairs
  <2>1. ~c.hasConflict /\ c.integrations = Resolving(pair)
    BY <1>1, <1>2 DEF ResultsInv, Resolution
  <2>2. Resolving(pair) \subseteq Integrations(pair)
    BY <1>2 DEF Integrations
  <2> QED
    BY <2>1, <2>2 DEF Belongs
<1>3. CASE pair \notin ResolvedPairs
  BY <1>1, <1>3 DEF ResultsInv
<1> QED
  BY <1>2, <1>3

\* A pair that a call looks at lies above its own.
LEMMA LookHigher ==
    ASSUME TypeOK, SearchInv, NEW pair \in Pair, Look(pair), Len(calls) > 1
    PROVE  Higher(pair, calls[Len(calls)].pair)
<1> DEFINE n == Len(calls)
<1>1. stage = "searching" /\ pair \in calls[n].todo /\ n \in 1 .. Len(calls) /\ n \in 2 .. Len(calls)
  BY Searching DEF Look
<1>2. GatheredInv(n) /\ CallsInv
  BY <1>1, Searching
<1>3. pair \in PairsAbove(calls[n].pair)
  BY <1>1, <1>2 DEF GatheredInv, PairsOf
<1>4. calls[n].pair \in Pair
  BY <1>1, <1>2 DEF CallsInv, TypeOK
<1> QED
  BY <1>3, <1>4, PairsAboveAreHigher

\* The call that looks at a pair keeps its own, whatever it finds.
LEMMA LookFrames ==
    ASSUME TypeOK, SearchInv, NEW pair \in Pair, Read(pair) \/ Clean(pair)
    PROVE  /\ Len(calls') = Len(calls)
           /\ \A i \in 1 .. Len(calls) : /\ calls'[i].pair = calls[i].pair
                                         /\ PairsOf(i)' = PairsOf(i)
                                         /\ i # Len(calls) => calls'[i] = calls[i]
           /\ \A p : Open(p)' <=> Open(p)
           /\ calls'[Len(calls)].todo = calls[Len(calls)].todo \ {pair}
           /\ Read(pair) => calls'[Len(calls)].found = calls[Len(calls)].found \cup results[pair]
           /\ Clean(pair) => calls'[Len(calls)].found = calls[Len(calls)].found
<1> DEFINE n == Len(calls)
<1>1. stage = "searching" /\ Searches
  BY DEF Read, Clean, Searches
<1>2. n \in Nat \ {0} /\ calls \in Seq(Call) /\ calls # <<>> /\ Last(calls) = calls[n] /\ Last(calls) \in Call
  BY <1>1, Searching
<1>3. DOMAIN results \subseteq Pair /\ \A p \in DOMAIN results : results[p] \subseteq Conflict
  BY DEF TypeOK
<1>4. PICK call \in Call :
         /\ calls' = Append(Front(calls), call)
         /\ call.pair = calls[n].pair /\ call.todo = calls[n].todo \ {pair}
         /\ Read(pair) => call.found = calls[n].found \cup results[pair]
         /\ Clean(pair) => call.found = calls[n].found
  <2>1. Looking(pair) \in Call
    BY <1>2, CallType DEF Looking
  <2>2. CASE Read(pair)
    <3> DEFINE call == [Looking(pair) EXCEPT !.found = @ \cup results[pair]]
    <3>1. call \in Call
      BY <1>3, <2>1, <2>2, CallType DEF Read
    <3>2. call.pair = calls[n].pair /\ call.todo = calls[n].todo \ {pair}
          /\ call.found = calls[n].found \cup results[pair]
      BY <1>2 DEF Looking, Call
    <3>3. ~Clean(pair) /\ calls' = Append(Front(calls), call)
      BY <2>2 DEF Read, Clean
    <3> HIDE DEF call
    <3> QED
      BY <3>1, <3>2, <3>3
  <2>3. CASE Clean(pair)
    <3>1. Looking(pair).pair = calls[n].pair /\ Looking(pair).todo = calls[n].todo \ {pair}
          /\ Looking(pair).found = calls[n].found
      BY <1>2 DEF Looking, Call
    <3>2. ~Read(pair) /\ calls' = Append(Front(calls), Looking(pair))
      BY <2>3 DEF Read, Clean
    <3> QED
      BY <2>1, <3>1, <3>2
  <2> QED
    BY <2>2, <2>3
<1>5. Len(calls') = n
  BY <1>2, <1>4, Replaced
<1>6. calls'[n] = call
  BY <1>2, <1>4, Replaced
<1>7. \A i \in 1 .. n : i # n => calls'[i] = calls[i]
  BY <1>2, <1>4, Replaced
<1>8. \A i \in 1 .. n : calls'[i].pair = calls[i].pair
  BY <1>4, <1>6, <1>7
<1>9. \A p : Open(p)' <=> Open(p)
  BY <1>2, <1>5, <1>8 DEF Open
<1>10. \A i \in 1 .. n : PairsOf(i)' = PairsOf(i)
  BY <1>1, <1>8, SameRepository DEF PairsOf, Searches
<1> HIDE DEF n
<1> QED
  BY <1>4, <1>5, <1>6, <1>7, <1>8, <1>9, <1>10 DEF n

\* A call's part of the invariant after a step, from what the step leaves.
LEMMA GatheredNext ==
    ASSUME Searches, NEW i \in Nat, calls'[i].todo \subseteq PairsOf(i)',
           \A p \in PairsOf(i)' \ calls'[i].todo :
              p \in DOMAIN results' /\ (Open(p)' \/ results'[p] \subseteq calls'[i].found),
           \A j \in 2 .. Len(calls') : calls'[j].pair \in PairsOf(i)' \ calls'[i].todo => j <= i + 1,
           \A c \in calls'[i].found :
              (c.hasConflict => Minimal(c.branches)) /\ (i > 1 => Belongs(c, calls'[i].pair))
    PROVE  GatheredInv(i)'
<1>1. Seen(i)' = PairsOf(i)' \ calls'[i].todo
  BY DEF Seen
<1>2. ASSUME NEW c \in calls'[i].found
      PROVE  (c.hasConflict => Minimal(c.branches)') /\ (i > 1 => Belongs(c, calls[i].pair)')
  BY <1>2, SameRepository DEF Searches
<1> QED
  BY <1>1, <1>2 DEF GatheredInv

\* The part of a call that, with the pairs it has seen, is as it was.
LEMMA GatheredStill ==
    ASSUME Searches, NEW i \in Nat, GatheredInv(i), calls'[i] = calls[i], PairsOf(i)' = PairsOf(i),
           \A p \in Seen(i) : p \in DOMAIN results' /\ (Open(p)' \/ results'[p] \subseteq calls[i].found),
           \A j \in 2 .. Len(calls') : calls'[j].pair \in Seen(i) => j <= i + 1
    PROVE  GatheredInv(i)'
  BY GatheredNext DEF GatheredInv, Seen

LEMMA LookInv ==
    ASSUME TypeOK, SearchInv, NEW pair \in Pair, Read(pair) \/ Clean(pair)
    PROVE  SearchInv'
<1> DEFINE n == Len(calls)
<1>1. stage = "searching" /\ Searches /\ Look(pair)
  BY DEF Read, Clean, Searches
<1>2. n \in Nat \ {0} /\ n \in 1 .. n /\ pair \in calls[n].todo
  BY <1>1, Searching DEF Look
<1>3. ResultsInv /\ CallsInv /\ \A i \in 1 .. n : GatheredInv(i)
  BY <1>1, Searching
<1>4. /\ Len(calls') = n
      /\ \A i \in 1 .. n : calls'[i].pair = calls[i].pair /\ PairsOf(i)' = PairsOf(i)
      /\ \A i \in 1 .. n : i # n => calls'[i] = calls[i]
      /\ \A p : Open(p)' <=> Open(p)
  BY LookFrames
<1>5. /\ calls'[n].todo = calls[n].todo \ {pair}
      /\ Read(pair) => calls'[n].found = calls[n].found \cup results[pair]
      /\ Clean(pair) => calls'[n].found = calls[n].found
  BY LookFrames
<1>6. /\ DOMAIN results' = DOMAIN results \cup {pair}
      /\ \A p \in DOMAIN results : results'[p] = results[p]
      /\ Clean(pair) => pair \notin DOMAIN results /\ pair \notin repo.conflicts /\ results'[pair] = {}
      /\ Read(pair) => pair \in DOMAIN results
  BY SetResultIs DEF Read, Clean
<1>7. ResultsInv'
  <2>1. \A p \in ResolvedPairs : p \in DOMAIN results' /\ results'[p] = Resolution(p)
    BY <1>3, <1>6 DEF ResultsInv
  <2>2. ASSUME NEW p \in DOMAIN results' \ ResolvedPairs
        PROVE  /\ \A c \in results'[p] : Belongs(c, p) /\ (c.hasConflict => Minimal(c.branches))
               /\ Open(p) => results'[p] = {}
               /\ p \in repo.conflicts /\ ~Open(p) => Integrated(p) \/ \E c \in results'[p] : c.hasConflict
    <3>1. CASE p \in DOMAIN results
      BY <1>3, <1>6, <2>2, <3>1 DEF ResultsInv
    <3>2. CASE p \notin DOMAIN results
      <4>1. p = pair /\ results'[p] = {} /\ p \notin repo.conflicts
        BY <1>6, <2>2, <3>2, <1>1 DEF Read, Clean
      <4> QED
        BY <4>1
    <3> QED
      BY <3>1, <3>2
  <2>3. repo' = repo
    BY <1>1 DEF Searches
  <2> HIDE DEF n
  <2> QED
    BY <1>1, <1>4, <2>1, <2>2, <2>3, SameRepository DEF ResultsInv, Searches
<1>8. CallsInv'
  <2>1. calls'[1].pair = {}
    BY <1>2, <1>3, <1>4 DEF CallsInv
  <2>2. \A i \in 2 .. n : calls'[i].pair \in (DOMAIN results' \cap repo.conflicts) \ ResolvedPairs
    BY <1>3, <1>4, <1>6 DEF CallsInv
  <2>3. \A i, j \in 2 .. n : i < j => Higher(calls'[j].pair, calls'[i].pair)
    BY <1>3, <1>4 DEF CallsInv
  <2>4. \A i, j \in 2 .. n : calls'[i].pair = calls'[j].pair => i = j
    BY <1>3, <1>4 DEF CallsInv
  <2>5. repo' = repo
    BY <1>1 DEF Searches
  <2> HIDE DEF n
  <2> QED
    BY <1>1, <1>4, <2>1, <2>2, <2>3, <2>4, <2>5, SameRepository DEF CallsInv, Searches
<1>9. ASSUME NEW i \in 1 .. n, i # n PROVE GatheredInv(i)'
  <2>1. GatheredInv(i) /\ calls'[i] = calls[i] /\ PairsOf(i)' = PairsOf(i) /\ i \in Nat
    BY <1>3, <1>4, <1>9
  <2>2. \A p \in Seen(i) : p \in DOMAIN results' /\ (Open(p)' \/ results'[p] \subseteq calls[i].found)
    BY <2>1, <1>4, <1>6 DEF GatheredInv
  <2>3. \A j \in 2 .. Len(calls') : calls'[j].pair \in Seen(i) => j <= i + 1
    BY <2>1, <1>4 DEF GatheredInv
  <2> QED
    BY <1>1, <2>1, <2>2, <2>3, GatheredStill
<1>10. GatheredInv(n)'
  <2>1. GatheredInv(n)
    BY <1>2, <1>3
  <2>2. PairsOf(n)' = PairsOf(n) /\ calls'[n].pair = calls[n].pair
    BY <1>2, <1>4
  <2>3. calls'[n].todo \subseteq PairsOf(n)'
    BY <1>5, <2>1, <2>2 DEF GatheredInv
  <2>4. PairsOf(n)' \ calls'[n].todo = Seen(n) \cup {pair}
    BY <1>2, <1>5, <2>1, <2>2 DEF Seen, GatheredInv
  <2>5. calls[n].found \subseteq calls'[n].found /\ results'[pair] \subseteq calls'[n].found
    BY <1>1, <1>5, <1>6 DEF Read, Clean
  <2>6. \A p \in PairsOf(n)' \ calls'[n].todo : p \in DOMAIN results' /\ (Open(p)' \/ results'[p] \subseteq calls'[n].found)
    BY <1>4, <1>6, <2>1, <2>4, <2>5 DEF GatheredInv
  <2>7. \A j \in 2 .. Len(calls') : calls'[j].pair \in PairsOf(n)' \ calls'[n].todo => j <= n + 1
    BY <1>2, <1>4
  <2>8. ASSUME NEW c \in calls'[n].found
        PROVE  (c.hasConflict => Minimal(c.branches)) /\ (n > 1 => Belongs(c, calls[n].pair))
    <3>1. CASE c \in calls[n].found
      BY <2>1, <3>1 DEF GatheredInv
    <3>2. CASE c \notin calls[n].found
      <4>1. Read(pair) /\ pair \in DOMAIN results /\ c \in results[pair]
        BY <1>5, <1>6, <2>8, <3>2
      <4>2. (c.hasConflict => Minimal(c.branches)) /\ Belongs(c, pair)
        BY <1>1, <4>1, ReadFound
      <4>3. n > 1 => Higher(pair, calls[n].pair)
        BY <1>1, LookHigher
      <4> QED
        BY <4>2, <4>3, BelongsFromAbove
    <3> QED
      BY <3>1, <3>2
  <2>9. \A c \in calls'[n].found :
          (c.hasConflict => Minimal(c.branches)) /\ (n > 1 => Belongs(c, calls'[n].pair))
    BY <2>2, <2>8
  <2>10. n' = n /\ n \in Nat
    BY <1>2, <1>4
  <2> QED
    BY <1>1, <2>3, <2>6, <2>7, <2>9, <2>10, GatheredNext
<1>11. \A i \in 1 .. Len(calls') : GatheredInv(i)'
  BY <1>4, <1>9, <1>10
<1> QED
  BY <1>7, <1>8, <1>11 DEF SearchInv

LEMMA DescendInv ==
    ASSUME TypeOK, SearchInv, NEW pair \in Pair, Descend(pair)
    PROVE  SearchInv'
<1>1. stage = "searching" /\ Searches /\ Look(pair)
  BY DEF Descend, Searches
<1>2. PICK n \in Nat \ {0} : n = Len(calls) /\ n \in 1 .. n /\ pair \in calls[n].todo
  BY <1>1, Searching DEF Look
<1>3. ResultsInv /\ CallsInv /\ \A i \in 1 .. n : GatheredInv(i)
  BY <1>1, <1>2, Searching
<1>4. /\ DOMAIN results' = DOMAIN results \cup {pair} /\ results'[pair] = {}
      /\ \A p \in DOMAIN results : results'[p] = results[p]
      /\ pair \notin DOMAIN results /\ pair \in repo.conflicts /\ pair \notin ResolvedPairs
  <2>1. pair \notin DOMAIN results /\ pair \in repo.conflicts /\ results' = SetResult(pair, {})
    BY DEF Descend
  <2>2. pair \notin ResolvedPairs
    BY <1>3, <2>1 DEF ResultsInv
  <2>3. DOMAIN results' = DOMAIN results \cup {pair} /\ results'[pair] = {}
    BY <2>1, SetResultIs
  <2>4. \A p \in DOMAIN results : p # pair => results'[p] = results[p]
    BY <2>1, SetResultIs
  <2> QED
    BY <2>1, <2>2, <2>3, <2>4
<1>5. PICK call \in Call, new \in Call :
         /\ calls' = Append(Append(Front(calls), call), new)
         /\ call.pair = calls[n].pair /\ call.todo = calls[n].todo \ {pair} /\ call.found = calls[n].found
         /\ new.pair = pair /\ new.todo = PairsAbove(pair) /\ new.found = {}
  <2>1. Last(calls) = calls[n] /\ Last(calls) \in Call
    BY <1>1, <1>2, Searching
  <2>2. Looking(pair) \in Call
    BY <2>1, CallType DEF Looking
  <2>3. /\ Looking(pair).pair = calls[n].pair /\ Looking(pair).todo = calls[n].todo \ {pair}
        /\ Looking(pair).found = calls[n].found
    BY <2>1 DEF Looking, Call
  <2> DEFINE new == [pair |-> pair, todo |-> PairsAbove(pair), found |-> {}]
  <2>4. new \in Call /\ new.pair = pair /\ new.todo = PairsAbove(pair) /\ new.found = {}
    BY PairsAboveType DEF Call
  <2>5. calls' = Append(Append(Front(calls), Looking(pair)), new)
    BY DEF Descend
  <2> HIDE DEF new
  <2> QED
    BY <2>2, <2>3, <2>4, <2>5
<1>s. calls \in Seq(Call) /\ calls # <<>>
  BY <1>1, Searching
<1>6. Len(calls') = n + 1
  BY <1>2, <1>5, <1>s, Pushed
<1>7. calls'[n] = call
  BY <1>2, <1>5, <1>s, Pushed
<1>8. calls'[n + 1] = new
  BY <1>2, <1>5, <1>s, Pushed
<1>9. \A i \in 1 .. n : i # n => calls'[i] = calls[i]
  <2>0. calls' = Append(Append(Front(calls), call), new)
    BY <1>5
  <2>1. \A i \in 1 .. Len(calls) : i # Len(calls) => calls'[i] = calls[i]
    <3> TAKE i \in 1 .. Len(calls)
    <3> QED
      BY ONLY <1>s, <2>0, i \in 1 .. Len(calls), call \in Call, new \in Call, Pushed
  <2> QED
    BY <1>2, <2>1
<1>10. \A i \in 1 .. n : calls'[i].pair = calls[i].pair
  BY <1>5, <1>7, <1>9
<1>11. calls'[n + 1].pair = pair
  BY <1>5, <1>8
<1>12. \A p : Open(p)' <=> Open(p) \/ p = pair
  <2> TAKE p
  <2>1. Open(p)' <=> \E i \in 2 .. n + 1 : calls'[i].pair = p
    BY <1>6 DEF Open
  <2>2. Open(p) <=> \E i \in 2 .. n : calls[i].pair = p
    BY <1>2 DEF Open
  <2>3. \A i \in 2 .. n + 1 : i \in 2 .. n \/ i = n + 1
    OBVIOUS
  <2>4. n + 1 \in 2 .. n + 1 /\ \A i \in 2 .. n : i \in 2 .. n + 1 /\ i \in 1 .. n
    OBVIOUS
  <2> QED
    BY <1>10, <1>11, <2>1, <2>2, <2>3, <2>4
<1>13. \A i \in 1 .. n : PairsOf(i)' = PairsOf(i)
  BY <1>1, <1>10, SameRepository DEF PairsOf, Searches
<1>14. PairsOf(n + 1)' = PairsAbove(pair)
  <2>1. n + 1 # 1
    OBVIOUS
  <2> QED
    BY <1>1, <1>11, <2>1, SameRepository DEF PairsOf, Searches
<1>15. \A i \in 2 .. n : calls[i].pair \in DOMAIN results /\ calls[i].pair # pair
  BY <1>2, <1>3, <1>4 DEF CallsInv
<1>16. ResultsInv'
  <2>1. \A p \in ResolvedPairs : p \in DOMAIN results' /\ results'[p] = Resolution(p)
    BY <1>3, <1>4 DEF ResultsInv
  <2>2. ASSUME NEW p \in DOMAIN results' \ ResolvedPairs
        PROVE  /\ \A c \in results'[p] : Belongs(c, p) /\ (c.hasConflict => Minimal(c.branches))
               /\ Open(p)' => results'[p] = {}
               /\ p \in repo.conflicts /\ ~Open(p)' => Integrated(p) \/ \E c \in results'[p] : c.hasConflict
    <3>1. CASE p = pair
      BY <1>4, <1>12, <3>1
    <3>2. CASE p # pair
      BY <1>3, <1>4, <1>12, <2>2, <3>2 DEF ResultsInv
    <3> QED
      BY <3>1, <3>2
  <2>3. repo' = repo
    BY <1>1 DEF Searches
  <2> QED
    BY <1>1, <2>1, <2>2, <2>3, SameRepository DEF ResultsInv, Searches
<1>17. CallsInv'
  <2>0. \A i \in 2 .. n + 1 : i \in 2 .. n \/ i = n + 1
    OBVIOUS
  <2>i. \A i \in 2 .. n : i \in 1 .. n
    OBVIOUS
  <2>1. calls'[1].pair = {}
    BY <1>2, <1>3, <1>10 DEF CallsInv
  <2>2. ASSUME NEW i \in 2 .. n + 1
        PROVE  calls'[i].pair \in (DOMAIN results' \cap repo.conflicts) \ ResolvedPairs
    <3>1. CASE i = n + 1
      BY <1>4, <1>11, <3>1
    <3>2. CASE i \in 2 .. n
      BY <1>2, <1>3, <1>4, <1>10, <2>i, <3>2 DEF CallsInv
    <3> QED
      BY <2>0, <3>1, <3>2
  <2>3. ASSUME NEW i \in 2 .. n + 1, NEW j \in 2 .. n + 1, i < j
        PROVE  Higher(calls'[j].pair, calls'[i].pair)
    <3>1. CASE j \in 2 .. n
      <4>1. i \in 2 .. n
        BY <2>3, <3>1
      <4>2. Higher(calls[j].pair, calls[i].pair)
        BY <1>2, <1>3, <2>3, <3>1, <4>1 DEF CallsInv
      <4> QED
        BY <1>10, <2>i, <3>1, <4>1, <4>2
    <3>2. CASE j = n + 1
      <4>1. i \in 2 .. n /\ n > 1 /\ n \in 2 .. n
        BY <2>3, <3>2
      <4>2. Higher(pair, calls[n].pair)
        BY <1>1, <1>2, <4>1, LookHigher
      <4>3. i # n => Higher(calls[n].pair, calls[i].pair)
        BY <1>2, <1>3, <4>1 DEF CallsInv
      <4>4. Higher(pair, calls[i].pair)
        BY <4>2, <4>3, HigherStill
      <4> QED
        BY <1>10, <1>11, <2>i, <3>2, <4>1, <4>4
    <3> QED
      BY <2>0, <3>1, <3>2
  <2>4. ASSUME NEW i \in 2 .. n + 1, NEW j \in 2 .. n + 1, calls'[i].pair = calls'[j].pair
        PROVE  i = j
    <3>1. \A k \in 2 .. n : calls'[k].pair # pair
      BY <1>10, <1>15, <2>i
    <3>2. CASE i \in 2 .. n /\ j \in 2 .. n
      BY <1>2, <1>3, <1>10, <2>i, <2>4, <3>2 DEF CallsInv
    <3> QED
      BY <1>11, <2>0, <2>4, <3>1, <3>2
  <2>5. repo' = repo /\ ResolvedPairs' = ResolvedPairs
    BY <1>1, SameRepository DEF Searches
  <2>6. \A i, j \in 2 .. Len(calls') : i < j => Higher(calls[j].pair, calls[i].pair)'
    BY <1>1, <1>6, <2>3, SameRepository DEF Searches
  <2> QED
    BY <1>6, <2>1, <2>2, <2>4, <2>5, <2>6 DEF CallsInv
<1>18. ASSUME NEW i \in 1 .. n, i # n PROVE GatheredInv(i)'
  <2>1. GatheredInv(i) /\ calls'[i] = calls[i] /\ PairsOf(i)' = PairsOf(i) /\ i \in Nat /\ i < n
    BY <1>3, <1>9, <1>13, <1>18
  <2>2. \A p \in Seen(i) : p \in DOMAIN results
    BY <2>1 DEF GatheredInv
  <2>3. \A p \in Seen(i) : p \in DOMAIN results' /\ (Open(p)' \/ results'[p] \subseteq calls[i].found)
    BY <2>1, <1>4, <1>12 DEF GatheredInv
  <2>4. ASSUME NEW j \in 2 .. Len(calls'), calls'[j].pair \in Seen(i)
        PROVE  j <= i + 1
    <3>1. j # n + 1
      BY <1>4, <1>11, <2>2, <2>4
    <3>2. j \in 2 .. n /\ j \in 1 .. n
      BY <1>6, <3>1
    <3>3. calls[j].pair \in Seen(i)
      BY <1>10, <2>4, <3>2
    <3> QED
      BY <1>2, <2>1, <3>2, <3>3 DEF GatheredInv
  <2> QED
    BY <1>1, <2>1, <2>3, <2>4, GatheredStill
<1>19. GatheredInv(n)'
  <2>1. GatheredInv(n) /\ PairsOf(n)' = PairsOf(n)
    BY <1>2, <1>3, <1>13
  <2>2. calls'[n].todo = calls[n].todo \ {pair} /\ calls'[n].found = calls[n].found
        /\ calls'[n].pair = calls[n].pair
    BY <1>5, <1>7
  <2>3. calls'[n].todo \subseteq PairsOf(n)'
    BY <2>1, <2>2 DEF GatheredInv
  <2>4. PairsOf(n)' \ calls'[n].todo = Seen(n) \cup {pair}
    BY <1>2, <2>1, <2>2 DEF Seen, GatheredInv
  <2>5. \A p \in PairsOf(n)' \ calls'[n].todo :
           p \in DOMAIN results' /\ (Open(p)' \/ results'[p] \subseteq calls'[n].found)
    BY <1>4, <1>12, <2>1, <2>2, <2>4 DEF GatheredInv
  <2>6. \A j \in 2 .. Len(calls') : calls'[j].pair \in PairsOf(n)' \ calls'[n].todo => j <= n + 1
    BY <1>6
  <2>7. \A c \in calls'[n].found :
          (c.hasConflict => Minimal(c.branches)) /\ (n > 1 => Belongs(c, calls'[n].pair))
    BY <2>1, <2>2 DEF GatheredInv
  <2>8. n \in Nat
    OBVIOUS
  <2> QED
    BY <1>1, <2>3, <2>5, <2>6, <2>7, <2>8, GatheredNext
<1>20. GatheredInv(n + 1)'
  <2>1. calls'[n + 1].todo = PairsAbove(pair) /\ calls'[n + 1].found = {}
    BY <1>5, <1>8
  <2>2. calls'[n + 1].todo \subseteq PairsOf(n + 1)' /\ PairsOf(n + 1)' \ calls'[n + 1].todo = {}
    BY <1>14, <2>1
  <2>3. n + 1 \in Nat
    OBVIOUS
  <2> QED
    BY <1>1, <2>1, <2>2, <2>3, GatheredNext
<1>21. \A i \in 1 .. Len(calls') : GatheredInv(i)'
  <2>1. \A i \in 1 .. n + 1 : i \in 1 .. n \/ i = n + 1
    OBVIOUS
  <2> QED
    BY <1>6, <1>18, <1>19, <1>20, <2>1
<1> QED
  BY <1>16, <1>17, <1>21 DEF SearchInv

\* A call that returns what belongs to its pair and is rightly reported, with a
\* conflict unless somebody has taken care of that of the pair.
LEMMA ReturnInv ==
    ASSUME TypeOK, SearchInv, stage = "searching", Len(calls) > 1, UNCHANGED branches,
           NEW conflicts \in SUBSET Conflict, Return(conflicts),
           Integrated(calls[Len(calls)].pair) \/ \E c \in conflicts : c.hasConflict,
           \A c \in conflicts :
              (c.hasConflict => Minimal(c.branches)) /\ Belongs(c, calls[Len(calls)].pair)
    PROVE  SearchInv'
<1>1. /\ Searches /\ results' = SetResult(Last(calls).pair, conflicts)
      /\ calls' = Append(Front(Front(calls)), [Last(Front(calls)) EXCEPT !.found = @ \cup conflicts])
  BY ReturnIs
<1>2. PICK n \in Nat : n = Len(calls) /\ n > 1 /\ n \in 1 .. n /\ n - 1 \in 1 .. n /\ n \in 2 .. n /\ n - 1 \in Nat
  BY Searching
<1>3. ResultsInv /\ CallsInv /\ \A i \in 1 .. n : GatheredInv(i)
  BY <1>2, Searching
<1>s. calls \in Seq(Call) /\ calls # <<>> /\ Last(calls) = calls[n]
  BY <1>2, Searching
<1>4. PICK pair \in Pair : pair = calls[n].pair /\ pair \in DOMAIN results /\ pair \in repo.conflicts
                           /\ pair \notin ResolvedPairs
  BY <1>2, <1>3 DEF CallsInv, TypeOK
<1>r. results' = SetResult(pair, conflicts)
  BY <1>1, <1>4, <1>s
<1>5. DOMAIN results' = DOMAIN results
  <2>1. DOMAIN results' = DOMAIN results \cup {pair}
    BY <1>r, SetResultIs
  <2> QED
    BY <1>4, <2>1
<1>6. results'[pair] = conflicts
  BY <1>r, SetResultIs
<1>7. \A p \in DOMAIN results : p # pair => results'[p] = results[p]
  BY <1>r, SetResultIs
<1>8. PICK call \in Call :
         /\ calls' = Append(Front(Front(calls)), call)
         /\ call.pair = calls[n - 1].pair /\ call.todo = calls[n - 1].todo
         /\ call.found = calls[n - 1].found \cup conflicts
  <2>1. PICK front \in Seq(Call) : /\ front = Front(calls) /\ Len(front) = n - 1
                                   /\ \A i \in 1 .. n - 1 : front[i] = calls[i]
    BY <1>2, <1>s, FrontIs
  <2>2. front # <<>> /\ n - 1 \in 1 .. n - 1
    BY <1>2, <2>1
  <2>3. Last(front) \in Call /\ Last(front) = front[n - 1]
    BY <2>1, <2>2, FrontIs
  <2>4. Last(front) = calls[n - 1]
    BY <2>1, <2>2, <2>3
  <2> DEFINE call == [Last(front) EXCEPT !.found = @ \cup conflicts]
  <2>5. call \in Call
    BY <2>3, CallType
  <2>6. call.pair = Last(front).pair /\ call.todo = Last(front).todo
        /\ call.found = Last(front).found \cup conflicts
    BY <2>3 DEF Call
  <2>7. calls' = Append(Front(Front(calls)), call)
    BY <1>1, <2>1
  <2> HIDE DEF call
  <2> QED
    BY <2>4, <2>5, <2>6, <2>7
<1>q. calls' = Append(Front(Front(calls)), call)
  BY <1>8
<1>9. Len(calls') = n - 1
  <2>1. Len(calls') = Len(calls) - 1
    BY <1>q, <1>s, Popped
  <2> QED
    BY <1>2, <2>1
<1>10. calls'[n - 1] = call
  <2>1. calls'[Len(calls) - 1] = call
    BY <1>q, <1>s, Popped
  <2> QED
    BY <1>2, <2>1
<1>11. \A i \in 1 .. n : i < n - 1 => calls'[i] = calls[i]
  <2>1. \A i \in 1 .. Len(calls) : i < Len(calls) - 1 => calls'[i] = calls[i]
    BY <1>q, <1>s, Popped
  <2> QED
    BY <1>2, <2>1
<1>12. \A i \in 1 .. n - 1 : i \in 1 .. n /\ (i < n - 1 \/ i = n - 1)
  BY <1>2
<1>13. \A i \in 1 .. n - 1 : calls'[i].pair = calls[i].pair
  BY <1>8, <1>10, <1>11, <1>12
<1>14. \A i \in 2 .. n - 1 : i \in 1 .. n - 1 /\ i \in 2 .. n /\ i # n
  BY <1>2
<1>15. \A p : Open(p)' <=> Open(p) /\ p # pair
  <2> TAKE p
  <2>1. Open(p)' <=> \E i \in 2 .. n - 1 : calls'[i].pair = p
    BY <1>9 DEF Open
  <2>2. Open(p) <=> \E i \in 2 .. n : calls[i].pair = p
    BY <1>2 DEF Open
  <2>3. \A i \in 2 .. n : i \in 2 .. n - 1 \/ i = n
    BY <1>2
  <2>4. \A i \in 2 .. n - 1 : calls[i].pair # pair
    BY <1>2, <1>3, <1>4, <1>14 DEF CallsInv
  <2> QED
    BY <1>4, <1>13, <1>14, <2>1, <2>2, <2>3, <2>4
<1>16. \A i \in 1 .. n - 1 : PairsOf(i)' = PairsOf(i)
  BY <1>1, <1>13, SameRepository DEF PairsOf, Searches
<1>17. ResultsInv'
  <2>1. \A p \in ResolvedPairs : p \in DOMAIN results' /\ results'[p] = Resolution(p)
    BY <1>3, <1>4, <1>5, <1>7 DEF ResultsInv
  <2>2. ASSUME NEW p \in DOMAIN results' \ ResolvedPairs
        PROVE  /\ \A c \in results'[p] : Belongs(c, p) /\ (c.hasConflict => Minimal(c.branches))
               /\ Open(p)' => results'[p] = {}
               /\ p \in repo.conflicts /\ ~Open(p)' => Integrated(p) \/ \E c \in results'[p] : c.hasConflict
    <3>1. CASE p = pair
      BY <1>2, <1>4, <1>6, <1>15, <3>1
    <3>2. CASE p # pair
      BY <1>3, <1>5, <1>7, <1>15, <2>2, <3>2 DEF ResultsInv
    <3> QED
      BY <3>1, <3>2
  <2>3. repo' = repo
    BY <1>1 DEF Searches
  <2> QED
    BY <1>1, <2>1, <2>2, <2>3, SameRepository DEF ResultsInv, Searches
<1>18. CallsInv'
  <2>1. calls'[1].pair = {}
    <3>1. 1 \in 1 .. n - 1
      BY <1>2
    <3> QED
      BY <1>3, <1>13, <3>1 DEF CallsInv
  <2>2. \A i \in 2 .. n - 1 : calls'[i].pair \in (DOMAIN results' \cap repo.conflicts) \ ResolvedPairs
    BY <1>2, <1>3, <1>5, <1>13, <1>14 DEF CallsInv
  <2>3. \A i, j \in 2 .. n - 1 : i < j => Higher(calls'[j].pair, calls'[i].pair)
    BY <1>2, <1>3, <1>13, <1>14 DEF CallsInv
  <2>4. \A i, j \in 2 .. n - 1 : calls'[i].pair = calls'[j].pair => i = j
    <3>1. \A i, j \in 2 .. n : calls[i].pair = calls[j].pair => i = j
      BY <1>2, <1>3 DEF CallsInv
    <3> QED
      BY <1>13, <1>14, <3>1
  <2>5. repo' = repo /\ ResolvedPairs' = ResolvedPairs
    BY <1>1, SameRepository DEF Searches
  <2>6. \A i, j \in 2 .. Len(calls') : i < j => Higher(calls[j].pair, calls[i].pair)'
    BY <1>1, <1>9, <2>3, SameRepository DEF Searches
  <2> QED
    BY <1>9, <2>1, <2>2, <2>4, <2>5, <2>6 DEF CallsInv
<1>19. ASSUME NEW i \in 1 .. n - 1, i # n - 1 PROVE GatheredInv(i)'
  <2>1. GatheredInv(i) /\ calls'[i] = calls[i] /\ PairsOf(i)' = PairsOf(i) /\ i \in Nat /\ i + 1 < n
    BY <1>2, <1>3, <1>11, <1>12, <1>16, <1>19
  <2>2. pair \notin Seen(i)
    BY <1>2, <1>4, <2>1 DEF GatheredInv
  <2>3. \A p \in Seen(i) : p \in DOMAIN results' /\ (Open(p)' \/ results'[p] \subseteq calls[i].found)
    BY <1>5, <1>7, <1>15, <2>1, <2>2 DEF GatheredInv
  <2>4. \A j \in 2 .. Len(calls') : calls'[j].pair \in Seen(i) => j <= i + 1
    BY <1>2, <1>9, <1>13, <1>14, <2>1 DEF GatheredInv
  <2> QED
    BY <1>1, <2>1, <2>3, <2>4, GatheredStill
<1>20. GatheredInv(n - 1)'
  <2>0. n - 1 \in 1 .. n - 1
    BY <1>2
  <2>1. GatheredInv(n - 1) /\ PairsOf(n - 1)' = PairsOf(n - 1)
    BY <1>2, <1>3, <1>16, <2>0
  <2>2. calls'[n - 1].todo = calls[n - 1].todo /\ calls'[n - 1].found = calls[n - 1].found \cup conflicts
        /\ calls'[n - 1].pair = calls[n - 1].pair
    BY <1>8, <1>10
  <2>3. calls'[n - 1].todo \subseteq PairsOf(n - 1)'
    BY <2>1, <2>2 DEF GatheredInv
  <2>4. PairsOf(n - 1)' \ calls'[n - 1].todo = Seen(n - 1)
    BY <2>1, <2>2 DEF Seen
  <2>5. \A p \in PairsOf(n - 1)' \ calls'[n - 1].todo :
           p \in DOMAIN results' /\ (Open(p)' \/ results'[p] \subseteq calls'[n - 1].found)
    BY <1>5, <1>6, <1>7, <1>15, <2>1, <2>2, <2>4 DEF GatheredInv
  <2>6. \A j \in 2 .. Len(calls') : calls'[j].pair \in PairsOf(n - 1)' \ calls'[n - 1].todo => j <= n - 1 + 1
    BY <1>2, <1>9
  <2>7. n - 1 > 1 => Higher(pair, calls[n - 1].pair)
    <3>1. n - 1 > 1 => n - 1 \in 2 .. n /\ n - 1 < n
      BY <1>2
    <3> QED
      BY <1>2, <1>3, <1>4, <3>1 DEF CallsInv
  <2>8. ASSUME NEW c \in calls'[n - 1].found
        PROVE  (c.hasConflict => Minimal(c.branches)) /\ (n - 1 > 1 => Belongs(c, calls'[n - 1].pair))
    <3>1. CASE c \in calls[n - 1].found
      BY <2>1, <2>2, <2>8, <3>1 DEF GatheredInv
    <3>2. CASE c \in conflicts
      <4>1. (c.hasConflict => Minimal(c.branches)) /\ Belongs(c, pair)
        BY <1>2, <1>4, <3>2
      <4>2. n - 1 > 1 => Belongs(c, calls[n - 1].pair)
        BY <2>7, <4>1, BelongsFromAbove
      <4> QED
        BY <2>2, <4>1, <4>2
    <3> QED
      BY <2>2, <2>8, <3>1, <3>2
  <2> QED
    BY <1>1, <1>2, <2>3, <2>5, <2>6, <2>8, GatheredNext
<1>21. \A i \in 1 .. Len(calls') : GatheredInv(i)'
  BY <1>9, <1>19, <1>20
<1> QED
  BY <1>17, <1>18, <1>21 DEF SearchInv

\* When every pair above one in conflict has been looked at and none of the
\* results is a conflict, somebody has taken care of those of them that are in
\* conflict; none is one that is still searched, or it would be above itself.
LEMMA NothingAbove ==
    ASSUME TypeOK, SearchInv, stage = "searching", Len(calls) > 1, Last(calls).todo = {},
           \A c \in Last(calls).found : ~c.hasConflict
    PROVE  Minimal(calls[Len(calls)].pair)
<1>1. PICK n \in Nat : n = Len(calls) /\ n \in 2 .. n /\ n \in 1 .. n
  BY Searching
<1>2. ResultsInv /\ CallsInv /\ GatheredInv(n) /\ Last(calls) = calls[n]
  BY <1>1, Searching
<1>3. PICK pair \in Pair : pair = calls[n].pair /\ pair \in repo.conflicts
  BY <1>1, <1>2 DEF CallsInv, TypeOK
<1>4. ASSUME Acyclic, NEW p \in PairsAbove(pair), p \in repo.conflicts
      PROVE  Integrated(p)
  <2>1. p \in Seen(n)
    BY <1>1, <1>2, <1>3, <1>4 DEF Seen, PairsOf
  <2>2. p \in DOMAIN results /\ (Open(p) \/ results[p] \subseteq calls[n].found)
    BY <1>2, <2>1 DEF GatheredInv
  <2>3. ~Open(p)
    <3> SUFFICES ASSUME NEW i \in 2 .. n, calls[i].pair = p PROVE FALSE
      BY <1>1 DEF Open
    <3>1. Higher(p, pair)
      BY <1>3, <1>4, PairsAboveAreHigher
    <3>2. i # n => Higher(pair, p)
      BY <1>1, <1>2, <1>3 DEF CallsInv
    <3>3. Higher(p, p)
      BY <1>3, <3>1, <3>2, HigherStill
    <3> QED
      BY <1>4, <3>3, NoCircle
  <2>4. results[p] \subseteq Last(calls).found
    BY <1>2, <2>2, <2>3
  <2>5. CASE p \in ResolvedPairs
    BY <2>5 DEF Integrated
  <2>6. CASE p \notin ResolvedPairs
    <3>1. Integrated(p) \/ \E c \in results[p] : c.hasConflict
      BY <1>2, <1>4, <2>2, <2>3, <2>6 DEF ResultsInv
    <3> QED
      BY <2>4, <3>1
  <2> QED
    BY <2>5, <2>6
<1> QED
  BY <1>3, <1>4, <1>1 DEF Minimal

LEMMA EndPairInv ==
    ASSUME TypeOK, SearchInv, EndPair
    PROVE  /\ TypeOK' /\ SearchInv' /\ answer'.status # 200
<1>1. /\ stage = "searching" /\ Len(calls) > 1 /\ Last(calls).todo = {}
      /\ UNCHANGED branches
  BY EndPairCases
<1>2. PICK n \in Nat : n = Len(calls) /\ n > 1 /\ n \in 2 .. n /\ n \in 1 .. n
  BY <1>1, Searching
<1>3. /\ CallsInv /\ GatheredInv(n) /\ Last(calls) = calls[n] /\ calls[n] \in Call
  BY <1>1, <1>2, Searching
<1>4. calls[n].pair \in Pair /\ calls[n].found \in SUBSET Conflict
  BY <1>2, <1>3 DEF CallsInv, TypeOK, Call
<1>5. ASSUME NEW conflicts \in SUBSET Conflict, Return(conflicts),
             Integrated(calls[n].pair) \/ \E c \in conflicts : c.hasConflict,
             \A c \in conflicts : (c.hasConflict => Minimal(c.branches)) /\ Belongs(c, calls[n].pair)
      PROVE  TypeOK' /\ SearchInv' /\ answer'.status # 200
  <2>1. TypeOK'
    BY <1>1, <1>3, <1>4, <1>5, ReturnType
  <2>2. SearchInv'
    BY <1>1, <1>2, <1>5, ReturnInv
  <2>3. answer' = answer /\ answer = NoAnswer
    BY <1>1, <1>5 DEF Return, TypeOK
  <2> QED
    BY <2>1, <2>2, <2>3 DEF NoAnswer
<1>6. CASE Throw
  <2>1. stage' = "idle" /\ answer' = [status |-> 500, conflicts |-> {}] /\ calls' = <<>> /\ results' = NoResults
        /\ UNCHANGED <<repo, request, branches>>
    BY <1>1, <1>6 DEF Throw, Answer
  <2>2. TypeOK'
    BY <2>1 DEF TypeOK, NoResults
  <2> QED
    BY <2>1, <2>2 DEF SearchInv
<1>7. CASE Actual(Last(calls).found) # {} /\ Return(Actual(Last(calls).found))
  <2>1. Actual(Last(calls).found) \in SUBSET Conflict
    BY <1>3, <1>4 DEF Actual
  <2>2. \A c \in Actual(Last(calls).found) :
           c.hasConflict /\ Minimal(c.branches) /\ Belongs(c, calls[n].pair)
    BY <1>2, <1>3 DEF Actual, GatheredInv
  <2> QED
    BY <1>5, <1>7, <2>1, <2>2
<1>8. CASE /\ Actual(Last(calls).found) = {}
           /\ \E used \in SUBSET UNION {c.integrations : c \in Last(calls).found} :
                 Return({Retried(Last(calls).pair, used)})
  <2>1. PICK used \in SUBSET UNION {c.integrations : c \in Last(calls).found} :
           Return({Retried(calls[n].pair, used)})
    BY <1>3, <1>8
  <2>2. used \subseteq Integrations(calls[n].pair)
    <3>1. \A c \in Last(calls).found : c.integrations \subseteq Integrations(calls[n].pair)
      BY <1>2, <1>3 DEF GatheredInv, Belongs
    <3> QED
      BY <3>1
  <2>3. used \in SUBSET Branches
    BY <1>3, <1>4 DEF Conflict
  <2>4. PICK own \in Conflict :
           /\ own = Retried(calls[n].pair, used)
           /\ own.branches = calls[n].pair /\ own.integrations = used
           /\ own.hasConflict <=> [branches |-> calls[n].pair, integrations |-> used] \notin repo.merging
    <3> DEFINE tried == [branches |-> calls[n].pair, integrations |-> used] \notin repo.merging
               own == [branches |-> calls[n].pair, integrations |-> used, hasConflict |-> tried]
    <3>1. tried \in BOOLEAN
      OBVIOUS
    <3>2. own = Retried(calls[n].pair, used)
      BY DEF Retried
    <3> HIDE DEF tried
    <3>3. own \in Conflict /\ own.branches = calls[n].pair /\ own.integrations = used /\ own.hasConflict = tried
      BY <1>4, <2>3, <3>1 DEF Conflict
    <3> QED
      BY <3>1, <3>2, <3>3 DEF tried
  <2>5. Minimal(calls[n].pair)
    BY <1>1, <1>2, <1>8, NothingAbove DEF Actual
  <2>6. Accounts(calls[n].pair, calls[n].pair)
    BY <1>4, AccountsForItself
  <2>7. Belongs(own, calls[n].pair)
    BY <2>2, <2>4, <2>6 DEF Belongs
  <2>8. ~own.hasConflict => Integrated(calls[n].pair)
    <3> DEFINE merge == [branches |-> calls[n].pair, integrations |-> used]
    <3>1. merge.branches = calls[n].pair /\ merge.integrations \subseteq Integrations(calls[n].pair)
      BY <2>2
    <3>2. ~own.hasConflict => merge \in repo.merging
      BY <2>4
    <3> HIDE DEF merge
    <3> QED
      BY <3>1, <3>2 DEF Integrated
  <2>9. Return({own})
    BY <2>1, <2>4
  <2> QED
    BY <1>5, <2>4, <2>5, <2>7, <2>8, <2>9
<1> QED
  BY <1>6, <1>7, <1>8, EndPairCases

-----------------------------------------------------------------------------
(* The start and the end of a request.                                     *)


LEMMA OtherStatus == answer.status # 200 => ConflictsAreExplained /\ ConflictsAreMinimal
  BY DEF ConflictsAreExplained, ConflictsAreMinimal

LEMMA InitInv == Init => IInv
<1> SUFFICES ASSUME Init PROVE IInv
  OBVIOUS
<1>1. TypeOK
  BY RepositoriesAssumption DEF Init, TypeOK, NoResults, NoAnswer
<1>2. SearchInv /\ answer.status # 200
  BY DEF Init, SearchInv, NoAnswer
<1> QED
  BY <1>1, <1>2, OtherStatus DEF IInv

LEMMA AnswerInv ==
    ASSUME TypeOK, NEW status \in {400, 409, 500}, Answer(status, {}), branches' \in Seq(Branches)
    PROVE  IInv'
<1>1. stage' = "idle" /\ answer' = [status |-> status, conflicts |-> {}] /\ calls' = <<>> /\ results' = NoResults
      /\ UNCHANGED <<repo, request>>
  BY DEF Answer
<1>2. TypeOK'
  BY <1>1 DEF TypeOK, NoResults
<1>3. SearchInv' /\ answer'.status # 200
  BY <1>1 DEF SearchInv
<1> QED
  BY <1>2, <1>3, OtherStatus DEF IInv, ConflictsAreExplained, ConflictsAreMinimal

LEMMA RequestInv ==
    ASSUME IInv, Ask \/ Validate \/ CheckUpToDate
    PROVE  IInv'
<1>t. TypeOK
  BY DEF IInv
<1>a. ASSUME TypeOK', stage' # "searching", answer' = NoAnswer
      PROVE  IInv'
  BY <1>a DEF IInv, SearchInv, NoAnswer, ConflictsAreExplained, ConflictsAreMinimal
<1>1. CASE Ask
  <2>1. request' \in Requests /\ branches' = request' /\ answer' = NoAnswer /\ stage' = "asked" /\ stage = "idle"
        /\ UNCHANGED <<repo, results, calls>>
    BY <1>1 DEF Ask
  <2>2. request' \in Seq(Branches) /\ branches' \in Seq(Branches)
    BY <2>1, RepositoriesAssumption
  <2>3. answer' \in [status : {0, 200, 400, 409, 500}, conflicts : SUBSET Conflict]
    BY <2>1 DEF NoAnswer
  <2>4. TypeOK'
    BY <1>t, <2>1, <2>2, <2>3 DEF TypeOK
  <2> QED
    BY <1>a, <2>1, <2>4
<1>2. CASE Validate
  <2>1. request \in Seq(Branches) /\ answer = NoAnswer
    BY <1>2, <1>t DEF Validate, TypeOK
  <2>2. branches' \in Seq(Branches)
    <3>1. CASE Len(request) = 1 /\ GetImmediateUpstream(request[1]) # {}
      <4>1. branches' \in Order(GetImmediateUpstream(request[1]))
        BY <1>2, <3>1 DEF Validate
      <4>2. request[1] \in Branches
        BY <2>1, <3>1
      <4> QED
        BY <1>t, <4>1, <4>2, OrderType, ConfigurationOK
    <3>2. CASE ~(Len(request) = 1 /\ GetImmediateUpstream(request[1]) # {})
      BY <1>2, <2>1, <3>2 DEF Validate
    <3> QED
      BY <3>1, <3>2
  <2>3. CASE Len(branches') < 2
    BY <1>2, <1>t, <2>2, <2>3, AnswerInv DEF Validate
  <2>4. CASE ~(Len(branches') < 2)
    BY <1>2, <1>t, <1>a, <2>1, <2>2, <2>4 DEF Validate, TypeOK
  <2> QED
    BY <2>3, <2>4
<1>3. CASE CheckUpToDate
  <2>1. branches' \in Seq(Branches) /\ answer = NoAnswer
    BY <1>3, <1>t DEF CheckUpToDate, TypeOK
  <2>2. CASE Throw \/ Answer(409, {})
    BY <1>t, <2>1, <2>2, AnswerInv DEF Throw
  <2>3. CASE ~(Throw \/ Answer(409, {}))
    <3>1. stage' = "upToDate" /\ UNCHANGED <<repo, request, branches, results, calls, answer>>
          /\ stage = "validated"
      BY <1>3, <2>3 DEF CheckUpToDate
    <3>2. TypeOK'
      BY <1>t, <3>1 DEF TypeOK
    <3> QED
      BY <1>a, <2>1, <3>1, <3>2
  <2> QED
    BY <2>2, <2>3
<1> QED
  BY <1>1, <1>2, <1>3

\* The search starts with the resolutions, and nothing looked at.
LEMMA StartInv ==
    ASSUME IInv, FindConflictsWithin
    PROVE  IInv'
<1>1. TypeOK /\ stage = "upToDate" /\ answer = NoAnswer /\ UNCHANGED branches
  BY DEF IInv, FindConflictsWithin, TypeOK
<1>2. CASE Throw
  BY <1>1, <1>2, AnswerInv DEF Throw, TypeOK
<1>3. CASE ~Throw
  <2>1. /\ stage' = "searching" /\ UNCHANGED <<repo, request, branches, answer>>
        /\ results' = [p \in ResolvedPairs |-> Resolution(p)]
        /\ calls' = <<[pair |-> {}, todo |-> PairsWithin(branches), found |-> {}]>>
    BY <1>3 DEF FindConflictsWithin
  <2>2. /\ Len(calls') = 1 /\ calls'[1].pair = {} /\ calls'[1].todo = PairsWithin(branches)
        /\ calls'[1].found = {}
    BY <2>1
  <2>3. TypeOK'
    <3>1. [pair |-> {}, todo |-> PairsWithin(branches), found |-> {}] \in Call
      BY <1>1, PairsWithinType DEF Call, TypeOK
    <3>2. calls' \in Seq(Call) /\ calls' # <<>>
      BY <2>1, <3>1
    <3>3. DOMAIN results' \subseteq Pair /\ \A p \in DOMAIN results' : results'[p] \subseteq Conflict
      BY <1>1, <2>1, ResolutionType DEF ResolvedPairs
    <3> QED
      BY <1>1, <2>1, <3>2, <3>3 DEF TypeOK
  <2>4. ResultsInv'
    BY <2>1, SameRepository DEF ResultsInv
  <2>5. CallsInv'
    BY <2>2 DEF CallsInv
  <2>6. GatheredInv(1)'
    <3>1. PairsOf(1)' = PairsWithin(branches)
      BY <2>1, SameRepository DEF PairsOf
    <3>2. Seen(1)' = {}
      BY <2>2, <3>1 DEF Seen
    <3> QED
      BY <2>2, <3>1, <3>2 DEF GatheredInv
  <2>7. SearchInv'
    BY <2>2, <2>4, <2>5, <2>6 DEF SearchInv
  <2>8. answer'.status # 200
    BY <1>1, <2>1 DEF NoAnswer
  <2> QED
    BY <2>3, <2>7, <2>8 DEF IInv, ConflictsAreExplained, ConflictsAreMinimal
<1> QED
  BY <1>2, <1>3

LEMMA ComparedPair ==
    ASSUME NEW left, NEW right, NEW p \in ComparedPairs(left, right)
    PROVE  \E a \in left \ CommonUpstream(repo.upstreams, right),
              b \in right \ CommonUpstream(repo.upstreams, left) : p = {a, b}
  BY DEF ComparedPairs

\* Two different branches asked about are a pair the search starts with.
LEMMA PairIsWithin ==
    ASSUME NEW bs \in Seq(Branches), NEW a \in ToSet(bs), NEW b \in ToSet(bs), a # b,
           {a, b} \in ComparedPairs({a}, {b})
    PROVE  {a, b} \in PairsWithin(bs)
<1> DEFINE After(i) == {bs[j] : j \in i + 1 .. Len(bs)}
           Common(S) == CommonUpstream(repo.upstreams, S)
<1>1. a \notin Common({b}) /\ b \notin Common({a})
  <2>1. PICK x \in {a} \ Common({b}), y \in {b} \ Common({a}) : {a, b} = {x, y}
    BY ComparedPair
  <2>2. x = a /\ y = b
    OBVIOUS
  <2> QED
    BY <2>2
<1>2. \A S, T : S \subseteq T => Common(T) \subseteq Common(S)
  BY DEF CommonUpstream
<1>3. ASSUME NEW c, NEW d, {c, d} = {a, b}, c # d, NEW i \in 1 .. Len(bs), NEW j \in 1 .. Len(bs),
             bs[i] = c, bs[j] = d, i < j
      PROVE  {a, b} \in PairsWithin(bs)
  <2>1. (c = a /\ d = b) \/ (c = b /\ d = a)
    BY <1>3, SamePair
  <2>2. c \notin Common({d}) /\ d \notin Common({c})
    BY <1>1, <2>1
  <2>3. d \in After(i) /\ i \in 1 .. Len(bs) - 1
    BY <1>3
  <2>4. c \notin Common(After(i))
    BY <1>2, <2>2, <2>3
  <2>5. {c, d} \in ComparedPairs({bs[i]}, After(i))
    <3>1. {bs[i]} = {c}
      BY <1>3
    <3>2. c \in {bs[i]} \ Common(After(i)) /\ d \in After(i) \ Common({bs[i]})
      BY <2>2, <2>3, <2>4, <3>1
    <3> HIDE DEF After
    <3> QED
      BY <3>2 DEF ComparedPairs
  <2> QED
    BY <1>3, <2>3, <2>5 DEF PairsWithin
<1>4. PICK i \in 1 .. Len(bs) : bs[i] = a
  BY DEF ToSet
<1>5. PICK j \in 1 .. Len(bs) : bs[j] = b
  BY DEF ToSet
<1>6. i < j \/ j < i
  BY <1>4, <1>5
<1>7. {b, a} = {a, b}
  OBVIOUS
<1> HIDE DEF After, Common
<1> QED
  BY <1>3, <1>4, <1>5, <1>6, <1>7

LEMMA PairOfTwo ==
    ASSUME NEW a, NEW b, Cardinality({a, b}) = 2
    PROVE  a # b
<1> SUFFICES ASSUME a = b PROVE FALSE
  OBVIOUS
<1>1. {a, b} = {a}
  OBVIOUS
<1>2. Cardinality({a}) = 1
  BY FS_Singleton
<1> QED
  BY <1>1, <1>2

\* What a search that is over has found explains every conflict.
LEMMA EndInv ==
    ASSUME IInv, EndSearch
    PROVE  IInv'
<1>1. /\ TypeOK /\ SearchInv /\ stage = "searching" /\ Len(calls) = 1 /\ Last(calls).todo = {}
      /\ UNCHANGED <<repo, request, branches>> /\ stage' = "idle"
      /\ answer' = [status |-> 200, conflicts |-> Actual(Last(calls).found)]
      /\ results' = NoResults /\ calls' = <<>>
  BY DEF IInv, EndSearch, Answer
<1>2. ResultsInv /\ GatheredInv(1) /\ Last(calls) = calls[1] /\ calls[1] \in Call /\ branches \in Seq(Branches)
  BY <1>1, Searching DEF TypeOK
<1>3. PICK conflicts \in SUBSET Conflict : conflicts = Actual(calls[1].found) /\ answer'.conflicts = conflicts
  BY <1>1, <1>2 DEF Call, Actual
<1>4. TypeOK' /\ SearchInv'
  BY <1>1, <1>2, <1>3 DEF TypeOK, NoResults, SearchInv
<1>5. Reported' = {c.branches : c \in conflicts}
  BY <1>3 DEF Reported
<1>6. \A p \in PairsWithin(branches) : p \in DOMAIN results /\ results[p] \subseteq calls[1].found /\ ~Open(p)
  <2> TAKE p \in PairsWithin(branches)
  <2>1. p \in Seen(1)
    BY <1>1, <1>2 DEF Seen, PairsOf
  <2>2. ~Open(p)
    BY <1>1 DEF Open
  <2> QED
    BY <1>2, <2>1, <2>2 DEF GatheredInv
<1>7. ASSUME NEW a \in ToSet(branches), NEW b \in ToSet(branches),
             {a, b} \in repo.conflicts, {a, b} \in ComparedPairs({a}, {b}), ~Integrated({a, b})
      PROVE  \E x \in Above(a), y \in Above(b) : {x, y} \in Reported'
  <2>1. a # b
    BY <1>1, <1>7, ConfigurationOK, PairOfTwo
  <2>2. {a, b} \in PairsWithin(branches)
    BY <1>2, <1>7, <2>1, PairIsWithin
  <2>3. PICK c \in results[{a, b}] : c.hasConflict /\ Accounts(c.branches, {a, b})
    <3>1. {a, b} \in DOMAIN results /\ {a, b} \notin ResolvedPairs /\ ~Open({a, b})
      BY <1>6, <1>7, <2>2 DEF Integrated
    <3> QED
      BY <1>2, <1>7, <3>1 DEF ResultsInv, Belongs
  <2>4. c.branches \in Reported'
    BY <1>3, <1>5, <1>6, <2>2, <2>3 DEF Actual
  <2>5. PICK d \in Branches, e \in Branches :
           {a, b} = {d, e} /\ \E x \in Above(d), y \in Above(e) : c.branches = {x, y}
    BY <2>3 DEF Accounts
  <2>6. PICK x \in Above(d), y \in Above(e) : c.branches = {x, y}
    BY <2>5
  <2>7. (a = d /\ b = e) \/ (a = e /\ b = d)
    BY <2>5, SamePair
  <2>8. {x, y} \in Reported' /\ {y, x} \in Reported'
    <3>1. {x, y} = {y, x}
      OBVIOUS
    <3> QED
      BY <2>4, <2>6, <3>1
  <2> QED
    BY <2>7, <2>8
<1>8. ConflictsAreExplained'
  <2>1. \A b : Above(b)' = Above(b)
    BY <1>1 DEF Above
  <2>2. \A S, T : ComparedPairs(S, T)' = ComparedPairs(S, T)
    BY <1>1 DEF ComparedPairs
  <2>3. repo'.conflicts = repo.conflicts /\ ToSet(branches)' = ToSet(branches)
        /\ \A p : Integrated(p)' <=> Integrated(p)
    BY <1>1, SameRepository
  <2>4. \A a, b \in ToSet(branches)' :
           /\ {a, b} \in repo'.conflicts /\ {a, b} \in ComparedPairs({a}, {b})'
           /\ ~Integrated({a, b})'
           => \E x \in Above(a)', y \in Above(b)' : {x, y} \in Reported'
    BY <1>7, <2>1, <2>2, <2>3
  <2> QED
    BY <2>4 DEF ConflictsAreExplained
<1>9. ConflictsAreMinimal'
  <2>1. \A p \in Reported' : Minimal(p)
    BY <1>2, <1>3, <1>5 DEF GatheredInv, Actual
  <2>2. \A p : Minimal(p) /\ Acyclic' =>
           p \in repo'.conflicts /\ \A q \in PairsAbove(p)' \cap repo'.conflicts : Integrated(q)'
    BY <1>1, SameRepository DEF Minimal
  <2> QED
    BY <2>1, <2>2 DEF ConflictsAreMinimal
<1> QED
  BY <1>4, <1>8, <1>9 DEF IInv

LEMMA StutterInv ==
    ASSUME IInv, UNCHANGED vars
    PROVE  IInv'
<1>1. UNCHANGED <<repo, request, stage, branches, results, calls, answer>>
  BY DEF vars
<1>2. TypeOK'
  BY <1>1 DEF IInv, TypeOK
<1>3. ASSUME stage = "searching" PROVE ResultsInv' /\ CallsInv' /\ \A i \in 1 .. Len(calls) : GatheredInv(i)'
  <2>1. ResultsInv /\ CallsInv /\ \A i \in 1 .. Len(calls) : GatheredInv(i)
    BY <1>3 DEF IInv, SearchInv
  <2>2. \A p : Open(p)' <=> Open(p)
    BY <1>1 DEF Open
  <2>3. \A i : PairsOf(i)' = PairsOf(i)
    BY <1>1, SameRepository DEF PairsOf
  <2>4. \A i : Seen(i)' = Seen(i)
    BY <1>1, <2>3 DEF Seen
  <2>5. ResultsInv'
    BY <1>1, <2>1, <2>2, SameRepository DEF ResultsInv
  <2>6. CallsInv'
    BY <1>1, <2>1, SameRepository DEF CallsInv
  <2>7. \A i \in 1 .. Len(calls) : GatheredInv(i)'
    BY <1>1, <2>1, <2>2, <2>3, <2>4, SameRepository DEF GatheredInv
  <2> QED
    BY <2>5, <2>6, <2>7
<1>4. SearchInv'
  BY <1>1, <1>3 DEF SearchInv
<1>5. Reported' = Reported
  BY <1>1 DEF Reported
<1>6. ConflictsAreExplained'
  <2>1. \A b : Above(b)' = Above(b)
    BY <1>1 DEF Above
  <2>2. \A S, T : ComparedPairs(S, T)' = ComparedPairs(S, T)
    BY <1>1 DEF ComparedPairs
  <2>3. \A p : Integrated(p)' <=> Integrated(p)
    BY <1>1, SameRepository
  <2>4. ASSUME answer.status = 200, NEW a \in ToSet(branches), NEW b \in ToSet(branches),
               {a, b} \in repo.conflicts, {a, b} \in ComparedPairs({a}, {b}), ~Integrated({a, b})
        PROVE  \E x \in Above(a), y \in Above(b) : {x, y} \in Reported
    BY <2>4 DEF IInv, ConflictsAreExplained
  <2>5. ASSUME answer'.status = 200, NEW a \in ToSet(branches)', NEW b \in ToSet(branches)',
               {a, b} \in repo'.conflicts, {a, b} \in ComparedPairs({a}, {b})', ~Integrated({a, b})'
        PROVE  \E x \in Above(a)', y \in Above(b)' : {x, y} \in Reported'
    <3>1. answer.status = 200 /\ a \in ToSet(branches) /\ b \in ToSet(branches) /\ {a, b} \in repo.conflicts
      BY <1>1, <2>5
    <3>2. {a, b} \in ComparedPairs({a}, {b}) /\ ~Integrated({a, b})
      BY <2>2, <2>3, <2>5
    <3>3. PICK x \in Above(a), y \in Above(b) : {x, y} \in Reported
      BY <2>4, <3>1, <3>2
    <3> QED
      BY <1>5, <2>1, <3>3
  <2> QED
    BY <2>5 DEF ConflictsAreExplained
<1>7. ConflictsAreMinimal'
  BY <1>1, <1>5, SameRepository DEF IInv, ConflictsAreMinimal
<1> QED
  BY <1>2, <1>4, <1>6, <1>7 DEF IInv

LEMMA StepInv == IInv /\ [Next]_vars => IInv'
<1> SUFFICES ASSUME IInv, [Next]_vars PROVE IInv'
  OBVIOUS
<1>0. TypeOK /\ SearchInv
  BY DEF IInv
<1>a. ASSUME TypeOK', SearchInv', answer'.status # 200
      PROVE  IInv'
  BY <1>a DEF IInv, ConflictsAreExplained, ConflictsAreMinimal
<1>1. CASE Ask \/ Validate \/ CheckUpToDate
  BY <1>1, RequestInv
<1>2. CASE FindConflictsWithin
  BY <1>2, StartInv
<1>3. ASSUME NEW pair \in Pair, FindConflictsBetween(pair)
      PROVE  IInv'
  <2>1. CASE Throw /\ UNCHANGED branches
    BY <1>0, <2>1, AnswerInv DEF Throw, TypeOK
  <2>2. CASE Read(pair) \/ Clean(pair) \/ Descend(pair)
    <3>1. TypeOK' /\ SearchInv'
      BY <1>0, <2>2, LookType, LookInv, DescendInv
    <3>2. answer' = NoAnswer
      BY <1>0, <2>2 DEF Read, Clean, Descend, Searches, TypeOK
    <3> QED
      BY <1>a, <3>1, <3>2 DEF NoAnswer
  <2> QED
    BY <1>0, <1>3, <2>1, <2>2, FindCases
<1>4. CASE EndPair
  BY <1>0, <1>4, <1>a, EndPairInv
<1>5. CASE EndSearch
  BY <1>5, EndInv
<1>6. CASE UNCHANGED vars
  BY <1>6, StutterInv
<1> QED
  BY <1>1, <1>2, <1>3, <1>4, <1>5, <1>6 DEF Next

-----------------------------------------------------------------------------
\* The invariant of the search: what every result accounts for, which pairs are
\* being searched, and what each call has gathered.
THEOREM SearchInvariance == Spec => []IInv
  BY InitInv, StepInv, PTL DEF Spec

\* Every variable of the request and its search keeps its type, and no answer
\* comes before the end.
THEOREM SearchTypeCorrect == Spec => []TypeOK
<1>1. IInv => TypeOK
  BY DEF IInv
<1> QED
  BY <1>1, SearchInvariance, PTL

\* No conflict between branches asked about that nobody has taken care of is lost
\* on the way up (ConflictLocator.FindConflictsWithin), in whatever order pairs
\* are compared, whatever the dictionary of results has and whatever git says of
\* the merges with integration branches; even if a branch is above itself.
THEOREM ConflictsExplained == Spec => []ConflictsAreExplained
<1>1. IInv => ConflictsAreExplained
  BY DEF IInv
<1> QED
  BY <1>1, SearchInvariance, PTL

\* Unless some branch is above itself, a reported pair is in conflict, and
\* somebody has taken care of each conflict between branches directly above its
\* two (ConflictLocator.FindConflictsBetween).
THEOREM ConflictsMinimal == Spec => []ConflictsAreMinimal
<1>1. IInv => ConflictsAreMinimal
  BY DEF IInv
<1> QED
  BY <1>1, SearchInvariance, PTL

=============================================================================
