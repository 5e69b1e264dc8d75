------------------------- MODULE SubsequenceProofs --------------------------
(***************************************************************************)
(* What a filter of a sequence returns, whatever its length.  The proof is *)
(* by induction, which follows from a set of numbers having a least one:   *)
(* sets, unlike operators, are what the provers can instantiate.           *)
(***************************************************************************)
EXTENDS Subsequences, FiniteSetTheorems, TLAPS

-----------------------------------------------------------------------------
\* A set of natural numbers has a least element: the initial segments that
\* end in it have a minimal one.
LEMMA LeastElement ==
    ASSUME NEW B \in SUBSET Nat, B # {}
    PROVE  \E n \in B : \A m \in B : n <= m
<1> DEFINE Initial(n) == 0..n
           T == {Initial(n) : n \in B}
<1>1. T \subseteq FiniteSubsetsOf(Nat)
  <2>1. \A n \in Nat : IsFiniteSet(Initial(n)) /\ Initial(n) \subseteq Nat
    BY FS_Interval
  <2> HIDE DEF Initial
  <2> QED
    BY <2>1 DEF FiniteSubsetsOf
<1>2. PICK x \in T : \A y \in T : <<y, x>> \notin StrictSubsetOrdering(Nat)
  <2> HIDE DEF T
  <2>1. T # {}
    BY DEF T
  <2> QED
    BY <1>1, <2>1, FS_StrictSubsetOrderingWellFounded, WFMin
<1>3. PICK n \in B : x = Initial(n)
  OBVIOUS
<1>4. ASSUME NEW m \in B, m < n PROVE FALSE
  <2>1. Initial(m) \subseteq Initial(n) /\ n \in Initial(n) /\ n \notin Initial(m)
    BY <1>4
  <2>2. Initial(m) \in SUBSET Nat /\ Initial(n) \in SUBSET Nat
    OBVIOUS
  <2> HIDE DEF Initial
  <2>3. <<Initial(m), Initial(n)>> \in StrictSubsetOrdering(Nat)
    BY <2>1, <2>2 DEF StrictSubsetOrdering
  <2> QED
    BY <2>3, <1>2, <1>3
<1> QED
  BY <1>4

\* Induction over the natural numbers, for the set of those with a property.
LEMMA SetInduction ==
    ASSUME NEW G, 0 \in G, \A n \in Nat : n \in G => n + 1 \in G
    PROVE  Nat \subseteq G
<1> SUFFICES ASSUME Nat \ G # {} PROVE FALSE
  OBVIOUS
<1>1. PICK n \in Nat \ G : \A m \in Nat \ G : n <= m
  BY LeastElement
<1>2. n # 0 /\ n - 1 \in Nat
  BY <1>1
<1> QED
  BY <1>1, <1>2

\* The recursion of Only, step by step.
LEMMA OnlyDefined ==
    ASSUME NEW T, NEW s \in Seq(T), NEW S
    PROVE  \E f : /\ f[0] = <<>>
                  /\ \A n \in Nat : n + 1 <= Len(s) =>
                        f[n + 1] = IF s[n + 1] \in S THEN Append(f[n], s[n + 1]) ELSE f[n]
                  /\ Only(s, S) = f[Len(s)]
<1> DEFINE Body(f, n) == [i \in 0..n |->
                            IF i = 0 THEN <<>>
                            ELSE IF s[i] \in S THEN Append(f[i - 1], s[i]) ELSE f[i - 1]]
           G == {n \in Nat : \E f : f = Body(f, n)}
<1>1. 0 \in G
  <2>1. [i \in 0..0 |-> <<>>] = Body([i \in 0..0 |-> <<>>], 0)
    OBVIOUS
  <2> QED
    BY <2>1
<1>2. ASSUME NEW n \in Nat, n \in G PROVE n + 1 \in G
  <2>1. PICK f : f = Body(f, n)
    BY <1>2
  <2> DEFINE g == [i \in 0..(n + 1) |->
                    IF i <= n THEN f[i]
                    ELSE IF s[n + 1] \in S THEN Append(f[n], s[n + 1]) ELSE f[n]]
  <2>2. \A i \in 0..n : f[i] = Body(f, n)[i]
    <3> HIDE DEF Body
    <3> QED
      BY <2>1
  <2>3. \A i \in 0..(n + 1) : g[i] = Body(g, n + 1)[i]
    BY <2>2
  <2>4. g = Body(g, n + 1)
    BY <2>3
  <2> HIDE DEF Body, g
  <2> QED
    BY <2>4
<1>3. Len(s) \in G
  <2> HIDE DEF G
  <2> QED
    BY <1>1, <1>2, SetInduction
<1> DEFINE h == CHOOSE f : f = Body(f, Len(s))
<1>4. h = Body(h, Len(s))
  <2> HIDE DEF Body
  <2> QED
    BY <1>3
<1>5. Only(s, S) = h[Len(s)]
  BY DEF Only
<1>6. \A i \in 0..Len(s) : h[i] = Body(h, Len(s))[i]
  <2> HIDE DEF Body, h
  <2> QED
    BY <1>4
<1> HIDE DEF h
<1>7. h[0] = <<>>
  BY <1>6
<1>8. ASSUME NEW n \in Nat, n + 1 <= Len(s)
      PROVE  h[n + 1] = IF s[n + 1] \in S THEN Append(h[n], s[n + 1]) ELSE h[n]
  BY <1>6, <1>8
<1> QED
  BY <1>5, <1>7, <1>8

-----------------------------------------------------------------------------
\* What appending does to the elements.
LEMMA AppendElements ==
    ASSUME NEW T, NEW s \in Seq(T), NEW e \in T
    PROVE  /\ Append(s, e) \in Seq(T)
           /\ ToSet(Append(s, e)) = ToSet(s) \cup {e}
           /\ IsInjective(s) /\ e \notin ToSet(s) => IsInjective(Append(s, e))
<1>1. /\ Append(s, e) \in Seq(T) /\ Len(Append(s, e)) = Len(s) + 1 /\ Len(s) \in Nat
      /\ \A i \in 1..(Len(s) + 1) : Append(s, e)[i] = IF i = Len(s) + 1 THEN e ELSE s[i]
  OBVIOUS
<1>2. ToSet(Append(s, e)) = ToSet(s) \cup {e}
  BY <1>1 DEF ToSet
<1>3. IsInjective(s) /\ e \notin ToSet(s) => IsInjective(Append(s, e))
  BY <1>1 DEF ToSet, IsInjective
<1> QED
  BY <1>1, <1>2, <1>3

\* What is in the subsequence, and that it keeps distinct elements distinct.
LEMMA OnlyProperties ==
    ASSUME NEW T, NEW s \in Seq(T), NEW S
    PROVE  /\ Only(s, S) \in Seq(T)
           /\ ToSet(Only(s, S)) = ToSet(s) \cap S
           /\ Len(Only(s, S)) <= Len(s)
           /\ IsInjective(s) => IsInjective(Only(s, S))
<1>1. PICK f : /\ f[0] = <<>>
               /\ \A n \in Nat : n + 1 <= Len(s) =>
                        f[n + 1] = IF s[n + 1] \in S THEN Append(f[n], s[n + 1]) ELSE f[n]
               /\ Only(s, S) = f[Len(s)]
  BY OnlyDefined
<1> DEFINE P(n) == /\ f[n] \in Seq(T)
                   /\ ToSet(f[n]) = {s[i] : i \in 1..n} \cap S
                   /\ Len(f[n]) <= n
                   /\ IsInjective(s) => IsInjective(f[n])
           G == {n \in Nat : n <= Len(s) => P(n)}
<1>2. 0 \in G
  <2>1. f[0] = <<>> /\ <<>> \in Seq(T) /\ DOMAIN <<>> = {} /\ Len(<<>>) = 0
    BY <1>1
  <2>2. ToSet(f[0]) = {} /\ IsInjective(f[0])
    BY <2>1 DEF ToSet, IsInjective
  <2>3. {s[i] : i \in 1..0} = {} /\ f[0] \in Seq(T) /\ Len(f[0]) = 0
    BY <2>1
  <2>4. P(0)
    BY <2>2, <2>3
  <2> QED
    BY <2>4
<1>3. ASSUME NEW n \in Nat, P(n), n + 1 <= Len(s) PROVE P(n + 1)
  <2>1. s[n + 1] \in T
    BY <1>3
  <2>2. {s[i] : i \in 1..(n + 1)} = {s[i] : i \in 1..n} \cup {s[n + 1]}
    BY <1>3
  <2>3. CASE s[n + 1] \notin S
    <3>1. f[n + 1] = f[n]
      BY <1>1, <1>3, <2>3
    <3> QED
      BY <1>3, <2>2, <2>3, <3>1
  <2>4. CASE s[n + 1] \in S
    <3>1. f[n + 1] = Append(f[n], s[n + 1])
      BY <1>1, <2>4, <1>3
    <3>2. IsInjective(s) => s[n + 1] \notin ToSet(f[n])
      BY <1>3 DEF IsInjective
    <3> QED
      BY <1>3, <2>1, <2>2, <2>4, <3>1, <3>2, AppendElements
  <2> QED
    BY <2>3, <2>4
<1> HIDE DEF P
<1>4. Len(s) \in G
  <2>1. ASSUME NEW n \in Nat, n \in G PROVE n + 1 \in G
    <3>1. CASE n + 1 <= Len(s)
      BY <2>1, <3>1, <1>3
    <3>2. CASE ~(n + 1 <= Len(s))
      BY <3>2
    <3> QED
      BY <3>1, <3>2
  <2> HIDE DEF G
  <2> QED
    BY <1>2, <2>1, SetInduction
<1>5. P(Len(s))
  BY <1>4
<1>6. {s[i] : i \in 1..Len(s)} = ToSet(s)
  BY DEF ToSet
<1> QED
  BY <1>1, <1>5, <1>6 DEF P

\* What is in two sequences, one after the other.
LEMMA ConcatElements ==
    ASSUME NEW T, NEW s \in Seq(T), NEW t \in Seq(T)
    PROVE  /\ s \o t \in Seq(T) /\ Len(s \o t) = Len(s) + Len(t)
           /\ ToSet(s \o t) = ToSet(s) \cup ToSet(t)
           /\ IsInjective(s) /\ IsInjective(t) /\ ToSet(s) \cap ToSet(t) = {} => IsInjective(s \o t)
<1>1. /\ s \o t \in Seq(T) /\ DOMAIN (s \o t) = 1..(Len(s) + Len(t)) /\ Len(s \o t) = Len(s) + Len(t)
      /\ DOMAIN s = 1..Len(s) /\ DOMAIN t = 1..Len(t) /\ Len(s) \in Nat /\ Len(t) \in Nat
      /\ \A i \in 1..(Len(s) + Len(t)) : (s \o t)[i] = IF i <= Len(s) THEN s[i] ELSE t[i - Len(s)]
  OBVIOUS
<1>2. \A i \in DOMAIN s : (s \o t)[i] = s[i] /\ i \in DOMAIN (s \o t)
  BY <1>1
<1>3. \A i \in DOMAIN t : (s \o t)[Len(s) + i] = t[i] /\ Len(s) + i \in DOMAIN (s \o t)
  BY <1>1
<1>4. \A i \in DOMAIN (s \o t) : (s \o t)[i] \in ToSet(s) \cup ToSet(t)
  BY <1>1 DEF ToSet
<1>5. ToSet(s \o t) \subseteq ToSet(s) \cup ToSet(t)
  BY <1>4 DEF ToSet
<1>6. ToSet(s) \cup ToSet(t) \subseteq ToSet(s \o t)
  BY <1>2, <1>3 DEF ToSet
<1>7. ASSUME IsInjective(s), IsInjective(t), ToSet(s) \cap ToSet(t) = {},
             NEW i \in DOMAIN (s \o t), NEW j \in DOMAIN (s \o t), (s \o t)[i] = (s \o t)[j]
      PROVE  i = j
  <2> DEFINE n == Len(s)
  <2>1. CASE i <= n /\ j <= n
    BY <1>1, <1>7, <2>1 DEF IsInjective
  <2>2. CASE ~(i <= n) /\ ~(j <= n)
    <3>1. i - n \in DOMAIN t /\ j - n \in DOMAIN t /\ t[i - n] = t[j - n]
      BY <1>1, <1>7, <2>2
    <3>2. i - n = j - n
      BY <1>7, <3>1 DEF IsInjective
    <3> QED
      BY <1>1, <3>2
  <2>3. CASE i <= n /\ ~(j <= n)
    <3>1. i \in DOMAIN s /\ j - n \in DOMAIN t /\ s[i] = t[j - n]
      BY <1>1, <1>7, <2>3
    <3> QED
      BY <1>7, <3>1 DEF ToSet
  <2>4. CASE ~(i <= n) /\ j <= n
    <3>1. j \in DOMAIN s /\ i - n \in DOMAIN t /\ s[j] = t[i - n]
      BY <1>1, <1>7, <2>4
    <3> QED
      BY <1>7, <3>1 DEF ToSet
  <2> QED
    BY <2>1, <2>2, <2>3, <2>4
<1>8. IsInjective(s) /\ IsInjective(t) /\ ToSet(s) \cap ToSet(t) = {} => IsInjective(s \o t)
  BY <1>7 DEF IsInjective
<1> QED
  BY <1>1, <1>5, <1>6, <1>8

\* How many elements there are in a sequence.
LEMMA ElementCount ==
    ASSUME NEW T, NEW s \in Seq(T)
    PROVE  /\ IsFiniteSet(ToSet(s)) /\ Cardinality(ToSet(s)) <= Len(s)
           /\ IsInjective(s) => Cardinality(ToSet(s)) = Len(s)
<1>1. s \in [1..Len(s) -> ToSet(s)] /\ Len(s) \in Nat /\ DOMAIN s = 1..Len(s)
  <2>1. s = [i \in 1..Len(s) |-> s[i]] /\ Len(s) \in Nat /\ DOMAIN s = 1..Len(s)
    OBVIOUS
  <2>2. \A i \in 1..Len(s) : s[i] \in ToSet(s)
    BY <2>1 DEF ToSet
  <2> QED
    BY <2>1, <2>2
<1>2. s \in Surjection(1..Len(s), ToSet(s))
  BY <1>1 DEF Surjection, ToSet
<1>3. IsFiniteSet(1..Len(s)) /\ Cardinality(1..Len(s)) = Len(s)
  <2> DEFINE n == Len(s)
  <2>1. n \in Nat /\ (1 > n => n = 0) /\ n - 1 + 1 = n
    BY <1>1
  <2> HIDE DEF n
  <2>2. IsFiniteSet(1..n) /\ Cardinality(1..n) = n
    BY <2>1, FS_Interval
  <2> QED
    BY <2>2 DEF n
<1>4. IsInjective(s) => s \in Injection(1..Len(s), ToSet(s))
  BY <1>1 DEF Injection, IsInjective
<1> QED
  BY <1>2, <1>3, <1>4, FS_Surjection
=============================================================================
