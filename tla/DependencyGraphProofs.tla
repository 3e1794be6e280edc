------------------------ MODULE DependencyGraphProofs ------------------------
(***************************************************************************)
(* Theorems about DependencyGraph, for every set of names.                 *)
(***************************************************************************)
EXTENDS DependencyGraph, SequenceFacts, FiniteSetTheorems, WellFoundedInduction, TLAPS

------------------------------------------------------------------------------
(* The least name and the rotation to it *)

\* min_element() and the first entry of a sorted set exist.
LEMMA LeastOf ==
    ASSUME NEW S \in SUBSET Nat, S # {}
    PROVE  Least(S) \in S /\ \A y \in S : Least(S) <= y
<1> DEFINE R == {ss \in Nat \X Nat : ss[1] < ss[2]}
<1>1. IsWellFoundedOn(R, Nat)
  BY NatLessThanWellFounded, Zenon DEF OpToRel
<1>2. \A x, y \in Nat : y < x => <<y, x>> \in R
  OBVIOUS
<1> HIDE DEF R
<1>3. PICK x \in S : \A y \in S : ~(<<y, x>> \in R)
  BY <1>1, WFMin, Zenon
<1>4. \A y \in S : x <= y
  <2>1. ASSUME NEW y \in S
        PROVE  ~(y < x)
    BY ONLY S \in SUBSET Nat, <1>2, <1>3, Zenon
  <2>2. QED
    BY <2>1
<1>5. QED
  BY <1>4 DEF Least

\* The place before which the rotation cuts.
Cut(cycle) == CHOOSE i \in 1..Len(cycle) : \A j \in 1..Len(cycle) : cycle[i] <= cycle[j]

\* The rotation cuts before the least name.
LEMMA CutIsLeast ==
    ASSUME NEW s \in Seq(Nat), s # <<>>
    PROVE  Cut(s) \in 1..Len(s) /\ \A j \in 1..Len(s) : s[Cut(s)] <= s[j]
<1> DEFINE n == Len(s)
           S == {s[i] : i \in 1..n}
<1>1. n \in Nat \ {0} /\ \A i \in 1..n : s[i] \in Nat
  OBVIOUS
<1>2. S \in SUBSET Nat /\ S # {}
  BY <1>1
<1>3. Least(S) \in S /\ \A y \in S : Least(S) <= y
  BY <1>2, LeastOf
<1>4. PICK i \in 1..n : Least(S) = s[i]
  BY <1>3
<1>5. \A j \in 1..n : s[i] <= s[j]
  BY <1>3, <1>4
<1>6. QED
  BY <1>5 DEF Cut

\* A rotated cycle is the same cycle, with its first name in front.
LEMMA Rotation ==
    ASSUME NEW S \in SUBSET Nat, NEW s \in Seq(S), s # <<>>
    PROVE  LET r == Canonicalize(s) IN
           /\ r \in Seq(S) /\ Len(r) = Len(s) /\ r # <<>>
           /\ \A i \in 1..Len(r) : r[1] <= r[i]
           /\ Distinct(s) => Distinct(r)
           /\ \A p, c : OnCycle(r, p, c) <=> OnCycle(s, p, c)
<1> DEFINE n == Len(s)
           m == Cut(s)
           r == Canonicalize(s)
<1>1. n \in Nat \ {0} /\ s \in [1..n -> S] /\ s \in Seq(Nat)
  BY LenProperties, EmptySeq, SeqMonotonic
<1>2. m \in 1..n /\ \A j \in 1..n : s[m] <= s[j]
  BY <1>1, CutIsLeast
<1>3. r = [i \in 1..n |-> IF m + i - 1 <= n THEN s[m + i - 1] ELSE s[m + i - 1 - n]]
  BY DEF Canonicalize, Cut
<1>4. Distinct(s) <=> \A i, j \in 1..n : s[i] = s[j] => i = j
  BY DEF Distinct
<1>5. \A p, c : OnCycle(s, p, c) <=>
                    \E i \in 1..n : s[i] = p /\ c = IF i = n THEN s[1] ELSE s[i + 1]
  BY DEF OnCycle
<1> HIDE DEF n, m, r
<1>6. /\ \A i \in 1..n : m + i - 1 <= n => r[i] = s[m + i - 1] /\ m + i - 1 \in 1..n
      /\ \A i \in 1..n : m + i - 1 > n => r[i] = s[m + i - 1 - n] /\ m + i - 1 - n \in 1..n
  BY ONLY <1>1, <1>2, <1>3
<1>7. /\ \A k \in 1..n : k >= m => s[k] = r[k - m + 1] /\ k - m + 1 \in 1..n
      /\ \A k \in 1..n : k < m => s[k] = r[k - m + 1 + n] /\ k - m + 1 + n \in 1..n
  BY ONLY <1>1, <1>2, <1>6
<1>8. r \in [1..n -> S]
  BY ONLY <1>1, <1>2, <1>3
<1>9. r \in Seq(S) /\ Len(r) = n
  BY <1>1, <1>8, FunctionIsSeq
<1>10. r # <<>>
  BY <1>1, <1>9, EmptySeq
<1>11. \A i \in 1..n : r[1] <= r[i]
  <2>1. 1 \in 1..n /\ r[1] = s[m]
    BY ONLY <1>1, <1>2, <1>6
  <2>2. ASSUME NEW i \in 1..n
        PROVE  s[m] <= r[i]
    BY ONLY <1>1, <1>2, <1>6, i \in 1..n
  <2>3. QED
    BY ONLY <2>1, <2>2
<1>12. ASSUME Distinct(s)
       PROVE  Distinct(r)
  <2>1. \A k, l \in 1..n : s[k] = s[l] => k = l
    BY ONLY <1>4, <1>12, Zenon
  <2>2. \A i, j \in 1..n : r[i] = r[j] => i = j
    <3>1. ASSUME NEW i \in 1..n, NEW j \in 1..n, r[i] = r[j]
          PROVE  i = j
      <4> DEFINE k == IF m + i - 1 <= n THEN m + i - 1 ELSE m + i - 1 - n
                 l == IF m + j - 1 <= n THEN m + j - 1 ELSE m + j - 1 - n
      <4>1. k \in 1..n /\ r[i] = s[k]
        BY ONLY <1>1, <1>2, <1>6, i \in 1..n
      <4>2. l \in 1..n /\ r[j] = s[l]
        BY ONLY <1>1, <1>2, <1>6, j \in 1..n
      <4>3. k = l
        <5> HIDE DEF k, l
        <5>1. QED
          BY ONLY <2>1, <3>1, <4>1, <4>2, Zenon
      <4>4. QED
        BY ONLY <1>1, <1>2, <4>3, i \in 1..n, j \in 1..n
    <3>2. QED
      BY ONLY <3>1, Zenon
  <2>3. QED
    BY <1>9, <2>2 DEF Distinct
<1>13. ASSUME NEW p, NEW c
       PROVE  OnCycle(r, p, c) <=> OnCycle(s, p, c)
  <2>1. OnCycle(r, p, c) <=>
            \E i \in 1..n : r[i] = p /\ c = IF i = n THEN r[1] ELSE r[i + 1]
    BY <1>9 DEF OnCycle
  <2>2. ASSUME NEW i \in 1..n, r[i] = p, c = IF i = n THEN r[1] ELSE r[i + 1]
        PROVE  \E k \in 1..n : s[k] = p /\ c = IF k = n THEN s[1] ELSE s[k + 1]
    <3>1. CASE m + i - 1 <= n
      <4>1. m + i - 1 \in 1..n /\ s[m + i - 1] = p
        BY ONLY <1>6, <2>2, <3>1
      <4>2. c = IF m + i - 1 = n THEN s[1] ELSE s[m + i - 1 + 1]
        BY ONLY <1>1, <1>2, <1>6, <2>2, <3>1
      <4>3. QED
        BY ONLY <4>1, <4>2
    <3>2. CASE m + i - 1 > n
      BY ONLY <1>1, <1>2, <1>6, <2>2, <3>2
    <3>3. QED
      BY ONLY <1>1, <1>2, <3>1, <3>2
  <2>3. ASSUME NEW k \in 1..n, s[k] = p, c = IF k = n THEN s[1] ELSE s[k + 1]
        PROVE  \E i \in 1..n : r[i] = p /\ c = IF i = n THEN r[1] ELSE r[i + 1]
    <3>1. CASE k >= m
      <4>1. k - m + 1 \in 1..n /\ r[k - m + 1] = p
        BY ONLY <1>7, <2>3, <3>1
      <4>2. c = IF k - m + 1 = n THEN r[1] ELSE r[k - m + 1 + 1]
        <5>1. CASE k < n
          <6> DEFINE l == k + 1
          <6>1. c = s[l]
            BY ONLY <1>1, <2>3, <5>1
          <6>2. l \in 1..n /\ l >= m /\ l # n + 1 /\ k - m + 1 = l - m
            BY ONLY <1>1, <1>2, <2>3, <3>1, <5>1
          <6> HIDE DEF l
          <6>3. s[l] = r[l - m + 1]
            BY ONLY <1>2, <1>7, <6>2
          <6>4. QED
            BY ONLY <1>1, <1>2, <6>1, <6>2, <6>3
        <5>2. CASE k = n
          <6>1. 1 \in 1..n /\ c = s[1]
            BY ONLY <1>1, <2>3, <5>2
          <6>2. /\ 1 >= m => s[1] = r[1 - m + 1]
                /\ 1 < m => s[1] = r[1 - m + 1 + n]
            BY ONLY <1>7, <6>1
          <6>3. QED
            BY ONLY <1>1, <1>2, <5>2, <6>1, <6>2
        <5>3. QED
          BY ONLY <1>1, <5>1, <5>2
      <4>3. QED
        BY ONLY <4>1, <4>2
    <3>2. CASE k < m
      <4>1. k - m + 1 + n \in 1..n /\ r[k - m + 1 + n] = p
        BY ONLY <1>7, <2>3, <3>2
      <4>2. c = IF k - m + 1 + n = n THEN r[1] ELSE r[k - m + 1 + n + 1]
        BY ONLY <1>1, <1>2, <1>7, <2>3, <3>2
      <4>3. QED
        BY ONLY <4>1, <4>2
    <3>3. QED
      BY ONLY <1>1, <1>2, <3>1, <3>2
  <2>4. QED
    BY <1>5, <2>1, <2>2, <2>3
<1>14. QED
  BY <1>9, <1>10, <1>11, <1>12, <1>13, Zenon DEF r, n

\* The end of the search's path, with the edge from its last node to its
\* first, follows the path.
LEMMA PathEnd ==
    ASSUME NEW S, NEW s \in Seq(S), Distinct(s), NEW a \in 1..Len(s)
    PROVE  LET t == SubSeq(s, a, Len(s)) IN
           /\ t \in Seq(S) /\ t # <<>> /\ Distinct(t)
           /\ OnCycle(t, s[Len(s)], s[a])
           /\ \A p, c : OnCycle(t, p, c) =>
                 \/ \E i \in 1..Len(s) - 1 : s[i] = p /\ s[i + 1] = c
                 \/ p = s[Len(s)] /\ c = s[a]
<1> DEFINE n == Len(s)
           t == SubSeq(s, a, n)
           l == n - a + 1
<1>1. n \in Nat \ {0} /\ a \in 1..n /\ l \in 1..n
  OBVIOUS
<1>2. t \in Seq(S) /\ Len(t) = l /\ \A i \in 1..l : t[i] = s[a + i - 1]
  OBVIOUS
<1>3. \A i, j \in 1..n : s[i] = s[j] => i = j
  BY DEF Distinct
<1>4. t # <<>>
  <2>1. Len(t) # 0
    BY <1>1, <1>2
  <2>2. QED
    BY <2>1, EmptySeq, Zenon
<1>5. l = n - a + 1
  OBVIOUS
<1> HIDE DEF n, t, l
<1>6. \A i \in 1..l : a + i - 1 \in 1..n
  BY ONLY <1>1, <1>5
<1>7. ASSUME NEW i \in 1..l, NEW j \in 1..l, t[i] = t[j]
      PROVE  i = j
  <2> DEFINE k == a + i - 1
             m == a + j - 1
  <2>1. s[k] = s[m] /\ k \in 1..n /\ m \in 1..n
    BY ONLY <1>2, <1>6, <1>7
  <2>2. k = m
    <3> HIDE DEF k, m
    <3>1. QED
      BY ONLY <1>3, <2>1, Zenon
  <2>3. QED
    BY ONLY <1>1, <2>2, i \in 1..l, j \in 1..l
<1>8. Distinct(t)
  BY <1>2, <1>7 DEF Distinct
<1>9. \A p, c : OnCycle(t, p, c) <=>
          \E i \in 1..l : t[i] = p /\ c = IF i = l THEN t[1] ELSE t[i + 1]
  BY <1>2 DEF OnCycle
<1>10. t[1] = s[a] /\ t[l] = s[n] /\ l \in 1..l
  BY ONLY <1>1, <1>2, <1>5
<1>11. OnCycle(t, s[n], s[a])
  BY ONLY <1>9, <1>10
<1>12. ASSUME NEW p, NEW c, NEW i \in 1..l, t[i] = p, c = IF i = l THEN t[1] ELSE t[i + 1]
       PROVE  \/ \E k \in 1..n - 1 : s[k] = p /\ s[k + 1] = c
              \/ p = s[n] /\ c = s[a]
  <2>1. CASE i = l
    BY ONLY <1>10, <1>12, <2>1
  <2>2. CASE i # l
    <3> DEFINE k == a + i - 1
    <3>1. s[k] = p
      BY ONLY <1>2, <1>12
    <3>2. i + 1 \in 1..l /\ c = t[i + 1]
      BY ONLY <1>1, <1>12, <2>2
    <3>3. c = s[a + (i + 1) - 1]
      BY ONLY <1>2, <3>2
    <3>4. k \in 1..n - 1 /\ a + (i + 1) - 1 = k + 1
      BY ONLY <1>1, <1>5, <3>2, i \in 1..l
    <3> HIDE DEF k
    <3>5. QED
      BY ONLY <3>1, <3>3, <3>4
  <2>3. QED
    BY <2>1, <2>2
<1>13. ASSUME NEW p, NEW c, OnCycle(t, p, c)
       PROVE  \/ \E k \in 1..n - 1 : s[k] = p /\ s[k + 1] = c
              \/ p = s[n] /\ c = s[a]
  <2>1. PICK i \in 1..l : t[i] = p /\ c = IF i = l THEN t[1] ELSE t[i + 1]
    BY ONLY <1>9, <1>13
  <2>2. QED
    BY ONLY <1>12, <2>1
<1>14. QED
  BY <1>2, <1>4, <1>8, <1>11, <1>13, Zenon DEF n, t

\* sort() exists, too: for every place there is a name with so many before it.
LEMMA SortedType ==
    ASSUME NEW S \in SUBSET Nat, IsFiniteSet(S)
    PROVE  /\ Sorted(S) \in Seq(S) /\ Len(Sorted(S)) = Cardinality(S)
           /\ \A i \in 1..Cardinality(S) :
                 Cardinality({y \in S : y < Sorted(S)[i]}) = i - 1
<1> DEFINE n == Cardinality(S)
           Below(x) == {y \in S : y < x}
           bad == {i \in 1..n : ~\E x \in S : Cardinality(Below(x)) = i - 1}
<1>1. n \in Nat
  BY FS_CardinalityType
<1>2. SUFFICES ASSUME bad # {}
               PROVE  FALSE
  <2>1. ASSUME bad = {}, NEW i \in 1..n
        PROVE  LET z == CHOOSE x \in S : Cardinality({y \in S : y < x}) = i - 1 IN
               z \in S /\ Cardinality({y \in S : y < z}) = i - 1
    BY <2>1
  <2>2. ASSUME bad = {}
        PROVE  /\ Sorted(S) \in [1..n -> S]
               /\ \A i \in 1..n : Cardinality({y \in S : y < Sorted(S)[i]}) = i - 1
    BY <2>1, <2>2 DEF Sorted
  <2>3. QED
    BY <1>1, <2>2, FunctionIsSeq
<1> DEFINE k == Least(bad)
<1>3. k \in bad /\ \A i \in bad : k <= i
  <2>1. bad \in SUBSET Nat
    BY <1>1
  <2>2. QED
    BY <1>2, <2>1, LeastOf, Zenon
<1>4. k \in 1..n /\ \A x \in S : Cardinality(Below(x)) # k - 1
  BY <1>3
<1> HIDE DEF k
<1>5. S # {}
  BY <1>1, <1>4, FS_EmptySet
<1>6. CASE k = 1
  <2>1. Least(S) \in S /\ \A y \in S : Least(S) <= y
    BY <1>5, LeastOf
  <2>2. \A y \in S : ~(y < Least(S))
    <3> DEFINE z == Least(S)
    <3> HIDE DEF z
    <3>1. z \in S /\ \A y \in S : z <= y
      BY <2>1 DEF z
    <3>2. \A y \in S : ~(y < z)
      BY <3>1
    <3>3. QED
      BY <3>2 DEF z
  <2>3. Below(Least(S)) = {}
    BY <2>2, Zenon
  <2>4. Cardinality(Below(Least(S))) = 1 - 1
    BY <2>3, FS_EmptySet
  <2>5. QED
    BY <1>4, <1>6, <2>1, <2>4, Zenon
<1>7. CASE k # 1
  <2>1. k - 1 \in 1..n /\ k - 1 \notin bad
    BY <1>1, <1>3, <1>4, <1>7
  <2>2. PICK x \in S : Cardinality(Below(x)) = k - 1 - 1
    BY <2>1
  <2> DEFINE low == Below(x) \cup {x}
             above == {y \in S : x < y}
  <2>3. IsFiniteSet(Below(x)) /\ x \notin Below(x)
    BY FS_Subset
  <2>4. Cardinality(low) = k - 1
    <3>1. Cardinality(low) = Cardinality(Below(x)) + 1
      BY <2>3, FS_AddElement, Zenon
    <3>2. QED
      BY <1>1, <1>4, <2>2, <3>1
  <2>5. above # {}
    <3>1. SUFFICES ASSUME above = {} PROVE FALSE
      OBVIOUS
    <3>2. \A y \in S : y < x \/ y = x
      BY <3>1
    <3>3. S = low
      BY <3>2, Zenon
    <3>4. QED
      BY <1>1, <1>4, <2>4, <3>3
  <2>6. Least(above) \in above /\ \A y \in above : Least(above) <= y
    BY <2>5, LeastOf
  <2>7. Least(above) \in S /\ Below(Least(above)) = low
    <3> DEFINE z == Least(above)
    <3>1. z \in S /\ x < z /\ \A y \in S : x < y => z <= y
      BY <2>6
    <3> HIDE DEF z
    <3>2. \A y \in S : y < z <=> y < x \/ y = x
      BY <3>1
    <3>3. Below(z) = low
      BY <3>2, Zenon
    <3>4. QED
      BY <3>1, <3>3 DEF z
  <2>8. QED
    BY <1>4, <2>4, <2>7, Zenon
<1>8. QED
  BY <1>6, <1>7

\* Every element of a finite set is in its sorted sequence.
LEMMA SortedAll ==
    ASSUME NEW S \in SUBSET Nat, IsFiniteSet(S), NEW x \in S
    PROVE  \E i \in 1..Cardinality(S) : Sorted(S)[i] = x
<1> DEFINE n == Cardinality(S)
           s == Sorted(S)
           I == 1..n
<1>1. n \in Nat /\ s \in [I -> S]
  BY FS_CardinalityType, SortedType, LenProperties
<1>2. \A i \in I : Cardinality({y \in S : y < s[i]}) = i - 1
  BY SortedType
<1>3. IsFiniteSet(I) /\ Cardinality(I) = n
  BY <1>1, FS_Interval
<1> HIDE DEF n, s
<1>4. \A i, j \in I : s[i] = s[j] => i = j
  <2>1. ASSUME NEW i \in I, NEW j \in I, s[i] = s[j]
        PROVE  i - 1 = j - 1
    BY <1>2, <2>1
  <2>2. QED
    BY <1>1, <2>1
<1> HIDE DEF I
<1>5. s \in Injection(I, S)
  BY <1>1, <1>4 DEF Injection, IsInjective
<1>6. s \in Surjection(I, S)
  BY <1>3, <1>5, FS_Injection DEF n
<1>7. QED
  BY <1>6 DEF Surjection, I, n, s

\* A sequence without repetitions has as many elements as its length says.
LEMMA DistinctCount ==
    ASSUME NEW S, IsFiniteSet(S), NEW s \in Seq(S), Distinct(s)
    PROVE  Cardinality({x \in S : Listed(s, x)}) = Len(s)
<1> DEFINE n == Len(s)
           T == {x \in S : Listed(s, x)}
<1>1. n \in Nat /\ s \in [1..n -> S]
  BY LenProperties
<1>2. s \in [1..n -> T]
  BY <1>1 DEF Listed
<1>3. s \in Bijection(1..n, T)
  <2>1. s \in Injection(1..n, T)
    BY <1>2 DEF Injection, IsInjective, Distinct
  <2>2. \A x \in T : \E i \in 1..n : s[i] = x
    BY DEF Listed
  <2>3. QED
    BY <1>2, <2>1, <2>2 DEF Bijection, Surjection
<1>4. QED
  BY <1>1, <1>3, FS_CountingElements DEF ExistsBijection

------------------------------------------------------------------------------
(* The steps of the inductive invariant *)

\* A schema has finitely many tables, and their names are ordered.
LEMMA NodesAreNames ==
    ASSUME TypeOK
    PROVE  /\ Nodes \in SUBSET Nat /\ IsFiniteSet(Nodes)
           /\ Seq(Nodes) \subseteq Seq(Nat)
<1>1. Nodes \in SUBSET Names
  BY DEF TypeOK
<1>2. Nodes \in SUBSET Nat /\ IsFiniteSet(Nodes)
  BY <1>1, GraphAssumption, FS_Subset
<1>3. QED
  BY <1>2, SeqMonotonic

\* The node on top of the path is gray, and the child that is due is a node.
LEMMA ChildType ==
    ASSUME TypeOK, SearchInv, pathStack # <<>>
    PROVE  /\ Len(pathStack) \in Nat \ {0} /\ Top \in Nodes /\ color[Top] = "gray"
           /\ visited[Top] < Len(adjacency[Top]) =>
                 /\ visited[Top] + 1 \in 1..Len(adjacency[Top])
                 /\ adjacency[Top][visited[Top] + 1] \in Nodes
                 /\ Edge(Top, adjacency[Top][visited[Top] + 1])
<1>1. pathStack \in Seq(Nodes)
  BY DEF TypeOK
<1>2. Len(pathStack) \in Nat \ {0} /\ Top \in Nodes /\ Len(pathStack) \in 1..Len(pathStack)
  BY <1>1 DEF Top
<1>3. color[Top] = "gray"
  BY <1>2 DEF SearchInv, Listed, Top
<1>4. ASSUME NEW n \in Nodes, visited[n] < Len(adjacency[n])
      PROVE  /\ visited[n] + 1 \in 1..Len(adjacency[n])
             /\ adjacency[n][visited[n] + 1] \in Nodes
             /\ Edge(n, adjacency[n][visited[n] + 1])
  <2>1. adjacency[n] \in Seq(Nodes) /\ visited[n] \in Nat
    BY DEF TypeOK
  <2>2. visited[n] + 1 \in 1..Len(adjacency[n])
    BY <1>4, <2>1
  <2>3. QED
    BY <2>1, <2>2, ElementOfSeq DEF Edge, Listed
<1>5. QED
  BY <1>2, <1>3, <1>4, Zenon

\* The three things that can be the matter with the child that is due.
LEMMA VisitChildCases ==
    ASSUME TypeOK, SearchInv, VisitChild
    PROVE  \E child \in Nodes :
              /\ child = adjacency[Top][visited[Top] + 1] /\ Edge(Top, child)
              /\ visited[Top] + 1 \in 1..Len(adjacency[Top])
              /\ visited' = [visited EXCEPT ![Top] = @ + 1]
              /\ \/ /\ color[child] = "white" /\ Enter(child, visited')
                 \/ /\ color[child] = "gray"
                    /\ cycles' = cycles \cup {Canonicalize(CycleThrough(child))}
                    /\ UNCHANGED <<color, pathStack, finished>>
                 \/ /\ color[child] = "black"
                    /\ UNCHANGED <<color, pathStack, finished, cycles>>
<1> DEFINE child == adjacency[Top][visited[Top] + 1]
<1>1. /\ pathStack # <<>> /\ visited[Top] < Len(adjacency[Top])
      /\ IF color[child] = "white"
         THEN Enter(child, [visited EXCEPT ![Top] = @ + 1])
         ELSE /\ cycles' = IF color[child] = "gray"
                           THEN cycles \cup {Canonicalize(CycleThrough(child))}
                           ELSE cycles
              /\ visited' = [visited EXCEPT ![Top] = @ + 1]
              /\ UNCHANGED <<color, pathStack, finished>>
  BY DEF VisitChild, Searching
<1>2. /\ child \in Nodes /\ Edge(Top, child)
      /\ visited[Top] + 1 \in 1..Len(adjacency[Top])
  BY <1>1, ChildType
<1> HIDE DEF child
<1>3. color[child] \in {"white", "gray", "black"}
  BY <1>2 DEF TypeOK
<1>4. visited' = [visited EXCEPT ![Top] = @ + 1]
  BY <1>1 DEF Enter
<1>5. \/ color[child] = "white" /\ Enter(child, visited')
      \/ /\ color[child] = "gray"
         /\ cycles' = cycles \cup {Canonicalize(CycleThrough(child))}
         /\ UNCHANGED <<color, pathStack, finished>>
      \/ color[child] = "black" /\ UNCHANGED <<color, pathStack, finished, cycles>>
  BY <1>1, <1>3, <1>4
<1>6. QED
  BY <1>2, <1>4, <1>5, Zenon DEF child

\* The cycle that a gray child closes.
LEMMA NewCycle ==
    ASSUME TypeOK, SearchInv, pathStack # <<>>, NEW child \in Nodes, color[child] = "gray",
           Edge(Top, child)
    PROVE  LET cycle == Canonicalize(CycleThrough(child)) IN
           /\ cycle \in Seq(Nodes) /\ cycle # <<>> /\ Distinct(cycle)
           /\ \A i \in 1..Len(cycle) : cycle[1] <= cycle[i]
           /\ OnCycle(cycle, Top, child)
           /\ \A p, c \in Nodes : OnCycle(cycle, p, c) => Edge(p, c)
<1> DEFINE a == CHOOSE i \in 1..Len(pathStack) : pathStack[i] = child
           s == CycleThrough(child)
<1>1. pathStack \in Seq(Nodes) /\ Distinct(pathStack)
  BY DEF TypeOK, SearchInv, Distinct
<1>2. a \in 1..Len(pathStack) /\ pathStack[a] = child
  BY DEF SearchInv, Listed
<1>3. s = SubSeq(pathStack, a, Len(pathStack))
  BY DEF CycleThrough
<1> HIDE DEF a, s
<1>4. /\ s \in Seq(Nodes) /\ s # <<>> /\ Distinct(s)
      /\ OnCycle(s, Top, child)
      /\ \A p, c : OnCycle(s, p, c) =>
            \/ \E i \in 1..Len(pathStack) - 1 : pathStack[i] = p /\ pathStack[i + 1] = c
            \/ p = Top /\ c = child
  BY <1>1, <1>2, <1>3, PathEnd DEF Top
<1>5. \A p, c \in Nodes : OnCycle(s, p, c) => Edge(p, c)
  BY <1>4 DEF SearchInv
<1>6. LET r == Canonicalize(s) IN
      /\ r \in Seq(Nodes) /\ Len(r) = Len(s) /\ r # <<>>
      /\ \A i \in 1..Len(r) : r[1] <= r[i]
      /\ Distinct(s) => Distinct(r)
      /\ \A p, c : OnCycle(r, p, c) <=> OnCycle(s, p, c)
  BY <1>4, NodesAreNames, Rotation, Zenon
<1>7. QED
  BY <1>4, <1>5, <1>6, Zenon DEF s

\* Every variable keeps its type.
LEMMA TypeStep ==
    ASSUME InductiveInvariant, [Next]_vars
    PROVE  TypeOK'
<1> USE DEF InductiveInvariant
<1>1. ASSUME NEW p \in Names, NEW c \in Names, AddEdge(p, c)
      PROVE  TypeOK'
  <2> DEFINE nodes == Nodes \cup {p, c}
  <2>1. /\ nodes \subseteq Names /\ Nodes' = nodes
        /\ adjacency' = [n \in nodes |->
                            IF n = p THEN ChildrenWith(p, c)
                            ELSE IF n \in Nodes THEN adjacency[n] ELSE <<>>]
    BY <1>1 DEF AddEdge, TypeOK, Nodes
  <2>2. \A n \in Nodes : adjacency[n] \in Seq(nodes)
    <3>1. \A n \in Nodes : adjacency[n] \in Seq(Nodes)
      BY DEF TypeOK
    <3>2. QED
      BY <3>1, SeqMonotonic
  <2>3. ChildrenWith(p, c) \in Seq(nodes)
    <3>1. CASE p \notin Nodes
      BY <3>1 DEF ChildrenWith
    <3>2. CASE p \in Nodes
      BY <2>2, <3>2 DEF ChildrenWith
    <3>3. QED
      BY <3>1, <3>2
  <2>4. <<>> \in Seq(nodes)
    BY EmptySeq
  <2>5. adjacency' \in [nodes -> Seq(nodes)]
    BY <2>1, <2>2, <2>3, <2>4
  <2>6. /\ color' \in [nodes -> {"white", "gray", "black"}]
        /\ visited' \in [nodes -> Nat] /\ remaining' \in [nodes -> Int]
    BY <1>1 DEF AddEdge
  <2>7. {pathStack', finished', order'} \subseteq Seq(nodes)
    <3>1. {pathStack', finished', order'} \subseteq Seq(Nodes)
      BY <1>1 DEF AddEdge, TypeOK
    <3>2. QED
      BY <3>1, SeqMonotonic
  <2>8. cycles' = {} /\ ready' \subseteq nodes /\ phase' = phase
    BY <1>1 DEF AddEdge, SearchInv, TypeOK
  <2> HIDE DEF nodes
  <2>9. QED
    BY <2>1, <2>5, <2>6, <2>7, <2>8 DEF TypeOK
<1>2. CASE StartDetect
  BY <1>2 DEF StartDetect, searchVars, orderVars, TypeOK, Nodes
<1>3. ASSUME NEW n \in Nodes, NEW seen \in [Nodes -> Nat], Enter(n, seen),
             UNCHANGED <<graphVars, orderVars>>
      PROVE  TypeOK'
  <2>1. pathStack' \in Seq(Nodes)
    BY <1>3 DEF Enter, TypeOK
  <2>2. QED
    BY <1>3, <2>1 DEF Enter, graphVars, orderVars, TypeOK, Nodes
<1>4. CASE EnterRoot
  <2>1. White \in SUBSET Nat /\ White # {} /\ White \subseteq Nodes
    BY <1>4, NodesAreNames DEF EnterRoot, White
  <2>2. Least(White) \in Nodes
    BY <2>1, LeastOf
  <2>3. QED
    BY <1>3, <1>4, <2>2 DEF EnterRoot, TypeOK
<1>5. CASE VisitChild
  <2>1. PICK child \in Nodes :
           /\ Edge(Top, child)
           /\ visited' = [visited EXCEPT ![Top] = @ + 1]
           /\ \/ /\ color[child] = "white" /\ Enter(child, visited')
              \/ /\ color[child] = "gray"
                 /\ cycles' = cycles \cup {Canonicalize(CycleThrough(child))}
                 /\ UNCHANGED <<color, pathStack, finished>>
              \/ /\ color[child] = "black"
                 /\ UNCHANGED <<color, pathStack, finished, cycles>>
    BY <1>5, VisitChildCases
  <2>2. UNCHANGED <<graphVars, orderVars>> /\ pathStack # <<>>
    BY <1>5 DEF VisitChild, Searching
  <2>3. visited' \in [Nodes -> Nat]
    <3>1. visited \in [Nodes -> Nat] /\ Top \in Nodes
      BY <2>2, ChildType DEF TypeOK
    <3>2. QED
      BY ONLY <2>1, <3>1
  <2>4. CASE color[child] = "white" /\ Enter(child, visited')
    BY <1>3, <2>2, <2>3, <2>4
  <2>5. CASE cycles' \subseteq Seq(Nodes) /\ UNCHANGED <<color, pathStack, finished>>
    BY <2>2, <2>3, <2>5 DEF graphVars, orderVars, TypeOK, Nodes
  <2>6. color[child] = "gray" => Canonicalize(CycleThrough(child)) \in Seq(Nodes)
    BY <2>1, <2>2, NewCycle
  <2>7. QED
    BY <2>1, <2>4, <2>5, <2>6 DEF TypeOK
<1>6. CASE Leave
  <2>1. pathStack # <<>> /\ pathStack \in Seq(Nodes) /\ finished \in Seq(Nodes)
    BY <1>6 DEF Leave, Searching, TypeOK
  <2>2. pathStack' \in Seq(Nodes) /\ finished' \in Seq(Nodes)
    BY <1>6, <2>1, Shortened, ChildType DEF Leave
  <2>3. QED
    BY <1>6, <2>2 DEF Leave, graphVars, orderVars, TypeOK, Nodes
<1>7. CASE StartOrder
  <2>1. remaining' \in [Nodes -> Int]
    <3>1. \A n \in Nodes : Cardinality(Parents(n)) \in Int
      BY NodesAreNames, FS_Subset, FS_CardinalityType DEF Parents
    <3>2. QED
      BY <1>7, <3>1 DEF StartOrder
  <2>2. QED
    BY <1>7, <2>1 DEF StartOrder, searchVars, TypeOK, Nodes
<1>8. CASE TakeReady
  <2>1. ready \in SUBSET Nat /\ ready # {} /\ ready \subseteq Nodes
    BY <1>8, NodesAreNames DEF TakeReady, TypeOK
  <2>2. Least(ready) \in Nodes
    BY <2>1, LeastOf
  <2>3. order' \in Seq(Nodes)
    BY <1>8, <2>2 DEF TakeReady, TypeOK
  <2>4. remaining' \in [Nodes -> Int] /\ ready' \subseteq Nodes
    BY <1>8 DEF TakeReady, TypeOK
  <2>5. QED
    BY <1>8, <2>3, <2>4 DEF TakeReady, graphVars, searchVars, TypeOK, Nodes
<1>9. CASE AppendLeftover
  <2>1. Leftover \in SUBSET Nat /\ IsFiniteSet(Leftover) /\ Leftover \subseteq Nodes
    BY NodesAreNames, FS_Subset DEF Leftover
  <2>2. Sorted(Leftover) \in Seq(Nodes)
    BY <2>1, SortedType, SeqMonotonic
  <2>3. order' \in Seq(Nodes)
    BY <1>9, <2>2, ConcatProperties DEF AppendLeftover, TypeOK
  <2>4. QED
    BY <1>9, <2>3 DEF AppendLeftover, searchVars, TypeOK, Nodes
<1>10. CASE UNCHANGED vars
  BY <1>10 DEF vars, graphVars, searchVars, orderVars, TypeOK, Nodes
<1>11. QED
  BY <1>1, <1>2, <1>4, <1>5, <1>6, <1>7, <1>8, <1>9, <1>10 DEF Next

\* The search enters white nodes along edges and leaves from the end of its path.
LEMMA SearchStep ==
    ASSUME InductiveInvariant, [Next]_vars
    PROVE  SearchInv'
<1> USE DEF InductiveInvariant
<1>1. ASSUME NEW p \in Names, NEW c \in Names, AddEdge(p, c)
      PROVE  SearchInv'
  <2> DEFINE nodes == Nodes \cup {p, c}
  <2>1. /\ phase = "build" /\ phase' = "build" /\ pathStack' = <<>> /\ cycles' = {}
        /\ Nodes' = nodes
        /\ color' = [n \in nodes |-> "white"] /\ visited' = [n \in nodes |-> 0]
    BY <1>1 DEF AddEdge, SearchInv, Nodes
  <2>2. \A n \in nodes : 0 <= Len(adjacency'[n])
    <3>1. adjacency' \in [nodes -> Seq(nodes)]
      BY <2>1, TypeStep DEF TypeOK
    <3>2. QED
      BY <3>1
  <2> HIDE DEF nodes
  <2>3. Len(pathStack') = 0
    BY <2>1, EmptySeq
  <2>4. QED
    BY <2>1, <2>2, <2>3 DEF SearchInv, Listed
<1>2. CASE StartDetect
  BY <1>2 DEF StartDetect, searchVars, SearchInv, Nodes, Edge, Listed
<1>3. ASSUME NEW n \in Nodes, color[n] = "white", Enter(n, visited'),
             UNCHANGED <<phase, adjacency>>, phase = "detect",
             pathStack # <<>> => Edge(Top, n),
             \A x \in Nodes : /\ visited'[x] <= Len(adjacency[x])
                              /\ color[x] = "black" => visited'[x] = visited[x]
      PROVE  SearchInv'
  <2>1. /\ Len(pathStack) \in Nat /\ Len(pathStack') = Len(pathStack) + 1
        /\ \A i \in 1..Len(pathStack) : pathStack'[i] = pathStack[i]
        /\ pathStack'[Len(pathStack')] = n
        /\ pathStack # <<>> <=> Len(pathStack) # 0
        /\ \A i \in 1..Len(pathStack) : pathStack[i] \in Nodes
    BY <1>3 DEF Enter, TypeOK
  <2>2. \A i \in 1..Len(pathStack) : pathStack[i] # n
    BY <1>3 DEF SearchInv, Listed
  <2>3. \A i, j \in 1..Len(pathStack') : pathStack'[i] = pathStack'[j] => i = j
    <3>1. Distinct(pathStack) /\ pathStack \in Seq(Nodes)
      BY DEF SearchInv, Distinct, TypeOK
    <3>2. Distinct(Append(pathStack, n))
      BY <1>3, <2>2, <3>1, Appended
    <3>3. QED
      BY <1>3, <3>2 DEF Distinct, Enter
  <2>4. (\A i \in 1..Len(pathStack) - 1 : Edge(pathStack[i], pathStack[i + 1]))'
    <3>1. ASSUME NEW i \in 1..Len(pathStack') - 1
          PROVE  Edge(pathStack'[i], pathStack'[i + 1])
      <4>1. CASE i = Len(pathStack)
        BY <1>3, <2>1, <4>1 DEF Top
      <4>2. CASE i # Len(pathStack)
        BY <2>1, <4>2 DEF SearchInv
      <4>3. QED
        BY <4>1, <4>2
    <3>2. QED
      BY <1>3, <3>1 DEF Edge, Nodes, Listed
  <2>5. \A x \in Nodes : Listed(pathStack', x) <=> Listed(pathStack, x) \/ x = n
    BY <2>1 DEF Listed
  <2>6. \A x \in Nodes : color'[x] = IF x = n THEN "gray" ELSE color[x]
    BY <1>3 DEF Enter, TypeOK
  <2>7. /\ Nodes' = Nodes /\ finished' = finished /\ phase' = "detect"
        /\ adjacency' = adjacency
    BY <1>3 DEF Enter, Nodes
  <2>8. \A x \in Nodes :
            /\ color'[x] = "gray" <=> Listed(pathStack', x)
            /\ color'[x] = "black" => /\ Listed(finished', x)
                                      /\ visited'[x] = Len(adjacency[x])
            /\ visited'[x] <= Len(adjacency[x])
    BY <1>3, <2>5, <2>6, <2>7 DEF SearchInv
  <2>9. QED
    BY ONLY <2>3, <2>4, <2>7, <2>8 DEF SearchInv, Listed
<1>4. CASE EnterRoot
  <2>1. White \in SUBSET Nat /\ White # {} /\ White \subseteq Nodes
    BY <1>4, NodesAreNames DEF EnterRoot, White
  <2>2. Least(White) \in White
    BY <2>1, LeastOf
  <2>3. Least(White) \in Nodes /\ color[Least(White)] = "white"
    BY <2>2 DEF White
  <2>4. visited' = visited /\ Enter(Least(White), visited')
    BY <1>4 DEF EnterRoot, Enter
  <2>5. UNCHANGED <<phase, adjacency>> /\ phase = "detect" /\ pathStack = <<>>
    BY <1>4 DEF EnterRoot, graphVars
  <2>6. QED
    BY <1>3, <2>3, <2>4, <2>5 DEF SearchInv
<1>5. CASE VisitChild
  <2>1. PICK child \in Nodes :
           /\ Edge(Top, child)
           /\ visited[Top] + 1 \in 1..Len(adjacency[Top])
           /\ visited' = [visited EXCEPT ![Top] = @ + 1]
           /\ \/ color[child] = "white" /\ Enter(child, visited')
              \/ UNCHANGED <<color, pathStack, finished>>
    BY <1>5, VisitChildCases
  <2>2. /\ UNCHANGED <<phase, adjacency>> /\ phase = "detect" /\ pathStack # <<>>
        /\ Top \in Nodes /\ color[Top] = "gray"
    BY <1>5, ChildType DEF VisitChild, Searching, graphVars
  <2>3. \A x \in Nodes : /\ visited'[x] <= Len(adjacency[x])
                         /\ color[x] = "black" => visited'[x] = visited[x]
    <3>1. \A x \in Nodes : visited'[x] = IF x = Top THEN visited[Top] + 1 ELSE visited[x]
      BY <2>1, <2>2 DEF TypeOK
    <3>2. \A x \in Nodes : visited[x] <= Len(adjacency[x])
      BY DEF SearchInv
    <3>3. visited[Top] + 1 <= Len(adjacency[Top])
      BY <2>1
    <3>4. QED
      BY ONLY <2>2, <3>1, <3>2, <3>3, Zenon
  <2>4. CASE color[child] = "white" /\ Enter(child, visited')
    BY <1>3, <2>1, <2>2, <2>3, <2>4
  <2>5. CASE UNCHANGED <<color, pathStack, finished>>
    <3>1. Nodes' = Nodes /\ \A p, c : Edge(p, c)' <=> Edge(p, c)
      BY <2>2 DEF Nodes, Edge
    <3>2. \A x \in Nodes : color[x] = "black" => visited'[x] = Len(adjacency[x])
      BY <2>3 DEF SearchInv
    <3>3. QED
      BY <2>2, <2>3, <2>5, <3>1, <3>2 DEF SearchInv, Listed
  <2>6. QED
    BY <2>1, <2>4, <2>5
<1>6. CASE Leave
  <2> DEFINE top == Top
  <2>1. /\ phase = "detect" /\ pathStack # <<>> /\ pathStack \in Seq(Nodes)
        /\ visited[top] = Len(adjacency[top])
        /\ color' = [color EXCEPT ![top] = "black"]
        /\ pathStack' = SubSeq(pathStack, 1, Len(pathStack) - 1)
        /\ finished' = Append(finished, top) /\ finished \in Seq(Nodes)
        /\ UNCHANGED <<phase, adjacency, visited>>
    BY <1>6 DEF Leave, Searching, graphVars, TypeOK
  <2>2. /\ top \in Nodes /\ Len(pathStack) \in Nat \ {0}
        /\ top = pathStack[Len(pathStack)]
    BY <2>1, ChildType DEF Top
  <2> HIDE DEF top
  <2>3. /\ Len(pathStack') = Len(pathStack) - 1
        /\ \A i \in 1..Len(pathStack') : pathStack'[i] = pathStack[i] /\ i \in 1..Len(pathStack)
    BY <2>1, Shortened
  <2>4. \A i \in 1..Len(pathStack) : i = Len(pathStack) \/ i \in 1..Len(pathStack')
    BY <2>2, <2>3
  <2>5. \A i, j \in 1..Len(pathStack') : pathStack'[i] = pathStack'[j] => i = j
    BY <2>3 DEF SearchInv
  <2>6. (\A i \in 1..Len(pathStack) - 1 : Edge(pathStack[i], pathStack[i + 1]))'
    <3>1. ASSUME NEW i \in 1..Len(pathStack') - 1
          PROVE  Edge(pathStack'[i], pathStack'[i + 1])
      <4>1. i \in 1..Len(pathStack') /\ i + 1 \in 1..Len(pathStack') /\ i \in 1..Len(pathStack) - 1
        BY ONLY <2>2, <2>3, i \in 1..Len(pathStack') - 1
      <4>2. QED
        BY <2>3, <4>1 DEF SearchInv
    <3>2. QED
      BY <2>1, <3>1 DEF Edge, Nodes, Listed
  <2>7. \A x \in Nodes : Listed(pathStack', x) <=> Listed(pathStack, x) /\ x # top
    <3>1. \A i \in 1..Len(pathStack') : pathStack[i] # top
      <4>1. \A i \in 1..Len(pathStack') : i # Len(pathStack)
        BY ONLY <2>2, <2>3
      <4>2. Len(pathStack) \in 1..Len(pathStack)
        BY ONLY <2>2
      <4>3. QED
        BY <2>2, <2>3, <4>1, <4>2 DEF SearchInv
    <3>2. QED
      BY ONLY <2>2, <2>3, <2>4, <3>1 DEF Listed
  <2>8. \A x \in Nodes : color'[x] = IF x = top THEN "black" ELSE color[x]
    BY <2>1, <2>2 DEF TypeOK
  <2>9. \A x \in Nodes : Listed(finished', x) <=> Listed(finished, x) \/ x = top
    BY <2>1, <2>2 DEF Listed
  <2>10. Nodes' = Nodes
    BY <2>1 DEF Nodes
  <2>11. \A x \in Nodes :
            /\ color'[x] = "gray" <=> Listed(pathStack', x)
            /\ color'[x] = "black" => /\ Listed(finished', x)
                                      /\ visited'[x] = Len(adjacency[x])
            /\ visited'[x] <= Len(adjacency[x])
    BY <2>1, <2>7, <2>8, <2>9 DEF SearchInv
  <2>12. QED
    BY ONLY <2>1, <2>5, <2>6, <2>10, <2>11 DEF SearchInv, Listed
<1>7. ASSUME UNCHANGED <<adjacency, color, visited, pathStack, cycles, finished>>,
             phase' \in {phase, "order", "done"},
             phase' \in {"order", "done"} => \A n \in Nodes : color[n] = "black"
      PROVE  SearchInv'
  <2>1. Nodes' = Nodes /\ \A p, c : Edge(p, c)' <=> Edge(p, c)
    BY <1>7 DEF Nodes, Edge
  <2>2. QED
    BY <1>7, <2>1 DEF SearchInv, Listed
<1>8. CASE StartOrder
  <2>1. \A n \in Nodes : color[n] = "black"
    <3>1. ASSUME NEW n \in Nodes
          PROVE  color[n] = "black"
      <4>1. color[n] \in {"gray", "black"}
        BY <1>8 DEF StartOrder, White, TypeOK
      <4>2. ~Listed(pathStack, n)
        BY <1>8, EmptySeq DEF StartOrder, Listed
      <4>3. QED
        BY <4>1, <4>2 DEF SearchInv
    <3>2. QED
      BY <3>1
  <2>2. QED
    BY <1>7, <1>8, <2>1 DEF StartOrder, searchVars
<1>9. CASE TakeReady \/ AppendLeftover
  BY <1>7, <1>9 DEF TakeReady, AppendLeftover, graphVars, searchVars, SearchInv
<1>10. CASE UNCHANGED vars
  BY <1>7, <1>10 DEF vars, graphVars, searchVars, SearchInv
<1>11. QED
  BY <1>1, <1>2, <1>4, <1>5, <1>6, <1>8, <1>9, <1>10 DEF Next

\* How a step shows that the edges looked at are still settled.
LEMMA EdgesFromSettled ==
    ASSUME adjacency' = adjacency,
           \A p \in Nodes : \A k \in 1..visited'[p] :
               \E c \in Nodes : c = adjacency[p][k] /\ Settled(p, c)'
    PROVE  EdgesInv'
BY DEF EdgesInv, Settled, Nodes

\* What is settled stays so while the search goes down.
LEMMA SettledStays ==
    ASSUME TypeOK, NEW p \in Nodes, NEW c \in Nodes, Settled(p, c),
           cycles \subseteq cycles', finished' = finished,
           \A n \in Nodes : color[n] \in {"gray", "black"} => color'[n] = color[n],
           Len(pathStack) <= Len(pathStack'), Len(pathStack') \in Nat,
           \A i \in 1..Len(pathStack) : pathStack'[i] = pathStack[i]
    PROVE  Settled(p, c)'
<1>1. CASE \E cycle \in cycles : OnCycle(cycle, p, c)
  BY <1>1 DEF Settled
<1>2. CASE \E i, j \in 1..Len(finished) : i < j /\ finished[i] = c /\ finished[j] = p
  BY <1>2 DEF Settled
<1>3. CASE color[p] = "gray" /\ color[c] = "black"
  BY <1>3 DEF Settled
<1>4. ASSUME color[p] = "gray", NEW i \in 1..Len(pathStack) - 1,
             pathStack[i] = p, pathStack[i + 1] = c
      PROVE  Settled(p, c)'
  <2>1. Len(pathStack) \in Nat
    BY DEF TypeOK
  <2>2. i \in 1..Len(pathStack') - 1 /\ i \in 1..Len(pathStack) /\ i + 1 \in 1..Len(pathStack)
    BY <2>1
  <2>3. color'[p] = "gray" /\ pathStack'[i] = p /\ pathStack'[i + 1] = c
    BY <1>4, <2>2
  <2>4. QED
    BY <2>2, <2>3 DEF Settled
<1>5. QED
  BY <1>1, <1>2, <1>3, <1>4 DEF Settled

\* What is settled stays so when a node is left.
LEMMA SettledWhenLeft ==
    ASSUME TypeOK, SearchInv, Leave, NEW p \in Nodes, NEW c \in Nodes, Settled(p, c)
    PROVE  Settled(p, c)'
<1> DEFINE top == Top
           n == Len(pathStack)
           m == Len(finished)
<1>1. /\ pathStack # <<>> /\ pathStack \in Seq(Nodes) /\ finished \in Seq(Nodes)
      /\ color' = [color EXCEPT ![top] = "black"]
      /\ pathStack' = SubSeq(pathStack, 1, n - 1)
      /\ finished' = Append(finished, top) /\ cycles' = cycles
  BY DEF Leave, Searching, TypeOK
<1>2. top \in Nodes /\ n \in Nat \ {0} /\ top = pathStack[n] /\ m \in Nat
  BY <1>1, ChildType DEF Top
<1> HIDE DEF top
<1>3. \A x \in Nodes : color'[x] = IF x = top THEN "black" ELSE color[x]
  BY <1>1, <1>2 DEF TypeOK
<1>4. /\ Len(pathStack') = n - 1
      /\ \A i \in 1..n - 1 : pathStack'[i] = pathStack[i]
  BY <1>1, Shortened
<1>5. /\ Len(finished') = m + 1 /\ finished'[m + 1] = top
      /\ \A i \in 1..m : finished'[i] = finished[i]
  BY <1>1, <1>2
<1> HIDE DEF n, m
<1>6. CASE \E cycle \in cycles : OnCycle(cycle, p, c)
  BY <1>1, <1>6 DEF Settled
<1>7. ASSUME NEW i \in 1..m, NEW j \in 1..m + 1, i < j,
             finished'[i] = c, finished'[j] = p
      PROVE  Settled(p, c)'
  <2>1. i \in 1..Len(finished') /\ j \in 1..Len(finished')
    BY ONLY <1>2, <1>5, i \in 1..m, j \in 1..m + 1
  <2>2. QED
    BY <1>7, <2>1 DEF Settled
<1>8. CASE \E i, j \in 1..m : i < j /\ finished[i] = c /\ finished[j] = p
  <2>1. PICK i \in 1..m, j \in 1..m : i < j /\ finished[i] = c /\ finished[j] = p
    BY <1>8
  <2>2. j \in 1..m + 1 /\ finished'[i] = c /\ finished'[j] = p
    BY ONLY <1>2, <1>5, <2>1
  <2>3. QED
    BY <1>7, <2>1, <2>2
<1>9. CASE color[p] = "gray" /\ color[c] = "black" /\ p = top
  <2>1. PICK i \in 1..m : finished[i] = c
    BY <1>9 DEF SearchInv, Listed, m
  <2>2. m + 1 \in 1..m + 1 /\ i < m + 1 /\ finished'[i] = c /\ finished'[m + 1] = p
    BY ONLY <1>2, <1>5, <1>9, <2>1
  <2>3. QED
    BY <1>7, <2>1, <2>2
<1>10. CASE color[p] = "gray" /\ color[c] = "black" /\ p # top
  BY <1>3, <1>10 DEF Settled
<1>11. ASSUME color[p] = "gray", NEW i \in 1..n - 1, pathStack[i] = p, pathStack[i + 1] = c
       PROVE  Settled(p, c)'
  <2>1. i \in 1..n /\ n \in 1..n /\ i # n
    BY ONLY <1>2, i \in 1..n - 1
  <2>2. p # top
    <3>1. \A x, y \in 1..n : pathStack[x] = pathStack[y] => x = y
      BY DEF SearchInv, n
    <3>2. QED
      BY ONLY <1>2, <1>11, <2>1, <3>1, Zenon
  <2>3. color'[p] = "gray"
    BY <1>3, <1>11, <2>2
  <2>4. CASE i + 1 = n
    <3>1. color'[c] = "black"
      BY ONLY <1>2, <1>3, <1>11, <2>4
    <3>2. QED
      BY <2>3, <3>1 DEF Settled
  <2>5. CASE i + 1 # n
    <3>1. i \in 1..Len(pathStack') - 1 /\ i \in 1..n - 1 /\ i + 1 \in 1..n - 1
      BY ONLY <1>2, <1>4, <2>5, i \in 1..n - 1
    <3>2. pathStack'[i] = p /\ pathStack'[i + 1] = c
      BY ONLY <1>4, <1>11, <3>1
    <3>3. QED
      BY <2>3, <3>1, <3>2 DEF Settled
  <2>6. QED
    BY <2>4, <2>5
<1>12. QED
  BY <1>6, <1>8, <1>9, <1>10, <1>11 DEF Settled, n, m

\* Every edge the search has looked at stays settled, and so is the next one.
LEMMA EdgesStep ==
    ASSUME InductiveInvariant, [Next]_vars
    PROVE  EdgesInv'
<1> USE DEF InductiveInvariant
<1>1. ASSUME NEW p \in Names, NEW c \in Names, AddEdge(p, c)
      PROVE  EdgesInv'
  <2>1. \A n \in Nodes' : visited'[n] = 0
    BY <1>1 DEF AddEdge, Nodes
  <2>2. QED
    BY <2>1 DEF EdgesInv, Nodes
<1>2. ASSUME UNCHANGED <<adjacency, searchVars>>
      PROVE  EdgesInv'
  BY <1>2 DEF searchVars, EdgesInv, Settled, Nodes
<1>3. \A p \in Nodes : \A k \in 1..visited[p] :
          adjacency[p][k] \in Nodes /\ Settled(p, adjacency[p][k])
  <2>1. ASSUME NEW p \in Nodes, NEW k \in 1..visited[p]
        PROVE  adjacency[p][k] \in Nodes
    <3>1. adjacency[p] \in Seq(Nodes) /\ visited[p] \in Nat /\ visited[p] <= Len(adjacency[p])
      BY DEF TypeOK, SearchInv
    <3>2. k \in 1..Len(adjacency[p])
      BY <3>1
    <3>3. QED
      BY <3>1, <3>2, ElementOfSeq
  <2>2. QED
    BY <2>1 DEF EdgesInv
<1>4. ASSUME NEW n \in Nodes, color[n] = "white", Enter(n, visited'),
             NEW p \in Nodes, NEW c \in Nodes, Settled(p, c)
      PROVE  Settled(p, c)'
  <2>1. /\ Len(pathStack) <= Len(pathStack') /\ Len(pathStack') \in Nat
        /\ \A i \in 1..Len(pathStack) : pathStack'[i] = pathStack[i]
    BY <1>4 DEF Enter, TypeOK
  <2>2. \A x \in Nodes : color[x] \in {"gray", "black"} => color'[x] = color[x]
    BY <1>4 DEF Enter, TypeOK
  <2>3. QED
    BY <1>4, <2>1, <2>2, SettledStays DEF Enter
<1>5. CASE EnterRoot
  <2>1. White \in SUBSET Nat /\ White # {} /\ White \subseteq Nodes
    BY <1>5, NodesAreNames DEF EnterRoot, White
  <2>2. Least(White) \in White
    BY <2>1, LeastOf
  <2>3. Least(White) \in Nodes /\ color[Least(White)] = "white"
    BY <2>2 DEF White
  <2>4. visited' = visited /\ Enter(Least(White), visited') /\ adjacency' = adjacency
    BY <1>5 DEF EnterRoot, Enter, graphVars
  <2>5. \A p, c \in Nodes : Settled(p, c) => Settled(p, c)'
    BY <1>4, <2>3, <2>4
  <2>6. QED
    BY <1>3, <2>4, <2>5, EdgesFromSettled
<1>6. CASE VisitChild
  <2> DEFINE next == visited[Top] + 1
  <2>1. PICK child \in Nodes :
           /\ child = adjacency[Top][next] /\ Edge(Top, child)
           /\ visited' = [visited EXCEPT ![Top] = @ + 1]
           /\ \/ color[child] = "white" /\ Enter(child, visited')
              \/ /\ color[child] = "gray"
                 /\ cycles' = cycles \cup {Canonicalize(CycleThrough(child))}
                 /\ UNCHANGED <<color, pathStack, finished>>
              \/ color[child] = "black" /\ UNCHANGED <<color, pathStack, finished, cycles>>
    BY <1>6, VisitChildCases
  <2>2. /\ adjacency' = adjacency /\ pathStack # <<>> /\ pathStack \in Seq(Nodes)
        /\ Len(pathStack) \in Nat \ {0} /\ Top \in Nodes /\ color[Top] = "gray"
    BY <1>6, ChildType DEF VisitChild, Searching, graphVars, TypeOK
  <2>3. visited \in [Nodes -> Nat]
    BY DEF TypeOK
  <2>4. \A p \in Nodes : \A k \in 1..visited'[p] : k \in 1..visited[p] \/ (p = Top /\ k = next)
    BY ONLY <2>1, <2>2, <2>3
  <2>5. \A p, c \in Nodes : Settled(p, c) => Settled(p, c)'
    <3>1. CASE color[child] = "white" /\ Enter(child, visited')
      BY <1>4, <3>1
    <3>2. CASE cycles \subseteq cycles' /\ UNCHANGED <<color, pathStack, finished>>
      BY <2>2, <3>2, SettledStays
    <3>3. QED
      BY <2>1, <3>1, <3>2
  <2>6. ASSUME NEW p \in Nodes, p = Top
        PROVE  Settled(p, child)'
    <3>1. Edge(p, child) /\ color[p] = "gray" /\ p = pathStack[Len(pathStack)]
      BY <2>1, <2>2, <2>6 DEF Top
    <3>2. CASE color[child] = "white" /\ Enter(child, visited')
      <4>1. color'[p] = "gray"
        BY <3>1, <3>2 DEF Enter, TypeOK
      <4>2. /\ Len(pathStack) \in 1..Len(pathStack') - 1
            /\ pathStack'[Len(pathStack)] = p /\ pathStack'[Len(pathStack) + 1] = child
        BY <2>2, <3>1, <3>2 DEF Enter
      <4>3. QED
        BY <4>1, <4>2 DEF Settled
    <3>3. CASE /\ color[child] = "gray"
               /\ cycles' = cycles \cup {Canonicalize(CycleThrough(child))}
      <4>1. OnCycle(Canonicalize(CycleThrough(child)), p, child)
        BY <2>1, <2>2, <2>6, <3>3, NewCycle
      <4>2. \E cycle \in cycles' : OnCycle(cycle, p, child)
        BY <3>3, <4>1
      <4>3. QED
        BY <4>2 DEF Settled
    <3>4. CASE color[child] = "black" /\ color' = color
      BY <3>1, <3>4 DEF Settled
    <3>5. QED
      BY <2>1, <3>2, <3>3, <3>4
  <2>7. QED
    BY <1>3, <2>1, <2>2, <2>4, <2>5, <2>6, EdgesFromSettled
<1>7. CASE Leave
  <2>1. visited' = visited /\ adjacency' = adjacency
    BY <1>7 DEF Leave, graphVars
  <2>2. \A p, c \in Nodes : Settled(p, c) => Settled(p, c)'
    BY <1>7, SettledWhenLeft
  <2>3. QED
    BY <1>3, <2>1, <2>2, EdgesFromSettled
<1>8. CASE StartDetect \/ StartOrder \/ TakeReady \/ AppendLeftover \/ UNCHANGED vars
  BY <1>2, <1>8 DEF StartDetect, StartOrder, TakeReady, AppendLeftover, vars, graphVars
<1>9. QED
  BY <1>1, <1>5, <1>6, <1>7, <1>8 DEF Next

\* A cycle is listed only when a gray child closes it.
LEMMA CyclesStep ==
    ASSUME InductiveInvariant, [Next]_vars
    PROVE  CyclesAreReal'
<1> USE DEF InductiveInvariant
<1>1. ASSUME adjacency' = adjacency, cycles' = cycles
      PROVE  CyclesAreReal'
  BY <1>1 DEF CyclesAreReal, Edge, Nodes
<1>2. ASSUME NEW p \in Names, NEW c \in Names, AddEdge(p, c)
      PROVE  CyclesAreReal'
  BY <1>2 DEF AddEdge, SearchInv, CyclesAreReal
<1>3. CASE VisitChild
  <2>1. PICK child \in Nodes :
           /\ Edge(Top, child)
           /\ \/ color[child] = "white" /\ Enter(child, visited')
              \/ /\ color[child] = "gray"
                 /\ cycles' = cycles \cup {Canonicalize(CycleThrough(child))}
              \/ color[child] = "black" /\ UNCHANGED cycles
    BY <1>3, VisitChildCases
  <2>2. adjacency' = adjacency /\ pathStack # <<>>
    BY <1>3 DEF VisitChild, Searching, graphVars
  <2>3. CASE cycles' = cycles
    BY <1>1, <2>2, <2>3
  <2>4. CASE /\ color[child] = "gray"
             /\ cycles' = cycles \cup {Canonicalize(CycleThrough(child))}
    <3> DEFINE new == Canonicalize(CycleThrough(child))
    <3>1. /\ new # <<>> /\ Distinct(new)
          /\ \A i \in 1..Len(new) : new[1] <= new[i]
          /\ \A p, c \in Nodes : OnCycle(new, p, c) => Edge(p, c)
      BY <2>1, <2>2, <2>4, NewCycle
    <3>2. \A cycle \in cycles' : cycle \in cycles \/ cycle = new
      BY <2>4
    <3> HIDE DEF new
    <3>3. \A cycle \in cycles' :
             /\ cycle # <<>> /\ Distinct(cycle)
             /\ \A i \in 1..Len(cycle) : cycle[1] <= cycle[i]
             /\ \A p, c \in Nodes : OnCycle(cycle, p, c) => Edge(p, c)
      BY <3>1, <3>2 DEF CyclesAreReal, Distinct
    <3>4. Nodes' = Nodes /\ \A p, c : Edge(p, c)' <=> Edge(p, c)
      BY <2>2 DEF Nodes, Edge
    <3>5. QED
      BY <3>3, <3>4 DEF CyclesAreReal, Distinct
  <2>5. QED
    BY <2>1, <2>3, <2>4 DEF Enter
<1>4. CASE EnterRoot \/ StartDetect \/ Leave \/ StartOrder \/ TakeReady \/ AppendLeftover
           \/ UNCHANGED vars
  BY <1>1, <1>4 DEF EnterRoot, Enter, StartDetect, Leave, StartOrder, TakeReady,
                    AppendLeftover, vars, graphVars, searchVars
<1>5. QED
  BY <1>2, <1>3, <1>4 DEF Next

\* The parents a node waits for are finitely many, and it waits for none exactly
\* if their number is zero.
LEMMA WaitsCount ==
    ASSUME TypeOK, NEW c
    PROVE  /\ IsFiniteSet(Waits(c)) /\ Cardinality(Waits(c)) \in Nat
           /\ Cardinality(Waits(c)) = 0 <=> Waits(c) = {}
<1>1. Waits(c) \in SUBSET Nodes
  BY DEF Waits, Parents
<1>2. IsFiniteSet(Waits(c))
  BY <1>1, NodesAreNames, FS_Subset
<1>3. QED
  BY <1>2, FS_CardinalityType, FS_EmptySet

\* A node that goes out takes its place behind all others, and is waited for
\* no longer.
LEMMA TakeReadyKeeps ==
    ASSUME InductiveInvariant, TakeReady
    PROVE  OrderInv'
<1> USE DEF InductiveInvariant
<1>1. PICK n \in ready : n = Least(ready)
  <2>1. ready \in SUBSET Nat /\ ready # {}
    BY NodesAreNames DEF TakeReady, TypeOK
  <2>2. QED
    BY <2>1, LeastOf
<1>2. /\ phase = "order" /\ phase' = "order" /\ adjacency' = adjacency
      /\ order' = Append(order, n)
      /\ \A c \in Nodes : remaining'[c] = IF Edge(n, c) THEN remaining[c] - 1
                                                        ELSE remaining[c]
      /\ \A c : c \in ready' <=> \/ c \in ready /\ c # n
                                 \/ c \in Nodes /\ Edge(n, c) /\ remaining'[c] = 0
  <2>1. remaining \in [Nodes -> Int]
    BY DEF TypeOK
  <2>2. /\ remaining' = [c \in Nodes |-> remaining[c] - IF Edge(n, c) THEN 1 ELSE 0]
        /\ ready' = (ready \ {n}) \cup
              {c \in Nodes : Edge(n, c) /\ remaining[c] - (IF Edge(n, c) THEN 1 ELSE 0) = 0}
        /\ phase = "order" /\ order' = Append(order, n)
        /\ UNCHANGED <<phase, adjacency>>
    BY <1>1 DEF TakeReady, graphVars
  <2>3. QED
    BY <2>1, <2>2
<1>3. /\ n \in Nodes /\ ~Listed(order, n) /\ Waits(n) = {}
      /\ order \in Seq(Nodes) /\ Len(order) \in Nat
  BY <1>1, <1>2 DEF OrderInv, TypeOK
<1>4. /\ Len(order') = Len(order) + 1
      /\ \A i \in 1..Len(order) : order'[i] = order[i] /\ i \in 1..Len(order')
      /\ order'[Len(order) + 1] = n /\ Len(order) + 1 \in 1..Len(order')
      /\ \A i \in 1..Len(order') : i = Len(order) + 1 \/ i \in 1..Len(order)
      /\ \A i, j \in 1..Len(order') : order'[i] = order'[j] => i = j
  <2>1. Distinct(order) /\ \A i \in 1..Len(order) : order[i] # n
    BY <1>3 DEF OrderInv, Distinct, Listed
  <2>2. Distinct(Append(order, n)) /\ Len(Append(order, n)) = Len(order) + 1
    BY <1>3, <2>1, Appended
  <2>3. PICK m \in Nat : m = Len(order)
    BY <1>3
  <2>4. /\ \A i \in 1..m : i \in 1..m + 1
        /\ m + 1 \in 1..m + 1 /\ \A i \in 1..m + 1 : i = m + 1 \/ i \in 1..m
    OBVIOUS
  <2>5. QED
    BY <1>2, <1>3, <2>2, <2>3, <2>4, AppendProperties DEF Distinct
<1>5. \A c : Listed(order', c) <=> Listed(order, c) \/ c = n
  BY <1>4 DEF Listed
<1>6. Nodes' = Nodes /\ \A p, c : Edge(p, c)' <=> Edge(p, c)
  BY <1>2 DEF Nodes, Edge
<1>7. \A c \in Nodes : Waits(c)' = Waits(c) \ {n}
  BY <1>5, <1>6 DEF Waits, Parents
<1>8. \A c \in Nodes : n \in Waits(c) <=> Edge(n, c)
  BY <1>3 DEF Waits, Parents
<1>9. \A c \in Nodes : remaining'[c] = Cardinality(Waits(c) \ {n})
  <2>1. ASSUME NEW c \in Nodes
        PROVE  remaining'[c] = Cardinality(Waits(c) \ {n})
    <3>1. remaining[c] = Cardinality(Waits(c)) /\ IsFiniteSet(Waits(c))
      BY <1>2, WaitsCount DEF OrderInv
    <3>2. QED
      BY <1>2, <1>8, <3>1, FS_RemoveElement
  <2>2. QED
    BY <2>1
<1>10. \A c \in Nodes : remaining'[c] = 0 <=> Waits(c) \ {n} = {}
  <2>1. \A c \in Nodes : IsFiniteSet(Waits(c) \ {n})
    BY WaitsCount, FS_RemoveElement
  <2>2. QED
    BY <1>9, <2>1, FS_EmptySet
<1>11. ASSUME NEW p \in Nodes, NEW c \in Nodes, Edge(p, c), Listed(order', c)
       PROVE  Before(p, c)'
  <2>1. CASE Listed(order, c)
    <3>1. PICK i \in 1..Len(order), j \in 1..Len(order) :
                 i < j /\ order[i] = p /\ order[j] = c
      BY <1>2, <1>11, <2>1 DEF OrderInv, Before
    <3>2. QED
      BY <1>4, <3>1 DEF Before
  <2>2. CASE c = n
    <3>1. Listed(order, p)
      BY <1>3, <1>11, <2>2 DEF Waits, Parents
    <3>2. PICK i \in 1..Len(order) : order[i] = p
      BY <3>1 DEF Listed
    <3>3. i < Len(order) + 1
      BY <1>3
    <3>4. QED
      BY <1>4, <2>2, <3>2, <3>3 DEF Before
  <2>3. QED
    BY <1>5, <1>11, <2>1, <2>2
<1>12. ASSUME NEW c \in Nodes
       PROVE  c \in ready' <=> ~Listed(order', c) /\ Waits(c) \ {n} = {}
  <2>1. c \in ready <=> ~Listed(order, c) /\ Waits(c) = {}
    BY <1>2 DEF OrderInv
  <2>2. Edge(n, c) => ~Listed(order, c) /\ c # n
    <3>1. ASSUME Edge(n, c), Listed(order, c)
          PROVE  FALSE
      <4>1. Before(n, c)
        BY <1>2, <1>3, <3>1 DEF OrderInv
      <4>2. QED
        BY <1>3, <4>1 DEF Before, Listed
    <3>2. QED
      BY <1>3, <1>8, <3>1
  <2>3. QED
    BY <1>2, <1>5, <1>8, <1>10, <2>1, <2>2
<1>13. \A p, c \in Nodes : Edge(p, c)' /\ Listed(order', c) => Before(p, c)'
  BY <1>6, <1>11
<1>14. /\ \A c \in Nodes : remaining'[c] = Cardinality(Waits(c)')
       /\ \A c \in Nodes : c \in ready' <=> ~Listed(order', c) /\ Waits(c)' = {}
  BY <1>7, <1>9, <1>12
<1>15. QED
  BY <1>2, <1>4, <1>6, <1>13, <1>14 DEF OrderInv

\* What is left when no node is ready waits for itself, so that only tables on
\* a cycle or behind one are ordered by name.
LEMMA LeftoverCompletes ==
    ASSUME InductiveInvariant, AppendLeftover
    PROVE  OrderInv' /\ OrderIsComplete'
<1> USE DEF InductiveInvariant
<1> DEFINE m == Len(order)
           t == Sorted(Leftover)
           k == Cardinality(Leftover)
<1>1. /\ phase = "order" /\ phase' = "done" /\ adjacency' = adjacency
      /\ ready = {} /\ order' = order \o t
      /\ order \in Seq(Nodes) /\ Distinct(order)
  BY DEF AppendLeftover, OrderInv, Distinct, TypeOK
<1>2. Leftover \in SUBSET Nat /\ IsFiniteSet(Leftover) /\ Leftover \subseteq Nodes
  BY NodesAreNames, FS_Subset DEF Leftover
<1>3. /\ t \in Seq(Leftover) /\ Len(t) = k /\ m \in Nat /\ k \in Nat
      /\ \A x \in Leftover : \E i \in 1..k : t[i] = x
  BY <1>1, <1>2, SortedType, SortedAll, FS_CardinalityType
<1>4. \A i \in 1..k : t[i] \in Leftover /\ ~Listed(order, t[i])
  BY <1>3 DEF Leftover
<1>5. t \in Seq(Nodes)
  BY <1>2, <1>3, SeqMonotonic
<1>6. /\ Len(order') = m + k
      /\ \A i \in 1..m + k : order'[i] = IF i <= m THEN order[i] ELSE t[i - m]
  <2>1. /\ Len(order \o t) = Len(order) + Len(t)
        /\ \A i \in 1..Len(order) + Len(t) :
              (order \o t)[i] = IF i <= Len(order) THEN order[i] ELSE t[i - Len(order)]
    BY <1>1, <1>5, ConcatProperties
  <2>2. QED
    BY <1>1, <1>3, <2>1, Zenon
<1>7. m + k = Cardinality(Nodes)
  <2> DEFINE out == {x \in Nodes : Listed(order, x)}
  <2>1. Cardinality(out) = m
    BY <1>1, NodesAreNames, DistinctCount
  <2>2. IsFiniteSet(Nodes) /\ Nodes \cap out = out /\ Nodes \ out = Leftover
    BY NodesAreNames DEF Leftover
  <2> HIDE DEF out
  <2>3. Cardinality(Nodes \ out) = Cardinality(Nodes) - Cardinality(Nodes \cap out)
    BY <2>2, FS_Difference
  <2>4. Cardinality(Nodes) \in Nat
    BY <2>2, FS_CardinalityType
  <2>5. k = Cardinality(Nodes) - m
    BY <2>1, <2>2, <2>3, Zenon
  <2> HIDE DEF m, k
  <2>6. QED
    BY ONLY <1>3, <2>4, <2>5
<1>8. \A i, j \in 1..k : t[i] = t[j] => i = j
  <2>1. ASSUME NEW i \in 1..k, NEW j \in 1..k, t[i] = t[j]
        PROVE  i - 1 = j - 1
    BY <1>2, <2>1, SortedType
  <2>2. QED
    BY <2>1
<1>9. \A i \in 1..m : order[i] \in Nodes /\ Listed(order, order[i])
  BY <1>1 DEF Listed
<1>10. \A i, j \in 1..m : order[i] = order[j] => i = j
  BY <1>1 DEF Distinct
<1> HIDE DEF m, t, k
<1>11. /\ \A i \in 1..m : i \in 1..m + k /\ order'[i] = order[i]
       /\ \A i \in 1..k : m + i \in 1..m + k /\ order'[m + i] = t[i]
       /\ \A i \in 1..m + k : i \in 1..m \/ (i - m \in 1..k /\ i = m + (i - m))
  <2>1. \A i \in 1..m : i \in 1..m + k /\ i <= m
    BY <1>3
  <2>2. \A i \in 1..k : m + i \in 1..m + k /\ ~(m + i <= m) /\ (m + i) - m = i
    BY <1>3
  <2>3. \A i \in 1..m + k : i \in 1..m \/ (i - m \in 1..k /\ i = m + (i - m))
    BY <1>3
  <2>4. QED
    BY ONLY <1>6, <2>1, <2>2, <2>3
<1>12. ASSUME NEW i \in 1..m + k, NEW j \in 1..m + k, order'[i] = order'[j]
       PROVE  i = j
  <2>1. CASE i \in 1..m /\ j \in 1..m
    BY ONLY <1>10, <1>11, <1>12, <2>1
  <2>2. CASE i - m \in 1..k /\ i = m + (i - m) /\ j - m \in 1..k /\ j = m + (j - m)
    <3>1. order'[i] = t[i - m] /\ order'[j] = t[j - m]
      BY ONLY <1>11, <2>2
    <3>2. i - m = j - m
      BY ONLY <1>8, <1>12, <2>2, <3>1
    <3>3. QED
      BY ONLY <2>2, <3>2
  <2>3. CASE i \in 1..m /\ j - m \in 1..k /\ j = m + (j - m)
    <3>1. order'[i] = order[i] /\ order'[j] = t[j - m]
      BY ONLY <1>11, <2>3
    <3>2. Listed(order, order[i]) /\ ~Listed(order, t[j - m])
      BY ONLY <1>4, <1>9, <2>3
    <3>3. QED
      BY ONLY <1>12, <3>1, <3>2
  <2>4. CASE j \in 1..m /\ i - m \in 1..k /\ i = m + (i - m)
    <3>1. order'[j] = order[j] /\ order'[i] = t[i - m]
      BY ONLY <1>11, <2>4
    <3>2. Listed(order, order[j]) /\ ~Listed(order, t[i - m])
      BY ONLY <1>4, <1>9, <2>4
    <3>3. QED
      BY ONLY <1>12, <3>1, <3>2
  <2>5. QED
    BY <1>11, <2>1, <2>2, <2>3, <2>4
<1>13. \A n \in Nodes : Listed(order', n)
  <2>1. ASSUME NEW n \in Nodes
        PROVE  Listed(order', n)
    <3>1. CASE Listed(order, n)
      BY <1>6, <1>11, <3>1 DEF Listed, m
    <3>2. CASE ~Listed(order, n)
      <4>1. PICK i \in 1..k : t[i] = n
        BY <1>3, <3>2 DEF Leftover
      <4>2. QED
        BY <1>6, <1>11, <4>1 DEF Listed
    <3>3. QED
      BY <3>1, <3>2
  <2>2. QED
    BY <2>1
<1>14. ASSUME NEW c \in Nodes, ~Listed(order, c)
       PROVE  Behind(c)
  <2>1. \A x \in Leftover : \E p \in Leftover : Edge(p, x)
    <3>1. ASSUME NEW x \in Leftover
          PROVE  \E p \in Leftover : Edge(p, x)
      <4>1. x \in Nodes /\ ~Listed(order, x) /\ x \notin ready
        BY <1>1 DEF Leftover
      <4>2. Waits(x) # {}
        BY <1>1, <4>1 DEF OrderInv
      <4>3. QED
        BY <4>2 DEF Waits, Parents, Leftover
    <3>2. QED
      BY <3>1
  <2>2. c \in Leftover
    BY <1>14 DEF Leftover
  <2>3. QED
    BY <1>2, <2>1, <2>2 DEF Behind
<1>15. ASSUME NEW p \in Nodes, NEW c \in Nodes, Edge(p, c), ~Behind(c)
       PROVE  Before(p, c)'
  <2>1. Before(p, c)
    BY <1>1, <1>14, <1>15 DEF OrderInv
  <2>2. PICK i \in 1..m, j \in 1..m : i < j /\ order[i] = p /\ order[j] = c
    BY <2>1 DEF Before, m
  <2>3. /\ i \in 1..Len(order') /\ j \in 1..Len(order')
        /\ order'[i] = p /\ order'[j] = c
    BY <1>6, <1>11, <2>2
  <2>4. QED
    BY <2>2, <2>3 DEF Before
<1>16. /\ Nodes' = Nodes /\ \A p, c : Edge(p, c)' <=> Edge(p, c)
  BY <1>1 DEF Nodes, Edge
<1>17. \A c : Behind(c)' <=> Behind(c)
  BY <1>16 DEF Behind
<1>18. OrderIsComplete'
  BY <1>6, <1>7, <1>13, <1>15, <1>16, <1>17 DEF OrderIsComplete
<1>19. OrderInv'
  BY <1>1, <1>6, <1>12 DEF OrderInv
<1>20. QED
  BY <1>18, <1>19

\* Every step keeps what is known of the order, and the last one completes it.
LEMMA OrderStep ==
    ASSUME InductiveInvariant, [Next]_vars
    PROVE  OrderInv' /\ OrderIsComplete'
<1> USE DEF InductiveInvariant
<1>1. ASSUME order' = order, phase \in {"build", "detect"},
             phase' \in {"build", "detect"}
      PROVE  OrderInv' /\ OrderIsComplete'
  BY <1>1, EmptySeq DEF OrderInv, OrderIsComplete
<1>2. CASE UNCHANGED vars
  <2>1. /\ UNCHANGED <<phase, order, remaining, ready>>
        /\ Nodes' = Nodes /\ \A p, c : Edge(p, c)' <=> Edge(p, c)
    BY <1>2 DEF vars, graphVars, orderVars, Nodes, Edge
  <2>2. /\ \A c : Waits(c)' = Waits(c)
        /\ \A p, c : Before(p, c)' <=> Before(p, c)
        /\ \A c : Behind(c)' <=> Behind(c)
        /\ \A c : Listed(order, c)' <=> Listed(order, c)
    BY <2>1 DEF Waits, Parents, Listed, Before, Behind
  <2>3. OrderInv'
    BY <2>1, <2>2 DEF OrderInv
  <2>4. OrderIsComplete'
    BY <2>1, <2>2 DEF OrderIsComplete
  <2>5. QED
    BY <2>3, <2>4
<1>3. CASE StartOrder
  <2>1. /\ phase' = "order" /\ order' = <<>> /\ adjacency' = adjacency
        /\ \A c \in Nodes : remaining'[c] = Cardinality(Parents(c))
        /\ \A c \in Nodes : c \in ready' <=> Parents(c) = {}
    BY <1>3 DEF StartOrder, OrderInv
  <2>2. \A c : ~Listed(order', c)
    BY <2>1, EmptySeq DEF Listed
  <2>3. Nodes' = Nodes /\ \A p, c : Edge(p, c)' <=> Edge(p, c)
    BY <2>1 DEF Nodes, Edge
  <2>4. \A c \in Nodes : Waits(c)' = Parents(c)
    BY <2>2, <2>3 DEF Waits, Parents
  <2>5. Len(order') = 0
    BY <2>1, EmptySeq
  <2>6. \A i, j \in 1..Len(order') : order'[i] = order'[j] => i = j
    BY <2>5
  <2>7. OrderInv'
    BY <2>1, <2>2, <2>3, <2>4, <2>6 DEF OrderInv
  <2>8. QED
    BY <2>1, <2>7 DEF OrderIsComplete
<1>4. CASE TakeReady
  BY <1>4, TakeReadyKeeps DEF TakeReady, graphVars, OrderIsComplete
<1>5. CASE AppendLeftover
  BY <1>5, LeftoverCompletes
<1>6. ASSUME NEW p \in Names, NEW c \in Names, AddEdge(p, c)
      PROVE  OrderInv' /\ OrderIsComplete'
  BY <1>1, <1>6 DEF AddEdge
<1>7. CASE StartDetect \/ EnterRoot \/ VisitChild \/ Leave
  <2>1. order' = order /\ phase \in {"build", "detect"} /\ phase' = "detect"
    BY <1>7
    DEF StartDetect, EnterRoot, VisitChild, Leave, Searching, graphVars, orderVars
  <2>2. QED
    BY <1>1, <2>1
<1>8. QED
  BY <1>2, <1>3, <1>4, <1>5, <1>6, <1>7 DEF Next

\* An empty graph, and a search that has not begun.
LEMMA InitInvariant ==
    ASSUME Init
    PROVE  InductiveInvariant
<1>1. PICK tables \in SUBSET Names : adjacency = [t \in tables |-> <<>>]
  BY DEF Init
<1>2. Nodes = tables
  BY <1>1 DEF Nodes
<1>3. <<>> \in Seq(Nodes) /\ Len(<<>>) = 0
  BY EmptySeq
<1>4. TypeOK
  BY <1>1, <1>2, <1>3 DEF Init, TypeOK
<1>5. \A n \in Nodes : Len(adjacency[n]) = 0 /\ color[n] = "white" /\ visited[n] = 0
  BY <1>1, <1>2, <1>3 DEF Init
<1>6. SearchInv
  BY <1>3, <1>5 DEF Init, SearchInv, Listed
<1>7. EdgesInv
  BY <1>5 DEF EdgesInv
<1>8. CyclesAreReal
  BY DEF Init, CyclesAreReal
<1>9. OrderInv /\ OrderIsComplete
  BY <1>3 DEF Init, OrderInv, OrderIsComplete
<1>10. QED
  BY <1>4, <1>6, <1>7, <1>8, <1>9 DEF InductiveInvariant

------------------------------------------------------------------------------
(* The theorems *)

\* The search is where its path says, and has settled every edge it looked at.
THEOREM Invariance == Spec => []InductiveInvariant
<1>1. Init => InductiveInvariant
  BY InitInvariant
<1>2. InductiveInvariant /\ [Next]_vars => InductiveInvariant'
  <2>1. ASSUME InductiveInvariant, [Next]_vars
        PROVE  /\ TypeOK' /\ SearchInv' /\ EdgesInv' /\ CyclesAreReal'
               /\ OrderInv' /\ OrderIsComplete'
    BY <2>1, TypeStep, SearchStep, EdgesStep, CyclesStep, OrderStep
  <2>2. QED
    BY <2>1 DEF InductiveInvariant
<1>3. QED
  BY <1>1, <1>2, PTL DEF Spec

\* Every variable has its type.
THEOREM TypeCorrect == Spec => []TypeOK
<1>1. InductiveInvariant => TypeOK
  BY DEF InductiveInvariant
<1>2. QED
  BY <1>1, Invariance, PTL

\* schema.json reports only circular dependencies that the tables have, each
\* passing no table twice and listed from its first name.
THEOREM CyclesExist == Spec => []CyclesAreReal
<1>1. InductiveInvariant => CyclesAreReal
  BY DEF InductiveInvariant
<1>2. QED
  BY <1>1, Invariance, PTL

\* Once every node is black, every edge has been looked at, and none is settled
\* because the search is still above it.
LEMMA SettledForGood ==
    ASSUME InductiveInvariant
    PROVE  CyclesSuffice
<1> USE DEF InductiveInvariant
<1>1. SUFFICES ASSUME phase \in {"order", "done"}, NEW p \in Nodes, NEW c \in Nodes, Edge(p, c)
               PROVE  \/ \E cycle \in cycles : OnCycle(cycle, p, c)
                      \/ \E i, j \in 1..Len(finished) :
                            i < j /\ finished[i] = c /\ finished[j] = p
  BY DEF CyclesSuffice
<1>2. color[p] = "black" /\ visited[p] = Len(adjacency[p])
  BY <1>1 DEF SearchInv
<1>3. PICK k \in 1..Len(adjacency[p]) : adjacency[p][k] = c
  BY <1>1 DEF Edge, Listed
<1>4. Settled(p, c)
  BY <1>2, <1>3 DEF EdgesInv
<1>5. QED
  BY <1>2, <1>4 DEF Settled

\* The cycles the search lists flag all circular dependencies: every edge that
\* is on none of them leads to a table the search had left before.
THEOREM CyclesAreEnough == Spec => []CyclesSuffice
<1>1. InductiveInvariant => CyclesSuffice
  BY SettledForGood
<1>2. QED
  BY <1>1, Invariance, PTL

\* DependencyGraph.cpp:85-128: the order has every table once, and a table
\* comes after all of its parents, unless it is on a cycle or behind one.
THEOREM OrderCompletes == Spec => []OrderIsComplete
<1>1. InductiveInvariant => OrderIsComplete
  BY DEF InductiveInvariant
<1>2. QED
  BY <1>1, Invariance, PTL

==============================================================================
