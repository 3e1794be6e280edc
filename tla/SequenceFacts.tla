---------------------------- MODULE SequenceFacts ----------------------------
(***************************************************************************)
(* Facts about sequences that the proofs about the pools of connections    *)
(* and about the graph of dependencies use.                                *)
(***************************************************************************)
EXTENDS Integers, Sequences, SequenceTheorems, TLAPS

\* No element of the sequence occurs twice in it.
Distinct(s) == \A i, j \in 1..Len(s) : s[i] = s[j] => i = j

\* What is appended is the last element, and the others stay.
LEMMA Appended ==
    ASSUME NEW S, NEW s \in Seq(S), NEW e \in S
    PROVE  /\ Len(s) \in Nat
           /\ Append(s, e) \in Seq(S) /\ Len(Append(s, e)) = Len(s) + 1
           /\ \A i \in 1..Len(Append(s, e)) :
                 Append(s, e)[i] = IF i = Len(s) + 1 THEN e ELSE s[i]
           /\ \A i \in 1..Len(Append(s, e)) : i # Len(s) + 1 => i \in 1..Len(s)
           /\ Distinct(s) /\ (\A i \in 1..Len(s) : s[i] # e) => Distinct(Append(s, e))
<1> DEFINE t == Append(s, e)
           n == Len(s)
<1>1. n \in Nat /\ Len(t) = n + 1
  OBVIOUS
<1>2. t[n + 1] = e /\ \A i \in 1..n : t[i] = s[i]
  OBVIOUS
<1>3. t \in Seq(S)
  OBVIOUS
<1>4. Distinct(s) <=> \A i, j \in 1..n : s[i] = s[j] => i = j
  BY DEF Distinct
<1>5. Distinct(t) <=> \A i, j \in 1..n + 1 : t[i] = t[j] => i = j
  BY <1>1 DEF Distinct
<1> HIDE DEF t, n
<1>6. \A i \in 1..n + 1 : i = n + 1 \/ i \in 1..n
  BY ONLY <1>1
<1>7. \A i \in 1..n + 1 : t[i] = IF i = n + 1 THEN e ELSE s[i]
  BY ONLY <1>2, <1>6
<1>8. ASSUME Distinct(s), \A i \in 1..n : s[i] # e
      PROVE  Distinct(t)
  <2>1. ASSUME NEW i \in 1..n + 1, NEW j \in 1..n + 1, t[i] = t[j]
        PROVE  i = j
    BY ONLY <1>2, <1>4, <1>6, <1>8, <2>1, Zenon
  <2>2. QED
    BY <1>5, <2>1
<1>9. QED
  BY <1>1, <1>3, <1>6, <1>7, <1>8, Zenon DEF t, n

\* A sequence loses its first element, and the others move up.
LEMMA Taken ==
    ASSUME NEW S, NEW s \in Seq(S), s # <<>>
    PROVE  /\ Len(s) \in Nat \ {0}
           /\ Tail(s) \in Seq(S) /\ Len(Tail(s)) = Len(s) - 1
           /\ Head(s) = s[1] /\ Head(s) \in S
           /\ \A i \in 1..Len(Tail(s)) : Tail(s)[i] = s[i + 1] /\ i + 1 \in 1..Len(s)
           /\ Distinct(s) => /\ Distinct(Tail(s))
                             /\ \A i \in 1..Len(Tail(s)) : Tail(s)[i] # Head(s)
<1> DEFINE t == Tail(s)
           n == Len(s)
<1>1. n \in Nat \ {0} /\ Len(t) = n - 1 /\ t \in Seq(S)
  OBVIOUS
<1>2. Head(s) = s[1] /\ Head(s) \in S /\ \A i \in 1..n - 1 : t[i] = s[i + 1]
  OBVIOUS
<1>3. Distinct(s) <=> \A i, j \in 1..n : s[i] = s[j] => i = j
  BY DEF Distinct
<1>4. Distinct(t) <=> \A i, j \in 1..n - 1 : t[i] = t[j] => i = j
  BY <1>1 DEF Distinct
<1> HIDE DEF t, n
<1>5. \A i, j \in 1..n - 1 : i + 1 \in 1..n /\ (i + 1 = j + 1 => i = j) /\ i + 1 # 1
  BY ONLY <1>1
<1>6. 1 \in 1..n
  BY ONLY <1>1
<1>7. ASSUME Distinct(s)
      PROVE  Distinct(t) /\ \A i \in 1..n - 1 : t[i] # Head(s)
  <2>1. \A i, j \in 1..n - 1 : t[i] = t[j] => i = j
    BY ONLY <1>2, <1>3, <1>5, <1>7, Zenon
  <2>2. \A i \in 1..n - 1 : t[i] # s[1]
    BY ONLY <1>2, <1>3, <1>5, <1>6, <1>7, Zenon
  <2>3. QED
    BY ONLY <1>2, <1>4, <2>1, <2>2, Zenon
<1>8. /\ \A i \in 1..Len(t) : t[i] = s[i + 1] /\ i + 1 \in 1..n
      /\ Distinct(s) => \A i \in 1..Len(t) : t[i] # Head(s)
  BY ONLY <1>1, <1>2, <1>5, <1>7, Zenon
<1>9. QED
  BY <1>1, <1>2, <1>7, <1>8, Zenon DEF t, n

\* A sequence without its last element.
LEMMA Shortened ==
    ASSUME NEW S, NEW s \in Seq(S), s # <<>>
    PROVE  LET t == SubSeq(s, 1, Len(s) - 1) IN
           /\ t \in Seq(S) /\ Len(t) = Len(s) - 1
           /\ \A i \in 1..Len(t) : t[i] = s[i] /\ i \in 1..Len(s)
<1> DEFINE n == Len(s)
           t == SubSeq(s, 1, n - 1)
<1>1. n \in Nat \ {0} /\ \A i \in 1..n : s[i] \in S
  OBVIOUS
<1> HIDE DEF n
<1>2. /\ t \in Seq(S) /\ Len(t) = IF 1 <= n - 1 THEN n - 1 - 1 + 1 ELSE 0
      /\ \A i \in 1..(n - 1 - 1 + 1) : t[i] = s[1 + i - 1]
  <2>1. n - 1 \in Int /\ 1 \in Int /\ \A i \in 1..(n - 1) : s[i] \in S
    BY ONLY <1>1
  <2>2. QED
    BY ONLY <2>1, SubSeqProperties
<1> HIDE DEF t
<1>3. t \in Seq(S) /\ Len(t) = n - 1 /\ \A i \in 1..(n - 1) : t[i] = s[i] /\ i \in 1..n
  BY ONLY <1>1, <1>2
<1>4. QED
  BY <1>3, Zenon DEF t, n

\* A function on an initial part of the numbers is a sequence.
LEMMA FunctionIsSeq ==
    ASSUME NEW S, NEW n \in Nat, NEW f \in [1..n -> S]
    PROVE  f \in Seq(S) /\ Len(f) = n
<1>1. f \in Seq(S)
  BY SeqDef
<1>2. QED
  BY <1>1, LenProperties

==============================================================================
