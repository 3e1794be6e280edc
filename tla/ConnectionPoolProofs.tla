------------------------- MODULE ConnectionPoolProofs -------------------------
(***************************************************************************)
(* Theorems about ConnectionPool, for every number of threads, connections *)
(* and units.                                                              *)
(***************************************************************************)
EXTENDS ConnectionPool, SequenceFacts, FiniteSetTheorems, TLAPS

USE DEF Places, At, Idle, poolVars

------------------------------------------------------------------------------
(* Facts about the constants *)

\* In a unit another statement follows the one that decides about its sample.
SampleFollows(s) ==
    \A i \in 1..Len(s) : s[i] = "countOrphans" => i + 1 <= Len(s)

\* How long units are.
LEMMA UnitLengths ==
    \A p \in Phases : Len(Statements[p]) \in 1..8 /\ SampleFollows(Statements[p])
<1>1. Len(Statements["list"]) \in 1..8 /\ SampleFollows(Statements["list"])
  <2>1. Statements["list"] = <<"listTableNames">>
    BY DEF Statements
  <2>2. QED
    BY <2>1 DEF SampleFollows
<1>2. Len(Statements["discovery"]) \in 1..8 /\ SampleFollows(Statements["discovery"])
  <2>1. Statements["discovery"] =
          <<"fetchColumns", "fetchDefaultValues", "fetchComments",
            "fetchColumnComments", "fetchPrimaryKey", "fetchUniqueKeys",
            "fetchIndexes", "fetchApproxRowCount">>
    BY DEF Statements
  <2>2. QED
    BY <2>1 DEF SampleFollows
<1>3. Len(Statements["keys"]) \in 1..8 /\ SampleFollows(Statements["keys"])
  <2>1. Statements["keys"] = <<"listDeclaredForeignKeys">>
    BY DEF Statements
  <2>2. QED
    BY <2>1 DEF SampleFollows
<1>4. Len(Statements["consistency"]) \in 1..8 /\ SampleFollows(Statements["consistency"])
  <2>1. Statements["consistency"] = <<"countOrphans", "sampleOrphans">>
    BY DEF Statements
  <2>2. QED
    BY <2>1 DEF SampleFollows
<1>5. QED
  BY <1>1, <1>2, <1>3, <1>4 DEF Phases

\* Wherever a unit goes on after a statement, it is at another one or past
\* the last.
LEMMA GoesOnWithin ==
    ASSUME TypeOK, place \in Phases, NEW u \in Users, Due(u)
    PROVE  /\ next[u] \in 1..8
           /\ AfterException(u) \in 1..9
           /\ Unit(u)[next[u]] = "countOrphans" => next[u] + 2 \in 1..9
<1> DEFINE n == Len(Unit(u))
<1>1. n \in 1..8
  <2>1. Len(Statements[place]) \in 1..8
    BY ONLY UnitLengths, place \in Phases, Zenon
  <2>2. QED
    BY ONLY <2>1, Zenon DEF Unit
<1>2. \A i \in 1..n : Unit(u)[i] = "countOrphans" => i + 1 <= n
  <2>1. SampleFollows(Statements[place])
    BY ONLY UnitLengths, place \in Phases, Zenon
  <2>2. QED
    BY ONLY <2>1, Zenon DEF SampleFollows, Unit
<1>3. next[u] <= n
  BY Zenon DEF Due
<1>4. AfterException(u)
        = IF Unit(u)[next[u]] = "fetchDefaultValues" THEN next[u] + 1 ELSE n + 1
  BY ONLY Zenon DEF AfterException
<1>5. next[u] \in 1..9
  BY Zenon DEF TypeOK
<1> HIDE DEF n
<1>6. next[u] \in 1..n
  BY ONLY <1>1, <1>3, <1>5
<1>7. AfterException(u) \in 1..9
  BY ONLY <1>1, <1>4, <1>6
<1>8. Unit(u)[next[u]] = "countOrphans" => next[u] + 2 \in 1..9
  BY ONLY <1>1, <1>2, <1>6
<1>9. QED
  BY ONLY <1>1, <1>6, <1>7, <1>8

\* There are finitely many threads, and so are those of any kind.
LEMMA FiniteUsers ==
    /\ IsFiniteSet(Users) /\ Main \in Users
    /\ \A S \in SUBSET Users : IsFiniteSet(S) /\ Cardinality(S) \in Nat
<1>1. IsFiniteSet(Users) /\ Main \in Users
  BY ConnectionPoolAssumption, FS_AddElement DEF Users
<1>2. QED
  BY <1>1, FS_Subset, FS_CardinalityType

\* A scan has at least one connection, and the main thread is no worker.
LEMMA PoolType ==
    ASSUME TypeOK
    PROVE  size \in Nat \ {0} /\ threads \subseteq Users /\ Main \notin threads
<1>1. [threads |-> threads, size |-> size] \in [threads : SUBSET Workers, size : Nat \ {0}]
  BY ConnectionPoolAssumption DEF TypeOK
<1>2. QED
  BY <1>1, ConnectionPoolAssumption DEF Users

\* The connection of a thread with a lease is one of the pool's.
LEMMA ALeaseIsAConnection ==
    ASSUME TypeOK, LeaseInv, NEW u \in Users, pc[u] \in {"leased", "querying"}
    PROVE  lease[u] \in 1..opened /\ lease[u] \in 1..size
<1>1. lease[u] # 0 /\ lease[u] \in 0..opened
  BY DEF TypeOK, LeaseInv
<1>2. opened \in 0..size /\ size \in Nat
  BY PoolType DEF TypeOK
<1>3. QED
  BY <1>1, <1>2

\* A thread that is not idle is in a phase, and every connection is open.
LEMMA BusyInAPhase ==
    ASSUME PlaceInv, NEW u \in Users, pc[u] # "idle"
    PROVE  place \in Phases /\ Turn(u) /\ opened = size
BY DEF PlaceInv, Turn, Phases

\* What the end of a phase changes.
LEMMA EndPhaseChanges ==
    ASSUME EndPhase
    PROVE  /\ place \in Phases /\ AllIdle
           /\ place' \in {"discovery", "keys", "consistency", "close"}
           /\ todo' \in 0..MaxUnits
           /\ UNCHANGED <<threads, size, opened, sessions, broken, available,
                          pc, lease, next, statements, thrown>>
<1>1. ASSUME NEW there \in {"discovery", "keys", "consistency", "close"}, GoesOn(there)
      PROVE  place' = there /\ todo' \in 0..MaxUnits
  BY <1>1, ConnectionPoolAssumption DEF GoesOn
<1>2. place \in Phases => After[place] \in {"discovery", "keys", "consistency", "close"}
  BY DEF Phases, After
<1>3. QED
  BY <1>1, <1>2 DEF EndPhase, GoesOn

\* Every variable keeps its type.
LEMMA TypeStep ==
    ASSUME InductiveInvariant, [Next]_vars
    PROVE  TypeOK'
<1> USE ConnectionPoolAssumption DEF InductiveInvariant, TypeOK
<1>1. CASE OpenConnection
  <2>1. available' \in Seq(1..opened')
    BY <1>1, SeqMonotonic DEF OpenConnection
  <2>2. QED
    BY <1>1, <2>1 DEF OpenConnection, PlaceInv
<1>2. CASE OpenFails
  BY <1>2 DEF OpenFails
<1>3. CASE OpenedAll
  BY <1>3 DEF OpenedAll
<1>4. CASE EndSession
  BY <1>4 DEF EndSession
<1>5. CASE EndedAll
  BY <1>5 DEF EndedAll
<1>6. CASE EndPhase
  BY <1>6, EndPhaseChanges
<1>7. CASE Break
  BY <1>7 DEF Break
<1>8. ASSUME NEW u \in Users, Ask(u)
      PROVE  TypeOK'
  BY <1>8 DEF Ask, Goes
<1>9. ASSUME NEW u \in Users, Acquire(u)
      PROVE  TypeOK'
  BY <1>9 DEF Acquire, Goes
<1>10. ASSUME NEW u \in Users, Sleep(u)
       PROVE  TypeOK'
  BY <1>10 DEF Sleep, Goes
<1>11. ASSUME NEW u \in Users, WakeSpuriously(u)
       PROVE  TypeOK'
  BY <1>11 DEF WakeSpuriously, Goes
<1>12. ASSUME NEW u \in Users, Release(u)
       PROVE  TypeOK'
  BY <1>12, ALeaseIsAConnection DEF Release, Goes
<1>13. ASSUME NEW u \in Users, Notify(u)
       PROVE  TypeOK'
  BY <1>13 DEF Notify, Asleep
<1>14. ASSUME NEW u \in Users, OpenStatement(u)
       PROVE  TypeOK'
  BY <1>14, ALeaseIsAConnection DEF OpenStatement, Goes
<1>15. ASSUME NEW u \in Users, pc[u] = "querying"
       PROVE  /\ place \in Phases /\ Due(u)
              /\ [statements EXCEPT ![lease[u]] = @ - 1] \in [1..size -> Nat]
  <2>1. lease[u] \in 1..size /\ statements[lease[u]] = 1
    BY <1>15, ALeaseIsAConnection DEF CursorInv
  <2>2. [statements EXCEPT ![lease[u]] = @ - 1] \in [1..size -> Nat]
    BY ONLY statements \in [1..size -> Nat], <2>1
  <2>3. QED
    BY <1>15, <2>2, BusyInAPhase DEF CursorInv
<1>16. ASSUME NEW u \in Users, CloseStatement(u)
       PROVE  TypeOK'
  <2>1. place \in Phases /\ Due(u) /\ statements' \in [1..size -> Nat]
    BY <1>15, <1>16 DEF CloseStatement, Goes
  <2>2. /\ next[u] \in 1..8
        /\ Unit(u)[next[u]] = "countOrphans" => next[u] + 2 \in 1..9
    BY <2>1, GoesOnWithin
  <2>3. next[u] + 1 \in 1..9
    BY ONLY <2>2
  <2>4. next' \in [Users -> 1..9]
    BY <1>16, <2>2, <2>3 DEF CloseStatement
  <2>5. QED
    BY <1>16, <2>1, <2>4 DEF CloseStatement, Goes
<1>17. ASSUME NEW u \in Users, StatementRefused(u)
       PROVE  TypeOK'
  BY <1>17, BusyInAPhase, GoesOnWithin DEF StatementRefused, Throws
<1>18. ASSUME NEW u \in Users, StatementThrows(u)
       PROVE  TypeOK'
  <2>1. place \in Phases /\ Due(u) /\ statements' \in [1..size -> Nat]
    BY <1>15, <1>18 DEF StatementThrows, Goes
  <2>2. QED
    BY <1>18, <2>1, GoesOnWithin DEF StatementThrows, Goes, Throws
<1>19. CASE UNCHANGED vars
  BY <1>19 DEF vars
<1>20. QED
  BY <1>1, <1>2, <1>3, <1>4, <1>5, <1>6, <1>7, <1>8, <1>9, <1>10, <1>11,
     <1>12, <1>13, <1>14, <1>16, <1>17, <1>18, <1>19
  DEF Next, MainStep, UserStep

\* No thread is at work outside of its turn, and the sessions are those of
\* the part of the scan.
LEMMA PlaceStep ==
    ASSUME InductiveInvariant, [Next]_vars
    PROVE  PlaceInv'
<1> USE DEF InductiveInvariant, TypeOK, PlaceInv, Turn, Phases
<1>1. CASE OpenConnection
  <2>1. sessions' = 1..opened'
    BY <1>1 DEF OpenConnection
  <2>2. QED
    BY <1>1, <2>1 DEF OpenConnection
<1>2. CASE OpenFails
  BY <1>2 DEF OpenFails
<1>3. CASE OpenedAll
  BY <1>3 DEF OpenedAll
<1>4. CASE EndSession
  BY <1>4 DEF EndSession
<1>5. CASE EndedAll
  BY <1>5 DEF EndedAll
<1>6. CASE EndPhase
  BY <1>6, EndPhaseChanges DEF AllIdle
<1>7. CASE Break
  BY <1>7 DEF Break
<1>8. ASSUME NEW u \in Users, UserStep(u) \/ WakeSpuriously(u)
      PROVE  /\ UNCHANGED <<threads, opened, size, sessions, place>>
             /\ \A v \in Users : pc'[v] # "idle" => pc[v] # "idle" \/ Turn(v)
  BY <1>8 DEF UserStep, Ask, Acquire, Sleep, WakeSpuriously, Release, Notify, Asleep,
     OpenStatement, CloseStatement, StatementRefused, StatementThrows, Goes, Throws
<1>9. ASSUME NEW u \in Users, UserStep(u) \/ WakeSpuriously(u)
      PROVE  PlaceInv'
  BY <1>8, <1>9
<1>10. CASE UNCHANGED vars
  BY <1>10 DEF vars
<1>11. QED
  BY <1>1, <1>2, <1>3, <1>4, <1>5, <1>6, <1>7, <1>9, <1>10 DEF Next, MainStep

\* No step loses a connection or hands one to two threads.
LEMMA LeaseStep ==
    ASSUME InductiveInvariant, [Next]_vars
    PROVE  LeaseInv'
<1> USE DEF InductiveInvariant, TypeOK, LeaseInv
<1> DEFINE HasLease(u) == pc[u] \in {"leased", "querying"}
<1>1. ASSUME UNCHANGED <<lease, available, opened>>,
             \A u \in Users : HasLease(u)' <=> HasLease(u)
      PROVE  LeaseInv'
  <2>1. Leased' = Leased
    BY <1>1 DEF Leased
  <2>2. QED
    BY <1>1, <2>1
<1>2. CASE OpenConnection
  <2>1. Leased' = Leased /\ UNCHANGED <<lease, pc>> /\ opened' = opened + 1
    BY <1>2 DEF OpenConnection, Leased
  <2>2. available' = Append(available, opened') /\ opened \in Nat
    BY <1>2, PoolType DEF OpenConnection
  <2>3. available \in Seq(1..opened') /\ opened' \in 1..opened'
    BY <2>1, <2>2, SeqMonotonic
  <2>4. /\ \A i \in 1..Len(available) : available[i] # opened'
        /\ \A u \in Leased : lease[u] # opened'
    BY <2>1, <2>2 DEF Leased
  <2>5. Distinct(available')
    BY <2>2, <2>3, <2>4, Appended DEF Distinct
  <2>6. Len(available) \in Nat /\ Cardinality(Leased) \in Nat
    BY <2>3, FiniteUsers DEF Leased
  <2>7. Len(available') + Cardinality(Leased') = opened'
    BY <2>1, <2>2, <2>3, <2>6, Appended
  <2>8. \A u \in Leased', i \in 1..Len(available') : available'[i] # lease'[u]
    BY <2>1, <2>2, <2>3, <2>4, Appended
  <2>9. QED
    BY <2>1, <2>5, <2>7, <2>8 DEF Distinct
<1>3. ASSUME NEW u \in Users, Acquire(u)
      PROVE  LeaseInv'
  <2> DEFINE c == Head(available)
  <2>1. /\ available # <<>> /\ available' = Tail(available)
        /\ pc[u] = "asking" /\ pc' = [pc EXCEPT ![u] = "leased"]
        /\ lease' = [lease EXCEPT ![u] = c] /\ opened' = opened
    BY <1>3 DEF Acquire, Goes
  <2>2. /\ Len(available) \in Nat \ {0} /\ Len(available') = Len(available) - 1
        /\ c = available[1] /\ c \in 1..opened
        /\ \A i \in 1..Len(available') :
              /\ available'[i] = available[i + 1] /\ i + 1 \in 1..Len(available)
              /\ available'[i] # c
        /\ Distinct(available')
    BY <2>1, Taken DEF Distinct
  <2>3. c # 0
    BY <2>2
  <2>4. Leased' = Leased \cup {u} /\ u \notin Leased
    BY <2>1, <2>3 DEF Leased
  <2>5. Leased \in SUBSET Users
    BY DEF Leased
  <2>6. Cardinality(Leased') = Cardinality(Leased) + 1 /\ Cardinality(Leased) \in Nat
    BY <2>4, <2>5, FiniteUsers, FS_AddElement
  <2>7. Len(available') + Cardinality(Leased') = opened'
    BY ONLY Len(available) + Cardinality(Leased) = opened, <2>1, <2>2, <2>6
  <2>8. /\ \A v \in Leased : lease'[v] = lease[v] /\ lease[v] # c
        /\ lease'[u] = c
    BY <2>1, <2>2, <2>4, <2>5
  <2>9. \A v, w \in Leased' : lease'[v] = lease'[w] => v = w
    BY <2>4, <2>8
  <2>10. \A v \in Leased', i \in 1..Len(available') : available'[i] # lease'[v]
    BY <2>2, <2>4, <2>8
  <2>11. \A v \in Users : lease'[v] # 0 <=> pc'[v] \in {"leased", "querying"}
    BY <2>1, <2>3
  <2>12. QED
    BY <2>2, <2>7, <2>9, <2>10, <2>11 DEF Distinct
<1>4. ASSUME NEW u \in Users, Release(u)
      PROVE  LeaseInv'
  <2> DEFINE c == lease[u]
  <2>1. /\ available' = Append(available, c) /\ opened' = opened
        /\ pc[u] = "leased" /\ pc' = [pc EXCEPT ![u] = "notifying"]
        /\ lease' = [lease EXCEPT ![u] = 0]
    BY <1>4 DEF Release, Goes
  <2>2. c \in 1..opened /\ u \in Leased
    BY <2>1, ALeaseIsAConnection DEF Leased
  <2>3. /\ Len(available) \in Nat /\ Len(available') = Len(available) + 1
        /\ \A i \in 1..Len(available') : \/ available'[i] = c
                                         \/ i \in 1..Len(available) /\ available'[i] = available[i]
        /\ Distinct(available')
    BY <2>1, <2>2, Appended DEF Distinct
  <2>4. Leased' = Leased \ {u} /\ Leased \in SUBSET Users
    BY <2>1 DEF Leased
  <2>5. Cardinality(Leased') = Cardinality(Leased) - 1 /\ Cardinality(Leased) \in Nat
    BY <2>2, <2>4, FiniteUsers, FS_RemoveElement
  <2>6. Len(available') + Cardinality(Leased') = opened'
    BY ONLY Len(available) + Cardinality(Leased) = opened, <2>1, <2>3, <2>5
  <2>7. \A v \in Leased' : v \in Leased /\ v # u /\ lease'[v] = lease[v] /\ lease[v] # c
    BY <2>1, <2>2, <2>4
  <2>8. \A v \in Leased', i \in 1..Len(available') : available'[i] # lease'[v]
    BY <2>3, <2>7
  <2>9. \A v \in Users : lease'[v] # 0 <=> pc'[v] \in {"leased", "querying"}
    BY <2>1
  <2>10. QED
    BY <2>3, <2>6, <2>7, <2>8, <2>9 DEF Distinct
<1>5. ASSUME NEW u \in Users,
             \/ Ask(u) \/ Sleep(u) \/ Notify(u) \/ OpenStatement(u) \/ CloseStatement(u)
             \/ StatementRefused(u) \/ StatementThrows(u) \/ WakeSpuriously(u)
      PROVE  LeaseInv'
  BY <1>1, <1>5 DEF Ask, Sleep, Notify, OpenStatement, CloseStatement,
     StatementRefused, StatementThrows, WakeSpuriously, Goes, Throws, Asleep
<1>6. CASE OpenFails \/ OpenedAll \/ EndSession \/ EndedAll \/ Break \/ UNCHANGED vars
  BY <1>1, <1>6 DEF OpenFails, OpenedAll, EndSession, EndedAll, Break, vars
<1>7. CASE EndPhase
  BY <1>1, <1>7, EndPhaseChanges
<1>8. QED
  BY <1>2, <1>3, <1>4, <1>5, <1>6, <1>7 DEF Next, MainStep, UserStep

\* No step leaves a statement open, or closes one that is not.
LEMMA CursorStep ==
    ASSUME InductiveInvariant, [Next]_vars
    PROVE  CursorInv'
<1> USE DEF InductiveInvariant, TypeOK
<1> DEFINE Cursors(c) == IF \E u \in Users : lease[u] = c /\ pc[u] = "querying" THEN 1 ELSE 0
<1>1. ASSUME UNCHANGED <<statements, size>>,
             \A u \in Users : /\ pc'[u] = "querying" <=> pc[u] = "querying"
                              /\ pc[u] = "querying" =>
                                    UNCHANGED <<lease[u], next[u], place>>
      PROVE  CursorInv'
  <2>1. \A c : Cursors(c)' = Cursors(c)
    BY <1>1
  <2>2. \A u \in Users : pc'[u] = "querying" => Due(u)'
    BY <1>1 DEF CursorInv, Due, Unit
  <2>3. \A c \in 1..size : statements[c] = Cursors(c)
    BY DEF CursorInv
  <2>4. statements' = statements /\ size' = size
    BY <1>1
  <2>5. \A c \in 1..size' : statements'[c] = Cursors(c)'
    BY ONLY <2>1, <2>3, <2>4, Zenon
  <2>6. QED
    BY ONLY <2>2, <2>5, Zenon DEF CursorInv
<1>2. ASSUME UNCHANGED <<statements, size, pc, lease, next>>,
             place' = place \/ \A u \in Users : pc[u] # "querying"
      PROVE  CursorInv'
  BY <1>1, <1>2
<1>3. CASE OpenConnection \/ OpenFails \/ OpenedAll \/ EndSession \/ EndedAll
  <2>1. \A u \in Users : pc[u] # "querying"
    BY <1>3, BusyInAPhase
    DEF OpenConnection, OpenFails, OpenedAll, EndSession, EndedAll, Phases
  <2>2. QED
    BY <1>2, <1>3, <2>1
    DEF OpenConnection, OpenFails, OpenedAll, EndSession, EndedAll
<1>4. CASE EndPhase
  BY <1>2, <1>4, EndPhaseChanges DEF AllIdle
<1>5. CASE Break \/ UNCHANGED vars
  BY <1>2, <1>5 DEF Break, vars
<1>6. ASSUME NEW u \in Users,
             \/ Ask(u) \/ Acquire(u) \/ Sleep(u) \/ Release(u)
             \/ StatementRefused(u) \/ WakeSpuriously(u)
      PROVE  CursorInv'
  BY <1>1, <1>6 DEF Ask, Acquire, Sleep, Release, StatementRefused, WakeSpuriously,
     Goes, Throws
<1>7. ASSUME NEW u \in Users, Notify(u)
      PROVE  CursorInv'
  BY <1>1, <1>7 DEF Notify, Asleep
<1>8. ASSUME NEW u \in Users, pc[u] \in {"leased", "querying"}
      PROVE  /\ lease[u] \in 1..size
             /\ \A v \in Users : lease[v] = lease[u] => v = u
             /\ statements[lease[u]] = IF pc[u] = "querying" THEN 1 ELSE 0
  <2>1. lease[u] \in 1..size /\ lease[u] # 0
    BY <1>8, ALeaseIsAConnection
  <2>2. \A v \in Users : lease[v] = lease[u] => v = u
    BY <2>1 DEF LeaseInv, Leased
  <2>3. Cursors(lease[u]) = IF pc[u] = "querying" THEN 1 ELSE 0
    BY <2>2
  <2>4. QED
    BY <2>1, <2>2, <2>3 DEF CursorInv
<1>9. ASSUME NEW u \in Users, NEW here \in {"leased", "querying"},
             NEW there \in {"leased", "querying"}, Goes(u, here, there),
             statements' = [statements EXCEPT ![lease[u]] =
                                IF there = "querying" THEN 1 ELSE 0],
             UNCHANGED <<size, lease, place>>,
             \A v \in Users : v # u => next'[v] = next[v],
             there = "querying" => Due(u) /\ next' = next
      PROVE  CursorInv'
  <2>1. /\ lease[u] \in 1..size
        /\ \A v \in Users : lease[v] = lease[u] => v = u
    BY <1>8, <1>9 DEF Goes
  <2>2. /\ pc'[u] = there
        /\ \A v \in Users : v # u => pc'[v] = pc[v]
    BY <1>9 DEF Goes
  <2>3. Cursors(lease[u])' = IF there = "querying" THEN 1 ELSE 0
    BY <1>9, <2>1, <2>2
  <2>4. \A c \in 1..size : c # lease[u] => Cursors(c)' = Cursors(c)
    BY <1>9, <2>2
  <2>5. \A v \in Users : pc'[v] = "querying" => Due(v)'
    BY <1>9, <2>2 DEF CursorInv, Due, Unit
  <2>6. \A c \in 1..size : statements'[c] = Cursors(c)'
    BY <1>9, <2>1, <2>3, <2>4 DEF CursorInv
  <2>7. QED
    BY <1>9, <2>5, <2>6 DEF CursorInv
<1>10. ASSUME NEW u \in Users, OpenStatement(u)
       PROVE  CursorInv'
  <2>1. pc[u] = "leased"
    BY <1>10 DEF OpenStatement, Goes
  <2>2. statements[lease[u]] = 0
    BY <1>8, <2>1
  <2>3. statements' = [statements EXCEPT ![lease[u]] = 1]
    BY <1>10, <2>2 DEF OpenStatement
  <2>4. QED
    BY <1>9, <1>10, <2>3 DEF OpenStatement
<1>11. ASSUME NEW u \in Users, CloseStatement(u) \/ StatementThrows(u)
       PROVE  CursorInv'
  <2>1. statements[lease[u]] - 1 = 0
    BY <1>8, <1>11 DEF CloseStatement, StatementThrows, Goes
  <2>2. QED
    BY <1>9, <1>11, <2>1 DEF CloseStatement, StatementThrows, Throws
<1>12. QED
  BY <1>3, <1>4, <1>5, <1>6, <1>7, <1>10, <1>11 DEF Next, MainStep, UserStep

\* The threads that will take a free connection or wake a sleeper.
Movers == {u \in Users : pc[u] \in {"asking", "notifying"}}

\* As long as somebody sleeps, no step leaves a free connection without one.
LEMMA WakeStep ==
    ASSUME InductiveInvariant, [Next]_vars
    PROVE  WakeInv'
<1> USE DEF InductiveInvariant, TypeOK
<1>1. /\ Movers \in SUBSET Users /\ Movers' \in SUBSET Users
      /\ Cardinality(Movers) \in Nat /\ Cardinality(Movers') \in Nat
      /\ IsFiniteSet(Movers) /\ IsFiniteSet(Movers')
  <2>1. Movers \in SUBSET Users /\ Movers' \in SUBSET Users
    BY DEF Movers, Users
  <2>2. QED
    BY <2>1, FiniteUsers
<1>2. /\ Len(available) \in Nat
      /\ Asleep # {} => Len(available) <= Cardinality(Movers)
  BY DEF WakeInv, Movers
<1>3. WakeInv' <=> (Asleep' # {} => Len(available') <= Cardinality(Movers'))
  BY DEF WakeInv, Movers
<1>4. ASSUME Asleep' \subseteq Asleep, available' = available, Movers \subseteq Movers'
      PROVE  WakeInv'
  <2>1. Cardinality(Movers) <= Cardinality(Movers')
    BY <1>1, <1>4, FS_Subset
  <2>2. QED
    BY <1>1, <1>2, <1>3, <1>4, <2>1
<1>5. CASE OpenConnection
  BY <1>3, <1>5, BusyInAPhase DEF OpenConnection, Asleep, Phases
<1>6. CASE OpenFails \/ OpenedAll \/ EndSession \/ EndedAll \/ Break \/ UNCHANGED vars
  BY <1>4, <1>6 DEF OpenFails, OpenedAll, EndSession, EndedAll, Break, vars, Asleep, Movers
<1>7. CASE EndPhase
  BY <1>4, <1>7, EndPhaseChanges DEF Asleep, Movers
<1>8. ASSUME NEW u \in Users,
             \/ Ask(u) \/ WakeSpuriously(u) \/ OpenStatement(u) \/ CloseStatement(u)
             \/ StatementRefused(u) \/ StatementThrows(u)
      PROVE  WakeInv'
  BY <1>4, <1>8 DEF Ask, WakeSpuriously, OpenStatement, CloseStatement,
     StatementRefused, StatementThrows, Goes, Throws, Asleep, Movers
<1>9. ASSUME NEW u \in Users, Acquire(u)
      PROVE  WakeInv'
  <2>1. Movers' = Movers \ {u} /\ u \in Movers /\ Asleep' = Asleep
    BY <1>9 DEF Acquire, Goes, Movers, Asleep
  <2>2. Cardinality(Movers') = Cardinality(Movers) - 1
    BY <1>1, <2>1, FS_RemoveElement
  <2>3. Len(available') = Len(available) - 1
    BY <1>9 DEF Acquire
  <2>4. QED
    BY <1>1, <1>2, <1>3, <2>1, <2>2, <2>3
<1>10. ASSUME NEW u \in Users, Sleep(u)
       PROVE  WakeInv'
  <2>1. Len(available') = 0
    BY <1>10 DEF Sleep
  <2>2. QED
    BY <1>1, <1>3, <2>1
<1>11. ASSUME NEW u \in Users, Release(u)
       PROVE  WakeInv'
  <2>1. Movers' = Movers \cup {u} /\ u \notin Movers /\ Asleep' = Asleep
    BY <1>11 DEF Release, Goes, Movers, Asleep
  <2>2. Cardinality(Movers') = Cardinality(Movers) + 1
    BY <1>1, <2>1, FS_AddElement
  <2>3. lease[u] \in 1..opened
    BY <1>11, ALeaseIsAConnection DEF Release, Goes
  <2>4. Len(available') = Len(available) + 1
    BY <1>11, <2>3, Appended DEF Release
  <2>5. QED
    BY <1>1, <1>2, <1>3, <2>1, <2>2, <2>4
<1>12. ASSUME NEW u \in Users, Notify(u)
       PROVE  WakeInv'
  <2>1. available' = available /\ u \in Movers
    BY <1>12 DEF Notify, Movers
  <2>2. CASE Asleep = {} /\ pc' = [pc EXCEPT ![u] = "idle"]
    BY <1>3, <2>2 DEF Asleep
  <2>3. ASSUME NEW s \in Asleep, pc' = [pc EXCEPT ![u] = "idle", ![s] = "asking"]
        PROVE  WakeInv'
    <3>1. s \notin Movers /\ s \in Users
      BY <2>3 DEF Asleep, Movers
    <3>2. Movers' = (Movers \ {u}) \cup {s} /\ s \notin Movers \ {u}
      BY <1>12, <2>3, <3>1 DEF Notify, Asleep, Movers
    <3>3. /\ Cardinality(Movers \ {u}) = Cardinality(Movers) - 1
          /\ IsFiniteSet(Movers \ {u})
      BY <1>1, <2>1, FS_RemoveElement
    <3>4. Cardinality(Movers') = Cardinality(Movers \ {u}) + 1
      BY <3>2, <3>3, FS_AddElement
    <3>5. Cardinality(Movers') = Cardinality(Movers)
      BY <1>1, <3>3, <3>4
    <3>6. QED
      BY <1>2, <1>3, <2>1, <2>3, <3>5
  <2>4. QED
    BY <1>12, <2>2, <2>3 DEF Notify
<1>13. QED
  BY <1>5, <1>6, <1>7, <1>8, <1>9, <1>10, <1>11, <1>12 DEF Next, MainStep, UserStep

\* A thread that finds no connection: all are leased, by threads whose turn it
\* is, too.  So they are workers, more than there would be connections for.
LEMMA NobodyWaitsStep ==
    ASSUME InductiveInvariant, [Next]_vars
    PROVE  NobodyWaits'
<1> USE DEF InductiveInvariant, TypeOK
<1>1. ASSUME Asleep' \subseteq Asleep, UNCHANGED <<size, threads>>
      PROVE  NobodyWaits'
  BY <1>1 DEF NobodyWaits
<1>2. ASSUME NEW u \in Users, Sleep(u)
      PROVE  NobodyWaits'
  <2>1. /\ available = <<>> /\ pc[u] = "asking" /\ UNCHANGED <<size, threads>>
        /\ Asleep' = Asleep \cup {u}
    BY <1>2 DEF Sleep, Goes, Asleep
  <2>2. opened = size /\ size \in Nat \ {0} /\ Leased \in SUBSET Users
    BY <2>1, BusyInAPhase, PoolType DEF Leased
  <2>3. Cardinality(Leased) = size
    <3>1. Len(available) = 0
      BY <2>1
    <3>2. QED
      BY <2>2, <3>1, FiniteUsers DEF LeaseInv
  <2>4. /\ u \notin Leased /\ Turn(u)
        /\ \A v \in Leased : Turn(v)
    BY <2>1 DEF LeaseInv, Leased, PlaceInv
  <2>5. u # Main
    <3>1. SUFFICES ASSUME u = Main PROVE FALSE
      OBVIOUS
    <3>2. Leased = {}
      BY <2>4, <3>1, PoolType DEF Turn
    <3>3. QED
      BY <2>2, <2>3, <3>2, FS_EmptySet
  <2>6. u \in threads /\ Leased \subseteq threads \ {u}
    BY <2>4, <2>5 DEF Turn
  <2>7. /\ IsFiniteSet(threads) /\ Cardinality(threads) \in Nat
        /\ Cardinality(threads \ {u}) = Cardinality(threads) - 1
        /\ IsFiniteSet(threads \ {u})
    BY <2>6, PoolType, FiniteUsers, FS_RemoveElement
  <2>8. Cardinality(Leased) <= Cardinality(threads \ {u})
    BY <2>6, <2>7, FS_Subset
  <2>9. ~(size >= Cardinality(threads))
    BY <2>2, <2>3, <2>7, <2>8
  <2>10. QED
    BY <2>1, <2>5, <2>9 DEF NobodyWaits
<1>3. ASSUME NEW u \in Users,
             \/ Ask(u) \/ Acquire(u) \/ Release(u) \/ Notify(u) \/ WakeSpuriously(u)
             \/ OpenStatement(u) \/ CloseStatement(u)
             \/ StatementRefused(u) \/ StatementThrows(u)
      PROVE  NobodyWaits'
  BY <1>1, <1>3 DEF Ask, Acquire, Release, Notify, WakeSpuriously, OpenStatement,
     CloseStatement, StatementRefused, StatementThrows, Goes, Throws, Asleep
<1>4. CASE MainStep \/ Break \/ UNCHANGED vars
  BY <1>1, <1>4, EndPhaseChanges DEF MainStep, OpenConnection, OpenFails, OpenedAll,
     EndSession, EndedAll, Break, vars, Asleep
<1>5. QED
  BY <1>2, <1>3, <1>4 DEF Next, UserStep

\* Before the first connection is opened nobody has anything.
LEMMA InitInvariant ==
    ASSUME Init
    PROVE  InductiveInvariant
<1>1. TypeOK
  <2>1. [threads |-> threads, size |-> size] \in Pools /\ size \in Nat
    BY ConnectionPoolAssumption DEF Init
  <2>2. available \in Seq(1..opened) /\ sessions \subseteq 1..opened /\ opened \in 0..size
    BY <2>1 DEF Init
  <2>3. /\ pc \in [Users -> {"idle", "asking", "asleep", "leased", "querying", "notifying"}]
        /\ lease \in [Users -> 0..opened] /\ next \in [Users -> 1..9]
        /\ statements \in [1..size -> Nat]
    BY <2>1 DEF Init
  <2>4. todo \in 0..MaxUnits
    BY ConnectionPoolAssumption DEF Init
  <2>5. QED
    BY <2>1, <2>2, <2>3, <2>4 DEF Init, TypeOK
<1>2. Leased = {} /\ Asleep = {} /\ Len(available) = 0 /\ opened = 0
  BY DEF Init, Leased, Asleep
<1>3. PlaceInv
  BY DEF Init, PlaceInv, Phases
<1>4. LeaseInv
  <2>1. Len(available) + Cardinality(Leased) = opened
    BY <1>2, FS_EmptySet
  <2>2. QED
    BY <1>2, <2>1 DEF LeaseInv, Init
<1>5. CursorInv
  BY DEF Init, CursorInv
<1>6. WakeInv /\ NobodyWaits
  BY <1>2 DEF WakeInv, NobodyWaits
<1>7. QED
  BY <1>1, <1>3, <1>4, <1>5, <1>6 DEF InductiveInvariant

------------------------------------------------------------------------------
(* Theorems *)

\* The inductive invariant holds in every state.
THEOREM Invariance == Spec => []InductiveInvariant
<1>1. Init => InductiveInvariant
  BY InitInvariant
<1>2. InductiveInvariant /\ [Next]_vars => InductiveInvariant'
  BY TypeStep, PlaceStep, LeaseStep, CursorStep, WakeStep, NobodyWaitsStep
  DEF InductiveInvariant
<1>3. QED
  BY <1>1, <1>2, PTL DEF Spec

\* Every variable keeps its type, the open statements are counted in Nat.
THEOREM TypeCorrect == Spec => []TypeOK
<1>1. InductiveInvariant => TypeOK
  BY DEF InductiveInvariant
<1>2. QED
  BY <1>1, Invariance, PTL

\* acquire() never hands one connection to two threads and release() loses
\* none, whatever the statements throw.
THEOREM LeasesAreExclusive == Spec => []LeasesExclusive
<1>1. InductiveInvariant => LeasesExclusive
  BY DEF InductiveInvariant, LeasesExclusive, LeaseInv, PlaceInv
<1>2. QED
  BY <1>1, Invariance, PTL

\* The StatementGuards close what they opened: the next thread that leases a
\* connection finds no open cursor on it.
THEOREM NoCursorsLeft == Spec => []NoCursorLeft
<1>1. ASSUME InductiveInvariant, NEW c \in 1..size
      PROVE  statements[c] = Cardinality({u \in Leased : lease[u] = c /\ At(u, "querying")})
  <2> DEFINE Q == {u \in Leased : lease[u] = c /\ pc[u] = "querying"}
  <2>1. c # 0
    BY <1>1, PoolType DEF InductiveInvariant
  <2>2. CASE \E u \in Users : lease[u] = c /\ pc[u] = "querying"
    <3>1. PICK u \in Users : lease[u] = c /\ pc[u] = "querying"
      BY <2>2
    <3>2. Q = {u}
      BY <1>1, <2>1, <3>1 DEF InductiveInvariant, LeaseInv, Leased
    <3>3. Cardinality(Q) = 1
      BY <3>2, FS_Singleton
    <3>4. QED
      BY <1>1, <2>2, <3>3 DEF InductiveInvariant, CursorInv
  <2>3. CASE ~\E u \in Users : lease[u] = c /\ pc[u] = "querying"
    <3>1. Q = {}
      BY <2>3 DEF Leased
    <3>2. Cardinality(Q) = 0
      BY <3>1, FS_EmptySet
    <3>3. QED
      BY <1>1, <2>3, <3>2 DEF InductiveInvariant, CursorInv
  <2>4. QED
    BY <2>2, <2>3
<1>2. InductiveInvariant => NoCursorLeft
  BY <1>1 DEF NoCursorLeft
<1>3. QED
  BY <1>2, Invariance, PTL

\* With as many connections as workers nobody waits, and the main thread never
\* does, although it leases one, too.
THEOREM NobodyEverWaits == Spec => []NobodyWaits
<1>1. InductiveInvariant => NobodyWaits
  BY DEF InductiveInvariant
<1>2. QED
  BY <1>1, Invariance, PTL

\* release() notifies without the mutex, and yet no wakeup is lost.
THEOREM WakeupsArrive == Spec => []NoLostWakeup
<1>1. ASSUME InductiveInvariant, Asleep # {}, available # <<>>
      PROVE  \E u \in Users : pc[u] \in {"asking", "notifying"}
  <2>1. Len(available) \in Nat \ {0}
    BY <1>1, Taken DEF InductiveInvariant, TypeOK
  <2>2. Len(available) <= Cardinality(Movers)
    BY <1>1 DEF InductiveInvariant, WakeInv, Movers
  <2>3. Movers # {}
    BY <2>1, <2>2, FS_EmptySet
  <2>4. QED
    BY <2>3 DEF Movers
<1>2. InductiveInvariant => NoLostWakeup
  BY <1>1 DEF NoLostWakeup
<1>3. QED
  BY <1>2, Invariance, PTL

\* No session is terminated under a thread, and none outlives the scan.
THEOREM SessionsAreEnded == Spec => []SessionsEnded
<1>1. InductiveInvariant => SessionsEnded
  BY DEF InductiveInvariant, SessionsEnded, PlaceInv, LeaseInv, Leased, AllIdle, Turn
<1>2. QED
  BY <1>1, Invariance, PTL

==============================================================================
