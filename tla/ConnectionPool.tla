---------------------------- MODULE ConnectionPool ----------------------------
(***************************************************************************)
(* The connections of a scan (src/src/db/OracleConnectionPool.cpp), the    *)
(* main thread and the workers that lease them, and the statements a lease *)
(* runs (OracleSchemaReader.cpp, OracleConsistencyChecker.cpp), each under *)
(* a StatementGuard.                                                       *)
(*                                                                         *)
(* What a statement returns is left to SchemaScan, what becomes of a unit  *)
(* to ScanEngine: here a unit is the statements between the lease and its  *)
(* release.  A mutex is held for one step, a wait gives it up.             *)
(***************************************************************************)
EXTENDS Integers, Sequences, FiniteSets

CONSTANTS
    Workers,     \* the threads there may be for the phases
    Main,        \* the thread of runScan()
    Pools,       \* the workers and the connections a scan may have
    MaxUnits,    \* bound: tables, and relationships, to be queried
    MaxBreaks    \* bound: connections that break

ASSUME ConnectionPoolAssumption ==
    /\ IsFiniteSet(Workers) /\ Main \notin Workers
    /\ Pools \subseteq [threads : SUBSET Workers, size : Nat \ {0}]
    /\ MaxUnits \in Nat \ {0} /\ MaxBreaks \in Nat

VARIABLES
    threads,     \* the workers: as many as config.threads says
    size,        \* poolSize: the same number, in this program
    place,       \* where the scan is
    opened,      \* allConnections_ is 1..opened
    sessions,    \* the connections that have not been terminated
    broken,      \* those that answer every call with an exception
    available,   \* available_
    pc,          \* where each thread is in acquire(), a unit or release()
    lease,       \* the connection of each thread's LeasedConnection, or 0
    next,        \* the statement of its unit that is due
    statements,  \* how many statements of each connection are open
    todo,        \* units of the phase that nobody has begun
    thrown       \* a unit of the main thread has thrown

poolVars == <<threads, size, opened, sessions, broken>>
vars == <<poolVars, place, available, pc, lease, next, statements, todo, thrown>>

Users == Workers \cup {Main}

Places == {"open", "cleanup", "list", "discovery", "keys", "consistency",
           "close", "over"}

\* The statements of a unit: listTableNames(), readTable(),
\* listDeclaredForeignKeys() and checkOrphans().
Statements ==
    [list |-> <<"listTableNames">>,
     discovery |-> <<"fetchColumns", "fetchDefaultValues", "fetchComments",
                     "fetchColumnComments", "fetchPrimaryKey", "fetchUniqueKeys",
                     "fetchIndexes", "fetchApproxRowCount">>,
     keys |-> <<"listDeclaredForeignKeys">>,
     consistency |-> <<"countOrphans", "sampleOrphans">>]

Phases == {"list", "discovery", "keys", "consistency"}

At(u, where) == pc[u] = where
Asleep == {u \in Users : At(u, "asleep")}

\* The type of every variable.
TypeOK ==
    /\ [threads |-> threads, size |-> size] \in Pools
    /\ place \in Places
    /\ opened \in 0..size
    /\ broken \subseteq sessions /\ sessions \subseteq 1..opened
    /\ available \in Seq(1..opened)
    /\ pc \in [Users -> {"idle", "asking", "asleep", "leased", "querying", "notifying"}]
    /\ lease \in [Users -> 0..opened]
    /\ next \in [Users -> 1..9]
    /\ statements \in [1..size -> Nat]
    /\ todo \in 0..MaxUnits
    /\ thrown \in BOOLEAN

Init ==
    /\ \E p \in Pools : threads = p.threads /\ size = p.size
    /\ place = "open"
    /\ opened = 0 /\ sessions = {} /\ broken = {}
    /\ available = <<>>
    /\ pc = [u \in Users |-> "idle"]
    /\ lease = [u \in Users |-> 0]
    /\ next = [u \in Users |-> 1]
    /\ statements = [c \in 1..size |-> 0]
    /\ todo = 0
    /\ thrown = FALSE

------------------------------------------------------------------------------
(* The constructor and the destructor *)

Idle == UNCHANGED <<pc, lease, next, statements>>

OpenConnection ==
    /\ place = "open" /\ opened < size
    /\ opened' = opened + 1
    /\ sessions' = sessions \cup {opened'}
    /\ available' = Append(available, opened')
    /\ Idle /\ UNCHANGED <<threads, size, broken, place, todo, thrown>>

\* A mistake the runs must notice: the connections are forgotten.
OpenFailsUnclean ==
    /\ place = "open" /\ opened < size
    /\ place' = "over"
    /\ Idle /\ UNCHANGED <<poolVars, available, todo, thrown>>

\* createConnection() throws; the handler terminates the others and throws.
OpenFails ==
    /\ place = "open" /\ opened < size
    /\ place' = "cleanup"
    /\ Idle /\ UNCHANGED <<poolVars, available, todo, thrown>>

OpenedAll ==
    /\ place = "open" /\ opened = size
    /\ place' = "list" /\ todo' = 1
    /\ Idle /\ UNCHANGED <<poolVars, available, thrown>>

\* Both loops over allConnections_.
EndSession ==
    /\ place \in {"cleanup", "close"} /\ sessions # {}
    /\ LET c == CHOOSE x \in sessions : \A y \in sessions : x <= y
       IN  /\ sessions' = sessions \ {c}
           /\ broken' = broken \ {c}
    /\ Idle /\ UNCHANGED <<threads, size, opened, place, available, todo, thrown>>

EndedAll ==
    /\ place \in {"cleanup", "close"} /\ sessions = {}
    /\ place' = "over"
    /\ Idle /\ UNCHANGED <<poolVars, available, todo, thrown>>

------------------------------------------------------------------------------
(* acquire() and release() *)

Goes(u, here, there) == At(u, here) /\ pc' = [pc EXCEPT ![u] = there]

\* A mistake the runs must notice: the main thread works beside the workers.
TurnOfAll(u) == u \in threads \cup {Main} /\ place \in Phases

\* The main thread's calls are outside of the phases of the workers.
Turn(u) == \/ u = Main /\ place \in {"list", "keys"}
           \/ u \in threads /\ place \in {"discovery", "consistency"}

Ask(u) ==
    /\ Turn(u) /\ todo > 0
    /\ Goes(u, "idle", "asking")
    /\ todo' = todo - 1
    /\ UNCHANGED <<poolVars, place, available, lease, next, statements, thrown>>

\* A mistake the runs must notice: the connection stays in the queue.
AcquireFront(u) ==
    /\ available # <<>>
    /\ Goes(u, "asking", "leased")
    /\ lease' = [lease EXCEPT ![u] = Head(available)]
    /\ next' = [next EXCEPT ![u] = 1]
    /\ UNCHANGED <<poolVars, place, available, statements, todo, thrown>>

Acquire(u) ==
    /\ available # <<>>
    /\ Goes(u, "asking", "leased")
    /\ lease' = [lease EXCEPT ![u] = Head(available)]
    /\ available' = Tail(available)
    /\ next' = [next EXCEPT ![u] = 1]
    /\ UNCHANGED <<poolVars, place, statements, todo, thrown>>

Sleep(u) ==
    /\ available = <<>>
    /\ Goes(u, "asking", "asleep")
    /\ UNCHANGED <<poolVars, place, available, lease, next, statements, todo, thrown>>

WakeSpuriously(u) ==
    /\ Goes(u, "asleep", "asking")
    /\ UNCHANGED <<poolVars, place, available, lease, next, statements, todo, thrown>>

Unit(u) == Statements[place]

\* A mistake the runs must notice: nobody is told.
ReleaseSilently(u) ==
    /\ Goes(u, "leased", "idle") /\ next[u] > Len(Unit(u))
    /\ available' = Append(available, lease[u])
    /\ lease' = [lease EXCEPT ![u] = 0]
    /\ UNCHANGED <<poolVars, place, next, statements, todo, thrown>>

\* The unit is over: the destructor of the LeasedConnection gives it back, ...
Release(u) ==
    /\ Goes(u, "leased", "notifying") /\ next[u] > Len(Unit(u))
    /\ available' = Append(available, lease[u])
    /\ lease' = [lease EXCEPT ![u] = 0]
    /\ UNCHANGED <<poolVars, place, next, statements, todo, thrown>>

\* ... and, without the mutex, wakes one who waits, if anybody does.
Notify(u) ==
    /\ At(u, "notifying")
    /\ \/ /\ Asleep = {}
          /\ pc' = [pc EXCEPT ![u] = "idle"]
       \/ \E s \in Asleep : pc' = [pc EXCEPT ![u] = "idle", ![s] = "asking"]
    /\ UNCHANGED <<poolVars, place, available, lease, next, statements, todo, thrown>>

------------------------------------------------------------------------------
(* The statements of a unit *)

Due(u) == next[u] <= Len(Unit(u))

\* The guard's constructor and executeQuery().
OpenStatement(u) ==
    /\ Goes(u, "leased", "querying") /\ Due(u)
    /\ lease[u] \notin broken
    /\ statements' = [statements EXCEPT ![lease[u]] = @ + 1]
    /\ UNCHANGED <<poolVars, place, available, lease, next, todo, thrown>>

\* The guard's destructor; the sample is not taken when there are no orphans.
CloseStatement(u) ==
    /\ Goes(u, "querying", "leased")
    /\ lease[u] \notin broken
    /\ statements' = [statements EXCEPT ![lease[u]] = @ - 1]
    /\ \/ next' = [next EXCEPT ![u] = @ + 1]
       \/ Unit(u)[next[u]] = "countOrphans" /\ next' = [next EXCEPT ![u] = @ + 2]
    /\ UNCHANGED <<poolVars, place, available, lease, todo, thrown>>

\* Where a unit goes on when a statement throws: nobody misses the default
\* values of a table, any other exception leaves the unit.
AfterException(u) ==
    IF Unit(u)[next[u]] = "fetchDefaultValues" THEN next[u] + 1 ELSE Len(Unit(u)) + 1

Throws(u) ==
    /\ next' = [next EXCEPT ![u] = AfterException(u)]
    /\ thrown' = (thrown \/ u = Main)

\* A mistake the runs must notice: a statement is closed that never was open.
StatementRefusedClosed(u) ==
    /\ At(u, "leased") /\ Due(u)
    /\ statements' = [statements EXCEPT ![lease[u]] = @ - 1]
    /\ Throws(u)
    /\ UNCHANGED <<poolVars, place, available, pc, lease, todo>>

\* createStatement() throws: there is no guard yet.
StatementRefused(u) ==
    /\ At(u, "leased") /\ Due(u)
    /\ Throws(u)
    /\ UNCHANGED <<poolVars, place, available, pc, lease, statements, todo>>

\* A mistake the runs must notice: a statement that throws stays open.
StatementLeft(u) ==
    /\ Goes(u, "querying", "leased")
    /\ Throws(u)
    /\ UNCHANGED <<poolVars, place, available, lease, statements, todo>>

\* A call on the statement or its result set throws: the guard closes them.
StatementThrows(u) ==
    /\ Goes(u, "querying", "leased")
    /\ statements' = [statements EXCEPT ![lease[u]] = @ - 1]
    /\ Throws(u)
    /\ UNCHANGED <<poolVars, place, available, lease, todo>>

\* The network goes down, or the database ends the session.  The connection
\* stays in the pool.
Break ==
    /\ Cardinality(broken) < MaxBreaks
    /\ place \in Phases
    /\ \E c \in sessions \ broken : broken' = broken \cup {c}
    /\ UNCHANGED <<threads, size, opened, sessions, place, available, pc, lease, next,
                   statements, todo, thrown>>

------------------------------------------------------------------------------
(* ScanEngine::run(), as far as the connections can tell *)

AllIdle == \A u \in Users : At(u, "idle")

After == [list |-> "discovery", discovery |-> "keys", keys |-> "consistency",
          consistency |-> "close"]

GoesOn(there) ==
    /\ place' = there
    /\ \/ there = "keys" /\ todo' = 1
       \/ there \in {"discovery", "consistency"} /\ todo' \in 0..MaxUnits
       \/ there = "close" /\ todo' = 0
    /\ Idle /\ UNCHANGED <<poolVars, available, thrown>>

\* What the next phase has left to query is known only then.  Exceptions, also
\* those the engine meets itself, and a stop lead to the end, but never past
\* the destructor of the phase's thread pool, which joins the workers.
EndPhase ==
    /\ place \in Phases /\ todo = 0 /\ AllIdle
    /\ \/ ~thrown /\ GoesOn(After[place])
       \/ GoesOn("close")

UserStep(u) ==
    \/ Ask(u) \/ Acquire(u) \/ Sleep(u) \/ Release(u) \/ Notify(u)
    \/ OpenStatement(u) \/ CloseStatement(u)
    \/ StatementRefused(u) \/ StatementThrows(u)

MainStep ==
    OpenConnection \/ OpenFails \/ OpenedAll \/ EndSession \/ EndedAll \/ EndPhase

Next ==
    \/ MainStep \/ Break
    \/ \E u \in Users : UserStep(u) \/ WakeSpuriously(u)
    \/ place = "over" /\ UNCHANGED vars

Spec == Init /\ [][Next]_vars

\* Every thread runs; what the database and the network do is left open, and
\* so are spurious wakeups.
FairSpec ==
    /\ Spec
    /\ WF_vars(MainStep)
    /\ \A u \in Users : WF_vars(UserStep(u))

------------------------------------------------------------------------------
(* Properties *)

Leased == {u \in Users : lease[u] # 0}

\* OracleConnectionPool.hpp:18-21, "each worker gets exclusive use of a
\* connection": during the phases every connection is either in the queue,
\* once, or leased, by one thread, whatever threw.
LeasesExclusive ==
    place \in Phases =>
        /\ Len(available) + Cardinality(Leased) = size
        /\ \A i, j \in 1..Len(available) : available[i] = available[j] => i = j
        /\ \A u, v \in Leased : lease[u] = lease[v] => u = v
        /\ \A u \in Leased, i \in 1..Len(available) : available[i] # lease[u]

\* Nobody sleeps beside a free connection, unless somebody is on the way to
\* take it or to wake a sleeper: release() notifies without the mutex.
NoLostWakeup ==
    Asleep # {} /\ available # <<>> =>
        \E u \in Users : pc[u] \in {"asking", "notifying"}

\* A lease hands over no open cursor: a connection of the queue has no open
\* statement, a leased one at most its thread's, also after exceptions.
NoCursorLeft ==
    \A c \in 1..size :
        statements[c] = Cardinality({u \in Leased : lease[u] = c /\ At(u, "querying")})

\* The pool has as many connections as there are workers, and the main thread
\* leases one, too, yet with as many nobody ever waits: the main thread's
\* leases end before the workers' begin.  The main thread never waits at all.
NobodyWaits ==
    /\ size >= Cardinality(threads) => Asleep = {}
    /\ Main \notin Asleep

\* However the program leaves runScan(), no session is ended under a thread
\* that uses it, and none is left on the server.
SessionsEnded ==
    /\ place \in {"close", "over"} => AllIdle /\ Leased = {}
    /\ place = "over" => sessions = {}

\* Where each thread may be, and which sessions there are, in each part.
PlaceInv ==
    /\ \A u \in Users : ~At(u, "idle") => Turn(u)
    /\ place = "open" => sessions = 1..opened
    /\ place \in Phases => opened = size
    /\ place = "over" => sessions = {}

\* A connection is in one place.
LeaseInv ==
    /\ \A u \in Users : lease[u] # 0 <=> pc[u] \in {"leased", "querying"}
    /\ Len(available) + Cardinality(Leased) = opened
    /\ \A i, j \in 1..Len(available) : available[i] = available[j] => i = j
    /\ \A u, v \in Leased : lease[u] = lease[v] => u = v
    /\ \A u \in Leased, i \in 1..Len(available) : available[i] # lease[u]

\* A statement is open while its thread is in it.
CursorInv ==
    /\ \A u \in Users : At(u, "querying") => Due(u)
    /\ \A c \in 1..size :
          statements[c] = IF \E u \in Users : lease[u] = c /\ At(u, "querying")
                          THEN 1 ELSE 0

\* While somebody sleeps, every free connection has a thread of its own that
\* will take it or wake a sleeper.
WakeInv ==
    Asleep # {} =>
        Len(available) <= Cardinality({u \in Users : pc[u] \in {"asking", "notifying"}})

\* What the properties above rest on; it holds initially and is kept by every
\* step, whatever Pools, MaxUnits and MaxBreaks are.
InductiveInvariant ==
    TypeOK /\ PlaceInv /\ LeaseInv /\ CursorInv /\ WakeInv /\ NobodyWaits

\* Whoever asks for a connection gets one, with fewer connections than threads
\* and with broken ones among them, and the scan comes to its end.
EveryRequestServed ==
    /\ \A u \in Users : At(u, "asking") ~> At(u, "leased")
    /\ <>(place = "over")

==============================================================================
