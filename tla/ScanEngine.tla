------------------------------ MODULE ScanEngine ------------------------------
(***************************************************************************)
(* A scan of an Oracle schema, over as many launches of the program as it  *)
(* takes (src/src/engine/ScanEngine.cpp, src/src/app/main.cpp).            *)
(*                                                                         *)
(* A launch is one main thread and, in each of the two phases, a pool of   *)
(* Workers.  The main thread lists the tables, hands the ones without a    *)
(* stored result to the pool, waits for all of them, derives the           *)
(* relationships, and does the same for those.  A worker reads one table   *)
(* (or counts the orphans of one relationship) at a time and records what  *)
(* it did in the checkpoint store and in the result.  SIGINT or SIGTERM    *)
(* raises the stop flag at any moment; a crash forgets everything but the  *)
(* store; the next launch resumes from the store.                          *)
(*                                                                         *)
(* Steps are as fine as the accesses to what threads share: the store, the *)
(* task queue, the result and the stop flag.  The pool's own locking is in *)
(* ThreadPool.tla.                                                         *)
(***************************************************************************)
EXTENDS CheckpointStore, Naturals, Sequences

CONSTANTS
    Workers,           \* the pool's threads: options.threads of them
    Listings,          \* the sets of tables listTableNames() may return
    Excluded,          \* the tables some exclude pattern matches
    Declared,          \* how often listDeclaredForeignKeys() returns each id
    Candidates,        \* the ids name inference finds when both tables are in
    Infer,             \* options.inferRelationships
    LegacyDone,        \* units whose payload an older program version wrote
    OracleMayFail,     \* an Oracle call may throw
    DiskMayFail,       \* a SQLite statement or a report file may throw
    ProgressMayThrow,  \* the progress callback may throw
    MaxRuns            \* bound: launches of the program

ASSUME EngineAssumption ==
    /\ Workers # {}
    /\ \A r \in Relations : {r.child, r.parent} \subseteq Tables
    /\ Listings \subseteq SUBSET Tables
    /\ Excluded \subseteq Tables
    /\ Declared \in [Relations -> Nat]
    /\ Candidates \subseteq Relations
    /\ LegacyDone \subseteq Units
    /\ {Infer, OracleMayFail, DiskMayFail, ProgressMayThrow} \subseteq BOOLEAN
    /\ MaxRuns \in Nat

VARIABLES
    run,       \* launches so far
    main,      \* where the main thread is
    exit,      \* how the last launch ended
    owner,     \* --schema of this launch
    stop,      \* ShutdownController::stopFlag_
    plan,      \* tableNames, then also result.relationships
    todo,      \* what the submission loop of the phase has not reached yet
    queue,     \* ThreadPool::tasks_: the unit of each task
    report,    \* result.tables and result.consistencyFindings, by unit
    verdict,   \* result.status
    failed,    \* some future of the phase holds an exception
    pc,        \* where each worker is
    unit,      \* the unit of each worker's task
    late,      \* history: units each worker began after the stop
    misread    \* history: tasks of a Done unit whose row a SELECT missed

mainVars == <<run, main, exit, owner, plan, verdict>>
workVars == <<pc, unit, late>>
vars == <<storeVars, mainVars, workVars, stop, todo, queue, report, failed,
          misread>>

Phases == {"discovery", "consistency"}

MainPlaces == Phases \cup
    {"off", "connect", "resetTables", "resetRelations", "open", "list",
     "derive", "finish", "report", "unwind"}

WorkerPlaces == {"idle", "start", "query", "push", "error", "progress"}

\* Exit code 0, 130, the two ways to exit 1, and no exit code at all.
Exits == {"ok", "interrupted", "failure", "refused", "crash", "none"}

Idle == [w \in Workers |-> "idle"]
NoUnit == [w \in Workers |-> None]
NoneLate == [w \in Workers |-> 0]
NothingTodo == [u \in Units |-> 0]
NothingReported == [u \in Units |-> <<>>]

\* The type of every variable.
TypeOK ==
    /\ StoreTypeOK
    /\ run \in 0..MaxRuns
    /\ main \in MainPlaces
    /\ exit \in Exits
    /\ owner \in Owners \cup {None}
    /\ stop \in BOOLEAN
    /\ plan \subseteq Units
    /\ todo \in [Units -> Nat]
    /\ queue \in Seq(Units)
    /\ report \in [Units -> Seq(Owners)]
    /\ verdict \in {"interrupted", "completed"}
    /\ failed \in BOOLEAN
    /\ pc \in [Workers -> WorkerPlaces]
    /\ unit \in [Workers -> Units \cup {None}]
    /\ late \in [Workers -> Nat]
    /\ misread \subseteq Units

Init ==
    /\ status = [u \in Units |-> IF u \in LegacyDone THEN "done" ELSE "absent"]
    /\ payload = [u \in Units |-> IF u \in LegacyDone THEN Unreadable ELSE None]
    /\ IF LegacyDone = {}
       THEN runInfo = NoRunInfo
       ELSE \E o \in Owners : runInfo = [owner |-> o, status |-> "interrupted"]
    /\ run = 0
    /\ main = "off"
    /\ exit = "none"
    /\ owner = None
    /\ stop = FALSE
    /\ plan = {}
    /\ todo = NothingTodo
    /\ queue = <<>>
    /\ report = NothingReported
    /\ verdict = "interrupted"
    /\ failed = FALSE
    /\ pc = Idle
    /\ unit = NoUnit
    /\ late = NoneLate
    /\ misread = {}

------------------------------------------------------------------------------
(* The process: what ends a launch and what happens to it from outside. *)

\* The process ends: all that is not in the store is gone.
Quit(how) ==
    /\ main' = "off"
    /\ exit' = how
    /\ owner' = None
    /\ stop' = FALSE
    /\ plan' = {}
    /\ todo' = NothingTodo
    /\ queue' = <<>>
    /\ report' = NothingReported
    /\ verdict' = "interrupted"
    /\ failed' = FALSE
    /\ pc' = Idle
    /\ unit' = NoUnit
    /\ late' = NoneLate
    /\ misread' = {}
    /\ UNCHANGED run

\* SIGINT or SIGTERM once install() has run: handleSignal() raises the flag,
\* and nothing lowers it.
Signal ==
    /\ main # "off"
    /\ ~stop
    /\ stop' = TRUE
    /\ UNCHANGED <<storeVars, mainVars, workVars, todo, queue, report, failed,
                   misread>>

\* SIGKILL, power loss, or an exception that no handler catches.
Crash ==
    /\ main # "off"
    /\ Quit("crash")
    /\ UNCHANGED storeVars

------------------------------------------------------------------------------
(* The main thread before the phases *)

\* runScan() up to the decision whether the output directory may be used.
Launch(o, resume) ==
    /\ main = "off"
    /\ run < MaxRuns
    /\ run' = run + 1
    /\ IF ~IsFreshRun /\ ~resume
       THEN exit' = "refused" /\ UNCHANGED <<main, owner>>
       ELSE exit' = "none" /\ main' = "connect" /\ owner' = o
    /\ UNCHANGED <<storeVars, plan, verdict, workVars, stop, todo, queue,
                   report, failed, misread>>

\* The main thread moves on and touches nothing of its own but its place.
Goto(place) ==
    /\ main' = place
    /\ UNCHANGED <<run, exit, owner>>

\* The connection pool opens all its connections.
Connect ==
    /\ main = "connect"
    /\ Goto("resetTables")
    /\ UNCHANGED <<storeVars, plan, verdict, workVars, stop, todo, queue,
                   report, failed, misread>>

\* resetInProgressToPending(): two UPDATEs, each its own transaction.
ResetTables ==
    /\ main = "resetTables"
    /\ ResetInProgress(Tables)
    /\ Goto("resetRelations")
    /\ UNCHANGED <<payload, runInfo, plan, verdict, workVars, stop, todo,
                   queue, report, failed, misread>>

ResetRelations ==
    /\ main = "resetRelations"
    /\ ResetInProgress(Relations)
    /\ Goto("open")
    /\ UNCHANGED <<payload, runInfo, plan, verdict, workVars, stop, todo,
                   queue, report, failed, misread>>

\* A fresh store learns who it belongs to; another one is only read, and its
\* owner is not compared with this launch's.
OpenRun ==
    /\ main = "open"
    /\ IF IsFreshRun THEN RecordStart(owner) ELSE UNCHANGED runInfo
    /\ Goto("list")
    /\ UNCHANGED <<status, payload, plan, verdict, workVars, stop, todo,
                   queue, report, failed, misread>>

\* listTableNames() and isExcluded(): the discovery phase's table names.
ListTables ==
    /\ main = "list"
    /\ \E names \in Listings :
          /\ plan' = names \ Excluded
          /\ todo' = [u \in Units |-> IF u \in names \ Excluded THEN 1 ELSE 0]
    /\ Goto("discovery")
    /\ UNCHANGED <<storeVars, verdict, workVars, stop, queue, report, failed,
                   misread>>

\* An exception outside the phases leaves run() and runScan(): exit code 1.
MainThrows ==
    /\ \/ OracleMayFail /\ main \in {"connect", "list", "derive"}
       \/ DiskMayFail /\ main \in {"resetTables", "resetRelations", "open",
                                   "finish", "report"}
    /\ Quit("failure")
    /\ UNCHANGED storeVars

------------------------------------------------------------------------------
(* The submission loop of a phase; the order of the list is abstracted. *)

InPhase == main \in Phases

\* The loop reaches unit u.
Visit(u) ==
    /\ InPhase
    /\ todo[u] > 0
    /\ todo' = [todo EXCEPT ![u] = @ - 1]

Submit(u) == queue' = Append(queue, u)

\* result.tables.push_back() or result.consistencyFindings.push_back().
PushResult(u, o) == report' = [report EXCEPT ![u] = Append(@, o)]

\* The row is Done and has a payload, if both SELECTs come to their end.
Cached(u) == GetStatus(u, TRUE) = "done" /\ GetPayload(u, TRUE) # None

HasResult(u) == Cached(u) /\ payload[u] \in Owners

\* A unit without a stored result becomes a task, and so does one whose result
\* a failing SELECT does not find.
SubmitUnit(u) ==
    /\ Visit(u)
    /\ \E found, loaded \in Outcomes :
          GetStatus(u, found) # "done" \/ GetPayload(u, loaded) = None
    /\ Submit(u)
    /\ misread' = IF Cached(u) THEN misread \cup {u} ELSE misread
    /\ UNCHANGED <<storeVars, mainVars, workVars, stop, report, failed>>

\* A mistake the runs must notice: the cached branch without its continue.
LoadCachedFallsThrough(u) ==
    /\ Visit(u)
    /\ HasResult(u)
    /\ PushResult(u, payload[u])
    /\ Submit(u)
    /\ UNCHANGED <<storeVars, mainVars, workVars, stop, failed, misread>>

\* A stored result goes to the report as it is.
LoadCached(u) ==
    /\ Visit(u)
    /\ HasResult(u)
    /\ PushResult(u, payload[u])
    /\ UNCHANGED <<storeVars, mainVars, workVars, stop, queue, failed,
                   misread>>

\* The catch of the cached branch: the payload cannot be parsed, or the
\* progress callback threw after the result had gone to the report.
RedoCached(u) ==
    /\ Visit(u)
    /\ \/ /\ Cached(u) /\ payload[u] = Unreadable
          /\ UNCHANGED report
       \/ /\ HasResult(u) /\ ProgressMayThrow
          /\ PushResult(u, payload[u])
    /\ MarkStatus(u, "pending")
    /\ Submit(u)
    /\ UNCHANGED <<runInfo, mainVars, workVars, stop, failed, misread>>

\* A store access of the loop throws: the exception leaves the phase, and
\* the pool's destructor still runs every task that was submitted.
SubmissionThrows ==
    /\ InPhase /\ DiskMayFail
    /\ \E u \in Units : todo[u] > 0
    /\ todo' = NothingTodo
    /\ Goto("unwind")
    /\ UNCHANGED <<storeVars, plan, verdict, workVars, stop, queue, report,
                   failed, misread>>

------------------------------------------------------------------------------
(* The barriers: future.get() for all futures, and the pool's destructor. *)

Busy(w) == pc[w] # "idle"

Drained == queue = <<>> /\ \A w \in Workers : ~Busy(w)

Submitted == \A u \in Units : todo[u] = 0

\* A mistake the runs must notice: nobody waits for the running tasks.
BarrierIgnoresRunning == InPhase /\ Submitted /\ queue = <<>>

Barrier == InPhase /\ Submitted /\ Drained

\* A mistake the runs must notice: nobody gets the futures' exceptions.
PhaseThrowsOnlyUnwinding ==
    /\ main = "unwind" /\ Drained
    /\ Quit("failure")
    /\ UNCHANGED storeVars

\* future.get() rethrows the exception of a task.
PhaseThrows ==
    /\ \/ Barrier /\ failed
       \/ main = "unwind" /\ Drained
    /\ Quit("failure")
    /\ UNCHANGED storeVars

\* The discovery phase returns, and run() looks at the stop flag.
EndDiscovery ==
    /\ main = "discovery"
    /\ Barrier /\ ~failed
    /\ Goto(IF stop THEN "report" ELSE "derive")
    /\ UNCHANGED <<storeVars, plan, verdict, workVars, stop, todo, queue,
                   report, failed, misread>>

\* includedSet: the tables the result holds.
Included == {t \in Tables : report[t] # <<>>}

Within(r) == {r.child, r.parent} \subseteq Included

AlreadyDeclared(r) ==
    \E d \in Relations : /\ Declared[d] > 0 /\ Within(d)
                         /\ d.child = r.child /\ d.column = r.column

\* A mistake the runs must notice: inference repeats declared keys.
DerivedCountRepeats(r) ==
    IF ~Within(r) THEN 0
    ELSE Declared[r] + IF Infer /\ r \in Candidates
                       THEN Len(report[r.child]) ELSE 0

\* result.relationships, as a bag: the declared keys between included tables,
\* then inferRelationships(), which looks at every entry of result.tables.
DerivedCount(r) ==
    IF ~Within(r) THEN 0
    ELSE Declared[r] + IF Infer /\ r \in Candidates /\ ~AlreadyDeclared(r)
                       THEN Len(report[r.child]) ELSE 0

\* Relationships, cycles, and the second look at the stop flag.
DeriveRelations ==
    /\ main = "derive"
    /\ IF stop
       THEN Goto("report") /\ UNCHANGED <<plan, todo>>
       ELSE /\ todo' = [u \in Units |->
                           IF u \in Relations THEN DerivedCount(u) ELSE 0]
            /\ plan' = plan \cup {r \in Relations : DerivedCount(r) > 0}
            /\ Goto("consistency")
    /\ UNCHANGED <<storeVars, verdict, workVars, stop, queue, report, failed,
                   misread>>

\* A mistake the runs must notice: a stop during the phase goes unnoticed.
EndConsistencyIgnoresStop ==
    /\ main = "consistency"
    /\ Barrier /\ ~failed
    /\ verdict' = "completed"
    /\ Goto("finish")
    /\ UNCHANGED <<storeVars, plan, workVars, stop, todo, queue, report,
                   failed, misread>>

\* The consistency phase returns; the stop flag decides the verdict.
EndConsistency ==
    /\ main = "consistency"
    /\ Barrier /\ ~failed
    /\ verdict' = IF stop THEN "interrupted" ELSE "completed"
    /\ Goto("finish")
    /\ UNCHANGED <<storeVars, plan, workVars, stop, todo, queue, report,
                   failed, misread>>

\* setRunInfo({finishedAtIso, status})
Finish ==
    /\ main = "finish"
    /\ RecordEnd(verdict)
    /\ Goto("report")
    /\ UNCHANGED <<status, payload, plan, verdict, workVars, stop, todo,
                   queue, report, failed, misread>>

\* writeAllReports(), printSummary(), and the exit code.
WriteReports ==
    /\ main = "report"
    /\ Quit(IF verdict = "completed" THEN "ok" ELSE "interrupted")
    /\ UNCHANGED storeVars

------------------------------------------------------------------------------
(* A worker and the task it runs *)

\* The worker moves on within its task.
At(w, here, there) ==
    /\ pc[w] = here
    /\ pc' = [pc EXCEPT ![w] = there]
    /\ UNCHANGED unit

\* The task ends; the future holds an exception if threw is true.
Return(w, threw) ==
    /\ pc' = [pc EXCEPT ![w] = "idle"]
    /\ unit' = [unit EXCEPT ![w] = None]
    /\ failed' = (failed \/ threw)

\* A mistake the runs must notice: the task does not look at the stop flag.
TakeTaskAnyway(w) ==
    /\ pc[w] = "idle"
    /\ queue # <<>>
    /\ queue' = Tail(queue)
    /\ pc' = [pc EXCEPT ![w] = "start"]
    /\ unit' = [unit EXCEPT ![w] = Head(queue)]
    /\ UNCHANGED <<storeVars, mainVars, late, stop, todo, report, failed,
                   misread>>

\* A worker takes the oldest task, which returns at once after a stop.
TakeTask(w) ==
    /\ pc[w] = "idle"
    /\ queue # <<>>
    /\ queue' = Tail(queue)
    /\ IF stop
       THEN UNCHANGED <<pc, unit>>
       ELSE /\ pc' = [pc EXCEPT ![w] = "start"]
            /\ unit' = [unit EXCEPT ![w] = Head(queue)]
    /\ UNCHANGED <<storeVars, mainVars, late, stop, todo, report, failed,
                   misread>>

\* The unit is InProgress.  The stop flag is not looked at again: a stop
\* since TakeTask comes too late for this unit.
StartUnit(w) ==
    /\ At(w, "start", "query")
    /\ MarkStatus(unit[w], "in_progress")
    /\ late' = [late EXCEPT ![w] = @ + IF stop THEN 1 ELSE 0]
    /\ misread' = misread \ {unit[w]}
    /\ UNCHANGED <<runInfo, mainVars, stop, todo, queue, report, failed>>

\* readTable() or checkOrphans() returns, and its result is stored.
SaveResult(w) ==
    /\ At(w, "query", "push")
    /\ MarkDone(unit[w], owner)
    /\ UNCHANGED <<runInfo, mainVars, late, stop, todo, queue, report, failed,
                   misread>>

\* The Oracle call or the statement that stores its result throws.
QueryThrows(w) ==
    /\ OracleMayFail \/ DiskMayFail
    /\ At(w, "query", "error")
    /\ UNCHANGED <<storeVars, mainVars, late, stop, todo, queue, report,
                   failed, misread>>

\* The result goes to the report.
PushFinding(w) ==
    /\ At(w, "push", "progress")
    /\ PushResult(unit[w], owner)
    /\ UNCHANGED <<storeVars, mainVars, late, stop, todo, queue, failed,
                   misread>>

\* A mistake the runs must notice: a failed unit keeps its row.
RecordErrorOnlyLogs(w) ==
    /\ At(w, "error", "progress")
    /\ UNCHANGED <<storeVars, mainVars, late, stop, todo, queue, report,
                   failed, misread>>

\* The catch of the task: the unit is Error and will be tried again by the
\* next launch.
RecordError(w) ==
    /\ At(w, "error", "progress")
    /\ MarkStatus(unit[w], "error")
    /\ UNCHANGED <<runInfo, mainVars, late, stop, todo, queue, report, failed,
                   misread>>

\* The statement of StartUnit or RecordError throws, out of the task.
MarkThrows(w) ==
    /\ DiskMayFail
    /\ pc[w] \in {"start", "error"}
    /\ Return(w, TRUE)
    /\ UNCHANGED <<storeVars, mainVars, late, stop, todo, queue, report,
                   misread>>

\* reportProgress() and the end of the task.
ReportProgress(w) ==
    /\ pc[w] = "progress"
    /\ \E threw \in {FALSE, ProgressMayThrow} : Return(w, threw)
    /\ UNCHANGED <<storeVars, mainVars, late, stop, todo, queue, report,
                   misread>>

------------------------------------------------------------------------------

Submission ==
    \/ \E u \in Units : SubmitUnit(u) \/ LoadCached(u) \/ RedoCached(u)
    \/ SubmissionThrows

MainStep ==
    \/ Connect \/ ResetTables \/ ResetRelations \/ OpenRun \/ ListTables
    \/ MainThrows
    \/ Submission
    \/ PhaseThrows \/ EndDiscovery \/ DeriveRelations \/ EndConsistency
    \/ Finish \/ WriteReports

WorkerStep(w) ==
    \/ TakeTask(w) \/ StartUnit(w) \/ SaveResult(w) \/ QueryThrows(w)
    \/ PushFinding(w) \/ RecordError(w) \/ MarkThrows(w) \/ ReportProgress(w)

\* Nobody launches the program again.
Done == main = "off" /\ run = MaxRuns /\ UNCHANGED vars

Next ==
    \/ \E o \in Owners, resume \in BOOLEAN : Launch(o, resume)
    \/ MainStep
    \/ \E w \in Workers : WorkerStep(w)
    \/ Signal
    \/ Crash
    \/ Done

Spec == Init /\ [][Next]_vars

\* The operating system runs every thread that can run, and Oracle answers
\* every call, with a result or with an error.  Nothing obliges anyone to
\* launch the program, to interrupt it or to crash it.
Fairness == WF_vars(MainStep) /\ \A w \in Workers : WF_vars(WorkerStep(w))

FairSpec == Spec /\ Fairness

------------------------------------------------------------------------------
(* Properties *)

\* README "Checkpoint / resume / apagado ordenado": after a stop no new units
\* are begun.  A worker past the check of the flag still begins the one it
\* holds, so the promise is one unit per worker, over both phases together.
LateStarts == \A w \in Workers : late[w] <= 1

\* A run that calls itself Completed has dealt with every table it listed and
\* every relationship it derived: each has its result in the report, or an
\* Error in its row.  In particular no task was dropped by the stop flag, or
\* forgotten in the queue, behind a verdict that says otherwise.
CompletedMeansNothingSkipped ==
    main = "report" /\ verdict = "completed" =>
        \A u \in plan : \/ status[u] = "done" /\ report[u] # <<>>
                        \/ status[u] = "error"

\* The report of a launch, partial or not, and the checkpoint it leaves for
\* the next one agree: a unit is in the report, once, exactly if its row is
\* Done (for relationships: if the consistency phase was reached).  Only a stop
\* may come between: a Done unit whose row a SELECT missed is then dropped from
\* the queue like any other, and left out of this report.
ReportMatchesCheckpoint ==
    main = "report" =>
        \A u \in plan :
            /\ Len(report[u]) = IF status[u] = "done" /\ u \notin misread THEN 1 ELSE 0
            /\ u \in misread => status[u] = "done" /\ stop

\* A launch that exits with 0 or 130 leaves no row in_progress: both UPDATEs
\* of the reset came before, and every worker that marked a row marked it
\* again before the phase was over.
CleanExit ==
    exit \in {"ok", "interrupted"} => \A u \in Units : status[u] # "in_progress"

\* No relationship is checked while a table is still being read: relationships
\* are derived from the tables, all of them.
PhaseBarrier ==
    main = "consistency" =>
        /\ \A w \in Workers : unit[w] \notin Tables
        /\ \A i \in 1..Len(queue) : queue[i] \in Relations

\* Two workers never have the same unit, whose row and result they would
\* overwrite in turn.
OneWorkerPerUnit ==
    \A v, w \in Workers : Busy(v) /\ Busy(w) /\ unit[v] = unit[w] => v = w

\* A stored result stays: the row stays Done and keeps it.
ResultKept(u) ==
    status[u] = "done" /\ payload[u] \in Owners =>
        status'[u] = "done" /\ payload'[u] = payload[u]

\* CheckpointStore.hpp:48-50, README: a unit whose result is stored is not
\* read from Oracle again, by this launch or by a later one.
StoredNeverReread == [][\A u \in Units : ResultKept(u)]_vars

\* Only a task that was made because a SELECT missed the unit's row may begin a
\* stored unit again; and whatever becomes of that task, the row is never
\* without a result to show: COALESCE keeps the one it has until there is
\* another.
ResultSurvives(u) ==
    /\ u \notin misread => ResultKept(u)
    /\ payload[u] \in Owners => payload'[u] \in Owners

\* What the code keeps of that promise, whatever reads fail.
DurableResults == [][\A u \in Units : ResultSurvives(u)]_vars

\* CheckpointStore.hpp:24-26: a store represents a single scan run's progress,
\* so that the report of a launch describes the schema it was asked for.
ReportOfOneSchema ==
    main = "report" =>
        \A u \in Units : \A i \in 1..Len(report[u]) : report[u][i] = owner

\* A row that says Done has something to load, also after a crash between any
\* two statements (CheckpointStore.hpp:48-50: "atomically").
DoneHasPayload == \A u \in Units : status[u] = "done" => payload[u] # None

\* Every launch ends: the barriers open and the pools drain, with or without
\* a stop, an Oracle error or an exception in a task.
ScanEnds == main # "off" ~> main = "off"

------------------------------------------------------------------------------
(***************************************************************************)
(* The inductive invariant: what every step relies on and re-establishes.  *)
(***************************************************************************)

\* Where the main thread may be while tasks are queued or running.
Working == Phases \cup {"unwind"}

AfterReset == MainPlaces \ {"off", "connect", "resetTables", "resetRelations"}

InQueue(u) == \E i \in 1..Len(queue) : queue[i] = u

Holds(w, u, places) == unit[w] = u /\ pc[w] \in places

\* Threads: there is work only in a phase, workers hold a unit exactly while
\* they are busy, and a launch knows its schema and has not ended.
ThreadsInv ==
    /\ main # "off" => owner \in Owners /\ exit = "none"
    /\ main \notin Phases => \A u \in Units : todo[u] = 0
    /\ main \notin Working => queue = <<>> /\ ~failed
    /\ \A w \in Workers : IF Busy(w) THEN main \in Working /\ unit[w] \in Units
                                     ELSE unit[w] = None

\* Stop: a worker that has begun a unit late holds no other one to begin.
StopInv ==
    \A w \in Workers :
        /\ late[w] > 0 => stop
        /\ IF pc[w] = "start" THEN late[w] = 0 ELSE late[w] <= 1

\* Rows: from the reset on, a row is in_progress only while a worker is at it,
\* unless that worker's task ended in an exception.
RowsInv ==
    /\ main = "resetRelations" => \A t \in Tables : status[t] # "in_progress"
    /\ main \in AfterReset /\ main # "unwind" /\ ~failed =>
          \A u \in Units : status[u] = "in_progress" =>
              \E w \in Workers : Holds(w, u, {"query", "error"})
    /\ CleanExit

\* Phases: the consistency phase has only relationships to work on.
PhaseInv ==
    /\ main = "consistency" => \A t \in Tables : todo[t] = 0
    /\ PhaseBarrier

\* A unit that is still to be dealt with.
Ahead(u) == todo[u] > 0 \/ InQueue(u) \/ \E w \in Workers : Holds(w, u, {"start"})

\* Its row says Done or Error, or something will still make it say so.
RowSettles(u) ==
    \/ status[u] \in {"done", "error"}
    \/ Ahead(u)
    \/ \E w \in Workers : Holds(w, u, {"query", "error"})

\* A Done row has its result in the report, or something will still put it
\* there.
ResultArrives(u) ==
    status[u] = "done" =>
        \/ report[u] # <<>>
        \/ Ahead(u)
        \/ \E w \in Workers : Holds(w, u, {"push"})

\* The plan: no unit of it is forgotten, as long as nothing was cut short.
PlanInv ==
    /\ verdict = "completed" => main \in {"finish", "report"}
    /\ \/ main \in Phases \cup {"derive"} /\ ~stop /\ ~failed
       \/ verdict = "completed"
       => \A u \in plan : RowSettles(u) /\ ResultArrives(u)

\* All of the above: true at the start, and kept by every step.
InductiveInvariant ==
    /\ TypeOK
    /\ ThreadsInv
    /\ DoneHasPayload
    /\ StopInv
    /\ RowsInv
    /\ PhaseInv
    /\ PlanInv
------------------------------------------------------------------------------
(***************************************************************************)
(* What OneWorkerPerUnit, ReportMatchesCheckpoint and DurableResults rest  *)
(* on.  They hold where no relationship is declared twice and the progress *)
(* callback does not throw; the run scan_progress_throws shows why.        *)
(***************************************************************************)

\* What the rest of this section supposes.
UnitsOnce == ~ProgressMayThrow /\ \A r \in Relations : Declared[r] <= 1

\* Places: a unit is at one place, and only once: ahead of the loop, in the
\* queue, or in the hands of one worker.
PlacesInv ==
    /\ \A u \in Units :
          /\ todo[u] <= 1
          /\ todo[u] > 0 => ~InQueue(u)
          /\ todo[u] > 0 \/ InQueue(u) => \A w \in Workers : unit[w] # u
    /\ \A i, j \in 1..Len(queue) : queue[i] = queue[j] => i = j
    /\ OneWorkerPerUnit

\* Where the main thread may be with results in the report.
Reporting == Working \cup {"derive", "finish", "report"}

\* A unit to read: its row is not Done, or was misread.
ToRead(u) == status[u] # "done" \/ u \in misread

\* Results: a unit that is still to be read is not in the report, and one that
\* goes through a worker's hands is not Done before its result is stored, or
\* its row was misread.
ResultsInv ==
    /\ \A u \in Units :
          /\ Len(report[u]) <= 1
          /\ report[u] # <<>> => status[u] = "done"
          /\ todo[u] > 0 => report[u] = <<>>
          /\ InQueue(u) => report[u] = <<>> /\ ToRead(u)
    /\ \A w \in Workers :
          /\ pc[w] \in {"start", "query", "error"} =>
                report[unit[w]] = <<>> /\ ToRead(unit[w])
          /\ pc[w] = "push" => report[unit[w]] = <<>> /\ status[unit[w]] = "done"

\* Misread: the task of a unit that is Done already waits in the queue or with
\* a worker about to begin it, unless a stop dropped it or an exception ended it.
MisreadInv ==
    \A u \in misread :
        /\ u \in plan /\ todo[u] = 0
        /\ status[u] = "done" /\ report[u] = <<>>
        /\ \A w \in Workers : unit[w] = u => pc[w] = "start"
        /\ \/ stop \/ failed \/ main = "unwind"
           \/ InQueue(u) \/ \E w \in Workers : Holds(w, u, {"start"})

\* Report: it is empty before the discovery phase, and without findings before
\* the consistency phase; a planned unit that is Done is in it or on its way.
ReportInv ==
    /\ main \notin Reporting => misread = {} /\ \A u \in Units : report[u] = <<>>
    /\ main \in {"discovery", "derive"} => \A r \in Relations :
          /\ todo[r] = 0 /\ report[r] = <<>> /\ ~InQueue(r) /\ r \notin misread
          /\ \A w \in Workers : unit[w] # r
    /\ main \in Reporting \ {"unwind"} => \A u \in plan :
          status[u] = "done" => \/ report[u] # <<>> \/ todo[u] > 0 \/ u \in misread
                                \/ \E w \in Workers : Holds(w, u, {"push"})

\* Planned: only planned units are worked on, and what is in the report, or on
\* its way to it, was read from this program's rows or put there.
PlannedInv ==
    /\ main \in MainPlaces \ Reporting => plan = {}
    /\ \A u \in Units :
          /\ todo[u] > 0 \/ InQueue(u) => u \in plan
          /\ report[u] # <<>> => u \in plan /\ payload[u] \in Owners
    /\ \A w \in Workers :
          /\ Busy(w) => unit[w] \in plan
          /\ pc[w] = "push" => payload[unit[w]] \in Owners

\* All of it: true at the start, and kept by every step, if UnitsOnce.
OnceInvariant ==
    InductiveInvariant /\ PlacesInv /\ ResultsInv /\ MisreadInv /\ ReportInv /\ PlannedInv
------------------------------------------------------------------------------
(* What a scan promises, in the variables of this module *)

\* The launch as its user sees it: its exit code once it is over.
State ==
    CASE main = "off" -> exit
      [] main \in {"finish", "report"} ->
            IF verdict = "completed" THEN "complete" ELSE "partial"
      [] main \notin {"off", "finish", "report"} -> "scanning"

BeingRead == {u \in Units : \E w \in Workers : Holds(w, u, {"query", "error"})}

Stored == {u \in Units : status[u] = "done" /\ payload[u] \in Owners}

Scan == INSTANCE ResumableScan WITH
    state <- State,
    reading <- BeingRead,
    stored <- Stored,
    doubted <- misread \cap Stored,
    MayDoubt <- ReadMayFail,
    erred <- {u \in Units : status[u] = "error"},
    shown <- {u \in Units : report[u] # <<>>}

\* README "Checkpoint / resume / apagado ordenado", CheckpointStore.hpp:48-50:
\* whatever the threads, the stop flag, failing calls and crashes do, over all
\* launches, a scan does what ResumableScan promises.
ImplementsResumableScan == Scan!ScanSpec

==============================================================================
