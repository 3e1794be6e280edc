# TLA+ models of db-scanner

db-scanner reads the structure of an Oracle schema, derives the relationships
between its tables, counts the orphaned rows of each relationship and writes
two JSON reports. It works with several threads, can be stopped by a signal,
and keeps a SQLite checkpoint so that the next launch continues where the last
one ended. This directory models the program, from its command line to its
reports, checks it with TLC and proves its main properties with TLAPS. Paths
below are relative to the repository (`src/engine/...` is `src/src/engine/...`
in `PROJECT.json`).

## 1. Inventory

| Component | State | Operations | Correct when |
|---|---|---|---|
| checkpoint store (`src/checkpoint`) | one row per table and per relationship (status, payload), `run_info` | mark, mark Done with payload, reset in_progress, set run info, queries | Done rows are loadable; rows survive a crash; no row stays in_progress for good |
| scan engine (`src/engine/ScanEngine`) | the result, the futures of a phase | `run()`: reset, discovery, derivation, consistency, verdict | report, checkpoint, verdict and exit code agree; stored work is not repeated; every run ends |
| shutdown controller | an atomic flag | signal handler, `stopRequested()` | no new units after a stop, up to those already past the check |
| thread pool | queue, mutex, condition variable, `stop_` | construct, `submit`, worker loop, destroy | tasks run once and in order, no lost wakeup, the destructor drains |
| program (`src/app/main.cpp`) | the output directory | refuse or start, run, write reports, exit code | refuses only what it says it refuses; the exit code tells what the directory holds |
| command line and configuration (`src/config`) | none | parse `argv`, read the file, merge, check | the command line wins, and a bad one does nothing |
| connection pool (`src/db/OracleConnectionPool`) | available connections | acquire, release, constructor, destructor | exclusive leases, each returned, nobody waits for ever |
| schema reader, consistency checker (`src/db/Oracle*`) | none | Oracle queries, several per unit, without a snapshot | the report has what the dictionary has; orphans are those a foreign key would reject |
| retry policy (`src/db/RetryPolicy.hpp`) | attempt, delay | retry with backoff; called only by its test | at most `maxAttempts` calls |
| inference (`src/relations/RelationshipInference`) | none | names and types to relationships | grounded in what was read, not declared already, the same in every order of the tables |
| dependency graph (`src/relations/DependencyGraph`) | adjacency | `detectCycles`, `topologicalOrder` | cycles reported exist, and leave none out; parents first |
| report writer (`src/report/JsonReportWriter`) | two files | write beside and rename | a reader never sees half a file |
| console reporter, logging, JSON conversions, `tools/er_diagram.py` | | formatting | a failure does not lose a result |

How they interact: `main()` makes the shutdown controller, opens the store,
decides whether to start, makes the connection pool and calls
`ScanEngine::run()`. In each phase `run()` makes a thread pool and submits one
task per unit (a table, then a relationship) without a stored result. A task
reads the flag, marks the row, calls Oracle through a leased connection, stores
the result and appends it to the shared result. The main thread waits for all
futures. After the second phase the flag decides the verdict, `main()` writes
the reports and chooses the exit code.

What is hard: the flag is raised at any moment; a process may be killed between
any two statements; Oracle, SQLite and the progress callback may throw inside a
task, inside the submission loop or outside; a phase that is left by an
exception must not leave tasks that use its local variables; a resumed store
may come from a schema that has changed or from another one; the schema itself
may change between two queries about one table. `PROJECT.json`
lists these hazards at their lines, with the properties that would catch them.

## 2. Modules

| Module | Models |
|---|---|
| `CheckpointStore` | the store's variables and operations, as actions the engine conjoins with its own |
| `ScanEngine` | main thread, workers, signals, crashes and relaunches; extends `CheckpointStore` |
| `ResumableScan` | what a resumable scan promises its user; `ScanEngine` is shown to implement it |
| `MCScanEngine` | small schemas for TLC |
| `ScanEngineProofs` | theorems about `ScanEngine` |
| `ScanEngineOnceProofs` | theorems that need each relationship to be derived at most once |
| `ThreadPool` | the pool and the thread that owns it, with mutex and condition variable |
| `TaskPool` | what the engine expects of a pool; `ThreadPool` is shown to implement it |
| `MCThreadPool` | a small pool for TLC |
| `ThreadPoolProofs` | theorems about `ThreadPool` |
| `ConnectionPool`, `MCConnectionPool` | connections, leases and statements, with the threads of a scan as their users |
| `ConnectionPoolProofs` | theorems about `ConnectionPool` |
| `DependencyGraph`, `MCDependencyGraph` | building the graph, the search for cycles, the topological order |
| `DependencyGraphProofs` | theorems about `DependencyGraph` |
| `SequenceFacts` | lemmas about sequences that both use |
| `SchemaReader` | what each Oracle statement returns, over a data dictionary and rows |
| `RelationshipInference` | relationships from names and types |
| `SchemaScan`, `MCSchemaScan` | a scan of a schema that changes; composes the two above with the derivation of the engine |
| `SchemaScanProofs` | theorems about `SchemaScan` |
| `CommandLine` | `argv`, the file and the configuration made of them |
| `Program`, `MCProgram` | launches, the output directory, the two reports; extends `CommandLine` |
| `ProgramProofs` | theorems about `Program` |

### CheckpointStore

`status` and `payload` have one entry per unit (a table or a relationship id;
the two SQL tables have disjoint units); `"absent"` is a missing row. `runInfo`
holds the two keys anybody could look at, the owner and the status. Each
operation is atomic because each is one SQLite statement (or one transaction,
`setRunInfo`) under the store's mutex; `resetInProgressToPending()` is two, and
so is two steps of the engine. `MarkStatus` keeps the payload, as COALESCE
does. A payload is abstracted to the schema it describes, or `Unreadable` for
one the present JSON reader rejects.

The two SELECTs of a row do not throw when they fail: `getStatus()` and
`getPayload()` take everything but `SQLITE_ROW` for a row that is not there
(`CheckpointStore.cpp:182-184`, `195-197`). `GetStatus(u, ok)` and
`GetPayload(u, ok)` therefore have an outcome as their second argument, which may
be FALSE where `ReadMayFail`. `isFreshRun()` throws instead; `getRunInfo()` is
read for the time of the first launch only.

### ScanEngine

`main` is where the main thread is. One action each: `Launch` (with the
refusal), `Connect`, `ResetTables`, `ResetRelations`, `OpenRun`, `ListTables`,
the steps of a submission loop (`SubmitUnit`, `LoadCached`, `RedoCached`), the
ends of the phases, `DeriveRelations`, `Finish`, `WriteReports`. A worker's
task is cut where it touches shared state: `TakeTask` (which reads the flag),
`StartUnit`, `SaveResult` or `QueryThrows`, `PushFinding`, `RecordError`,
`ReportProgress`. The two phases are the same code with other names in the
source, and are the same actions here.

Exceptions are control: `MainThrows` leaves `run()` outside the phases,
`SubmissionThrows` leaves a phase with tasks still running (place `"unwind"`,
where the pool's destructor drains), `MarkThrows` and `ReportProgress` end a
task with an exception in its future (`failed`), which `PhaseThrows` rethrows
on the main thread. `future.get()` goes in the order of submission and stops at
the first exception; leaving the phase then destroys the pool, which waits for
the rest, so one step after the drain stands for both.

`Signal` raises the flag once `install()` has run; `Crash` keeps only the
store. `run` counts launches, up to `MaxRuns`.

Abstractions: a relationship id is a record of child, column and parent; the
listing of tables is any member of `Listings`, so the schema may change between
launches; `DerivedCount` says how often a relationship is derived, from the
declared keys and from inference whose name matching is the constant
`Candidates`. The order of a list is left open (a submission loop may reach any
unit of it next). A status and its payload are read in one step although the
code reads them in two: only the task of a unit writes its row, and it is
submitted after both reads. For a relationship that is derived twice the task
of the first may write in between, but then the status that was read is the one
the step would have seen earlier.

A unit whose row is Done becomes a task all the same when one of its SELECTs
fails (`SubmitUnit`). The history variable `misread` has these units from then
until a worker marks them in_progress; a stop drops their tasks like any other.

The flag is read and written with `memory_order_relaxed`. That the main thread
sees at line 229 what a worker has seen at line 155 follows from coherence of
the one atomic and from the happens-before of `future.get()`; the model's
single variable assumes no more.

### ThreadPool and TaskPool

`ScanEngine` takes a task in one step. `ThreadPool` justifies that: `mutex` is
`mutex_`, a worker is at `"lock"` before the mutex, `"check"` while it holds it
and evaluates the condition, `"wait"` in the wait set of `cv_`, `"run"` in a
task. `NotifyOne` wakes any waiter and is a step after the mutex was released,
`WakeSpuriously` wakes one for no reason, `Take` pops the front whether
`stop_` is raised or not, `Returns` needs `stop_` and an empty queue. The owner
is `runDiscoveryPhase()` or `runConsistencyPhase()`: it submits, gets the
futures in order, and destroys the pool when it is done or an exception leaves
the phase. A thread that cannot be created makes the constructor throw: with no
worker yet the exception leaves the phase; otherwise the members are destroyed
under running workers, which ends in `std::terminate()` or blocks in the
destructor of `cv_` (`SpawnFails`, `Terminate`).

`TaskPool` says it without threads: tasks are begun in the order of submission,
finished once, after they were begun, and a pool that is closed has finished
them all. The refinement takes `begun` to be what was submitted less what is
queued, and `finished` the futures that are ready.

### ConnectionPool

A thread is `"idle"`, `"asking"` before the mutex of `acquire()`, `"asleep"` in
the wait set of `cv_`, `"leased"` between two statements, `"querying"` in one, or
`"notifying"` after the mutex of `release()`. `place` is the part of the scan:
the main thread leases a connection for `listTableNames()` and for
`listDeclaredForeignKeys()`, the workers for the units of the phases; `EndPhase`
waits for all of them, which is what `ThreadPool` promises. A unit is a sequence
of statements (`Statements`); each is opened and closed by a `StatementGuard`,
and may throw before it is open (`StatementRefused`) or while it is
(`StatementThrows`); on a `broken` connection it always does. `readTable()`
survives an exception of `fetchDefaultValues()` only. `OpenFails` is the handler
in the constructor, which ends the sessions opened so far.

### DependencyGraph

A table's name is a number. `AddEdge` is one call; `detectCycles()` goes step by
step through its depth-first search: `EnterRoot`, `VisitChild` (one child of the
node on top of `pathStack`), `Leave`. `cycles` is a set, as `seenCanonical` is.
`finished`, the order in which nodes became black, is a history variable.
`topologicalOrder()`, which only tests call, is `StartOrder`, `TakeReady`,
`AppendLeftover`; its comment (`DependencyGraph.hpp:28-30`) says that tables on
a cycle are appended at the end, and so are, in the code and in
`OrderIsComplete`, tables behind one.

### SchemaReader, RelationshipInference, SchemaScan

A database is a record of data-dictionary views, each a set of rows, and of the
tables' rows; `Versions` lists its states, `Change` goes to any of them. The
operators of `SchemaReader` are the statements, one each: what the code sorts is
a sequence, what it keeps in a map a set, an optional value a set of at most
one. Names of tables and columns are sequences of parts, so that endings (`ID`,
`_ID`, `S`, `ES`, `IES`, `Y`) are found as the code finds them, without
characters. `SchemaScan` reads the tables in any order, since that is the order
in which workers finish, one statement per step; `DeriveRelationships` keeps
declared keys between tables of the result and, if `InferRelationships`, adds
the inferred ones. An index has an owner and its table another one
(`tableOwner`), of which `fetchIndexes()` looks at the first only;
`CountOrphans` and `SampleOrphans` are the two statements of `checkOrphans()`.
Its queries name a table without its owner, so Oracle looks for it in the schema
of `SessionUser`; `CanQuery` says when it refuses. Comments, default values,
precision, scale and the confidence of an inferred relationship are left out.
The runs infer; the theorems hold for both values of `InferRelationships`.

### CommandLine and Program

`TakeToken` is one iteration of the loop over `argv`: the token after an option
is its value, whatever it looks like. `Merged` is defaults, file, command line.
`parseInt()`, `splitCsv()` and `toUpper()` are constant functions, given for the
strings of the instance. `Program` has one action per step of `main()` and
`runScan()`; an action that may fail has a disjunct that ends the launch with
the exit code, or `"abort"` where the exception is not caught: a value of the
wrong type in the file, a log file that cannot be opened. `Kill` ends it
anywhere. The scan is one step here and all of `ScanEngine` there. A report is a
temporary file (`OpenTmp`, `Write`) and a `Rename`; its content is the launch it
is of, the status, and whether all bytes are there, some, or, where
`DiskMayFill`, those that fit on the disk, which nobody notices.

## 3. What is checked

| Run | Instance | Question |
|---|---|---|
| `scan_safety` | 2 tables, 2 relationships, 2 workers, 4 launches, one table Done with an unreadable payload at the start, Oracle, disk and the SELECTs of rows may fail | do checkpoint, report, verdict and exit code agree? |
| `scan_duplicates` | 2 tables, a relationship declared twice, 2 workers, 3 launches, Oracle, disk, SELECTs and the progress callback may fail | does the invariant of the proofs hold when two workers share a unit and tasks throw? does every launch end? |
| `thread_pool` | 3 workers, 3 tasks, thread creation may fail, tasks may throw | are tasks run once, in order and to the end? is a wakeup lost? is every pool destroyed? |
| `connection_pool` | 2 workers with 2 connections, 3 workers with 1 and with 2, 3 units in each phase, one connection breaks | are leases exclusive and clean? does anybody wait, and for ever? |
| `dependency_graph` | every graph over 4 tables with up to 5 edges, in every order of adding them | are the cycles real and enough? is the order one? |
| `schema_scan` | 3 tables with single and composite keys, a schema with tables, constraints and an index of the same names beside it, 6 versions, 2 changes during the scan | does the report say what the dictionary and the rows say? |
| `program` | 15 command lines, 3 files, 2 directories, 3 launches, disks that fill up | what is a launch configured with, and what does it leave behind? |
| `scan_progress_throws`, `scan_read_fails`, `scan_other_schema`, `schema_other_user`, `report_full_disk` | small ones of the same modules | disagreements between code and documentation, section 5 |

Properties of the engine:

- `LateStarts`: a worker begins at most one unit after the stop.
- `CompletedMeansNothingSkipped`: a launch that says Completed has a result in
  the report, or a recorded Error, for every table it listed and every
  relationship it derived.
- `ReportMatchesCheckpoint`: a planned unit is in the report, once, exactly if
  its row is Done, also in a partial report; only a unit whose row a SELECT missed
  may be Done and not in the report, and only after a stop. It needs
  relationships that are derived at most once and a progress callback that does
  not throw.
- `CleanExit`: exit codes 0 and 130 leave no row in_progress.
- `PhaseBarrier`, `OneWorkerPerUnit`: nothing is checked while tables are read;
  two workers never have the same unit.
- `DurableResults`: a stored result is not queried again or overwritten, by any
  step of any launch, unless a SELECT missed its row; and whatever becomes of the
  task that such a unit gets, its row is never left without a result.
  `StoredNeverReread`, without the exception, is what the documents promise and
  what `scan_read_fails` and `scan_progress_throws` find violated.
- `ImplementsResumableScan`: seen from outside, launches, crashes and all, the
  engine does what `ResumableScan` promises.
- `InductiveInvariant`: what the proofs rest on, with a part that holds for
  every schema and matters by itself: `DoneHasPayload` (a Done row has its
  result, whatever the crash).
- `ScanEnds`: every launch ends.

Properties of the thread pool: `NothingLeftBehind` (a destroyed pool has
run everything and has no worker), `BarrierIsTight` (an owner that got all
futures has no task behind it), `NoLostWakeup` (while a worker sleeps each
queued task has an awake worker of its own, but for the one whose notification
is on its way; nobody sleeps through the stop), `ImplementsTaskPool`, from which
it follows that no task is run twice (`RunsOnce`, proved), `PoolEnds` (the
destructor ends, or the program terminates), `EveryTaskRuns`.

Properties of the connections:

- `LeasesExclusive`: in the phases a connection is in the queue, once, or
  leased, by one thread.
- `NoCursorLeft`: a lease hands over no open statement, also after exceptions.
- `NobodyWaits`: with as many connections as workers nobody ever sleeps,
  although the main thread leases one too; `NoLostWakeup` and
  `EveryRequestServed` are for fewer connections, where threads do sleep.
- `SessionsEnded`: no session is ended under a thread that uses it, and none is
  left behind, however the launch ends.

Properties of the graph:

- `CyclesAreReal`: what is reported follows edges, passes no table twice, and is
  reported in one form only.
- `CyclesSuffice`: an edge that is on no reported cycle leads to a table the
  search left earlier, so the edges that remain have no cycle: no circular
  dependency is left unmentioned.
- `OrderIsComplete`: the order has every table once, and each behind all of its
  parents, or else the table is on a cycle or behind one: it is in a set whose
  every member has a parent in the set (`Behind`).

Properties of the reading of a schema:

- `TablesExact`, `DeclaredKeysExact`, `FindingsExact`: of a database that nobody
  changes meanwhile, the report has every table, with the keys and indexes that
  are the table's and no others, every foreign key, the columns in their places,
  and counts exactly the rows an enabled foreign key would reject. They are
  stated from the dictionary's rows, not with the
  operators that model the queries.
- `FindingsExact` also, and `InferenceGrounded`: whatever changes, a sample comes
  with a count and within its limit, and an inferred relationship is between
  columns that were read, never from a column with a declared key.
- `OrderIrrelevant`: the inferred relationships do not depend on the order in
  which workers finished, unless two names differ in case only.

Properties of a launch:

- `CommandLineWins`: which value an option ends up with, stated from the places
  of the tokens rather than by parsing.
- `RefusedLeavesNoTrace`, `ReplacedOnlyOnResume`: a launch that is refused leaves
  the earlier run as it is; reports are replaced by a resumed launch only.
- `ReportsAsWritten`, `ExitMeansReports`: a reader never sees a report that is
  being written, or an older one after a newer; 0 and 130 come with both reports.
  A report lacks a part only if it was written to a full disk (`AsWritten`), which
  `report_full_disk` shows to go unnoticed; without such disks all reports are
  whole.

The runs `scan_duplicates`, `thread_pool`, `connection_pool`,
`dependency_graph`, `schema_scan` and `program` also check the
`InductiveInvariant` of their module, on which the proofs of section 4 rest; it
has the module's `TypeOK`.

Every property has a mutation of the modelled code that it catches
(`PROJECT.json`, "mutants").

Bounds. Two workers are the fewest that interleave, and no action relates more
than two of them; three workers and three tasks let the pool have a sleeper, a
runner and a woken worker at once. Four launches
allow a crash, a resume that is interrupted, one that misreads what they left,
and a clean one. Two tables and two relationships let both workers work at once,
or one while the other's task is queued, dropped or misread; only inference
finds one of the relationships. The theorems of section 4 have no such
bounds; what is checked only is said there. Three workers with one or two
connections have two sleepers for one release, and a broken connection beside a
good one. Four tables have two cycles with and without a common table, and a
table behind a cycle. Two changes put one between a table's statements and one
between count and sample. Two launches replace a report, a third finds what the
second left when it was killed. Workers are symmetric in `scan_safety`, which
has no liveness property; no other run uses symmetry.

Fairness. `ScanEngine`: weak fairness of the main thread and of each worker,
which the operating system's scheduler gives, together with an Oracle call that
returns or throws (the code sets no timeout, so a hanging call would hang the
launch). Nothing is assumed of launches, signals and crashes. `ThreadPool`: the
same, and strong fairness for taking the mutex, which others release and take
again; no spurious wakeup is assumed, and no end of a destructor that blocks:
`PoolEnds` says that a pool is destroyed, or stuck where its constructor failed.
`ConnectionPool`: weak fairness of every thread, again with statements that
return or throw; that is enough although others take connections as well,
because `MaxUnits` bounds how often they ask, as the number of tables does.

Deadlock is checked in every run; each specification names the state in which
it is over (`Done`, `place = "over"`, `phase = "done"`), and stutters there only.

## 4. What is proved

`ScanEngineProofs` proves, for all tables, relationships, listings, declared
keys, workers, owners and launches, and whatever may fail:

- `Invariance`: `InductiveInvariant` holds always;
- from it `TypeCorrect`, `StopIsObeyed` (`LateStarts`), `DoneRowsAreLoadable`
  (`DoneHasPayload`), `ExitIsClean` (`CleanExit`), `PhasesAreSeparate`
  (`PhaseBarrier`), `CompletedIsComplete` (`CompletedMeansNothingSkipped`).

The assumptions are those of the modules: `StoreAssumption` (tables and
relationships have different names, NULL is no value) and `EngineAssumption`
(there is a worker, relationships relate tables).

None of the properties is inductive by itself. `ThreadsInv` ties places to each
other: work exists only inside a phase, a worker holds a unit exactly while it
is busy. `StopInv` adds to `LateStarts` that a worker about to begin a unit has
begun none late. `RowsInv` says that from the reset on an in_progress row has a
worker at it, unless a task threw; with no worker at the end of a phase,
`CleanExit` follows. `PlanInv` says that a planned unit is settled or still
ahead of somebody (in the loop, in the queue, or in a worker's hands) as long
as neither a stop nor an exception cut the phase short. At the verdict nothing
is ahead, because the barrier is open and the flag was still down, so that
every planned unit is settled; this is where the order "barrier, then flag"
matters.

`ScanEngineOnceProofs` proves four properties that need a hypothesis,
`UnitsOnce`: no relationship is declared twice, and the progress callback does
not throw. The code does not give it, and without it the properties fail: two
foreign keys between the same columns give two tasks for one row, and the run
`scan_progress_throws` shows what a callback that throws does. A schema without
such a pair and a console that can be written satisfy it; the instance of
`scan_safety` does. SELECTs that fail are no part of the hypothesis: the theorems
hold with `ReadMayFail` as without.

- `OnceInvariance`: `OnceInvariant` holds always;
- from it `UnitsAreExclusive` (`OneWorkerPerUnit`), `ReportIsCheckpoint`
  (`ReportMatchesCheckpoint`) and `ResultsAreDurable` (`DurableResults`, an
  action property: no step of any launch takes a stored result back, unless its
  row was misread, and none leaves a row without the result it had);
- `EngineIsAResumableScan` (`ImplementsResumableScan`): every step of the
  engine is a step of `ResumableScan`, or hidden.

`OnceInvariant` adds five parts to the invariant of the engine. `PlacesInv`
counts: a unit is ahead of the loop, in the queue, or in the hands of one
worker, and never at two of these. `ResultsInv` says which of these places goes
with which row, so that whoever is about to write one finds it without a
result, or misread. `MisreadInv` says that a misread unit is Done, is not in the
report, and has a task that waits, unless a stop dropped it or an exception ended
it: in a phase that ends without either, all of them have been read again.
`ReportInv` says that a result is in the report, once, exactly when its row is
Done, was not misread, and nobody is on the way from the one to the other.
`PlannedInv` says that only planned units are worked on. TLC finds `OnceInvariant` true in all states
of the instance of `scan_safety`.

The refinement hides threads, queue and rows. A unit is being read while a
worker is between its two marks, stored when its row is Done with a payload this
program reads, in doubt while it is stored and misread, and shown when the report
has it. A SELECT that misses a stored unit puts it in doubt. Marking a row in_progress
begins a reading, the one statement that stores the result (or the Error) ends
it, the cached branch and the worker's push show a result, and each end of a
phase is a point where all that is stored of the plan is shown. The reset of the
rows, the submissions, a row put back to Pending because its payload cannot be
parsed, and whatever a task does after a failed statement, are hidden.

`ThreadPoolProofs` proves, for every finite set of workers and any number of
tasks: `Invariance`, `TypeCorrect`, `TasksRunOnce`, `DestructorDrains`,
`FuturesAreABarrier`, `WakeupsArrive` (`NoLostWakeup`, by counting the awake
workers) and `PoolIsATaskPool`, the refinement of `TaskPool`. Its invariant says
that the mutex is held exactly in the critical sections, that the queue holds
the youngest tasks in order (`QueueInv`), that a task taken is over or in one
worker's hands (`TaskInv`), and how far the owner is (`OwnerInv`).

`ConnectionPoolProofs` proves, for all finite sets of workers, any number of
connections, of units and of broken connections: `Invariance`, `TypeCorrect`,
`LeasesAreExclusive`, `NoCursorsLeft`, `NobodyEverWaits`, `WakeupsArrive` and
`SessionsAreEnded`, from `ConnectionPoolAssumption` alone. The invariant says
which threads may be busy in which part of the scan (`PlaceInv`), that the
connections in the queue and those leased are the opened ones, each in one place
(`LeaseInv`), that a statement is open only under a thread that executes it
(`CursorInv`), and that while somebody sleeps every free connection has a thread
that asks for it or is about to notify (`WakeInv`). `NobodyWaits` is kept by
counting: with as many connections as threads that may lease one, and one of
them without a lease, a connection is free.

`DependencyGraphProofs` proves, for every finite set of table names, every
number of edges and every order of adding them, from `GraphAssumption`:
`Invariance`, `TypeCorrect`, `CyclesExist` (`CyclesAreReal`),
`CyclesAreEnough` (`CyclesSuffice`) and `OrderCompletes` (`OrderIsComplete`).
`SearchInv` says that `pathStack` is a path
of the graph, that its nodes are the gray ones, and that a black node has all of
its children looked at. `EdgesInv` says of every edge looked at that it is
settled: on a listed cycle, or between nodes left in the right order, or still
below a gray node, whose child is black or next on the path. When every node is
black nothing is below a gray one, and `CyclesSuffice` follows. A listed cycle is
the end of the path with the edge back (`PathEnd`), rotated (`Rotation`). That a
least name exists is taken from the well-foundedness of the natural numbers, so
that no induction is needed.

`OrderInv` says that the in-degree of a table is the number of its parents that
are not in the order yet (`Waits`), so that a table is taken when all of them
are in front of it. When none is ready, every table that is left has a parent
that is left: the rest is itself a set such as `Behind` asks for, and no
statement about paths, or induction over them, is needed.

`ProgramProofs` proves, for every set of command lines, files and directories
and any number of launches killed anywhere: `Invariance`,
`RefusalsLeaveNoTrace` (`RefusedLeavesNoTrace`), `ReportsStayAsWritten`
(`ReportsAsWritten`), `ExitCodesAreTrue` (`ExitMeansReports`), `LastValueWins`
(`CommandLineWins`) and `OnlyResumeReplaces` (`ReplacedOnlyOnResume`, an action
property). Its assumptions are `ProgramAssumption`, `ConfigAssumption` (`Dirs`
has the directories that the command lines and files name, and numbers are
integers, which is what `parseInt()` and the JSON reader return),
`CommandLinesAssumption` and `PatternsAssumption` (tokens, and the patterns that
`splitCsv()` and the file return, are strings). The properties depend on each
other. That the exit code tells the truth needs that a report of this
launch was written by it, after its scan had a status (`OwnInv`); that only
`--resume` replaces a report needs that a report lies beside a run on record
(`FilesInv`), which is what the refusal looks at; and that a refused launch
leaves no trace needs that nothing but the last steps of a launch touches a
report (`TraceInv`). The report that is being written (`Report`) is read off
from the directory itself, as the code's position is; that it stays the same
from the temporary file to the rename is part of the proof (`SetTmpDisk`).

`LastValueWins` compares a loop with a rule. The loop of `parseCliArgs()` carries
what it looks for next; `CommandLineWins` says of each place of the line whether
it holds a flag, from the place before it alone. `LaunchInv` has the part about
states: `args` is what the loop returns for `argv`, and `config` is made of it.
The part about lines goes along the line by a lemma of its own (`Onward`: a set
with 0, and with k + 1 if it has k, has every number up to n), since it is about
one line and not about an operator. It shows in turn that the loop has a result
after each token (`TokensTakenDef`), that a line without a mistake had none
before its end (`NoMistake`), that the places the loop takes for flags are those
of the rule (`FlagsAgree`), and that after n tokens the arguments have the last
value given for each key, the switches met and all patterns (`LineRead`). An
option may not end a line, so at the end no value is missing.

`SchemaScanProofs` proves, for every sequence of versions of the database, any
number of changes at any time, any sample size and statements that break down:
`Invariance`, `SamplesAlwaysFit` (`SamplesFit`, the part of `FindingsExact` that
holds while others commit), `InferenceIsGrounded` (`InferenceGrounded`) and
`OrderDoesNotMatter` (`OrderIrrelevant`). It assumes `SchemaAssumption` and, with
`DatabaseAssumption`, that a database has finitely many rows. `PhaseInv` says
how far the table in hand has been read and that a sample is only taken of a
relationship with orphans; `DerivedInv` that the inferred relationships are
those of the tables read. The rest are facts about the operators of
`RelationshipInference`: what `Infer` returns comes from listed tables and
columns (`InferListed`), and depends on the list only through its set of tables
and what names lead to (`InferSame`), neither of which a permutation changes
(`RearrangedSame`, `RearrangedNamed`).

What the report says of a database that nobody changed is proved under
hypotheses of the theorems, which the instance meets (`SoundInstance`):

- `TablesAreExact` needs `DictionaryIsSound`: names identify, columns and the
  columns of keys and indexes are numbered 1, 2, ..., and keys are made of
  columns that exist. Oracle keeps it so, of tables without invisible columns
  and views without constraints; the code relies on it when it sorts by these
  numbers. It needs also `IndexesStayInSchema`, that an index of the schema is on
  a table of the schema and that no other schema has one on it. Oracle allows
  both, and of both the property is false: `fetchIndexes()` compares the owner of
  the index with the schema, and the name of its table with the table, but not
  whose table that is (`OracleSchemaReader.cpp:255-262`), so that an index of the
  schema on another schema's table is reported with the schema's table of that
  name, and another schema's index on a table of the schema is not reported.
- `DeclaredKeysAreExact` needs also `KeysStayInSchema`: a foreign key to a table
  of another owner is kept with the table's name only
  (`OracleSchemaReader.cpp:396`), and the property is false of it.
- `FindingsAreExact` needs also `SessionUser = Owner`, without which
  `schema_other_user` shows it false.

`ReadInv` says that until somebody interferes (`Quiet`) each table is still to
be read, in hand, or in the report, once, with what the dictionary says of it;
`CheckInv` the same of relationships and exact findings. TLC finds both true
in all states of the instance of `schema_scan` with `Quiet`. The sorting is
`InOrder`, which finds the i-th row by counting those up to it, so that no
induction is needed: in numbered rows each comes at its number
(`InOrderNumbered`). The join of a foreign key has one row for each of its
columns (`JoinNumbered`), so that the relationship pairs as many columns of both
tables, all of them existing ones, and the statements of `checkOrphans()` are not
refused (`RelationshipsQueryable`) and select the rows the key would reject
(`OrphansRejected`).

Only model-checked is liveness (`ScanEnds`, `PoolEnds`, `EveryTaskRuns`,
`EveryRequestServed`), which is out of the prover's reach. Every invariant and
every action property that a passing run checks is a theorem.

## 5. Findings

- `scan_progress_throws`: the progress callback of a cached unit is called
  inside the `try` whose `catch` is meant for unreadable payloads
  (`src/engine/ScanEngine.cpp:87-99`, `138-150`). If it throws, the stored
  result, already in the report, is marked Pending and queried again, and is
  reported twice; `README.md:108-110` and
  `src/checkpoint/CheckpointStore.hpp:48-50` say that a completed unit is not
  queried again. The program's own callback prints, which throws when standard
  output cannot be written (`ConsoleReporter.cpp:28-31`).
- `scan_read_fails`: `getStatus()` returns Pending, and `getPayload()` nothing, for
  every result of `sqlite3_step()` but a row
  (`src/checkpoint/CheckpointStore.cpp:182-184`, `195-197`), an I/O error or a
  busy database included. The Done unit is marked InProgress and queried again,
  against the same two promises; after a stop its task is dropped, and a result
  that is stored is missing from the report. `isFreshRun()` throws in that
  situation.
- `scan_other_schema`: a resumed store belongs to the schema of its first
  launch, which `run_info` records and nobody compares
  (`src/engine/ScanEngine.cpp:184-192`). `--resume --schema OTHER` reports the
  cached tables of the one as those of the other.
- `schema_other_user`: `checkOrphans()` names tables without their owner
  (`src/db/OracleConsistencyChecker.cpp:66`), so with `--schema` naming another
  schema than the user's it counts in the user's tables of these names. In the
  trace the user has tables of the same names whose rows are consistent: no
  orphan is counted, and a relationship that has one is called consistent. Where
  the user has no such tables Oracle refuses the statement and there is no
  finding.
- `report_full_disk`: the report's stream is not looked at after writing
  (`src/report/JsonReportWriter.cpp:26`); a full disk renames a torn report over
  the old one, and the launch ends well, although the header promises an
  exception.

## 6. Not modelled, and the plan

Not modelled, for good: Oracle's own behaviour (external; any result of the
views, or an exception), logging, console output, JSON and date formatting,
`tools/er_diagram.py`, and two processes on one output directory, which nothing
in the code coordinates. `RetryPolicy.hpp` is called by its test only, so it is
part of no behaviour of the program. The default value of a column is cut out of
DDL text (`OracleSchemaReader.cpp:88-139`), which is character processing.

Observed without a run: `main.cpp:28-34` calls the run that it refuses to replace
incomplete, though `isFreshRun()` counts the rows of `run_info` and does not look at the status, so a
completed run is refused too; and what `FetchIndexes` does with an index whose
table is another schema's (section 4).

Next:

1. Foreign keys across schemas in `SchemaScan`.
2. The scan step of `Program` from `ScanEngine`: that a launch whose scan returns
   has the status that the engine's records stand for.
