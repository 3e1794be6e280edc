--------------------------- MODULE ScanEngineProofs ---------------------------
(***************************************************************************)
(* Theorems about ScanEngine, for every set of tables, relationships and   *)
(* workers, every number of launches, and whatever may fail.               *)
(***************************************************************************)
EXTENDS ScanEngine, TLAPS

USE DEF RowStatus, Payloads, MainPlaces, Phases, WorkerPlaces, Exits

------------------------------------------------------------------------------
(* Types *)

\* The end of a process leaves every variable of the right type.
LEMMA QuitType ==
    ASSUME TypeOK, NEW how \in Exits, Quit(how), UNCHANGED storeVars
    PROVE  TypeOK'
<1>1. StoreTypeOK'
  BY DEF TypeOK, StoreTypeOK, storeVars
<1>2. /\ <<>> \in Seq(Owners)
      /\ <<>> \in Seq(Units)
  OBVIOUS
<1>3. /\ todo' \in [Units -> Nat]
      /\ report' \in [Units -> Seq(Owners)]
      /\ pc' \in [Workers -> WorkerPlaces]
      /\ unit' \in [Workers -> Units \cup {None}]
      /\ late' \in [Workers -> Nat]
  BY <1>2 DEF Quit, NothingTodo, NothingReported, Idle, NoUnit, NoneLate
<1>4. QED
  BY <1>1, <1>2, <1>3 DEF TypeOK, Quit

\* The number of times a relationship is derived is a number.
LEMMA DerivedCountType ==
    ASSUME TypeOK, NEW r \in Relations
    PROVE  DerivedCount(r) \in Nat
<1>1. /\ r.child \in Tables
      /\ Declared[r] \in Nat
  BY EngineAssumption
<1>2. Len(report[r.child]) \in Nat
  BY <1>1 DEF TypeOK, Units
<1>3. QED BY <1>1, <1>2 DEF DerivedCount

\* An entry more in the report.
LEMMA PushType ==
    ASSUME TypeOK, NEW u \in Units, NEW o \in Owners, PushResult(u, o)
    PROVE  report' \in [Units -> Seq(Owners)]
BY DEF TypeOK, PushResult

\* A worker that is busy has a unit, and its launch a schema.
LEMMA BusyWorker ==
    ASSUME ThreadsInv, NEW w \in Workers, pc[w] # "idle"
    PROVE  unit[w] \in Units /\ owner \in Owners /\ main \in Working
BY DEF ThreadsInv, Busy, Working

\* Every step of the program, and everything that happens to it, keeps every
\* variable of the right type.
LEMMA TypeStep ==
    ASSUME TypeOK, ThreadsInv, [Next]_vars
    PROVE  TypeOK'
<1> USE DEF TypeOK, StoreTypeOK, storeVars, mainVars, workVars
<1>1. ASSUME NEW o \in Owners, NEW resume \in BOOLEAN, Launch(o, resume)
      PROVE  TypeOK'
  BY <1>1, EngineAssumption DEF Launch
<1>2. CASE Connect
  BY <1>2 DEF Connect, Goto
<1>3. CASE ResetTables
  BY <1>3 DEF ResetTables, ResetInProgress, Goto
<1>4. CASE ResetRelations
  BY <1>4 DEF ResetRelations, ResetInProgress, Goto
<1>5. CASE OpenRun
  BY <1>5 DEF OpenRun, IsFreshRun, RecordStart, Goto
<1>6. CASE ListTables
  BY <1>6, EngineAssumption DEF ListTables, Goto, Units
<1>7. CASE MainThrows
  BY <1>7, QuitType DEF MainThrows
<1>8. ASSUME NEW u \in Units, SubmitUnit(u)
      PROVE  TypeOK'
  BY <1>8 DEF SubmitUnit, Visit, Submit
<1>9. ASSUME NEW u \in Units, LoadCached(u)
      PROVE  TypeOK'
  BY <1>9 DEF LoadCached, Visit, HasResult, Cached, PushResult
<1>10. ASSUME NEW u \in Units, RedoCached(u)
       PROVE  TypeOK'
  <2>1. report' \in [Units -> Seq(Owners)]
    BY <1>10, PushType DEF RedoCached, HasResult, Cached
  <2>2. /\ todo' \in [Units -> Nat]
        /\ status' \in [Units -> RowStatus]
        /\ queue' \in Seq(Units)
    BY <1>10 DEF RedoCached, Visit, MarkStatus, Submit
  <2>3. QED
    BY <1>10, <2>1, <2>2 DEF RedoCached, MarkStatus
<1>11. CASE SubmissionThrows
  BY <1>11 DEF SubmissionThrows, NothingTodo, Goto
<1>12. CASE PhaseThrows
  BY <1>12, QuitType DEF PhaseThrows
<1>13. CASE EndDiscovery
  BY <1>13 DEF EndDiscovery, Goto
<1>14. CASE DeriveRelations
  BY <1>14, DerivedCountType DEF DeriveRelations, Goto, Units
<1>15. CASE EndConsistency
  BY <1>15 DEF EndConsistency, Goto
<1>16. CASE Finish
  BY <1>16 DEF Finish, RecordEnd, Goto
<1>17. CASE WriteReports
  BY <1>17, QuitType DEF WriteReports
<1>18. ASSUME NEW w \in Workers, TakeTask(w)
       PROVE  TypeOK'
  <2>1. queue' \in Seq(Units) /\ Head(queue) \in Units
    BY <1>18 DEF TakeTask
  <2>2. /\ pc' \in [Workers -> WorkerPlaces]
        /\ unit' \in [Workers -> Units \cup {None}]
    <3>1. CASE stop
      BY <1>18, <3>1 DEF TakeTask
    <3>2. CASE ~stop
      <4>1. /\ pc' = [pc EXCEPT ![w] = "start"]
            /\ unit' = [unit EXCEPT ![w] = Head(queue)]
        BY <1>18, <3>2 DEF TakeTask
      <4>2. QED BY <4>1, <2>1
    <3>3. QED BY <3>1, <3>2
  <2>3. QED
    BY <1>18, <2>1, <2>2 DEF TakeTask
<1>19. ASSUME NEW w \in Workers, StartUnit(w)
       PROVE  TypeOK'
  BY <1>19, BusyWorker DEF StartUnit, At, MarkStatus
<1>20. ASSUME NEW w \in Workers, SaveResult(w)
       PROVE  TypeOK'
  <2>1. unit[w] \in Units /\ owner \in Owners
    BY <1>20, BusyWorker DEF SaveResult, At
  <2>2. /\ status' \in [Units -> RowStatus]
        /\ payload' \in [Units -> Payloads]
    BY <1>20, <2>1 DEF SaveResult, MarkDone
  <2>3. QED
    BY <1>20, <2>2 DEF SaveResult, At
<1>21. ASSUME NEW w \in Workers, QueryThrows(w)
       PROVE  TypeOK'
  BY <1>21 DEF QueryThrows, At
<1>22. ASSUME NEW w \in Workers, PushFinding(w)
       PROVE  TypeOK'
  BY <1>22, BusyWorker DEF PushFinding, At, PushResult
<1>23. ASSUME NEW w \in Workers, RecordError(w)
       PROVE  TypeOK'
  BY <1>23, BusyWorker DEF RecordError, At, MarkStatus
<1>24. ASSUME NEW w \in Workers, MarkThrows(w)
       PROVE  TypeOK'
  BY <1>24 DEF MarkThrows, Return
<1>25. ASSUME NEW w \in Workers, ReportProgress(w)
       PROVE  TypeOK'
  BY <1>25, EngineAssumption DEF ReportProgress, Return
<1>26. CASE Signal
  BY <1>26 DEF Signal
<1>27. CASE Crash
  BY <1>27, QuitType DEF Crash
<1>28. CASE UNCHANGED vars
  BY <1>28 DEF vars
<1>29. QED
  BY <1>1, <1>2, <1>3, <1>4, <1>5, <1>6, <1>7, <1>8, <1>9, <1>10, <1>11,
     <1>12, <1>13, <1>14, <1>15, <1>16, <1>17, <1>18, <1>19, <1>20, <1>21,
     <1>22, <1>23, <1>24, <1>25, <1>26, <1>27, <1>28
  DEF Next, MainStep, Submission, WorkerStep, Done

------------------------------------------------------------------------------
(* Threads *)

\* The end of a process leaves nothing to do and nobody busy.
LEMMA QuitThreads ==
    ASSUME NEW how, Quit(how)
    PROVE  ThreadsInv'
BY DEF ThreadsInv, Quit, NothingTodo, Idle, NoUnit, Busy

\* A step of the main thread between the phases.
LEMMA GotoThreads ==
    ASSUME TypeOK, ThreadsInv, NEW place \in MainPlaces \ {"off"},
           main \notin Working \cup {"off"}, Goto(place),
           place \notin Phases => UNCHANGED todo,
           UNCHANGED <<workVars, queue, failed>>
    PROVE  ThreadsInv'
BY DEF TypeOK, ThreadsInv, Goto, Working, workVars, Busy

\* Work is done only in a phase and by workers that hold a unit.
LEMMA ThreadsStep ==
    ASSUME TypeOK, ThreadsInv, [Next]_vars
    PROVE  ThreadsInv'
<1> USE DEF mainVars, workVars
<1>1. ASSUME NEW o \in Owners, NEW resume \in BOOLEAN, Launch(o, resume)
      PROVE  ThreadsInv'
  BY <1>1 DEF Launch, ThreadsInv, Working, Busy
<1>2. CASE Connect \/ ResetTables \/ ResetRelations \/ OpenRun \/ ListTables
  BY <1>2, GotoThreads
  DEF Connect, ResetTables, ResetRelations, OpenRun, ListTables, Working
<1>3. CASE DeriveRelations \/ Finish
  BY <1>3, GotoThreads DEF DeriveRelations, Finish, Working
<1>4. CASE MainThrows \/ PhaseThrows \/ WriteReports \/ Crash
  BY <1>4, QuitThreads DEF MainThrows, PhaseThrows, WriteReports, Crash
<1>5. ASSUME NEW u \in Units, SubmitUnit(u) \/ LoadCached(u) \/ RedoCached(u)
      PROVE  ThreadsInv'
  <2>1. /\ main \in Phases
        /\ UNCHANGED <<mainVars, workVars, failed>>
    BY <1>5 DEF SubmitUnit, LoadCached, RedoCached, Visit, InPhase
  <2>2. QED
    BY <2>1 DEF ThreadsInv, Busy, Working
<1>6. CASE SubmissionThrows
  BY <1>6 DEF SubmissionThrows, InPhase, NothingTodo, Goto, ThreadsInv, Busy,
              Working
<1>7. CASE EndDiscovery \/ EndConsistency
  BY <1>7 DEF EndDiscovery, EndConsistency, Barrier, Submitted, Drained, Goto,
              ThreadsInv, Busy, Working
<1>8. ASSUME NEW w \in Workers, TakeTask(w)
      PROVE  ThreadsInv'
  <2>1. Head(queue) \in Units /\ main \in Working
    BY <1>8 DEF TakeTask, TypeOK, ThreadsInv
  <2>2. UNCHANGED <<mainVars, todo, failed>>
    BY <1>8 DEF TakeTask
  <2>3. \A v \in Workers : IF Busy(v)' THEN unit'[v] \in Units
                                       ELSE unit'[v] = None
    BY <1>8, <2>1 DEF TakeTask, TypeOK, ThreadsInv, Busy
  <2>4. QED
    BY <2>1, <2>2, <2>3 DEF ThreadsInv, Working
<1>9. ASSUME NEW w \in Workers,
             \/ StartUnit(w) \/ SaveResult(w) \/ QueryThrows(w)
             \/ PushFinding(w) \/ RecordError(w)
      PROVE  ThreadsInv'
  <2>1. /\ pc[w] # "idle"
        /\ pc' = [pc EXCEPT ![w] = pc'[w]] /\ pc'[w] # "idle"
        /\ UNCHANGED <<mainVars, unit, todo, queue, failed>>
    BY <1>9 DEF StartUnit, SaveResult, QueryThrows, PushFinding, RecordError,
                At, TypeOK
  <2>2. QED
    BY <2>1 DEF ThreadsInv, TypeOK, Busy
<1>10. ASSUME NEW w \in Workers, MarkThrows(w) \/ ReportProgress(w)
       PROVE  ThreadsInv'
  <2>1. main \in Working
    BY <1>10, BusyWorker DEF MarkThrows, ReportProgress
  <2>2. QED
    BY <1>10, <2>1
    DEF MarkThrows, ReportProgress, Return, ThreadsInv, TypeOK, Busy
<1>11. CASE Signal
  BY <1>11 DEF Signal, ThreadsInv, Busy
<1>12. CASE UNCHANGED vars
  BY <1>12 DEF vars, ThreadsInv, Busy
<1>13. QED
  BY <1>1, <1>2, <1>3, <1>4, <1>5, <1>6, <1>7, <1>8, <1>9, <1>10, <1>11, <1>12
  DEF Next, MainStep, Submission, WorkerStep, Done

------------------------------------------------------------------------------
(* Payloads, the stop flag, and the two phases *)

\* A row that says Done has its result: only SaveResult makes a row Done, in
\* the statement that stores the result, and no statement removes a result.
LEMMA PayloadStep ==
    ASSUME TypeOK, ThreadsInv, DoneHasPayload, [Next]_vars
    PROVE  DoneHasPayload'
<1> USE DEF DoneHasPayload
<1>1. CASE ResetTables \/ ResetRelations
  BY <1>1 DEF ResetTables, ResetRelations, ResetInProgress
<1>2. ASSUME NEW u \in Units, RedoCached(u)
      PROVE  DoneHasPayload'
  BY <1>2 DEF RedoCached, MarkStatus, TypeOK, StoreTypeOK
<1>3. ASSUME NEW w \in Workers, StartUnit(w) \/ RecordError(w)
      PROVE  DoneHasPayload'
  BY <1>3 DEF StartUnit, RecordError, MarkStatus, TypeOK, StoreTypeOK
<1>4. ASSUME NEW w \in Workers, SaveResult(w)
      PROVE  DoneHasPayload'
  <2>1. unit[w] \in Units /\ owner # None
    BY <1>4, BusyWorker, StoreAssumption DEF SaveResult, At
  <2>2. QED
    BY <1>4, <2>1 DEF SaveResult, MarkDone, TypeOK, StoreTypeOK
<1>5. CASE UNCHANGED <<status, payload>>
  BY <1>5
<1>6. QED
  BY <1>1, <1>2, <1>3, <1>4, <1>5
  DEF Next, Launch, MainStep, Connect, OpenRun, ListTables, MainThrows,
      Submission, SubmitUnit, LoadCached, SubmissionThrows, PhaseThrows,
      EndDiscovery, DeriveRelations, EndConsistency, Finish, WriteReports,
      WorkerStep, TakeTask, QueryThrows, PushFinding, MarkThrows,
      ReportProgress, Signal, Crash, Done, vars, storeVars

\* A worker begins at most one unit after the stop: it takes no task then.
LEMMA StopStep ==
    ASSUME TypeOK, StopInv, [Next]_vars
    PROVE  StopInv'
<1> USE DEF StopInv
<1>1. CASE MainThrows \/ PhaseThrows \/ WriteReports \/ Crash
  BY <1>1 DEF MainThrows, PhaseThrows, WriteReports, Crash, Quit, Idle, NoneLate
<1>2. CASE Signal
  BY <1>2 DEF Signal, workVars
<1>3. ASSUME NEW w \in Workers, TakeTask(w)
      PROVE  StopInv'
  BY <1>3 DEF TakeTask, TypeOK
<1>4. ASSUME NEW w \in Workers, StartUnit(w)
      PROVE  StopInv'
  BY <1>4 DEF StartUnit, At, TypeOK
<1>5. ASSUME NEW w \in Workers,
             \/ SaveResult(w) \/ QueryThrows(w) \/ PushFinding(w)
             \/ RecordError(w) \/ MarkThrows(w) \/ ReportProgress(w)
      PROVE  StopInv'
  <2>1. /\ pc' = [pc EXCEPT ![w] = pc'[w]] /\ pc'[w] # "start"
        /\ UNCHANGED <<late, stop>>
    BY <1>5 DEF SaveResult, QueryThrows, PushFinding, RecordError, MarkThrows,
                ReportProgress, Return, At, TypeOK
  <2>2. QED
    BY <2>1 DEF TypeOK
<1>6. CASE UNCHANGED <<workVars, stop>>
  BY <1>6 DEF workVars
<1>7. QED
  BY <1>1, <1>2, <1>3, <1>4, <1>5, <1>6
  DEF Next, Launch, MainStep, Connect, ResetTables, ResetRelations, OpenRun,
      ListTables, Submission, SubmitUnit, LoadCached, RedoCached,
      SubmissionThrows, EndDiscovery, DeriveRelations, EndConsistency, Finish,
      WorkerStep, Done, vars

\* The elements of a queue without its first one.
LEMMA TailElements ==
    ASSUME NEW S, NEW q \in Seq(S), q # <<>>
    PROVE  /\ Len(Tail(q)) = Len(q) - 1
           /\ \A i \in 1..Len(Tail(q)) : i + 1 \in 1..Len(q) /\ Tail(q)[i] = q[i + 1]
OBVIOUS

\* The elements of a queue with one more.
LEMMA AppendElements ==
    ASSUME NEW S, NEW q \in Seq(S), NEW e \in S
    PROVE  /\ Len(Append(q, e)) = Len(q) + 1
           /\ \A i \in 1..Len(q) : Append(q, e)[i] = q[i]
           /\ Append(q, e)[Len(q) + 1] = e
OBVIOUS

\* The consistency phase begins when no table is left and nobody is busy, and
\* submits relationships only.
LEMMA PhaseStep ==
    ASSUME TypeOK, ThreadsInv, PhaseInv, [Next]_vars
    PROVE  PhaseInv'
<1> USE DEF PhaseInv, PhaseBarrier
<1>1. CASE main' # "consistency"
  BY <1>1
<1>2. CASE DeriveRelations /\ main' = "consistency"
  <2>1. /\ \A t \in Tables : todo'[t] = 0
        /\ UNCHANGED <<workVars, queue>>
    BY <1>2, StoreAssumption DEF DeriveRelations, Goto, Units
  <2>2. queue = <<>> /\ \A w \in Workers : unit[w] = None
    BY <1>2 DEF DeriveRelations, ThreadsInv, Working, Phases
  <2>3. QED
    BY <2>1, <2>2, StoreAssumption DEF workVars
<1>3. ASSUME NEW u \in Units, main' = "consistency",
             SubmitUnit(u) \/ LoadCached(u) \/ RedoCached(u)
      PROVE  PhaseInv'
  <2>1. /\ main = "consistency" /\ UNCHANGED unit
        /\ todo[u] > 0 /\ todo' = [todo EXCEPT ![u] = @ - 1]
        /\ queue' \in {queue, Append(queue, u)}
    BY <1>3 DEF SubmitUnit, LoadCached, RedoCached, Visit, Submit, mainVars,
                workVars
  <2>2. u \in Relations
    BY <2>1 DEF Units
  <2>3. \A t \in Tables : todo'[t] = 0
    BY <2>1, <2>2, StoreAssumption DEF TypeOK, Units
  <2>4. \A i \in 1..Len(queue') : queue'[i] \in Relations
    <3>1. CASE queue' = queue
      BY <2>1, <3>1
    <3>2. CASE queue' = Append(queue, u)
      BY <2>1, <2>2, <3>2, AppendElements DEF TypeOK
    <3>3. QED BY <2>1, <3>1, <3>2
  <2>5. QED
    BY <2>1, <2>3, <2>4
<1>4. ASSUME NEW w \in Workers, TakeTask(w), main' = "consistency"
      PROVE  PhaseInv'
  <2>1. /\ main = "consistency" /\ UNCHANGED todo
        /\ queue # <<>> /\ queue' = Tail(queue)
        /\ \/ UNCHANGED unit
           \/ unit' = [unit EXCEPT ![w] = Head(queue)]
    BY <1>4 DEF TakeTask, mainVars
  <2>2. Head(queue) \in Relations
    BY <2>1 DEF TypeOK
  <2>3. \A i \in 1..Len(queue') : queue'[i] \in Relations
    BY <2>1, TailElements DEF TypeOK
  <2>4. QED
    BY <2>1, <2>2, <2>3, StoreAssumption DEF TypeOK
<1>5. ASSUME NEW w \in Workers, MarkThrows(w) \/ ReportProgress(w)
      PROVE  PhaseInv'
  BY <1>5, StoreAssumption
  DEF MarkThrows, ReportProgress, Return, mainVars, TypeOK
<1>6. CASE UNCHANGED <<main, unit, todo, queue>>
  BY <1>6
<1>7. QED
  BY <1>1, <1>2, <1>3, <1>4, <1>5, <1>6
  DEF Next, Launch, MainStep, Connect, ResetTables, ResetRelations, OpenRun,
      ListTables, MainThrows, Quit, Goto, Submission, SubmissionThrows,
      PhaseThrows, EndDiscovery, EndConsistency, Finish, WriteReports,
      WorkerStep, StartUnit, SaveResult, QueryThrows, PushFinding, RecordError,
      At, Signal, Crash, Done, vars, mainVars, workVars

------------------------------------------------------------------------------
(* Rows *)

\* From the reset on, only a worker's unit is in_progress, so that a launch
\* that ends on its own account leaves no such row.
LEMMA RowsStep ==
    ASSUME TypeOK, ThreadsInv, RowsInv, [Next]_vars
    PROVE  RowsInv'
<1> USE DEF RowsInv, CleanExit, AfterReset, Holds
<1>1. ASSUME NEW o \in Owners, NEW resume \in BOOLEAN, Launch(o, resume)
      PROVE  RowsInv'
  BY <1>1 DEF Launch
<1>2. CASE Connect
  BY <1>2 DEF Connect, Goto, ThreadsInv
<1>3. CASE ResetTables
  BY <1>3, StoreAssumption DEF ResetTables, ResetInProgress, Goto, ThreadsInv, Units
<1>4. CASE ResetRelations
  <2>1. \A u \in Units : status'[u] # "in_progress"
    BY <1>4 DEF ResetRelations, ResetInProgress, Units
  <2>2. QED
    BY <1>4, <2>1 DEF ResetRelations, Goto
<1>5. CASE \/ OpenRun \/ ListTables \/ EndDiscovery \/ DeriveRelations
           \/ EndConsistency \/ Finish
  <2>1. /\ main \in AfterReset /\ main # "unwind"
        /\ main' # "resetRelations" /\ exit = "none"
        /\ UNCHANGED <<status, pc, unit, failed, exit>>
    BY <1>5 DEF OpenRun, ListTables, EndDiscovery, DeriveRelations,
       EndConsistency, Finish, Goto, workVars, storeVars, ThreadsInv
  <2>2. QED
    BY <2>1
<1>6. CASE MainThrows \/ PhaseThrows \/ Crash
  BY <1>6 DEF MainThrows, PhaseThrows, Crash, Quit
<1>7. CASE WriteReports
  <2>1. /\ ~failed /\ \A w \in Workers : pc[w] = "idle"
        /\ main \in AfterReset
    BY <1>7 DEF WriteReports, ThreadsInv, Working, Busy
  <2>2. \A u \in Units : status[u] # "in_progress"
    BY <1>7, <2>1 DEF WriteReports
  <2>3. QED
    BY <1>7, <2>2 DEF WriteReports, Quit, storeVars
<1>8. ASSUME NEW u \in Units, SubmitUnit(u) \/ LoadCached(u)
      PROVE  RowsInv'
  BY <1>8 DEF SubmitUnit, LoadCached, storeVars, mainVars, workVars
<1>9. ASSUME NEW u \in Units, RedoCached(u)
      PROVE  RowsInv'
  BY <1>9 DEF RedoCached, Visit, InPhase, MarkStatus, mainVars, workVars,
              ThreadsInv, TypeOK, StoreTypeOK
<1>10. CASE SubmissionThrows
  BY <1>10 DEF SubmissionThrows, InPhase, Goto, ThreadsInv
<1>11. ASSUME NEW w \in Workers, TakeTask(w)
       PROVE  RowsInv'
  <2>1. /\ UNCHANGED <<status, main, exit, failed>>
        /\ \A v \in Workers, u \in Units :
              Holds(v, u, {"query", "error"}) => Holds(v, u, {"query", "error"})'
    BY <1>11 DEF TakeTask, storeVars, mainVars, TypeOK
  <2>2. QED
    BY <2>1
<1>12. ASSUME NEW w \in Workers, StartUnit(w)
       PROVE  RowsInv'
  BY <1>12, BusyWorker
  DEF StartUnit, At, MarkStatus, mainVars, ThreadsInv, Working, TypeOK,
      StoreTypeOK
<1>13. ASSUME NEW w \in Workers, SaveResult(w) \/ RecordError(w)
       PROVE  RowsInv'
  <2>1. /\ unit[w] \in Units /\ main \in Working /\ exit = "none"
        /\ UNCHANGED <<main, exit, unit, failed>>
    BY <1>13, BusyWorker
    DEF SaveResult, RecordError, At, mainVars, ThreadsInv, Working
  <2>2. /\ status'[unit[w]] # "in_progress"
        /\ \A u \in Units \ {unit[w]} : UNCHANGED status[u]
        /\ \A v \in Workers \ {w} : UNCHANGED pc[v]
    BY <1>13, <2>1
    DEF SaveResult, RecordError, At, MarkDone, MarkStatus, TypeOK, StoreTypeOK
  <2>3. QED
    BY <2>1, <2>2 DEF Working
<1>14. ASSUME NEW w \in Workers, QueryThrows(w) \/ PushFinding(w)
       PROVE  RowsInv'
  <2>1. UNCHANGED <<status, main, exit, unit, failed>>
    BY <1>14 DEF QueryThrows, PushFinding, At, storeVars, mainVars
  <2>2. /\ (pc[w] = "query" /\ pc'[w] = "error") \/ pc[w] = "push"
        /\ \A v \in Workers \ {w} : UNCHANGED pc[v]
    BY <1>14 DEF QueryThrows, PushFinding, At, TypeOK
  <2>3. \A v \in Workers : pc[v] \in {"query", "error"} => pc'[v] \in {"query", "error"}
    BY <2>2
  <2>4. QED
    BY <2>1, <2>3
<1>15. ASSUME NEW w \in Workers, MarkThrows(w)
       PROVE  RowsInv'
  BY <1>15, BusyWorker
  DEF MarkThrows, Return, storeVars, mainVars, ThreadsInv, Working
<1>16. ASSUME NEW w \in Workers, ReportProgress(w)
       PROVE  RowsInv'
  <2>1. UNCHANGED <<status, main, exit>> /\ (~failed' => ~failed)
    BY <1>16 DEF ReportProgress, Return, storeVars, mainVars
  <2>2. /\ pc[w] = "progress"
        /\ \A v \in Workers \ {w} : UNCHANGED <<pc[v], unit[v]>>
    BY <1>16 DEF ReportProgress, Return, TypeOK
  <2>3. QED
    BY <2>1, <2>2
<1>17. CASE Signal
  BY <1>17 DEF Signal, storeVars, mainVars, workVars
<1>18. CASE UNCHANGED vars
  BY <1>18 DEF vars, storeVars, mainVars, workVars
<1>19. QED
  BY <1>1, <1>2, <1>3, <1>4, <1>5, <1>6, <1>7, <1>8, <1>9, <1>10, <1>11,
     <1>12, <1>13, <1>14, <1>15, <1>16, <1>17, <1>18
  DEF Next, MainStep, Submission, WorkerStep, Done

------------------------------------------------------------------------------
(* The plan *)

\* What a submission does to the queue.
LEMMA SubmitQueues ==
    ASSUME TypeOK, NEW u \in Units, Submit(u)
    PROVE  /\ InQueue(u)'
           /\ \A v \in Units : InQueue(v) => InQueue(v)'
<1>1. /\ queue' = Append(queue, u) /\ Len(queue) \in Nat
      /\ Len(queue') = Len(queue) + 1
      /\ \A i \in 1..Len(queue) : queue'[i] = queue[i]
      /\ queue'[Len(queue) + 1] = u
  BY AppendElements DEF TypeOK, Submit
<1>2. QED
  BY <1>1 DEF InQueue

\* What a worker does to the queue.
LEMMA TakeTakes ==
    ASSUME TypeOK, NEW w \in Workers, TakeTask(w)
    PROVE  \A u \in Units : InQueue(u) => u = Head(queue) \/ InQueue(u)'
<1>1. SUFFICES ASSUME NEW u \in Units, NEW i \in 1..Len(queue), queue[i] = u,
                      u # Head(queue)
               PROVE  InQueue(u)'
  BY DEF InQueue
<1>2. /\ queue \in Seq(Units) /\ queue # <<>> /\ queue' = Tail(queue)
      /\ Head(queue) = queue[1]
  BY DEF TypeOK, TakeTask
<1>3. /\ Len(queue') = Len(queue) - 1 /\ i # 1
      /\ \A j \in 1..Len(queue') : queue'[j] = queue[j + 1]
  BY <1>1, <1>2, TailElements
<1>4. i - 1 \in 1..Len(queue') /\ queue'[i - 1] = u
  BY <1>1, <1>2, <1>3
<1>5. QED
  BY <1>4 DEF InQueue

\* What a step that leaves the main thread alone has to preserve.
LEMMA PlanKept ==
    ASSUME TypeOK, PlanInv, UNCHANGED <<mainVars, stop>>, ~failed' => ~failed,
           \A u \in Units : /\ RowSettles(u) => RowSettles(u)'
                            /\ ResultArrives(u) => ResultArrives(u)'
    PROVE  PlanInv'
BY DEF PlanInv, TypeOK, mainVars

\* No unit is lost sight of while nothing of it changes.
LEMMA UnitKept ==
    ASSUME NEW u \in Units,
           UNCHANGED status[u],
           report[u] # <<>> => report'[u] # <<>>,
           todo[u] > 0 => todo'[u] > 0,
           InQueue(u) => InQueue(u)',
           \A v \in Workers : pc[v] \in {"start", "query", "error", "push"} /\ unit[v] = u
                                 => UNCHANGED <<pc[v], unit[v]>>
    PROVE  /\ RowSettles(u) => RowSettles(u)'
           /\ ResultArrives(u) => ResultArrives(u)'
BY DEF RowSettles, ResultArrives, Ahead, Holds

\* A launch that has planned a unit deals with it, unless a stop or an
\* exception cuts the launch short.
LEMMA PlanStep ==
    ASSUME TypeOK, ThreadsInv, PlanInv, [Next]_vars
    PROVE  PlanInv'
<1>1. ASSUME main' \notin Phases \cup {"derive"}, verdict' # "completed"
      PROVE  PlanInv'
  BY <1>1 DEF PlanInv
<1>2. CASE ListTables
  <2>1. \A u \in plan' : todo'[u] > 0
    BY <1>2, EngineAssumption DEF ListTables, Units
  <2>2. verdict' # "completed"
    BY <1>2 DEF ListTables, PlanInv
  <2>3. QED
    BY <2>1, <2>2 DEF PlanInv, RowSettles, ResultArrives, Ahead
<1>3. ASSUME NEW u \in Units, SubmitUnit(u) \/ RedoCached(u)
      PROVE  PlanInv'
  <2>1. UNCHANGED <<mainVars, workVars, stop, failed>>
    BY <1>3 DEF SubmitUnit, RedoCached
  <2>2. Submit(u) /\ todo' = [todo EXCEPT ![u] = @ - 1]
    BY <1>3 DEF SubmitUnit, RedoCached, Visit
  <2>3. /\ InQueue(u)'
        /\ \A v \in Units : InQueue(v) => InQueue(v)'
    BY <2>2, SubmitQueues
  <2>4. \A v \in Units \ {u} : UNCHANGED <<status[v], report[v], todo[v]>>
    BY <1>3, <2>2
    DEF SubmitUnit, RedoCached, PushResult, MarkStatus, storeVars, TypeOK,
        StoreTypeOK
  <2>5. RowSettles(u)' /\ ResultArrives(u)'
    BY <2>3 DEF RowSettles, ResultArrives, Ahead
  <2>6. \A v \in Units \ {u} : /\ RowSettles(v) => RowSettles(v)'
                               /\ ResultArrives(v) => ResultArrives(v)'
    BY <2>1, <2>3, <2>4, UnitKept DEF workVars
  <2>7. QED
    BY <2>1, <2>5, <2>6, PlanKept
<1>4. ASSUME NEW u \in Units, LoadCached(u)
      PROVE  PlanInv'
  <2>1. UNCHANGED <<mainVars, workVars, stop, failed, status, queue>>
    BY <1>4 DEF LoadCached, storeVars
  <2>2. /\ status[u] = "done" /\ payload[u] \in Owners
        /\ report' = [report EXCEPT ![u] = Append(@, payload[u])]
    BY <1>4 DEF LoadCached, HasResult, Cached, GetStatus, PushResult
  <2>3. report'[u] # <<>>
    <3>1. report \in [Units -> Seq(Owners)] /\ report[u] \in Seq(Owners)
      BY DEF TypeOK
    <3>2. report'[u] = Append(report[u], payload[u])
      BY <2>2, <3>1
    <3>3. QED
      BY <2>2, <3>1, <3>2
  <2>4. \A v \in Units \ {u} : UNCHANGED <<report[v], todo[v]>>
    BY <1>4, <2>2 DEF LoadCached, Visit, TypeOK
  <2>5. \A v \in Units : InQueue(v) => InQueue(v)'
    BY <2>1 DEF InQueue
  <2>6. RowSettles(u)' /\ ResultArrives(u)'
    BY <2>1, <2>2, <2>3 DEF RowSettles, ResultArrives
  <2>7. \A v \in Units \ {u} : /\ RowSettles(v) => RowSettles(v)'
                               /\ ResultArrives(v) => ResultArrives(v)'
    BY <2>1, <2>4, <2>5, UnitKept DEF workVars
  <2>8. QED
    BY <2>1, <2>6, <2>7, PlanKept
<1>5. CASE DeriveRelations /\ ~stop
  <2>1. /\ main = "derive" /\ ~failed
        /\ \A u \in Units : todo[u] = 0
    BY <1>5 DEF DeriveRelations, ThreadsInv, Working
  <2>2. UNCHANGED <<status, report, queue, pc, unit, verdict>>
    BY <1>5 DEF DeriveRelations, storeVars, workVars
  <2>3. \A u \in plan' : u \in plan \/ todo'[u] > 0
    BY <1>5, DerivedCountType DEF DeriveRelations, Units
  <2>4. \A u \in plan : /\ RowSettles(u) /\ ResultArrives(u)
                        /\ u \in Units
    BY <1>5, <2>1 DEF PlanInv, TypeOK
  <2>5. \A u \in plan : RowSettles(u)' /\ ResultArrives(u)'
    BY <2>1, <2>2, <2>4, UnitKept DEF InQueue
  <2>6. \A u \in plan' \ plan : RowSettles(u)' /\ ResultArrives(u)'
    BY <2>3 DEF RowSettles, ResultArrives, Ahead
  <2>7. main' = "consistency" /\ verdict' # "completed"
    BY <1>5, <2>1, <2>2 DEF DeriveRelations, Goto, PlanInv
  <2>8. QED
    BY <2>5, <2>6, <2>7 DEF PlanInv
<1>6. CASE \/ EndDiscovery /\ ~stop
           \/ EndConsistency /\ ~stop
           \/ Finish
  <2>1. UNCHANGED <<status, report, todo, queue, pc, unit, plan, stop, failed>>
    BY <1>6 DEF EndDiscovery, EndConsistency, Finish, storeVars, workVars
  <2>2. \A u \in Units : /\ RowSettles(u) => RowSettles(u)'
                         /\ ResultArrives(u) => ResultArrives(u)'
    BY <2>1, UnitKept DEF InQueue
  <2>3. CASE (EndDiscovery \/ EndConsistency) /\ ~stop
    <3>1. \A u \in plan : RowSettles(u) /\ ResultArrives(u)
      BY <2>3 DEF EndDiscovery, EndConsistency, Barrier, PlanInv
    <3>2. verdict' = "completed" => main' \in {"finish", "report"}
      BY <2>3 DEF EndDiscovery, EndConsistency, Goto, PlanInv
    <3>3. QED
      BY <2>1, <2>2, <3>1, <3>2 DEF PlanInv, TypeOK
  <2>4. CASE Finish
    <3>1. main' = "report" /\ UNCHANGED verdict
      BY <2>4 DEF Finish, Goto
    <3>2. QED
      BY <2>1, <2>2, <3>1 DEF PlanInv, TypeOK
  <2>5. QED BY <1>6, <2>3, <2>4
<1>7. ASSUME NEW w \in Workers, TakeTask(w)
      PROVE  PlanInv'
  <2>1. /\ main \in Working /\ verdict # "completed"
        /\ UNCHANGED <<mainVars, stop, failed, status, report, todo>>
    BY <1>7 DEF TakeTask, ThreadsInv, Working, PlanInv, storeVars
  <2>2. CASE stop
    BY <2>1, <2>2 DEF PlanInv, mainVars
  <2>3. CASE ~stop
    <3>1. /\ pc[w] = "idle"
          /\ pc'[w] = "start" /\ unit'[w] = Head(queue)
          /\ \A v \in Workers \ {w} : UNCHANGED <<pc[v], unit[v]>>
      BY <1>7, <2>3 DEF TakeTask, TypeOK
    <3>2. PICK h \in Units : h = Head(queue)
      BY <1>7 DEF TakeTask, TypeOK
    <3>3. RowSettles(h)' /\ ResultArrives(h)'
      BY <3>1, <3>2 DEF RowSettles, ResultArrives, Ahead, Holds
    <3>4. \A u \in Units \ {h} : InQueue(u) => InQueue(u)'
      BY <1>7, <3>2, TakeTakes
    <3>5. \A u \in Units \ {h} : /\ RowSettles(u) => RowSettles(u)'
                                 /\ ResultArrives(u) => ResultArrives(u)'
      BY <2>1, <3>1, <3>4, UnitKept
    <3>6. QED
      BY <2>1, <3>3, <3>5, PlanKept
  <2>4. QED BY <2>2, <2>3
<1>8. ASSUME NEW w \in Workers, StartUnit(w) \/ SaveResult(w) \/ RecordError(w)
      PROVE  PlanInv'
  <2>1. /\ unit[w] \in Units
        /\ UNCHANGED <<mainVars, unit, stop, failed, report, todo, queue>>
    BY <1>8, BusyWorker DEF StartUnit, SaveResult, RecordError, At
  <2>2. /\ \A v \in Workers \ {w} : UNCHANGED pc[v]
        /\ \A u \in Units \ {unit[w]} : UNCHANGED status[u]
    BY <1>8, <2>1
    DEF StartUnit, SaveResult, RecordError, At, MarkStatus, MarkDone, TypeOK,
        StoreTypeOK
  <2>3. \/ status'[unit[w]] = "in_progress" /\ pc'[w] = "query"
        \/ status'[unit[w]] = "done" /\ pc'[w] = "push"
        \/ status'[unit[w]] = "error"
    BY <1>8, <2>1
    DEF StartUnit, SaveResult, RecordError, At, MarkStatus, MarkDone, TypeOK,
        StoreTypeOK
  <2>4. \A u \in Units : InQueue(u) => InQueue(u)'
    BY <2>1 DEF InQueue
  <2>5. RowSettles(unit[w])' /\ ResultArrives(unit[w])'
    BY <2>1, <2>3 DEF RowSettles, ResultArrives, Holds
  <2>6. \A u \in Units \ {unit[w]} :
           /\ RowSettles(u) => RowSettles(u)'
           /\ ResultArrives(u) => ResultArrives(u)'
    BY <2>1, <2>2, <2>4, UnitKept
  <2>7. QED
    BY <2>1, <2>5, <2>6, PlanKept
<1>9. ASSUME NEW w \in Workers, QueryThrows(w)
      PROVE  PlanInv'
  <2>1. UNCHANGED <<mainVars, unit, stop, failed, status, report, todo, queue>>
    BY <1>9 DEF QueryThrows, At, storeVars
  <2>2. /\ pc[w] = "query" /\ pc'[w] = "error"
        /\ \A v \in Workers \ {w} : UNCHANGED pc[v]
    BY <1>9 DEF QueryThrows, At, TypeOK
  <2>3. \A u \in Units : InQueue(u) => InQueue(u)'
    BY <2>1 DEF InQueue
  <2>4. \A u \in Units : /\ RowSettles(u) => RowSettles(u)'
                         /\ ResultArrives(u) => ResultArrives(u)'
    BY <2>1, <2>2, <2>3 DEF RowSettles, ResultArrives, Ahead, Holds
  <2>5. QED
    BY <2>1, <2>4, PlanKept
<1>10. ASSUME NEW w \in Workers, PushFinding(w)
       PROVE  PlanInv'
  <2>1. /\ unit[w] \in Units /\ owner \in Owners
        /\ UNCHANGED <<mainVars, unit, stop, failed, status, todo, queue>>
    BY <1>10, BusyWorker DEF PushFinding, At, storeVars
  <2>2. /\ pc[w] = "push" /\ pc'[w] = "progress"
        /\ \A v \in Workers \ {w} : UNCHANGED pc[v]
    BY <1>10 DEF PushFinding, At, TypeOK
  <2>3. /\ report'[unit[w]] # <<>>
        /\ \A u \in Units \ {unit[w]} : UNCHANGED report[u]
    BY <1>10, <2>1 DEF PushFinding, PushResult, TypeOK
  <2>4. \A u \in Units : InQueue(u) => InQueue(u)'
    BY <2>1 DEF InQueue
  <2>5. /\ RowSettles(unit[w]) => RowSettles(unit[w])'
        /\ ResultArrives(unit[w])'
    BY <2>1, <2>2, <2>3, <2>4 DEF RowSettles, ResultArrives, Ahead, Holds
  <2>6. \A u \in Units \ {unit[w]} :
           /\ RowSettles(u) => RowSettles(u)'
           /\ ResultArrives(u) => ResultArrives(u)'
    BY <2>1, <2>2, <2>3, <2>4, UnitKept
  <2>7. QED
    BY <2>1, <2>5, <2>6, PlanKept
<1>11. ASSUME NEW w \in Workers, MarkThrows(w) \/ ReportProgress(w)
       PROVE  PlanInv'
  <2>1. /\ main \in Working /\ verdict # "completed"
        /\ UNCHANGED <<mainVars, stop, status, todo, queue, report>>
        /\ ~failed' => ~failed
    BY <1>11, BusyWorker
    DEF MarkThrows, ReportProgress, Return, Working, PlanInv, storeVars
  <2>2. CASE failed'
    BY <2>1, <2>2 DEF PlanInv, mainVars
  <2>3. CASE ~failed'
    <3>1. /\ pc[w] = "progress"
          /\ \A v \in Workers \ {w} : UNCHANGED <<pc[v], unit[v]>>
      BY <1>11, <2>3 DEF MarkThrows, ReportProgress, Return, TypeOK
    <3>2. \A u \in Units : InQueue(u) => InQueue(u)'
      BY <2>1 DEF InQueue
    <3>3. \A u \in Units : /\ RowSettles(u) => RowSettles(u)'
                           /\ ResultArrives(u) => ResultArrives(u)'
      BY <2>1, <3>1, <3>2, UnitKept
    <3>4. QED
      BY <2>1, <3>3, PlanKept
  <2>4. QED BY <2>2, <2>3
<1>12. CASE Signal \/ UNCHANGED vars
  <2>1. /\ ~stop' => ~stop
        /\ UNCHANGED <<main, verdict, plan, status, report, todo, queue, pc,
                       unit, failed>>
    BY <1>12 DEF Signal, vars, storeVars, mainVars, workVars
  <2>2. \A u \in Units : /\ RowSettles(u) => RowSettles(u)'
                         /\ ResultArrives(u) => ResultArrives(u)'
    BY <2>1, UnitKept DEF InQueue
  <2>3. QED
    BY <2>1, <2>2 DEF PlanInv, TypeOK
<1>13. ASSUME NEW o \in Owners, NEW resume \in BOOLEAN, Launch(o, resume)
       PROVE  PlanInv'
  BY <1>13, <1>1 DEF Launch, PlanInv
<1>14. CASE \/ Connect \/ ResetTables \/ ResetRelations \/ OpenRun
            \/ SubmissionThrows
            \/ stop /\ (EndDiscovery \/ DeriveRelations \/ EndConsistency)
  BY <1>14, <1>1
  DEF Connect, ResetTables, ResetRelations, OpenRun, SubmissionThrows, InPhase,
      EndDiscovery, DeriveRelations, EndConsistency, Goto, PlanInv
<1>15. CASE MainThrows \/ PhaseThrows \/ WriteReports \/ Crash
  BY <1>15, <1>1 DEF MainThrows, PhaseThrows, WriteReports, Crash, Quit
<1>16. CASE EndDiscovery \/ DeriveRelations \/ EndConsistency
  BY <1>5, <1>6, <1>14, <1>16
<1>17. CASE MainStep
  BY <1>2, <1>3, <1>4, <1>6, <1>14, <1>15, <1>16, <1>17
  DEF MainStep, Submission
<1>18. ASSUME NEW w \in Workers, WorkerStep(w)
       PROVE  PlanInv'
  BY <1>7, <1>8, <1>9, <1>10, <1>11, <1>18 DEF WorkerStep
<1>19. QED
  BY <1>12, <1>13, <1>15, <1>17, <1>18 DEF Next, Done

------------------------------------------------------------------------------
(* The theorems *)

\* The invariant holds to begin with, and every step keeps it.
LEMMA InitInvariant == Init => InductiveInvariant
<1> SUFFICES ASSUME Init PROVE InductiveInvariant
  OBVIOUS
<1>1. TypeOK
  <2>1. StoreTypeOK
    BY StoreAssumption, EngineAssumption
    DEF Init, StoreTypeOK, NoRunInfo, Units
  <2>2. /\ <<>> \in Seq(Owners)
        /\ <<>> \in Seq(Units)
    OBVIOUS
  <2>3. /\ todo \in [Units -> Nat]
        /\ report \in [Units -> Seq(Owners)]
        /\ pc \in [Workers -> WorkerPlaces]
        /\ unit \in [Workers -> Units \cup {None}]
        /\ late \in [Workers -> Nat]
    BY <2>2 DEF Init, NothingTodo, NothingReported, Idle, NoUnit, NoneLate
  <2>4. /\ run \in 0..MaxRuns
        /\ plan \subseteq Units
        /\ queue \in Seq(Units)
        /\ main \in MainPlaces /\ exit \in Exits
        /\ owner \in Owners \cup {None}
        /\ verdict \in {"interrupted", "completed"}
        /\ stop \in BOOLEAN /\ failed \in BOOLEAN
        /\ misread \subseteq Units
    <3>1. /\ run = 0 /\ plan = {} /\ queue = <<>> /\ misread = {}
          /\ main = "off" /\ exit = "none" /\ owner = None
          /\ verdict = "interrupted" /\ stop = FALSE /\ failed = FALSE
      BY DEF Init
    <3>2. MaxRuns \in Nat
      BY EngineAssumption
    <3>3. /\ run \in 0..MaxRuns /\ plan \subseteq Units
          /\ misread \subseteq Units /\ queue \in Seq(Units)
      BY <3>1, <3>2, <2>2
    <3>4. QED
      BY <3>1, <3>3
  <2>5. QED
    BY <2>1, <2>3, <2>4 DEF TypeOK
<1>2. ThreadsInv
  BY DEF Init, ThreadsInv, NothingTodo, Idle, NoUnit, Busy
<1>3. DoneHasPayload
  BY StoreAssumption DEF Init, DoneHasPayload
<1>4. StopInv
  BY DEF Init, StopInv, Idle, NoneLate
<1>5. RowsInv
  BY DEF Init, RowsInv, CleanExit, AfterReset
<1>6. PhaseInv /\ PlanInv
  BY DEF Init, PhaseInv, PhaseBarrier, PlanInv
<1>7. QED
  BY <1>1, <1>2, <1>3, <1>4, <1>5, <1>6 DEF InductiveInvariant

\* Every step keeps the invariant.
LEMMA InvariantStep == InductiveInvariant /\ [Next]_vars => InductiveInvariant'
BY TypeStep, ThreadsStep, PayloadStep, StopStep, RowsStep, PhaseStep, PlanStep
DEF InductiveInvariant

\* All that the following theorems are read off from.
THEOREM Invariance == Spec => []InductiveInvariant
BY InitInvariant, InvariantStep, PTL DEF Spec

\* Every variable keeps its type, in every behaviour.
THEOREM TypeCorrect == Spec => []TypeOK
<1>1. InductiveInvariant => TypeOK
  BY DEF InductiveInvariant
<1>2. QED
  BY Invariance, <1>1, PTL

\* ScanEngine.cpp:104 and 155: a worker begins at most one unit after the
\* stop, whatever the number of tasks that are queued then or later.
THEOREM StopIsObeyed == Spec => []LateStarts
<1>1. InductiveInvariant => LateStarts
  BY DEF InductiveInvariant, TypeOK, StopInv, LateStarts
<1>2. QED
  BY Invariance, <1>1, PTL

\* CheckpointStore.hpp:48-50: a row that says Done has its result, also after
\* a crash between any two statements.
THEOREM DoneRowsAreLoadable == Spec => []DoneHasPayload
<1>1. InductiveInvariant => DoneHasPayload
  BY DEF InductiveInvariant
<1>2. QED
  BY Invariance, <1>1, PTL

\* A launch that exits with 0 or 130 leaves no row in_progress.
THEOREM ExitIsClean == Spec => []CleanExit
<1>1. InductiveInvariant => CleanExit
  BY DEF InductiveInvariant, RowsInv
<1>2. QED
  BY Invariance, <1>1, PTL

\* ScanEngine.cpp:123: nobody works on a table in the consistency phase.
THEOREM PhasesAreSeparate == Spec => []PhaseBarrier
<1>1. InductiveInvariant => PhaseBarrier
  BY DEF InductiveInvariant, PhaseInv
<1>2. QED
  BY Invariance, <1>1, PTL

\* ScanEngine.cpp:229: a run that calls itself Completed has dealt with all it
\* planned, even when relationships are listed twice, the progress callback
\* throws, or the store was left behind by a crash.
THEOREM CompletedIsComplete == Spec => []CompletedMeansNothingSkipped
<1>1. InductiveInvariant => CompletedMeansNothingSkipped
  <2> SUFFICES ASSUME InductiveInvariant, main = "report",
                      verdict = "completed", NEW u \in plan
               PROVE  \/ status[u] = "done" /\ report[u] # <<>>
                      \/ status[u] = "error"
    BY DEF CompletedMeansNothingSkipped
  <2>1. /\ RowSettles(u) /\ ResultArrives(u)
        /\ u \in Units
    BY DEF InductiveInvariant, PlanInv, TypeOK
  <2>2. /\ queue = <<>> /\ todo[u] = 0
        /\ \A w \in Workers : pc[w] = "idle"
    BY <2>1 DEF InductiveInvariant, ThreadsInv, Working, Busy
  <2>3. ~Ahead(u)
    BY <2>2 DEF Ahead, InQueue, Holds
  <2>4. QED
    BY <2>1, <2>2, <2>3 DEF RowSettles, ResultArrives, Holds
<1>2. QED
  BY Invariance, <1>1, PTL
==============================================================================
