------------------------- MODULE ScanEngineOnceProofs -------------------------
(***************************************************************************)
(* Theorems about ScanEngine where no relationship is declared twice and   *)
(* the progress callback does not throw (UnitsOnce): every unit is worked  *)
(* on by one worker at a time, a stored result is read again only if a     *)
(* SELECT missed its row, and the report of a launch agrees with the       *)
(* checkpoint it leaves.                                                   *)
(***************************************************************************)
EXTENDS ScanEngineProofs, SequenceFacts

USE DEF RowStatus, Phases, WorkerPlaces

------------------------------------------------------------------------------
(* The queue as a set without repetitions *)

\* No task of the queue has the unit of another one.
QueueOnce == \A i, j \in 1..Len(queue) : queue[i] = queue[j] => i = j

\* A unit that is not in the queue goes to its end.
LEMMA SubmitOnce ==
    ASSUME TypeOK, QueueOnce, NEW u \in Units, ~InQueue(u), Submit(u)
    PROVE  QueueOnce' /\ \A v : InQueue(v)' <=> InQueue(v) \/ v = u
<1>1. PICK q : q = queue
  OBVIOUS
<1>2. q \in Seq(Units) /\ queue' = Append(q, u)
  BY <1>1 DEF TypeOK, Submit
<1>3. /\ Len(q) \in Nat /\ Len(Append(q, u)) = Len(q) + 1
      /\ \A i \in 1..Len(q) : Append(q, u)[i] = q[i]
      /\ Append(q, u)[Len(q) + 1] = u
      /\ Distinct(Append(q, u))
  <2>1. Distinct(q) /\ \A i \in 1..Len(q) : q[i] # u
    BY <1>1 DEF Distinct, QueueOnce, InQueue
  <2>2. QED
    BY <1>2, <2>1, Appended, AppendElements
<1>4. PICK n \in Nat : n = Len(q)
  BY <1>3
<1>5. \A i \in 1..n + 1 : i = n + 1 \/ i \in 1..n
  OBVIOUS
<1>6. QueueOnce'
  BY <1>2, <1>3 DEF QueueOnce, Distinct
<1>7. ASSUME NEW v
      PROVE  InQueue(v)' <=> InQueue(v) \/ v = u
  <2>1. InQueue(v)' <=> \E i \in 1..n + 1 : Append(q, u)[i] = v
    BY <1>2, <1>3, <1>4 DEF InQueue
  <2>2. InQueue(v) <=> \E i \in 1..n : q[i] = v
    BY <1>1, <1>4 DEF InQueue
  <2>3. n + 1 \in 1..n + 1 /\ \A i \in 1..n : i \in 1..n + 1
    OBVIOUS
  <2>4. QED
    BY <1>3, <1>4, <1>5, <2>1, <2>2, <2>3
<1>8. QED
  BY <1>6, <1>7

\* A worker takes the first unit of the queue, and the others stay.
LEMMA TakeOnce ==
    ASSUME TypeOK, QueueOnce, queue # <<>>, queue' = Tail(queue)
    PROVE  /\ Head(queue) \in Units /\ InQueue(Head(queue)) /\ QueueOnce'
           /\ \A v : InQueue(v)' <=> InQueue(v) /\ v # Head(queue)
<1>1. PICK q : q = queue
  OBVIOUS
<1>2. q \in Seq(Units) /\ q # <<>> /\ queue' = Tail(q)
  BY <1>1 DEF TypeOK
<1>3. /\ Len(q) \in Nat \ {0} /\ Len(Tail(q)) = Len(q) - 1
      /\ Head(q) = q[1] /\ Head(q) \in Units
      /\ \A i \in 1..Len(Tail(q)) : Tail(q)[i] = q[i + 1]
      /\ Distinct(Tail(q)) /\ \A i \in 1..Len(Tail(q)) : Tail(q)[i] # Head(q)
  <2>1. Distinct(q)
    BY <1>1 DEF Distinct, QueueOnce
  <2>2. QED
    BY <1>2, <2>1, Taken
<1>4. PICK n \in Nat \ {0} : n = Len(q)
  BY <1>3
<1>5. QueueOnce'
  BY <1>2, <1>3 DEF QueueOnce, Distinct
<1>6. InQueue(Head(queue)) /\ Head(queue) \in Units
  BY <1>1, <1>3 DEF InQueue
<1>7. ASSUME NEW v
      PROVE  InQueue(v)' <=> InQueue(v) /\ v # Head(queue)
  <2>1. InQueue(v)' <=> \E i \in 1..n - 1 : Tail(q)[i] = v
    BY <1>2, <1>3, <1>4 DEF InQueue
  <2>2. InQueue(v) <=> \E i \in 1..n : q[i] = v
    BY <1>1, <1>4 DEF InQueue
  <2>3. \A i \in 1..n - 1 : i + 1 \in 1..n /\ Tail(q)[i] = q[i + 1] /\ Tail(q)[i] # q[1]
    BY <1>3, <1>4
  <2>4. \A i \in 1..n : i = 1 \/ (i - 1 \in 1..n - 1 /\ i = (i - 1) + 1)
    OBVIOUS
  <2>5. Head(queue) = q[1]
    BY <1>1, <1>3
  <2>6. InQueue(v)' => InQueue(v) /\ v # q[1]
    BY <2>1, <2>2, <2>3
  <2>7. ASSUME InQueue(v), v # q[1]
        PROVE  InQueue(v)'
    <3>1. PICK i \in 1..n : q[i] = v
      BY <2>2, <2>7
    <3>2. i - 1 \in 1..n - 1 /\ Tail(q)[i - 1] = v
      BY <2>3, <2>4, <2>7, <3>1
    <3>3. QED
      BY <2>1, <3>2
  <2>8. QED
    BY <2>5, <2>6, <2>7
<1>8. QED
  BY <1>5, <1>6, <1>7

\* Nothing is in an empty queue.
LEMMA EmptyOnce == queue = <<>> => QueueOnce /\ \A v : ~InQueue(v)
BY DEF QueueOnce, InQueue

\* With the queue as it is, so is what is in it.
LEMMA QueueKept ==
    ASSUME UNCHANGED queue
    PROVE  (QueueOnce' <=> QueueOnce) /\ \A v : InQueue(v)' <=> InQueue(v)
BY DEF QueueOnce, InQueue

------------------------------------------------------------------------------
(* Places *)

\* A relationship is derived at most once: inference looks at every entry of
\* the report, of which there is one per table, and skips declared keys.
LEMMA DerivedOnce ==
    ASSUME UnitsOnce, TypeOK, ResultsInv, NEW r \in Relations
    PROVE  DerivedCount(r) <= 1
<1>1. /\ r.child \in Units
      /\ Declared[r] \in Nat /\ Declared[r] <= 1
  BY EngineAssumption DEF UnitsOnce, Units
<1>2. Len(report[r.child]) \in Nat /\ Len(report[r.child]) <= 1
  BY <1>1 DEF TypeOK, ResultsInv
<1>3. CASE ~Within(r)
  BY <1>3 DEF DerivedCount
<1>4. CASE Within(r) /\ Declared[r] > 0
  <2>1. AlreadyDeclared(r)
    BY <1>4 DEF AlreadyDeclared
  <2>2. QED BY <1>1, <1>4, <2>1 DEF DerivedCount
<1>5. CASE Within(r) /\ Declared[r] = 0
  BY <1>2, <1>5 DEF DerivedCount
<1>6. QED BY <1>1, <1>3, <1>4, <1>5

\* The end of a process leaves nobody with a unit, and an empty report.
LEMMA QuitOnce ==
    ASSUME TypeOK, NEW how, Quit(how)
    PROVE  PlacesInv' /\ ResultsInv' /\ MisreadInv' /\ ReportInv'
<1>1. /\ main' = "off" /\ queue' = <<>> /\ misread' = {}
      /\ \A u \in Units : todo'[u] = 0 /\ report'[u] = <<>>
      /\ \A w \in Workers : pc'[w] = "idle" /\ unit'[w] = None
  BY DEF Quit, NothingTodo, NothingReported, Idle, NoUnit
<1>2. \A u : ~InQueue(u)'
  BY <1>1 DEF InQueue
<1>3. PlacesInv'
  BY <1>1, <1>2, StoreAssumption DEF PlacesInv, OneWorkerPerUnit, Busy, Units
<1>4. ResultsInv'
  BY <1>1, <1>2 DEF ResultsInv
<1>5. ReportInv'
  BY <1>1 DEF ReportInv, Reporting, Working
<1>6. MisreadInv'
  BY <1>1 DEF MisreadInv
<1>7. QED BY <1>3, <1>4, <1>5, <1>6

\* What a step that leaves the queue and the workers' units alone has to
\* preserve.
LEMMA PlacesKept ==
    ASSUME ThreadsInv, PlacesInv, UNCHANGED <<queue, unit>>,
           \A w \in Workers : pc'[w] = "idle" <=> pc[w] = "idle",
           \A u \in Units :
              /\ todo'[u] <= 1
              /\ todo'[u] > 0 => ~InQueue(u) /\ \A w \in Workers : unit[w] # u
    PROVE  PlacesInv'
BY QueueKept DEF PlacesInv, OneWorkerPerUnit, Busy, QueueOnce

\* A unit leaves the loop for the queue, the queue for a worker, and the worker
\* for good: it is never at two of these places.
LEMMA PlacesStep ==
    ASSUME UnitsOnce, TypeOK, ThreadsInv, PlacesInv, ResultsInv, [Next]_vars
    PROVE  PlacesInv'
<1> USE DEF mainVars, workVars
<1>0. QueueOnce /\ QueueOnce' = (\A i, j \in 1..Len(queue') : queue'[i] = queue'[j] => i = j)
  BY DEF PlacesInv, QueueOnce
<1>1. ASSUME UNCHANGED <<todo, queue, pc, unit>>
      PROVE  PlacesInv'
  BY <1>1, PlacesKept DEF PlacesInv
<1>2. CASE ListTables \/ (DeriveRelations /\ ~stop)
  <2>1. /\ queue = <<>> /\ \A w \in Workers : unit[w] = None
        /\ UNCHANGED <<queue, pc, unit>>
    BY <1>2 DEF ListTables, DeriveRelations, ThreadsInv, Working, Busy
  <2>2. \A u \in Units : ~InQueue(u) /\ \A w \in Workers : unit[w] # u
    BY <2>1, EmptyOnce, StoreAssumption DEF Units
  <2>3. \A u \in Units : todo'[u] <= 1
    BY <1>2, DerivedOnce DEF ListTables, DeriveRelations, Units
  <2>4. QED
    BY <2>1, <2>2, <2>3, PlacesKept
<1>3. ASSUME NEW u \in Units, SubmitUnit(u) \/ RedoCached(u)
      PROVE  PlacesInv'
  <2>1. /\ todo[u] > 0 /\ todo' = [todo EXCEPT ![u] = @ - 1]
        /\ Submit(u) /\ UNCHANGED <<pc, unit>>
    BY <1>3 DEF SubmitUnit, RedoCached, Visit
  <2>2. ~InQueue(u) /\ (\A w \in Workers : unit[w] # u) /\ todo[u] = 1
    BY <2>1 DEF PlacesInv, TypeOK
  <2>3. QueueOnce' /\ \A v : InQueue(v)' <=> InQueue(v) \/ v = u
    BY <1>0, <2>1, <2>2, SubmitOnce
  <2>4. todo'[u] = 0 /\ \A v \in Units \ {u} : todo'[v] = todo[v]
    BY <2>1, <2>2 DEF TypeOK
  <2>5. \A v \in Units : /\ todo'[v] <= 1
                         /\ todo'[v] > 0 => ~InQueue(v)'
                         /\ todo'[v] > 0 \/ InQueue(v)' =>
                               \A w \in Workers : unit'[w] # v
    BY <2>1, <2>2, <2>3, <2>4 DEF PlacesInv
  <2>6. OneWorkerPerUnit'
    BY <2>1 DEF PlacesInv, OneWorkerPerUnit, Busy
  <2>7. QED
    BY <1>0, <2>3, <2>5, <2>6 DEF PlacesInv
<1>4. ASSUME NEW u \in Units, LoadCached(u)
      PROVE  PlacesInv'
  <2>1. /\ todo[u] > 0 /\ todo' = [todo EXCEPT ![u] = @ - 1]
        /\ UNCHANGED <<queue, pc, unit>>
    BY <1>4 DEF LoadCached, Visit
  <2>2. \A v \in Units : todo'[v] <= todo[v] /\ todo'[v] \in Nat /\ todo[v] \in Nat
    BY <2>1 DEF TypeOK
  <2>3. QED
    BY <2>1, <2>2, PlacesKept DEF PlacesInv
<1>5. CASE SubmissionThrows
  <2>1. UNCHANGED <<queue, pc, unit>> /\ \A u \in Units : todo'[u] = 0
    BY <1>5 DEF SubmissionThrows, NothingTodo
  <2>2. QED BY <2>1, PlacesKept
<1>6. ASSUME NEW w \in Workers, TakeTask(w)
      PROVE  PlacesInv'
  <2>1. /\ pc[w] = "idle" /\ queue # <<>> /\ queue' = Tail(queue)
        /\ UNCHANGED todo /\ unit[w] = None
        /\ \/ UNCHANGED <<pc, unit>>
           \/ /\ pc' = [pc EXCEPT ![w] = "start"]
              /\ unit' = [unit EXCEPT ![w] = Head(queue)]
    BY <1>6 DEF TakeTask, ThreadsInv, Busy
  <2>2. PICK h : h = Head(queue)
    OBVIOUS
  <2>3. /\ h \in Units /\ InQueue(h) /\ QueueOnce'
        /\ \A v : InQueue(v)' <=> InQueue(v) /\ v # h
    BY <1>0, <2>1, <2>2, TakeOnce
  <2>4. /\ ~(todo[h] > 0) /\ \A v \in Workers : unit[v] # h
    BY <2>3 DEF PlacesInv
  <2>5. /\ \A v \in Workers \ {w} : UNCHANGED <<pc[v], unit[v]>>
        /\ UNCHANGED <<pc[w], unit[w]>> \/ unit'[w] = h
    BY <2>1, <2>2 DEF TypeOK
  <2>6. \A u \in Units : /\ todo'[u] <= 1
                         /\ todo'[u] > 0 => ~InQueue(u)'
                         /\ todo'[u] > 0 \/ InQueue(u)' =>
                               \A v \in Workers : unit'[v] # u
    BY <2>1, <2>3, <2>4, <2>5 DEF PlacesInv
  <2>7. OneWorkerPerUnit'
    BY <2>1, <2>4, <2>5 DEF PlacesInv, OneWorkerPerUnit, Busy
  <2>8. QED
    BY <1>0, <2>3, <2>6, <2>7 DEF PlacesInv
<1>7. ASSUME NEW w \in Workers,
             \/ StartUnit(w) \/ SaveResult(w) \/ QueryThrows(w)
             \/ PushFinding(w) \/ RecordError(w)
      PROVE  PlacesInv'
  <2>1. /\ UNCHANGED <<todo, queue, unit>>
        /\ \A v \in Workers : pc'[v] = "idle" <=> pc[v] = "idle"
    BY <1>7 DEF StartUnit, SaveResult, QueryThrows, PushFinding, RecordError,
                At, TypeOK
  <2>2. QED BY <2>1, PlacesKept DEF PlacesInv
<1>8. ASSUME NEW w \in Workers, MarkThrows(w) \/ ReportProgress(w)
      PROVE  PlacesInv'
  <2>1. /\ UNCHANGED <<todo, queue>>
        /\ pc'[w] = "idle" /\ unit'[w] = None
        /\ \A v \in Workers \ {w} : UNCHANGED <<pc[v], unit[v]>>
    BY <1>8 DEF MarkThrows, ReportProgress, Return, TypeOK
  <2>2. QueueOnce' /\ \A v : InQueue(v)' <=> InQueue(v)
    BY <1>0, <2>1, QueueKept
  <2>3. \A u \in Units : /\ todo'[u] <= 1
                         /\ todo'[u] > 0 => ~InQueue(u)'
                         /\ todo'[u] > 0 \/ InQueue(u)' =>
                               \A v \in Workers : unit'[v] # u
    BY <2>1, <2>2, StoreAssumption DEF PlacesInv, Units
  <2>4. OneWorkerPerUnit'
    BY <2>1 DEF PlacesInv, OneWorkerPerUnit, Busy
  <2>5. QED
    BY <1>0, <2>2, <2>3, <2>4 DEF PlacesInv
<1>9. CASE MainThrows \/ PhaseThrows \/ WriteReports \/ Crash
  BY <1>9, QuitOnce DEF MainThrows, PhaseThrows, WriteReports, Crash
<1>10. CASE MainStep
  BY <1>1, <1>2, <1>3, <1>4, <1>5, <1>9, <1>10
  DEF MainStep, Connect, ResetTables, ResetRelations, OpenRun, Submission,
      EndDiscovery, DeriveRelations, EndConsistency, Finish
<1>11. ASSUME NEW w \in Workers, WorkerStep(w)
       PROVE  PlacesInv'
  BY <1>6, <1>7, <1>8, <1>11 DEF WorkerStep
<1>12. QED
  BY <1>1, <1>9, <1>10, <1>11 DEF Next, Launch, Signal, Done, vars

------------------------------------------------------------------------------
(* Results *)

\* What a step that leaves the report, the queue and the workers alone has to
\* preserve.
LEMMA ResultsKept ==
    ASSUME ResultsInv, UNCHANGED <<report, queue, pc, unit, misread>>,
           \A u \in Units : status'[u] = "done" <=> status[u] = "done",
           \A u \in Units : todo'[u] > 0 => report[u] = <<>>,
           \A w \in Workers : pc[w] # "idle" => unit[w] \in Units
    PROVE  ResultsInv'
BY QueueKept DEF ResultsInv, ToRead

\* A unit is read while its row is not Done, or was misread, and it is not in
\* the report, and it goes there once, when its row is Done.
LEMMA ResultsStep ==
    ASSUME UnitsOnce, TypeOK, ThreadsInv, DoneHasPayload, PlacesInv, ResultsInv,
           ReportInv, [Next]_vars
    PROVE  ResultsInv'
<1> USE DEF mainVars, workVars, storeVars, ToRead
<1>0. /\ QueueOnce
      /\ \A w \in Workers : pc[w] # "idle" => unit[w] \in Units
      /\ report \in [Units -> Seq(Owners)] /\ status \in [Units -> RowStatus]
      /\ pc \in [Workers -> WorkerPlaces]
      /\ unit \in [Workers -> Units \cup {None}]
  BY BusyWorker DEF PlacesInv, QueueOnce, TypeOK, StoreTypeOK
<1>1. ASSUME UNCHANGED <<status, todo, report, queue, pc, unit, misread>>
      PROVE  ResultsInv'
  BY <1>0, <1>1, ResultsKept DEF ResultsInv
<1>2. CASE ResetTables \/ ResetRelations
  <2>1. /\ UNCHANGED <<todo, report, queue, pc, unit, misread>>
        /\ \A u \in Units : status'[u] = "done" <=> status[u] = "done"
    BY <1>2 DEF ResetTables, ResetRelations, ResetInProgress
  <2>2. QED
    BY <1>0, <2>1, ResultsKept DEF ResultsInv
<1>3. CASE ListTables \/ (DeriveRelations /\ ~stop)
  <2>1. UNCHANGED <<status, report, queue, pc, unit, misread>>
    BY <1>3 DEF ListTables, DeriveRelations
  <2>2. \A u \in Units : todo'[u] > 0 => report[u] = <<>>
    BY <1>3 DEF ListTables, DeriveRelations, ReportInv, Reporting, Working, Units
  <2>3. QED
    BY <1>0, <2>1, <2>2, ResultsKept
<1>4. CASE SubmissionThrows
  <2>1. UNCHANGED <<status, report, queue, pc, unit, misread>> /\ \A u \in Units : todo'[u] = 0
    BY <1>4 DEF SubmissionThrows, NothingTodo
  <2>2. QED
    BY <1>0, <2>1, ResultsKept
<1>5. ASSUME NEW u \in Units, SubmitUnit(u) \/ RedoCached(u)
      PROVE  ResultsInv'
  <2>1. /\ todo[u] > 0 /\ todo' = [todo EXCEPT ![u] = @ - 1]
        /\ Submit(u) /\ UNCHANGED <<report, pc, unit>>
    BY <1>5 DEF SubmitUnit, RedoCached, Visit, UnitsOnce
  <2>2. /\ report[u] = <<>> /\ ~InQueue(u) /\ todo[u] = 1
        /\ \A w \in Workers : unit[w] # u
    BY <2>1 DEF PlacesInv, ResultsInv, TypeOK
  <2>3. QueueOnce' /\ \A v : InQueue(v)' <=> InQueue(v) \/ v = u
    BY <1>0, <2>1, <2>2, SubmitOnce
  <2>4. /\ ToRead(u)'
        /\ \A v \in Units \ {u} : /\ status'[v] = status[v] /\ todo'[v] = todo[v]
                                  /\ v \in misread' <=> v \in misread
    <3>1. CASE SubmitUnit(u)
      <4>1. status[u] # "done" \/ u \in misread'
        BY <3>1 DEF SubmitUnit, Cached, GetStatus, GetPayload, DoneHasPayload
      <4>2. QED
        BY <2>1, <3>1, <4>1 DEF SubmitUnit, TypeOK
    <3>2. CASE RedoCached(u)
      BY <1>0, <2>1, <3>2 DEF RedoCached, MarkStatus, TypeOK
    <3>3. QED BY <1>5, <3>1, <3>2
  <2>5. ASSUME NEW v \in Units
        PROVE  /\ Len(report'[v]) <= 1
               /\ report'[v] # <<>> => status'[v] = "done"
               /\ todo'[v] > 0 => report'[v] = <<>>
               /\ InQueue(v)' => report'[v] = <<>> /\ ToRead(v)'
    BY <2>1, <2>2, <2>3, <2>4 DEF ResultsInv
  <2>6. \A w \in Workers :
           /\ pc[w] \in {"start", "query", "error"} =>
                 report[unit[w]] = <<>> /\ ToRead(unit[w])'
           /\ pc[w] = "push" => report[unit[w]] = <<>> /\ status'[unit[w]] = "done"
    BY <1>0, <2>1, <2>2, <2>4 DEF ResultsInv
  <2>7. QED
    BY <2>1, <2>5, <2>6 DEF ResultsInv
<1>6. ASSUME NEW u \in Units, LoadCached(u)
      PROVE  ResultsInv'
  <2>1. /\ todo[u] > 0 /\ todo' = [todo EXCEPT ![u] = @ - 1]
        /\ status[u] = "done" /\ payload[u] \in Owners
        /\ report' = [report EXCEPT ![u] = Append(@, payload[u])]
        /\ UNCHANGED <<status, queue, pc, unit, misread>>
    BY <1>6 DEF LoadCached, Visit, HasResult, Cached, GetStatus, PushResult
  <2>2. /\ report[u] = <<>> /\ ~InQueue(u) /\ todo[u] = 1
        /\ \A w \in Workers : unit[w] # u
    BY <2>1 DEF PlacesInv, ResultsInv, TypeOK
  <2>3. /\ Len(report'[u]) = 1 /\ todo'[u] = 0
        /\ \A v \in Units \ {u} : report'[v] = report[v] /\ todo'[v] = todo[v]
    BY <1>0, <2>1, <2>2 DEF TypeOK
  <2>4. /\ \A v : InQueue(v)' <=> InQueue(v)
        /\ \A v \in Units : ToRead(v) => ToRead(v)'
    BY <2>1, QueueKept
  <2>5. ASSUME NEW v \in Units
        PROVE  /\ Len(report'[v]) <= 1
               /\ report'[v] # <<>> => status'[v] = "done"
               /\ todo'[v] > 0 => report'[v] = <<>>
               /\ InQueue(v)' => report'[v] = <<>> /\ ToRead(v)'
    BY <2>1, <2>2, <2>3, <2>4 DEF ResultsInv
  <2>6. \A w \in Workers :
           /\ pc[w] \in {"start", "query", "error"} =>
                 report'[unit[w]] = <<>> /\ ToRead(unit[w])'
           /\ pc[w] = "push" => report'[unit[w]] = <<>> /\ status[unit[w]] = "done"
    BY <1>0, <2>1, <2>2, <2>3, <2>4 DEF ResultsInv
  <2>7. QED
    BY <2>1, <2>5, <2>6 DEF ResultsInv
<1>7. ASSUME NEW w \in Workers, TakeTask(w)
      PROVE  ResultsInv'
  <2>1. /\ queue # <<>> /\ queue' = Tail(queue)
        /\ UNCHANGED <<status, todo, report, misread>>
        /\ \/ UNCHANGED <<pc, unit>>
           \/ /\ pc' = [pc EXCEPT ![w] = "start"]
              /\ unit' = [unit EXCEPT ![w] = Head(queue)]
    BY <1>7 DEF TakeTask
  <2>2. PICK h : h = Head(queue)
    OBVIOUS
  <2>3. /\ h \in Units /\ InQueue(h)
        /\ \A v : InQueue(v)' => InQueue(v)
        /\ \A v \in Units : ToRead(v) => ToRead(v)'
    BY <1>0, <2>1, <2>2, TakeOnce
  <2>4. report[h] = <<>> /\ ToRead(h)
    BY <2>3 DEF ResultsInv
  <2>5. \A v \in Workers :
           \/ pc'[v] = pc[v] /\ unit'[v] = unit[v]
           \/ pc'[v] = "start" /\ unit'[v] = h
    BY <1>0, <2>1, <2>2
  <2>6. QED
    BY <2>1, <2>3, <2>4, <2>5 DEF ResultsInv
<1>8. ASSUME NEW w \in Workers, StartUnit(w) \/ SaveResult(w) \/ RecordError(w)
      PROVE  ResultsInv'
  <2>1. PICK u \in Units : u = unit[w]
    BY <1>0, <1>8 DEF StartUnit, SaveResult, RecordError, At
  <2>2. /\ pc[w] \in {"start", "query", "error"}
        /\ UNCHANGED <<todo, report, queue, unit>>
        /\ \A v \in Units \ {u} : status'[v] = status[v] /\ (ToRead(v) => ToRead(v)')
        /\ \A v \in Workers \ {w} : pc'[v] = pc[v]
        /\ \/ ToRead(u)' /\ pc'[w] \in {"query", "progress"}
           \/ status'[u] = "done" /\ pc'[w] = "push"
    BY <1>0, <1>8, <2>1
    DEF StartUnit, SaveResult, RecordError, At, MarkStatus, MarkDone
  <2>3. /\ report[u] = <<>>
        /\ \A v \in Workers \ {w} : pc[v] # "idle" => unit[v] # u
    BY <2>1, <2>2 DEF ResultsInv, PlacesInv, OneWorkerPerUnit, Busy
  <2>4. /\ ~InQueue(u) /\ \A v : InQueue(v)' <=> InQueue(v)
    BY <2>1, <2>2, QueueKept DEF PlacesInv
  <2>5. ASSUME NEW v \in Units
        PROVE  /\ Len(report'[v]) <= 1
               /\ report'[v] # <<>> => status'[v] = "done"
               /\ todo'[v] > 0 => report'[v] = <<>>
               /\ InQueue(v)' => report'[v] = <<>> /\ ToRead(v)'
    BY <2>2, <2>3, <2>4 DEF ResultsInv
  <2>6. \A v \in Workers :
           /\ pc'[v] \in {"start", "query", "error"} =>
                 report[unit[v]] = <<>> /\ ToRead(unit[v])'
           /\ pc'[v] = "push" => report[unit[v]] = <<>> /\ status'[unit[v]] = "done"
    BY <1>0, <2>1, <2>2, <2>3 DEF ResultsInv
  <2>7. QED
    BY <2>2, <2>5, <2>6 DEF ResultsInv
<1>9. ASSUME NEW w \in Workers, QueryThrows(w)
      PROVE  ResultsInv'
  <2>1. /\ UNCHANGED <<status, todo, report, queue, unit, misread>>
        /\ pc[w] = "query" /\ pc'[w] = "error"
        /\ \A v \in Workers \ {w} : pc'[v] = pc[v]
    BY <1>0, <1>9 DEF QueryThrows, At
  <2>2. \A v : InQueue(v)' <=> InQueue(v)
    BY <2>1, QueueKept
  <2>3. QED
    BY <2>1, <2>2 DEF ResultsInv
<1>10. ASSUME NEW w \in Workers, PushFinding(w)
       PROVE  ResultsInv'
  <2>1. PICK u \in Units : u = unit[w]
    BY <1>0, <1>10 DEF PushFinding, At
  <2>2. /\ pc[w] = "push" /\ pc'[w] = "progress" /\ owner \in Owners
        /\ UNCHANGED <<status, todo, queue, unit, misread>>
        /\ report' = [report EXCEPT ![u] = Append(@, owner)]
        /\ \A v \in Workers \ {w} : pc'[v] = pc[v]
    BY <1>0, <1>10, <2>1, BusyWorker DEF PushFinding, At, PushResult
  <2>3. /\ report[u] = <<>> /\ status[u] = "done"
        /\ \A v \in Workers \ {w} : pc[v] # "idle" => unit[v] # u
    BY <2>1, <2>2 DEF ResultsInv, PlacesInv, OneWorkerPerUnit, Busy
  <2>4. /\ Len(report'[u]) = 1
        /\ \A v \in Units \ {u} : report'[v] = report[v]
    BY <1>0, <2>2, <2>3
  <2>5. /\ ~InQueue(u) /\ ~(todo[u] > 0) /\ \A v : InQueue(v)' <=> InQueue(v)
        /\ \A v \in Units : ToRead(v) => ToRead(v)'
    BY <2>1, <2>2, QueueKept DEF PlacesInv
  <2>6. ASSUME NEW v \in Units
        PROVE  /\ Len(report'[v]) <= 1
               /\ report'[v] # <<>> => status'[v] = "done"
               /\ todo'[v] > 0 => report'[v] = <<>>
               /\ InQueue(v)' => report'[v] = <<>> /\ ToRead(v)'
    BY <2>2, <2>3, <2>4, <2>5 DEF ResultsInv
  <2>7. \A v \in Workers :
           /\ pc'[v] \in {"start", "query", "error"} =>
                 report'[unit[v]] = <<>> /\ ToRead(unit[v])'
           /\ pc'[v] = "push" => report'[unit[v]] = <<>> /\ status[unit[v]] = "done"
    BY <1>0, <2>2, <2>3, <2>4, <2>5 DEF ResultsInv
  <2>8. QED
    BY <2>2, <2>6, <2>7 DEF ResultsInv
<1>11. ASSUME NEW w \in Workers, MarkThrows(w) \/ ReportProgress(w)
       PROVE  ResultsInv'
  <2>1. /\ UNCHANGED <<status, todo, report, queue, misread>>
        /\ pc'[w] = "idle"
        /\ \A v \in Workers \ {w} : pc'[v] = pc[v] /\ unit'[v] = unit[v]
    BY <1>0, <1>11 DEF MarkThrows, ReportProgress, Return
  <2>2. \A v : InQueue(v)' <=> InQueue(v)
    BY <2>1, QueueKept
  <2>3. QED
    BY <2>1, <2>2 DEF ResultsInv
<1>12. CASE MainThrows \/ PhaseThrows \/ WriteReports \/ Crash
  BY <1>12, QuitOnce DEF MainThrows, PhaseThrows, WriteReports, Crash
<1>13. CASE MainStep
  BY <1>1, <1>2, <1>3, <1>4, <1>5, <1>6, <1>12, <1>13
  DEF MainStep, Connect, OpenRun, Submission, EndDiscovery, DeriveRelations,
      EndConsistency, Finish
<1>14. ASSUME NEW w \in Workers, WorkerStep(w)
       PROVE  ResultsInv'
  BY <1>7, <1>8, <1>9, <1>10, <1>11, <1>14 DEF WorkerStep
<1>15. QED
  BY <1>1, <1>12, <1>13, <1>14 DEF Next, Launch, Signal, Done, vars

------------------------------------------------------------------------------
(* The report *)

\* A planned unit that is Done is in the report, or on its way there, or its
\* row was misread.
Arrives(u) ==
    status[u] = "done" => \/ report[u] # <<>> \/ todo[u] > 0 \/ u \in misread
                          \/ \E w \in Workers : Holds(w, u, {"push"})

\* Nothing of a relationship is to be done, under way or reported yet.
Untouched(r) ==
    /\ todo[r] = 0 /\ report[r] = <<>> /\ ~InQueue(r) /\ r \notin misread
    /\ \A w \in Workers : unit[w] # r

\* What a step of the submission loop or of a worker has to preserve, given
\* that it touches one unit of the phase only.
LEMMA ReportKept ==
    ASSUME TypeOK, ReportInv, UNCHANGED <<main, plan>>, main \in Reporting,
           main \in {"discovery", "derive"} =>
              \A r \in Relations : Untouched(r) => Untouched(r)',
           \A u \in Units : Arrives(u) => Arrives(u)'
    PROVE  ReportInv'
BY DEF ReportInv, Untouched, Arrives, TypeOK

\* A relationship nobody touches stays untouched.
LEMMA UntouchedKept ==
    ASSUME NEW r, Untouched(r), UNCHANGED <<todo[r], report[r]>>,
           InQueue(r)' => InQueue(r), r \in misread' => r \in misread,
           \A w \in Workers : unit'[w] = r => unit[w] = r
    PROVE  Untouched(r)'
BY DEF Untouched

\* A unit nobody touches arrives as it did before.
LEMMA ArrivesKept ==
    ASSUME NEW u, UNCHANGED <<status[u], todo[u], report[u]>>, u \in misread => u \in misread',
           \A w \in Workers : unit[w] = u /\ pc[w] = "push" => UNCHANGED <<unit[w], pc[w]>>
    PROVE  Arrives(u) => Arrives(u)'
BY DEF Arrives, Holds

\* In the discovery phase only tables are read; a Done row of a planned unit
\* has its result in the report, or is being brought there.
LEMMA ReportStep ==
    ASSUME UnitsOnce, TypeOK, ThreadsInv, DoneHasPayload, PlacesInv, ResultsInv,
           ReportInv, [Next]_vars
    PROVE  ReportInv'
<1> USE DEF mainVars, workVars, storeVars
<1>0. /\ QueueOnce /\ plan \subseteq Units
      /\ \A w \in Workers : pc[w] # "idle" => unit[w] \in Units
      /\ main \in Working => main \in Reporting
      /\ report \in [Units -> Seq(Owners)] /\ status \in [Units -> RowStatus]
      /\ todo \in [Units -> Nat]
      /\ pc \in [Workers -> WorkerPlaces]
      /\ unit \in [Workers -> Units \cup {None}]
      /\ Relations \subseteq Units /\ None \notin Units
  BY BusyWorker, StoreAssumption
  DEF PlacesInv, QueueOnce, TypeOK, StoreTypeOK, Reporting, Units
<1>1. ASSUME UNCHANGED <<main, plan, status, todo, report, queue, pc, unit, misread>>
      PROVE  ReportInv'
  BY <1>0, <1>1, QueueKept DEF ReportInv, Holds
<1>2. ASSUME main \notin Reporting, main' \notin Reporting, UNCHANGED <<report, misread>>
      PROVE  ReportInv'
  BY <1>2 DEF ReportInv, Reporting, Working
<1>3. CASE ListTables
  <2>1. /\ main' = "discovery" /\ main = "list"
        /\ \A u \in plan' : todo'[u] > 0
        /\ \A r \in Relations : todo'[r] = 0
        /\ UNCHANGED <<report, queue, unit, misread>>
    BY <1>3, EngineAssumption, StoreAssumption DEF ListTables, Goto, Units
  <2>2. /\ queue = <<>> /\ \A w \in Workers : unit[w] = None
        /\ \A u \in Units : report[u] = <<>>
        /\ misread = {}
    BY <2>1 DEF ThreadsInv, ReportInv, Reporting, Working, Busy
  <2>3. \A r \in Relations : ~InQueue(r)'
    BY <2>1, <2>2, QueueKept, EmptyOnce
  <2>4. QED
    BY <1>0, <2>1, <2>2, <2>3 DEF ReportInv, Reporting, Working
<1>4. CASE DeriveRelations /\ ~stop
  <2>1. /\ main' = "consistency" /\ main = "derive"
        /\ \A u \in plan' : u \in plan \/ todo'[u] > 0
        /\ UNCHANGED <<status, report, pc, unit, misread>>
    BY <1>4, DerivedCountType DEF DeriveRelations, Goto, Units
  <2>2. \A u \in Units : todo[u] = 0
    BY <2>1 DEF ThreadsInv
  <2>3. ASSUME NEW u \in plan', status'[u] = "done", ~(todo'[u] > 0)
        PROVE  \/ report'[u] # <<>> \/ u \in misread'
               \/ \E w \in Workers : unit'[w] = u /\ pc'[w] = "push"
    BY <1>0, <2>1, <2>2, <2>3 DEF ReportInv, Reporting, Holds
  <2>4. QED
    BY <2>1, <2>3 DEF ReportInv, Reporting, Working, Holds
<1>5. CASE EndDiscovery \/ (DeriveRelations /\ stop) \/ EndConsistency \/ Finish
  <2>1. /\ UNCHANGED <<plan, status, todo, report, queue, pc, unit, misread>>
        /\ main \in Reporting \ {"unwind"}
        /\ main' \in Reporting \ {"discovery", "unwind"}
        /\ main' = "derive" => main = "discovery"
    BY <1>5 DEF EndDiscovery, DeriveRelations, EndConsistency, Finish, Goto,
                Reporting, Working
  <2>2. \A v : InQueue(v)' <=> InQueue(v)
    BY <2>1, QueueKept
  <2>3. QED
    BY <1>0, <2>1, <2>2 DEF ReportInv, Holds
<1>6. CASE SubmissionThrows
  BY <1>6 DEF SubmissionThrows, Goto, ReportInv, Reporting, Working
<1>7. ASSUME NEW u \in Units, SubmitUnit(u) \/ RedoCached(u)
      PROVE  ReportInv'
  <2>1. /\ todo[u] > 0 /\ todo' = [todo EXCEPT ![u] = @ - 1]
        /\ Submit(u) /\ UNCHANGED <<main, plan, report, pc, unit>>
        /\ main \in Reporting
    BY <1>0, <1>7 DEF SubmitUnit, RedoCached, Visit, InPhase, UnitsOnce, Working
  <2>2. /\ status'[u] # "done" \/ u \in misread'
        /\ \A v \in Units \ {u} : /\ status'[v] = status[v] /\ todo'[v] = todo[v]
                                  /\ v \in misread' <=> v \in misread
    <3>1. CASE SubmitUnit(u)
      <4>1. status[u] # "done" \/ u \in misread'
        BY <3>1 DEF SubmitUnit, Cached, GetStatus, GetPayload, DoneHasPayload
      <4>2. QED
        BY <2>1, <3>1, <4>1 DEF SubmitUnit, TypeOK
    <3>2. CASE RedoCached(u)
      BY <1>0, <2>1, <3>2 DEF RedoCached, MarkStatus
    <3>3. QED BY <1>7, <3>1, <3>2
  <2>3. \A v : InQueue(v)' <=> InQueue(v) \/ v = u
    BY <1>0, <2>1, SubmitOnce DEF PlacesInv
  <2>4. ASSUME NEW r \in Relations, Untouched(r)
        PROVE  Untouched(r)'
    <3>1. r # u
      BY <2>1, <2>4 DEF Untouched
    <3>2. QED
      BY <1>0, <2>1, <2>2, <2>3, <2>4, <3>1, UntouchedKept
  <2>5. ASSUME NEW v \in Units
        PROVE  Arrives(v) => Arrives(v)'
    <3>1. CASE v = u
      BY <2>2, <3>1 DEF Arrives
    <3>2. CASE v # u
      BY <2>1, <2>2, <3>2, ArrivesKept
    <3>3. QED BY <3>1, <3>2
  <2>6. QED
    BY <2>1, <2>4, <2>5, ReportKept
<1>8. ASSUME NEW u \in Units, LoadCached(u)
      PROVE  ReportInv'
  <2>1. /\ todo[u] > 0 /\ todo' = [todo EXCEPT ![u] = @ - 1]
        /\ payload[u] \in Owners
        /\ report' = [report EXCEPT ![u] = Append(@, payload[u])]
        /\ UNCHANGED <<main, plan, status, queue, pc, unit, misread>>
        /\ main \in Reporting
    BY <1>0, <1>8 DEF LoadCached, Visit, InPhase, HasResult, Cached, PushResult, Working
  <2>2. /\ report'[u] # <<>>
        /\ \A v \in Units \ {u} : report'[v] = report[v] /\ todo'[v] = todo[v]
    BY <1>0, <2>1
  <2>3. \A v : InQueue(v)' <=> InQueue(v)
    BY <2>1, QueueKept
  <2>4. ASSUME NEW r \in Relations, Untouched(r)
        PROVE  Untouched(r)'
    <3>1. r # u
      BY <2>1, <2>4 DEF Untouched
    <3>2. QED
      BY <1>0, <2>1, <2>2, <2>3, <2>4, <3>1, UntouchedKept
  <2>5. ASSUME NEW v \in Units
        PROVE  Arrives(v) => Arrives(v)'
    <3>1. CASE v = u
      BY <2>2, <3>1 DEF Arrives
    <3>2. CASE v # u
      BY <2>1, <2>2, <3>2, ArrivesKept
    <3>3. QED BY <3>1, <3>2
  <2>6. QED
    BY <2>1, <2>4, <2>5, ReportKept
<1>9. ASSUME NEW w \in Workers, TakeTask(w)
      PROVE  ReportInv'
  <2>1. /\ pc[w] = "idle" /\ queue # <<>> /\ queue' = Tail(queue)
        /\ UNCHANGED <<main, plan, status, todo, report, misread>>
        /\ \/ UNCHANGED <<pc, unit>>
           \/ /\ pc' = [pc EXCEPT ![w] = "start"]
              /\ unit' = [unit EXCEPT ![w] = Head(queue)]
        /\ main \in Reporting
    BY <1>0, <1>9 DEF TakeTask, ThreadsInv
  <2>2. PICK h : h = Head(queue)
    OBVIOUS
  <2>3. /\ h \in Units /\ InQueue(h)
        /\ \A v : InQueue(v)' => InQueue(v)
    BY <1>0, <2>1, <2>2, TakeOnce
  <2>4. \A v \in Workers : \/ pc'[v] = pc[v] /\ unit'[v] = unit[v]
                           \/ v = w /\ unit'[v] = h
    BY <1>0, <2>1, <2>2
  <2>5. ASSUME NEW r \in Relations, Untouched(r)
        PROVE  Untouched(r)'
    <3>1. r # h
      BY <2>3, <2>5 DEF Untouched
    <3>2. QED
      BY <2>1, <2>3, <2>4, <2>5, <3>1, UntouchedKept
  <2>6. ASSUME NEW u \in Units
        PROVE  Arrives(u) => Arrives(u)'
    BY <2>1, <2>4, ArrivesKept
  <2>7. QED
    BY <2>1, <2>5, <2>6, ReportKept
<1>10. ASSUME NEW w \in Workers,
              \/ StartUnit(w) \/ SaveResult(w) \/ QueryThrows(w)
              \/ PushFinding(w) \/ RecordError(w)
       PROVE  ReportInv'
  <2>1. PICK u \in Units : u = unit[w]
    BY <1>0, <1>10
    DEF StartUnit, SaveResult, QueryThrows, PushFinding, RecordError, At
  <2>2. /\ UNCHANGED <<main, plan, todo, queue, unit>>
        /\ \A v \in Units \ {u} : /\ status'[v] = status[v] /\ report'[v] = report[v]
                                  /\ v \in misread' <=> v \in misread
        /\ \A v \in Workers \ {w} : pc'[v] = pc[v]
        /\ main \in Reporting
    BY <1>0, <1>10, <2>1, BusyWorker
    DEF StartUnit, SaveResult, QueryThrows, PushFinding, RecordError, At,
        MarkStatus, MarkDone, PushResult
  <2>3. Arrives(u) => Arrives(u)'
    <3>1. CASE StartUnit(w) \/ RecordError(w)
      <4>1. status'[u] # "done"
        BY <1>0, <2>1, <3>1 DEF StartUnit, RecordError, MarkStatus
      <4>2. QED BY <4>1 DEF Arrives
    <3>2. CASE SaveResult(w)
      <4>1. pc'[w] = "push" /\ unit'[w] = u
        BY <1>0, <2>1, <3>2 DEF SaveResult, At
      <4>2. QED BY <4>1 DEF Arrives, Holds
    <3>3. CASE QueryThrows(w)
      <4>1. UNCHANGED <<status, report, todo, unit, misread>> /\ pc[w] = "query"
        BY <3>3 DEF QueryThrows, At
      <4>2. QED BY <2>2, <4>1, ArrivesKept
    <3>4. CASE PushFinding(w)
      <4>1. report'[u] # <<>>
        BY <1>0, <2>1, <3>4, BusyWorker DEF PushFinding, At, PushResult
      <4>2. QED BY <4>1 DEF Arrives
    <3>5. QED BY <1>10, <3>1, <3>2, <3>3, <3>4
  <2>4. \A v : InQueue(v)' <=> InQueue(v)
    BY <2>2, QueueKept
  <2>5. ASSUME NEW r \in Relations, Untouched(r)
        PROVE  Untouched(r)'
    <3>1. r # u
      BY <2>1, <2>5 DEF Untouched
    <3>2. QED
      BY <1>0, <2>2, <2>4, <2>5, <3>1, UntouchedKept
  <2>6. ASSUME NEW v \in Units
        PROVE  Arrives(v) => Arrives(v)'
    <3>1. CASE v = u
      BY <2>3, <3>1
    <3>2. CASE v # u
      BY <2>1, <2>2, <3>2, ArrivesKept
    <3>3. QED BY <3>1, <3>2
  <2>7. QED
    BY <2>2, <2>5, <2>6, ReportKept
<1>11. ASSUME NEW w \in Workers, MarkThrows(w) \/ ReportProgress(w)
       PROVE  ReportInv'
  <2>1. /\ UNCHANGED <<main, plan, status, todo, report, queue, misread>>
        /\ pc[w] # "push" /\ unit'[w] = None
        /\ \A v \in Workers \ {w} : pc'[v] = pc[v] /\ unit'[v] = unit[v]
        /\ main \in Reporting
    BY <1>0, <1>11, BusyWorker DEF MarkThrows, ReportProgress, Return
  <2>2. \A v : InQueue(v)' <=> InQueue(v)
    BY <2>1, QueueKept
  <2>3. ASSUME NEW r \in Relations, Untouched(r)
        PROVE  Untouched(r)'
    <3>1. r # None
      BY <1>0
    <3>2. QED
      BY <2>1, <2>2, <2>3, <3>1, UntouchedKept
  <2>4. ASSUME NEW u \in Units
        PROVE  Arrives(u) => Arrives(u)'
    BY <2>1, ArrivesKept
  <2>5. QED
    BY <2>1, <2>3, <2>4, ReportKept
<1>12. CASE MainThrows \/ PhaseThrows \/ WriteReports \/ Crash
  BY <1>12, QuitOnce DEF MainThrows, PhaseThrows, WriteReports, Crash
<1>13. CASE Connect \/ ResetTables \/ ResetRelations \/ OpenRun
  BY <1>13, <1>2
  DEF Connect, ResetTables, ResetRelations, OpenRun, Goto, Reporting, Working
<1>14. ASSUME NEW o \in Owners, NEW resume \in BOOLEAN, Launch(o, resume)
       PROVE  ReportInv'
  BY <1>14, <1>2 DEF Launch, Reporting, Working
<1>15. CASE MainStep
  BY <1>3, <1>4, <1>5, <1>6, <1>7, <1>8, <1>12, <1>13, <1>15
  DEF MainStep, Submission
<1>16. ASSUME NEW w \in Workers, WorkerStep(w)
       PROVE  ReportInv'
  BY <1>9, <1>10, <1>11, <1>16 DEF WorkerStep
<1>17. QED
  BY <1>1, <1>12, <1>14, <1>15, <1>16 DEF Next, Signal, Done, vars

------------------------------------------------------------------------------
(* The plan *)

\* What a step that leaves the report and the queue alone has to preserve.
LEMMA PlannedKept ==
    ASSUME PlannedInv, UNCHANGED <<report, queue>>, plan \subseteq plan',
           main' \in MainPlaces \ Reporting => plan' = {},
           \A u \in Units :
              /\ todo'[u] > 0 => u \in plan'
              /\ payload[u] \in Owners => payload'[u] \in Owners,
           \A w \in Workers : pc'[w] # "idle" =>
              /\ pc[w] # "idle" /\ unit'[w] = unit[w] /\ unit[w] \in Units
              /\ pc'[w] = "push" => pc[w] = "push" \/ payload'[unit[w]] \in Owners
    PROVE  PlannedInv'
<1>1. \A u : InQueue(u)' <=> InQueue(u)
  BY QueueKept
<1>2. MainPlaces' = MainPlaces /\ Reporting' = Reporting
  BY DEF MainPlaces, Reporting, Working
<1>3. QED
  BY <1>1, <1>2 DEF PlannedInv, Busy

\* The loop and the workers deal with planned units only, and what the report
\* holds is in the rows.
LEMMA PlannedStep ==
    ASSUME UnitsOnce, TypeOK, ThreadsInv, PlacesInv, ReportInv, PlannedInv,
           [Next]_vars
    PROVE  PlannedInv'
<1> USE DEF mainVars, workVars, storeVars
<1>0. /\ QueueOnce /\ plan \subseteq Units
      /\ \A w \in Workers : pc[w] # "idle" => unit[w] \in Units
      /\ main \in Working => main \in Reporting
      /\ report \in [Units -> Seq(Owners)]
      /\ payload \in [Units -> Payloads]
      /\ todo \in [Units -> Nat]
      /\ pc \in [Workers -> WorkerPlaces]
      /\ unit \in [Workers -> Units \cup {None}]
  BY BusyWorker DEF PlacesInv, QueueOnce, TypeOK, StoreTypeOK, Reporting
<1>1. ASSUME UNCHANGED <<main, plan, payload, todo, report, queue, pc, unit>>
      PROVE  PlannedInv'
  BY <1>0, <1>1, PlannedKept DEF PlannedInv
<1>2. ASSUME UNCHANGED <<plan, payload, todo, report, queue, pc, unit>>,
             main' \in Reporting \/ main \in MainPlaces \ Reporting
      PROVE  PlannedInv'
  BY <1>0, <1>2, PlannedKept DEF PlannedInv
<1>3. CASE ListTables
  <2>1. /\ main' = "discovery" /\ main = "list"
        /\ \A u \in Units : todo'[u] > 0 => u \in plan'
        /\ UNCHANGED <<payload, report, queue, pc, unit>>
    BY <1>3 DEF ListTables, Goto
  <2>2. /\ plan = {} /\ main' \in Reporting
    BY <2>1 DEF PlannedInv, MainPlaces, Reporting, Working
  <2>3. QED
    BY <1>0, <2>1, <2>2, PlannedKept
<1>4. CASE DeriveRelations
  <2>1. /\ main' \in Reporting
        /\ UNCHANGED <<payload, report, queue, pc, unit>>
        /\ plan \subseteq plan'
    BY <1>4 DEF DeriveRelations, Goto, Reporting, Working
  <2>2. \A u \in Units : todo'[u] > 0 => u \in plan'
    BY <1>4 DEF DeriveRelations, PlannedInv
  <2>3. QED
    BY <1>0, <2>1, <2>2, PlannedKept
<1>5. CASE SubmissionThrows
  <2>1. /\ main' \in Reporting /\ \A u \in Units : todo'[u] = 0
        /\ UNCHANGED <<plan, payload, report, queue, pc, unit>>
    BY <1>5 DEF SubmissionThrows, NothingTodo, Goto, Reporting, Working
  <2>2. QED
    BY <1>0, <2>1, PlannedKept
<1>6. ASSUME NEW u \in Units, SubmitUnit(u) \/ RedoCached(u)
      PROVE  PlannedInv'
  <2>1. /\ todo[u] > 0 /\ todo' = [todo EXCEPT ![u] = @ - 1]
        /\ Submit(u) /\ UNCHANGED <<main, plan, payload, report, pc, unit>>
        /\ main \in Reporting
    BY <1>0, <1>6 DEF SubmitUnit, RedoCached, MarkStatus, Visit, InPhase, UnitsOnce, Working
  <2>2. u \in plan /\ \A v \in Units : todo'[v] > 0 => todo[v] > 0
    BY <1>0, <2>1 DEF PlannedInv
  <2>3. \A v : InQueue(v)' <=> InQueue(v) \/ v = u
    BY <1>0, <2>1, SubmitOnce DEF PlacesInv
  <2>4. QED
    BY <1>0, <2>1, <2>2, <2>3 DEF PlannedInv, Busy
<1>7. ASSUME NEW u \in Units, LoadCached(u)
      PROVE  PlannedInv'
  <2>1. /\ todo[u] > 0 /\ todo' = [todo EXCEPT ![u] = @ - 1]
        /\ payload[u] \in Owners
        /\ report' = [report EXCEPT ![u] = Append(@, payload[u])]
        /\ UNCHANGED <<main, plan, payload, queue, pc, unit>>
        /\ main \in Reporting
    BY <1>0, <1>7 DEF LoadCached, Visit, InPhase, HasResult, Cached, PushResult, Working
  <2>2. /\ u \in plan
        /\ \A v \in Units : todo'[v] > 0 => todo[v] > 0
        /\ \A v \in Units \ {u} : report'[v] = report[v]
    BY <1>0, <2>1 DEF PlannedInv
  <2>3. \A v : InQueue(v)' <=> InQueue(v)
    BY <2>1, QueueKept
  <2>4. QED
    BY <1>0, <2>1, <2>2, <2>3 DEF PlannedInv, Busy
<1>8. ASSUME NEW w \in Workers, TakeTask(w)
      PROVE  PlannedInv'
  <2>1. /\ pc[w] = "idle" /\ queue # <<>> /\ queue' = Tail(queue)
        /\ UNCHANGED <<main, plan, payload, todo, report>>
        /\ \/ UNCHANGED <<pc, unit>>
           \/ /\ pc' = [pc EXCEPT ![w] = "start"]
              /\ unit' = [unit EXCEPT ![w] = Head(queue)]
        /\ main \in Reporting
    BY <1>0, <1>8 DEF TakeTask, ThreadsInv
  <2>2. PICK h : h = Head(queue)
    OBVIOUS
  <2>3. /\ h \in Units /\ InQueue(h)
        /\ \A v : InQueue(v)' => InQueue(v)
    BY <1>0, <2>1, <2>2, TakeOnce
  <2>4. \A v \in Workers : \/ pc'[v] = pc[v] /\ unit'[v] = unit[v]
                           \/ pc'[v] = "start" /\ unit'[v] = h
    BY <1>0, <2>1, <2>2
  <2>5. h \in plan
    BY <2>3 DEF PlannedInv
  <2>6. QED
    BY <2>1, <2>3, <2>4, <2>5 DEF PlannedInv, Busy
<1>9. ASSUME NEW w \in Workers,
             \/ StartUnit(w) \/ SaveResult(w) \/ QueryThrows(w)
             \/ RecordError(w) \/ MarkThrows(w) \/ ReportProgress(w)
      PROVE  PlannedInv'
  <2>1. /\ UNCHANGED <<main, plan, todo, report, queue>>
        /\ main \in Reporting /\ unit[w] \in Units
        /\ \A v \in Workers : pc'[v] # "idle" =>
              pc[v] # "idle" /\ unit'[v] = unit[v] /\ unit[v] \in Units
    BY <1>0, <1>9, BusyWorker
    DEF StartUnit, SaveResult, QueryThrows, RecordError, MarkThrows,
        ReportProgress, Return, At
  <2>2. /\ \A u \in Units : payload[u] \in Owners => payload'[u] \in Owners
        /\ \A v \in Workers : pc'[v] = "push" =>
              pc[v] = "push" \/ payload'[unit[v]] \in Owners
    <3>1. CASE SaveResult(w)
      <4>1. /\ owner \in Owners
            /\ payload' = [payload EXCEPT ![unit[w]] = owner]
            /\ \A v \in Workers \ {w} : pc'[v] = pc[v]
        BY <1>0, <2>1, <3>1 DEF SaveResult, At, MarkDone, ThreadsInv, Reporting, Working
      <4>2. QED
        BY <1>0, <2>1, <4>1
    <3>2. CASE ~SaveResult(w)
      BY <1>0, <1>9, <3>2
      DEF StartUnit, QueryThrows, RecordError, MarkThrows, ReportProgress,
          Return, At, MarkStatus
    <3>3. QED BY <3>1, <3>2
  <2>3. QED
    BY <2>1, <2>2, PlannedKept DEF PlannedInv
<1>10. ASSUME NEW w \in Workers, PushFinding(w)
       PROVE  PlannedInv'
  <2>1. PICK u \in Units : u = unit[w]
    BY <1>0, <1>10 DEF PushFinding, At
  <2>2. /\ UNCHANGED <<main, plan, payload, todo, queue, unit>>
        /\ pc[w] = "push" /\ main \in Reporting
        /\ \A v \in Units \ {u} : report'[v] = report[v]
        /\ \A v \in Workers : pc'[v] = pc[v] \/ (v = w /\ pc'[v] = "progress")
    BY <1>0, <1>10, <2>1, BusyWorker DEF PushFinding, At, PushResult
  <2>3. \A v : InQueue(v)' <=> InQueue(v)
    BY <2>2, QueueKept
  <2>4. QED
    BY <2>1, <2>2, <2>3 DEF PlannedInv, Busy
<1>11. CASE MainThrows \/ PhaseThrows \/ WriteReports \/ Crash
  <2>1. /\ queue' = <<>> /\ plan' = {}
        /\ \A u \in Units : todo'[u] = 0 /\ report'[u] = <<>>
        /\ \A w \in Workers : pc'[w] = "idle"
    BY <1>11 DEF MainThrows, PhaseThrows, WriteReports, Crash, Quit,
                 NothingTodo, NothingReported, Idle
  <2>2. \A u : ~InQueue(u)'
    BY <2>1 DEF InQueue
  <2>3. QED
    BY <2>1, <2>2 DEF PlannedInv, Busy
<1>12. CASE \/ Connect \/ ResetTables \/ ResetRelations \/ OpenRun
            \/ EndDiscovery \/ EndConsistency \/ Finish
  BY <1>12, <1>2
  DEF Connect, ResetTables, ResetRelations, OpenRun, EndDiscovery,
      EndConsistency, Finish, Goto, MainPlaces, Reporting, Working, Phases
<1>13. ASSUME NEW o \in Owners, NEW resume \in BOOLEAN, Launch(o, resume)
       PROVE  PlannedInv'
  BY <1>13, <1>2 DEF Launch, MainPlaces, Reporting, Working, Phases
<1>14. CASE MainStep
  BY <1>3, <1>4, <1>5, <1>6, <1>7, <1>11, <1>12, <1>14 DEF MainStep, Submission
<1>15. ASSUME NEW w \in Workers, WorkerStep(w)
       PROVE  PlannedInv'
  BY <1>8, <1>9, <1>10, <1>15 DEF WorkerStep
<1>16. QED
  BY <1>1, <1>11, <1>13, <1>14, <1>15 DEF Next, Signal, Done, vars

------------------------------------------------------------------------------
(* Misread rows *)

\* A unit whose row was misread waits to be read again, if nothing comes
\* between.
Waits(u) ==
    /\ u \in plan /\ todo[u] = 0
    /\ status[u] = "done" /\ report[u] = <<>>
    /\ \A w \in Workers : unit[w] = u => pc[w] = "start"
    /\ \/ stop \/ failed \/ main = "unwind"
       \/ InQueue(u) \/ \E w \in Workers : Holds(w, u, {"start"})

\* What a step has to preserve that misreads no row.
LEMMA MisreadKept ==
    ASSUME MisreadInv, misread' \subseteq misread,
           \A u \in misread' : Waits(u) => Waits(u)'
    PROVE  MisreadInv'
BY DEF MisreadInv, Waits

\* A unit nobody touches waits as it did before.
LEMMA WaitsKept ==
    ASSUME NEW u, Waits(u), UNCHANGED <<plan, status[u], todo[u], report[u]>>,
           stop => stop', failed => failed', main = "unwind" => main' = "unwind",
           InQueue(u) => InQueue(u)' \/ stop' \/ \E w \in Workers : Holds(w, u, {"start"})',
           \A w \in Workers : unit'[w] = u => UNCHANGED <<pc[w], unit[w]>> \/ pc'[w] = "start",
           \A w \in Workers : Holds(w, u, {"start"}) => Holds(w, u, {"start"})' \/ failed'
    PROVE  Waits(u)'
BY DEF Waits

\* The task of a misread unit is the only one with that unit, and it ends with
\* the row's being marked, unless it is dropped or throws.
LEMMA MisreadStep ==
    ASSUME UnitsOnce, TypeOK, ThreadsInv, PlacesInv, ResultsInv, MisreadInv,
           ReportInv, PlannedInv, [Next]_vars
    PROVE  MisreadInv'
<1> USE DEF mainVars, workVars, storeVars
<1>0. /\ QueueOnce /\ misread \subseteq Units
      /\ \A w \in Workers : pc[w] # "idle" => unit[w] \in Units
      /\ report \in [Units -> Seq(Owners)] /\ status \in [Units -> RowStatus]
      /\ todo \in [Units -> Nat]
      /\ pc \in [Workers -> WorkerPlaces]
      /\ unit \in [Workers -> Units \cup {None}]
      /\ None \notin Units
      /\ \A u \in misread : Waits(u)
  BY BusyWorker, StoreAssumption
  DEF PlacesInv, QueueOnce, TypeOK, StoreTypeOK, Units, MisreadInv, Waits
<1>1. ASSUME UNCHANGED <<plan, status, todo, report, queue, pc, unit, failed, misread>>,
             stop => stop', main = "unwind" => main' = "unwind"
      PROVE  MisreadInv'
  BY <1>0, <1>1, QueueKept DEF MisreadInv, Holds
<1>2. ASSUME main \notin Reporting, UNCHANGED misread
      PROVE  MisreadInv'
  BY <1>2 DEF MisreadInv, ReportInv
<1>3. CASE DeriveRelations /\ ~stop
  <2>1. /\ main = "derive" /\ queue = <<>> /\ ~failed /\ UNCHANGED misread
        /\ \A w \in Workers : pc[w] = "idle"
    BY <1>3 DEF DeriveRelations, ThreadsInv, Working, Busy
  <2>2. misread = {}
    BY <1>0, <1>3, <2>1, EmptyOnce DEF Waits, Holds
  <2>3. QED
    BY <2>1, <2>2 DEF MisreadInv
<1>4. CASE SubmissionThrows
  <2>1. /\ UNCHANGED <<plan, status, report, queue, pc, unit, misread>>
        /\ main' = "unwind" /\ \A u \in Units : todo'[u] = 0
    BY <1>4 DEF SubmissionThrows, NothingTodo, Goto
  <2>2. QED
    BY <1>0, <2>1 DEF MisreadInv
<1>5. ASSUME NEW u \in Units, SubmitUnit(u) \/ RedoCached(u)
      PROVE  MisreadInv'
  <2>1. /\ todo[u] > 0 /\ todo' = [todo EXCEPT ![u] = @ - 1]
        /\ Submit(u) /\ UNCHANGED <<main, plan, report, pc, unit, stop, failed>>
        /\ \A v \in Units \ {u} : status'[v] = status[v]
        /\ misread' \subseteq misread \cup {u}
    BY <1>0, <1>5 DEF SubmitUnit, RedoCached, Visit, UnitsOnce, MarkStatus
  <2>2. /\ u \notin misread /\ u \in plan /\ report[u] = <<>> /\ todo'[u] = 0
        /\ ~InQueue(u) /\ \A w \in Workers : unit[w] # u
    BY <1>0, <2>1 DEF Waits, PlannedInv, PlacesInv, ResultsInv
  <2>3. \A v : InQueue(v)' <=> InQueue(v) \/ v = u
    BY <1>0, <2>1, <2>2, SubmitOnce
  <2>4. u \in misread' => status'[u] = "done"
    BY <1>5, <2>2 DEF SubmitUnit, RedoCached, Cached, GetStatus
  <2>5. ASSUME NEW v \in misread'
        PROVE  Waits(v)'
    <3>1. CASE v = u
      BY <2>1, <2>2, <2>3, <2>4, <2>5, <3>1 DEF Waits
    <3>2. CASE v # u
      BY <1>0, <2>1, <2>3, <2>5, <3>2, WaitsKept DEF Holds
    <3>3. QED BY <3>1, <3>2
  <2>6. QED
    BY <2>5 DEF MisreadInv, Waits
<1>6. ASSUME NEW u \in Units, LoadCached(u)
      PROVE  MisreadInv'
  <2>1. /\ todo[u] > 0 /\ todo' = [todo EXCEPT ![u] = @ - 1]
        /\ report' = [report EXCEPT ![u] = Append(@, payload[u])]
        /\ UNCHANGED <<main, plan, status, queue, pc, unit, stop, failed, misread>>
    BY <1>6 DEF LoadCached, Visit, PushResult
  <2>2. u \notin misread
    BY <1>0, <2>1 DEF Waits
  <2>3. ASSUME NEW v \in misread'
        PROVE  Waits(v) => Waits(v)'
    BY <1>0, <2>1, <2>2, QueueKept, WaitsKept DEF Holds
  <2>4. QED
    BY <2>1, <2>3, MisreadKept
<1>7. ASSUME NEW w \in Workers, TakeTask(w)
      PROVE  MisreadInv'
  <2>1. /\ pc[w] = "idle" /\ queue # <<>> /\ queue' = Tail(queue)
        /\ UNCHANGED <<main, plan, status, todo, report, stop, failed, misread>>
        /\ \/ stop /\ UNCHANGED <<pc, unit>>
           \/ /\ pc' = [pc EXCEPT ![w] = "start"]
              /\ unit' = [unit EXCEPT ![w] = Head(queue)]
    BY <1>7 DEF TakeTask
  <2>2. PICK h : h = Head(queue)
    OBVIOUS
  <2>3. \A v : InQueue(v)' <=> InQueue(v) /\ v # h
    BY <1>0, <2>1, <2>2, TakeOnce
  <2>4. /\ \A v \in Workers \ {w} : pc'[v] = pc[v] /\ unit'[v] = unit[v]
        /\ \/ stop' /\ pc'[w] = pc[w] /\ unit'[w] = unit[w]
           \/ pc'[w] = "start" /\ unit'[w] = h
    BY <1>0, <2>1, <2>2
  <2>5. ASSUME NEW u \in misread'
        PROVE  Waits(u) => Waits(u)'
    <3>1. \A v \in Workers : /\ unit'[v] = u => UNCHANGED <<pc[v], unit[v]>> \/ pc'[v] = "start"
                             /\ Holds(v, u, {"start"}) => Holds(v, u, {"start"})'
      BY <2>1, <2>4 DEF Holds
    <3>2. InQueue(u) => InQueue(u)' \/ stop' \/ Holds(w, u, {"start"})'
      BY <2>3, <2>4 DEF Holds
    <3>3. QED
      BY <2>1, <3>1, <3>2, WaitsKept
  <2>6. QED
    BY <2>1, <2>5, MisreadKept
<1>8. ASSUME NEW w \in Workers,
             \/ StartUnit(w) \/ SaveResult(w) \/ QueryThrows(w)
             \/ PushFinding(w) \/ RecordError(w) \/ MarkThrows(w) \/ ReportProgress(w)
      PROVE  MisreadInv'
  <2>1. PICK x \in Units : x = unit[w]
    BY <1>0, <1>8
    DEF StartUnit, SaveResult, QueryThrows, PushFinding, RecordError, MarkThrows,
        ReportProgress, At
  <2>2. /\ UNCHANGED <<main, plan, todo, queue, stop>>
        /\ failed => failed'
        /\ \A u \in Units \ {x} : status'[u] = status[u] /\ report'[u] = report[u]
        /\ \A v \in Workers \ {w} : pc'[v] = pc[v] /\ unit'[v] = unit[v]
        /\ unit'[w] \in {x, None} /\ misread' \subseteq misread
    <3>1. CASE StartUnit(w)
      BY <1>0, <2>1, <3>1 DEF StartUnit, At, MarkStatus
    <3>2. CASE SaveResult(w) \/ QueryThrows(w) \/ RecordError(w)
      BY <1>0, <2>1, <3>2 DEF SaveResult, QueryThrows, RecordError, At, MarkStatus, MarkDone
    <3>3. CASE PushFinding(w)
      BY <1>0, <2>1, <3>3 DEF PushFinding, At, PushResult
    <3>4. CASE MarkThrows(w) \/ ReportProgress(w)
      BY <1>0, <2>1, <3>4 DEF MarkThrows, ReportProgress, Return
    <3>5. QED BY <1>8, <3>1, <3>2, <3>3, <3>4
  <2>3. x \notin misread' \/ MarkThrows(w)
    <3>1. CASE StartUnit(w)
      BY <2>1, <3>1 DEF StartUnit
    <3>2. CASE ~StartUnit(w) /\ ~MarkThrows(w)
      <4>1. pc[w] # "start"
        BY <1>8, <3>2 DEF SaveResult, QueryThrows, PushFinding, RecordError, ReportProgress, At
      <4>2. QED
        BY <1>0, <2>1, <2>2, <4>1 DEF Waits
    <3>3. QED BY <3>1, <3>2
  <2>4. ASSUME NEW u \in misread', u # x
        PROVE  Waits(u) => Waits(u)'
    <3>1. u \in Units /\ unit'[w] # u /\ unit[w] # u
      BY <1>0, <2>1, <2>2, <2>4
    <3>2. /\ \A v \in Workers : unit'[v] = u => UNCHANGED <<pc[v], unit[v]>>
          /\ \A v \in Workers : Holds(v, u, {"start"}) => Holds(v, u, {"start"})'
          /\ InQueue(u) => InQueue(u)'
      BY <2>2, <3>1, QueueKept DEF Holds
    <3>3. QED
      BY <2>2, <2>4, <3>1, <3>2, WaitsKept
  <2>5. ASSUME x \in misread'
        PROVE  Waits(x) => Waits(x)'
    <3>1. MarkThrows(w)
      BY <2>3, <2>5
    <3>2. UNCHANGED <<plan, status, report, todo>> /\ failed' /\ unit'[w] # x
      BY <1>0, <2>1, <3>1 DEF MarkThrows, Return
    <3>3. \A v \in Workers : unit'[v] = x => UNCHANGED <<pc[v], unit[v]>>
      BY <2>2, <3>2
    <3>4. QED
      BY <2>2, <3>2, <3>3, QueueKept, WaitsKept
  <2>6. QED
    BY <2>2, <2>4, <2>5, MisreadKept
<1>9. CASE MainThrows \/ PhaseThrows \/ WriteReports \/ Crash
  BY <1>9, QuitOnce DEF MainThrows, PhaseThrows, WriteReports, Crash
<1>10. CASE Connect \/ ResetTables \/ ResetRelations \/ OpenRun \/ ListTables
  BY <1>2, <1>10
  DEF Connect, ResetTables, ResetRelations, OpenRun, ListTables, Reporting, Working, Phases
<1>11. ASSUME NEW o \in Owners, NEW resume \in BOOLEAN, Launch(o, resume)
       PROVE  MisreadInv'
  BY <1>2, <1>11 DEF Launch, Reporting, Working, Phases
<1>12. CASE EndDiscovery \/ (DeriveRelations /\ stop) \/ EndConsistency \/ Finish
  BY <1>1, <1>12 DEF EndDiscovery, DeriveRelations, EndConsistency, Finish
<1>13. CASE MainStep
  BY <1>3, <1>4, <1>5, <1>6, <1>9, <1>10, <1>12, <1>13 DEF MainStep, Submission
<1>14. ASSUME NEW w \in Workers, WorkerStep(w)
       PROVE  MisreadInv'
  BY <1>7, <1>8, <1>14 DEF WorkerStep
<1>15. QED
  BY <1>1, <1>9, <1>11, <1>13, <1>14 DEF Next, Signal, Done, vars

------------------------------------------------------------------------------
(* The theorems *)

\* The invariant holds to begin with.
LEMMA InitOnce == Init => OnceInvariant
<1> SUFFICES ASSUME Init PROVE OnceInvariant
  OBVIOUS
<1>1. /\ main = "off" /\ queue = <<>>
      /\ \A u \in Units : todo[u] = 0 /\ report[u] = <<>>
      /\ \A w \in Workers : pc[w] = "idle" /\ unit[w] = None
  BY DEF Init, NothingTodo, NothingReported, Idle, NoUnit
<1>2. /\ QueueOnce /\ \A u : ~InQueue(u)
      /\ None \notin Units
  BY <1>1, EmptyOnce, StoreAssumption DEF Units
<1>3. PlacesInv
  BY <1>1, <1>2 DEF PlacesInv, OneWorkerPerUnit, Busy, QueueOnce
<1>4. ResultsInv /\ MisreadInv /\ ReportInv
  BY <1>1, <1>2 DEF Init, ResultsInv, MisreadInv, ReportInv, Reporting, Working
<1>5. PlannedInv
  BY <1>1, <1>2 DEF Init, PlannedInv, Busy
<1>6. QED
  BY <1>3, <1>4, <1>5, InitInvariant DEF OnceInvariant

\* Every step keeps the invariant.
LEMMA OnceStep ==
    ASSUME UnitsOnce, OnceInvariant, [Next]_vars
    PROVE  OnceInvariant'
<1>1. /\ InductiveInvariant
      /\ TypeOK /\ ThreadsInv /\ DoneHasPayload
      /\ PlacesInv /\ ResultsInv /\ MisreadInv /\ ReportInv /\ PlannedInv
  BY DEF OnceInvariant, InductiveInvariant
<1>2. QED
  BY <1>1, InvariantStep, PlacesStep, ResultsStep, MisreadStep, ReportStep, PlannedStep
  DEF OnceInvariant

\* All that the following theorems are read off from.
THEOREM OnceInvariance ==
    ASSUME UnitsOnce
    PROVE  Spec => []OnceInvariant
<1>1. Init => OnceInvariant
  BY InitOnce
<1>2. OnceInvariant /\ [Next]_vars => OnceInvariant'
  BY OnceStep
<1>3. QED
  BY <1>1, <1>2, PTL DEF Spec

\* ScanEngine.cpp:76-102 and 128-153: two workers never read the same unit,
\* whatever the number of workers, units and launches.
THEOREM UnitsAreExclusive ==
    ASSUME UnitsOnce
    PROVE  Spec => []OneWorkerPerUnit
<1>1. OnceInvariant => OneWorkerPerUnit
  BY DEF OnceInvariant, PlacesInv
<1>2. QED
  BY OnceInvariance, <1>1, PTL

\* ScanEngine.cpp:230 and main.cpp: what a launch writes into its report,
\* partial or not, is what the next launch finds Done in the checkpoint, each
\* unit once; a Done unit is left out only if a SELECT missed its row
\* (CheckpointStore.cpp:182, 195) and a stop then dropped its task.
THEOREM ReportIsCheckpoint ==
    ASSUME UnitsOnce
    PROVE  Spec => []ReportMatchesCheckpoint
<1>1. OnceInvariant => ReportMatchesCheckpoint
  <2> SUFFICES ASSUME OnceInvariant, main = "report", NEW u \in plan
               PROVE  /\ Len(report[u]) = IF status[u] = "done" /\ u \notin misread
                                          THEN 1 ELSE 0
                      /\ u \in misread => status[u] = "done" /\ stop
    BY DEF ReportMatchesCheckpoint
  <2>1. /\ u \in Units /\ report[u] \in Seq(Owners)
        /\ queue = <<>> /\ ~failed
        /\ todo[u] = 0 /\ \A w \in Workers : pc[w] = "idle"
    BY DEF OnceInvariant, InductiveInvariant, TypeOK, ThreadsInv, Working, Busy
  <2>2. /\ Len(report[u]) <= 1
        /\ report[u] # <<>> => status[u] = "done"
        /\ status[u] = "done" => report[u] # <<>> \/ u \in misread
    BY <2>1 DEF OnceInvariant, ResultsInv, ReportInv, Reporting, Holds
  <2>3. u \in misread => status[u] = "done" /\ report[u] = <<>> /\ stop
    BY <2>1, EmptyOnce DEF OnceInvariant, MisreadInv, Holds
  <2>4. Len(report[u]) = IF report[u] = <<>> THEN 0 ELSE 1
    BY <2>1, <2>2
  <2>5. QED
    BY <2>2, <2>3, <2>4
<1>2. QED
  BY OnceInvariance, <1>1, PTL

\* A step leaves every stored result where it is, unless the row was misread.
LEMMA ResultsStay ==
    ASSUME UnitsOnce, OnceInvariant, [Next]_vars, NEW u \in Units
    PROVE  ResultSurvives(u)
<1> DEFINE Kept == /\ payload'[u] \in Owners
                   /\ status[u] = "done" /\ u \notin misread =>
                         status'[u] = "done" /\ payload'[u] = payload[u]
<1> SUFFICES ASSUME payload[u] \in Owners PROVE Kept
  BY DEF ResultSurvives, ResultKept
<1> USE DEF storeVars
<1>1. /\ TypeOK /\ ThreadsInv /\ ResultsInv
      /\ status \in [Units -> RowStatus]
      /\ payload \in [Units -> Payloads]
  BY DEF OnceInvariant, InductiveInvariant, TypeOK, StoreTypeOK
<1>2. CASE UNCHANGED <<status, payload>>
  BY <1>2
<1>3. CASE ResetTables \/ ResetRelations
  BY <1>3 DEF ResetTables, ResetRelations, ResetInProgress
<1>4. ASSUME NEW v \in Units, RedoCached(v)
      PROVE  Kept
  <2>1. payload[v] = Unreadable /\ MarkStatus(v, "pending")
    BY <1>4 DEF RedoCached, UnitsOnce
  <2>2. u # v
    BY <2>1, StoreAssumption
  <2>3. QED
    BY <1>1, <2>1, <2>2 DEF MarkStatus
<1>5. ASSUME NEW w \in Workers, StartUnit(w) \/ SaveResult(w) \/ RecordError(w)
      PROVE  Kept
  <2>1. pc[w] \in {"start", "query", "error"}
    BY <1>5 DEF StartUnit, SaveResult, RecordError, At
  <2>2. status[unit[w]] # "done" \/ unit[w] \in misread
    BY <1>1, <2>1 DEF ResultsInv, ToRead
  <2>3. status[u] = "done" /\ u \notin misread => u # unit[w]
    BY <2>2
  <2>4. owner \in Owners
    BY <1>1, <2>1, BusyWorker DEF ThreadsInv, Working
  <2>5. QED
    BY <1>1, <1>5, <2>3, <2>4
    DEF StartUnit, SaveResult, RecordError, MarkStatus, MarkDone
<1>6. QED
  BY <1>2, <1>3, <1>4, <1>5
  DEF Next, Launch, MainStep, Connect, OpenRun, ListTables, MainThrows,
      Submission, SubmitUnit, LoadCached, SubmissionThrows, PhaseThrows,
      EndDiscovery, DeriveRelations, EndConsistency, Finish, WriteReports,
      WorkerStep, TakeTask, QueryThrows, PushFinding, MarkThrows,
      ReportProgress, Signal, Crash, Done, vars

\* CheckpointStore.hpp:48-50: a unit whose result is stored is not read from
\* Oracle again, by this launch or a later one, unless a SELECT missed its row;
\* and even then the row keeps a result for the next launch.
THEOREM ResultsAreDurable ==
    ASSUME UnitsOnce
    PROVE  Spec => DurableResults
<1>1. OnceInvariant /\ [Next]_vars => [\A u \in Units : ResultSurvives(u)]_vars
  BY ResultsStay
<1>2. QED
  BY OnceInvariance, <1>1, PTL DEF Spec, DurableResults

------------------------------------------------------------------------------
(* The engine implements ResumableScan. *)

\* The state of the launch, by the place of the main thread.
LEMMA StateByPlace ==
    /\ main = "off" => State = exit
    /\ main \in {"finish", "report"} =>
          State = IF verdict = "completed" THEN "complete" ELSE "partial"
    /\ main \notin {"off", "finish", "report"} => State = "scanning"
BY DEF State

LEMMA StateByPlaceNext ==
    /\ main' = "off" => State' = exit'
    /\ main' \in {"finish", "report"} =>
          State' = IF verdict' = "completed" THEN "complete" ELSE "partial"
    /\ main' \notin {"off", "finish", "report"} => State' = "scanning"
BY DEF State

\* An engine starts as an abstract scan does.
LEMMA InitScan == Init => Scan!ScanInit
<1> SUFFICES ASSUME Init PROVE Scan!ScanInit
  OBVIOUS
<1>1. State = "none" /\ plan = {}
  BY StateByPlace DEF Init
<1>2. /\ \A w \in Workers : pc[w] = "idle"
      /\ \A u \in Units : /\ status[u] # "error" /\ report[u] = <<>>
                          /\ payload[u] \in {None, Unreadable}
  BY DEF Init, Idle, NothingReported
<1>3. BeingRead = {}
  BY <1>2 DEF BeingRead, Holds
<1>4. Stored = {}
  BY <1>2, StoreAssumption DEF Stored
<1>5. QED
  BY <1>1, <1>2, <1>3, <1>4 DEF Scan!ScanInit

\* At a barrier the report holds what is stored of the plan.
LEMMA SettledAtBarrier ==
    ASSUME OnceInvariant, main \in Reporting \ {"unwind"},
           \A u \in Units : todo[u] = 0, \A w \in Workers : pc[w] = "idle"
    PROVE  Scan!Settled
<1>1. BeingRead = {}
  BY DEF BeingRead, Holds
<1>2. ASSUME NEW u \in Units
      PROVE  report[u] # <<>> <=> u \in (Stored \cap plan) \ (misread \cap Stored)
  BY <1>2 DEF OnceInvariant, ResultsInv, MisreadInv, ReportInv, PlannedInv, Stored, Holds
<1>3. {u \in Units : report[u] # <<>>} = (Stored \cap plan) \ (misread \cap Stored)
  BY <1>2 DEF Stored
<1>4. QED
  BY <1>1, <1>3 DEF Scan!Settled

\* The end of a process ends the abstract launch.
LEMMA EndScan ==
    ASSUME NEW how, NEW outcomes, Quit(how), UNCHANGED storeVars, how \in outcomes
    PROVE  Scan!End(outcomes)
<1>1. State' = how /\ plan' = {} /\ misread' = {}
  BY StateByPlaceNext DEF Quit
<1>2. /\ \A w \in Workers : pc'[w] = "idle"
      /\ \A u \in Units : report'[u] = <<>>
  BY DEF Quit, Idle, NothingReported
<1>3. BeingRead' = {} /\ {u \in Units : report'[u] # <<>>} = {}
  BY <1>2 DEF BeingRead, Holds
<1>4. Stored' = Stored
  BY DEF storeVars, Stored
<1>5. QED
  BY <1>1, <1>3, <1>4 DEF Scan!End, storeVars

\* A step the user of the program does not see.
LEMMA HiddenStep ==
    ASSUME State' = State, plan' = plan,
           \A u \in Units :
              /\ status'[u] = "error" <=> status[u] = "error"
              /\ status'[u] = "done" /\ payload'[u] \in Owners <=>
                    status[u] = "done" /\ payload[u] \in Owners
              /\ payload[u] \in Owners => (u \in misread' <=> u \in misread)
              /\ report'[u] # <<>> <=> report[u] # <<>>
              /\ \A w \in Workers : Holds(w, u, {"query", "error"})' <=>
                                    Holds(w, u, {"query", "error"})
    PROVE  UNCHANGED Scan!scanVars
<1>1. BeingRead' = BeingRead
  BY DEF BeingRead
<1>2. Stored' = Stored
  BY DEF Stored
<1>3. {u \in Units : status'[u] = "error"} = {u \in Units : status[u] = "error"}
  OBVIOUS
<1>4. {u \in Units : report'[u] # <<>>} = {u \in Units : report[u] # <<>>}
  OBVIOUS
<1>5. misread' \cap Stored' = misread \cap Stored
  BY <1>2 DEF Stored
<1>6. QED
  BY <1>1, <1>2, <1>3, <1>4, <1>5 DEF Scan!scanVars

\* What a task does to its unit, and to no other one.
LEMMA TaskStep ==
    ASSUME TypeOK, ThreadsInv, OneWorkerPerUnit, NEW w \in Workers,
           pc[w] # "idle", unit'[w] \in {unit[w], None},
           \A v \in Workers \ {w} : pc'[v] = pc[v] /\ unit'[v] = unit[v],
           \A u \in Units \ {unit[w]} :
              status'[u] = status[u] /\ payload'[u] = payload[u]
    PROVE  /\ unit[w] \in Units
           /\ unit[w] \in BeingRead <=> pc[w] \in {"query", "error"}
           /\ BeingRead' = IF unit'[w] = unit[w] /\ pc'[w] \in {"query", "error"}
                           THEN BeingRead \cup {unit[w]} ELSE BeingRead \ {unit[w]}
           /\ Stored' = IF status'[unit[w]] = "done" /\ payload'[unit[w]] \in Owners
                        THEN Stored \cup {unit[w]} ELSE Stored \ {unit[w]}
           /\ {u \in Units : status'[u] = "error"}
                 = IF status'[unit[w]] = "error"
                   THEN {u \in Units : status[u] = "error"} \cup {unit[w]}
                   ELSE {u \in Units : status[u] = "error"} \ {unit[w]}
<1>1. PICK x \in Units : x = unit[w]
  BY BusyWorker
<1>2. \A v \in Workers \ {w} : unit[v] # x
  BY <1>1, StoreAssumption DEF ThreadsInv, OneWorkerPerUnit, Busy, Units
<1>3. x # None
  BY StoreAssumption DEF Units
<1>4. x \in BeingRead <=> pc[w] \in {"query", "error"}
  BY <1>1, <1>2 DEF BeingRead, Holds
<1>5. ASSUME NEW u \in Units
      PROVE  u \in BeingRead' <=> IF u = x THEN unit'[w] = x /\ pc'[w] \in {"query", "error"}
                                  ELSE u \in BeingRead
  <2>1. u # None
    BY StoreAssumption DEF Units
  <2>2. u \in BeingRead' <=> \E v \in Workers : unit'[v] = u /\ pc'[v] \in {"query", "error"}
    BY DEF BeingRead, Holds
  <2>3. u \in BeingRead <=> \E v \in Workers : unit[v] = u /\ pc[v] \in {"query", "error"}
    BY DEF BeingRead, Holds
  <2>4. CASE u = x
    BY <1>2, <2>2, <2>4
  <2>5. CASE u # x
    BY <1>1, <2>1, <2>2, <2>3, <2>5
  <2>6. QED BY <2>4, <2>5
<1>6. BeingRead \subseteq Units /\ BeingRead' \subseteq Units
  BY DEF BeingRead
<1>7. BeingRead' = IF unit'[w] = x /\ pc'[w] \in {"query", "error"}
                   THEN BeingRead \cup {x} ELSE BeingRead \ {x}
  BY <1>5, <1>6
<1>8. Stored' = IF status'[x] = "done" /\ payload'[x] \in Owners
                THEN Stored \cup {x} ELSE Stored \ {x}
  BY <1>1 DEF Stored
<1>9. {u \in Units : status'[u] = "error"}
         = IF status'[x] = "error" THEN {u \in Units : status[u] = "error"} \cup {x}
                                   ELSE {u \in Units : status[u] = "error"} \ {x}
  BY <1>1
<1>10. QED
  BY <1>1, <1>4, <1>7, <1>8, <1>9

\* Every step of the engine is a step of the abstract scan, or hidden.
LEMMA StepScan ==
    ASSUME UnitsOnce, OnceInvariant, [Next]_vars
    PROVE  [Scan!ScanNext]_(Scan!scanVars)
<1> USE DEF mainVars, workVars, storeVars, Scan!Scanning
<1>0. /\ TypeOK /\ ThreadsInv /\ DoneHasPayload /\ PlanInv
      /\ PlacesInv /\ ResultsInv /\ MisreadInv /\ ReportInv /\ PlannedInv
      /\ OneWorkerPerUnit
      /\ plan \subseteq Units
      /\ \A w \in Workers : pc[w] # "idle" => main \in Working /\ unit[w] \in Units
      /\ status \in [Units -> RowStatus] /\ payload \in [Units -> Payloads]
      /\ report \in [Units -> Seq(Owners)]
      /\ pc \in [Workers -> WorkerPlaces]
      /\ unit \in [Workers -> Units \cup {None}]
  BY BusyWorker DEF OnceInvariant, InductiveInvariant, PlacesInv, TypeOK, StoreTypeOK
<1>1. main \in Working => State = "scanning" /\ (main' = main => State' = "scanning")
  BY StateByPlace, StateByPlaceNext DEF Working
<1>2. UNCHANGED <<main, exit, verdict>> => State' = State
  BY DEF State
<1>3. ASSUME UNCHANGED <<main, exit, verdict, plan, status, payload, report, pc, unit,
                         misread>>
      PROVE  UNCHANGED Scan!scanVars
  BY <1>2, <1>3, HiddenStep DEF Holds
<1>4. CASE ResetTables \/ ResetRelations
  <2>1. /\ UNCHANGED <<plan, payload, report, pc, unit, misread>>
        /\ State' = "scanning" /\ State = "scanning"
    BY <1>4, StateByPlace, StateByPlaceNext DEF ResetTables, ResetRelations, Goto
  <2>2. \A u \in Units : status'[u] \in {"done", "error"} \/ status[u] \in {"done", "error"} =>
                            status'[u] = status[u]
    BY <1>4 DEF ResetTables, ResetRelations, ResetInProgress
  <2>3. QED
    BY <2>1, <2>2, HiddenStep DEF Holds
<1>5. CASE Connect \/ OpenRun \/ SubmissionThrows \/ (EndDiscovery /\ ~stop) \/ Finish
  <2>1. /\ UNCHANGED <<plan, status, payload, report, pc, unit, verdict, misread>>
        /\ State' = State
    BY <1>5, StateByPlace, StateByPlaceNext
    DEF Connect, OpenRun, SubmissionThrows, EndDiscovery, Finish, Goto, InPhase, Phases
  <2>2. QED
    BY <2>1, HiddenStep DEF Holds
<1>6. CASE ListTables
  <2>1. /\ main = "list" /\ plan' \subseteq Units
        /\ UNCHANGED <<status, payload, report, pc, unit, misread>>
        /\ State' = "scanning" /\ State = "scanning"
    BY <1>6, StateByPlace, StateByPlaceNext, EngineAssumption DEF ListTables, Goto, Units
  <2>2. /\ plan = {} /\ \A u \in Units : report[u] = <<>>
        /\ \A w \in Workers : pc[w] = "idle"
    BY <1>0, <2>1 DEF PlannedInv, ReportInv, MainPlaces, Reporting, Working
  <2>3. Scan!Settled
    BY <2>2 DEF Scan!Settled, BeingRead, Holds
  <2>4. Scan!Extend
    BY <2>1, <2>2, <2>3 DEF Scan!Extend, BeingRead, Stored, Holds
  <2>5. QED BY <2>4 DEF Scan!ScanNext
<1>7. CASE DeriveRelations /\ ~stop
  <2>1. /\ main = "derive" /\ plan \subseteq plan' /\ plan' \subseteq Units
        /\ UNCHANGED <<status, payload, report, pc, unit, misread>>
        /\ State' = "scanning" /\ State = "scanning"
    BY <1>0, <1>7, StateByPlace, StateByPlaceNext DEF DeriveRelations, Goto, Units
  <2>2. Scan!Settled
    BY <1>0, <2>1, SettledAtBarrier DEF ThreadsInv, Reporting, Working
  <2>3. Scan!Extend
    BY <2>1, <2>2 DEF Scan!Extend, BeingRead, Stored, Holds
  <2>4. QED BY <2>3 DEF Scan!ScanNext
<1>8. CASE (EndDiscovery /\ stop) \/ (DeriveRelations /\ stop) \/ EndConsistency
  <2>1. /\ UNCHANGED <<plan, status, payload, report, pc, unit, misread>>
        /\ main \in {"discovery", "derive", "consistency"}
        /\ State = "scanning"
    BY <1>8, StateByPlace DEF EndDiscovery, DeriveRelations, EndConsistency
  <2>2. /\ \A u \in Units : todo[u] = 0
        /\ \A w \in Workers : pc[w] = "idle"
    BY <1>0, <1>8, <2>1
    DEF EndDiscovery, EndConsistency, Barrier, Submitted, Drained, Busy, ThreadsInv, Working,
        DeriveRelations
  <2>3. Scan!Settled
    BY <2>1, <2>2, SettledAtBarrier DEF Reporting, Working
  <2>4. State' = "partial" \/ (State' = "complete" /\ EndConsistency /\ ~stop)
    BY <1>0, <1>8, StateByPlaceNext
    DEF EndDiscovery, DeriveRelations, EndConsistency, Goto, PlanInv
  <2>5. ASSUME EndConsistency, ~stop, NEW u \in plan
        PROVE  report[u] # <<>> \/ status[u] = "error"
    <3>1. main = "consistency" /\ ~failed /\ queue = <<>>
      BY <2>5 DEF EndConsistency, Barrier, Drained
    <3>2. u \in Units /\ ~InQueue(u) /\ RowSettles(u)
      BY <1>0, <2>5, <3>1, EmptyOnce DEF PlanInv, Phases
    <3>3. status[u] \in {"done", "error"}
      BY <2>2, <3>2 DEF RowSettles, Ahead, Holds
    <3>4. u \notin misread
      BY <1>0, <2>2, <2>5, <3>1, <3>2 DEF MisreadInv, Holds
    <3>5. status[u] = "done" => report[u] # <<>>
      BY <1>0, <2>2, <2>5, <3>1, <3>2, <3>4 DEF ReportInv, Reporting, Working, Phases, Holds
    <3>6. QED BY <3>3, <3>5
  <2>6. Scan!Conclude
    BY <1>0, <2>1, <2>3, <2>4, <2>5 DEF Scan!Conclude, BeingRead, Stored, Holds
  <2>7. QED BY <2>6 DEF Scan!ScanNext
<1>9. ASSUME NEW o \in Owners, NEW resume \in BOOLEAN, Launch(o, resume)
      PROVE  Scan!Launch
  <2>1. /\ UNCHANGED <<plan, status, payload, report, pc, unit, misread>>
        /\ main = "off" /\ exit \in Exits
        /\ \/ main' = "off" /\ exit' = "refused"
           \/ main' = "connect"
    BY <1>0, <1>9 DEF Launch, TypeOK
  <2>2. State = exit /\ State' \in {"scanning", "refused"}
    BY <2>1, StateByPlace, StateByPlaceNext
  <2>3. State \notin Scan!Reported \cup {"scanning"}
    BY <2>1, <2>2 DEF Exits, Scan!Reported
  <2>4. QED
    BY <2>1, <2>2, <2>3 DEF Scan!Launch, BeingRead, Stored, Holds
<1>10. ASSUME NEW u \in Units, SubmitUnit(u) \/ RedoCached(u)
       PROVE  UNCHANGED Scan!scanVars \/ Scan!Doubt(u)
  <2>1. /\ UNCHANGED <<main, exit, verdict, plan, payload, report, pc, unit>>
        /\ todo[u] > 0 /\ main \in Working
        /\ \/ /\ UNCHANGED status
              /\ UNCHANGED misread \/ misread' = misread \cup {u}
           \/ /\ status' = [status EXCEPT ![u] = "pending"] /\ UNCHANGED misread
              /\ status[u] = "done" /\ payload[u] = Unreadable
    BY <1>10
    DEF SubmitUnit, RedoCached, MarkStatus, UnitsOnce, Cached, GetStatus, Visit, InPhase,
        Working
  <2>2. CASE RedoCached(u) \/ ~HasResult(u)
    <3>1. \A v \in Units : \/ status'[v] = status[v]
                           \/ /\ status'[v] = "pending" /\ status[v] = "done"
                              /\ payload[v] \notin Owners
      BY <1>0, <2>1, StoreAssumption
    <3>2. payload[u] \in Owners => UNCHANGED misread
      BY <1>10, <2>1, <2>2, StoreAssumption
      DEF SubmitUnit, RedoCached, UnitsOnce, HasResult, Cached
    <3>3. \A v \in Units : payload[v] \in Owners => (v \in misread' <=> v \in misread)
      BY <2>1, <3>2
    <3>4. QED
      BY <1>2, <2>1, <3>1, <3>3, HiddenStep DEF Holds
  <2>3. CASE SubmitUnit(u) /\ HasResult(u)
    <3>1. /\ status[u] = "done" /\ payload[u] \in Owners
          /\ UNCHANGED status /\ misread' = misread \cup {u}
      BY <2>3 DEF SubmitUnit, HasResult, Cached, GetStatus
    <3>2. ReadMayFail
      BY <2>3, <3>1, StoreAssumption
      DEF SubmitUnit, HasResult, Cached, GetStatus, GetPayload, Outcomes
    <3>3. u \in plan /\ report[u] = <<>> /\ u \notin misread
      BY <1>0, <2>1 DEF PlannedInv, ResultsInv, MisreadInv
    <3>4. /\ u \in (Stored \cap plan)
                     \ ({v \in Units : report[v] # <<>>} \cup (misread \cap Stored))
          /\ Stored' = Stored /\ BeingRead' = BeingRead
      BY <2>1, <3>1, <3>3 DEF Stored, BeingRead, Holds
    <3>5. misread' \cap Stored' = (misread \cap Stored) \cup {u}
      BY <3>1, <3>4
    <3>6. Scan!Doubt(u)
      BY <1>1, <2>1, <3>1, <3>2, <3>4, <3>5 DEF Scan!Doubt
    <3>7. QED BY <3>6
  <2>4. QED BY <1>10, <2>2, <2>3
<1>11. ASSUME NEW u \in Units, LoadCached(u)
       PROVE  Scan!Show(u)
  <2>1. /\ todo[u] > 0 /\ status[u] = "done" /\ payload[u] \in Owners
        /\ report' = [report EXCEPT ![u] = Append(@, payload[u])]
        /\ UNCHANGED <<main, exit, verdict, plan, status, payload, pc, unit, misread>>
        /\ main \in Working
    BY <1>11 DEF LoadCached, Visit, InPhase, HasResult, Cached, GetStatus, PushResult, Working
  <2>2. u \in plan /\ report[u] = <<>> /\ report'[u] # <<>> /\ u \notin misread
    BY <1>0, <2>1 DEF PlannedInv, ResultsInv, MisreadInv
  <2>3. {v \in Units : report'[v] # <<>>} = {v \in Units : report[v] # <<>>} \cup {u}
    BY <1>0, <2>1, <2>2
  <2>4. QED
    BY <1>1, <2>1, <2>2, <2>3 DEF Scan!Show, BeingRead, Stored, Holds
<1>12. ASSUME NEW w \in Workers, TakeTask(w)
       PROVE  UNCHANGED Scan!scanVars
  <2>1. /\ UNCHANGED <<main, exit, verdict, plan, status, payload, report, misread>>
        /\ pc[w] = "idle" /\ pc'[w] \in {"idle", "start"}
        /\ \A v \in Workers \ {w} : pc'[v] = pc[v] /\ unit'[v] = unit[v]
    BY <1>0, <1>12 DEF TakeTask
  <2>2. \A u \in Units, v \in Workers :
           Holds(v, u, {"query", "error"})' <=> Holds(v, u, {"query", "error"})
    BY <2>1 DEF Holds
  <2>3. QED
    BY <1>2, <2>1, <2>2, HiddenStep
<1>13. ASSUME NEW w \in Workers,
              \/ StartUnit(w) \/ SaveResult(w) \/ QueryThrows(w)
              \/ RecordError(w) \/ MarkThrows(w) \/ ReportProgress(w)
       PROVE  [Scan!ScanNext]_(Scan!scanVars)
  <2>1. /\ UNCHANGED <<main, exit, verdict, plan, report>>
        /\ pc[w] # "idle" /\ main \in Working /\ unit[w] \in Units /\ unit[w] \in plan
        /\ unit'[w] \in {unit[w], None}
        /\ \A v \in Workers \ {w} : pc'[v] = pc[v] /\ unit'[v] = unit[v]
        /\ \A u \in Units \ {unit[w]} : status'[u] = status[u] /\ payload'[u] = payload[u]
    BY <1>0, <1>13
    DEF StartUnit, SaveResult, QueryThrows, RecordError, MarkThrows, ReportProgress,
        Return, At, MarkStatus, MarkDone, PlannedInv, Busy
  <2>2. PICK x \in Units : x = unit[w]
    BY <2>1
  <2>3. /\ x \in BeingRead <=> pc[w] \in {"query", "error"}
        /\ BeingRead' = IF unit'[w] = x /\ pc'[w] \in {"query", "error"}
                        THEN BeingRead \cup {x} ELSE BeingRead \ {x}
        /\ Stored' = IF status'[x] = "done" /\ payload'[x] \in Owners
                     THEN Stored \cup {x} ELSE Stored \ {x}
        /\ {u \in Units : status'[u] = "error"}
              = IF status'[x] = "error" THEN {u \in Units : status[u] = "error"} \cup {x}
                                        ELSE {u \in Units : status[u] = "error"} \ {x}
    BY <1>0, <2>1, <2>2, TaskStep
  <2>4. State = "scanning" /\ State' = "scanning"
    BY <1>1, <2>1
  <2>5. {u \in Units : report'[u] # <<>>} = {u \in Units : report[u] # <<>>}
    BY <2>1
  <2>6. /\ x \notin Stored \/ x \in misread \/ pc[w] \notin {"start", "query", "error"}
        /\ x \notin misread \/ pc[w] = "start"
    BY <1>0, <2>2 DEF ResultsInv, ToRead, MisreadInv, Stored
  <2>7. CASE StartUnit(w)
    <3>1. /\ pc[w] = "start" /\ pc'[w] = "query" /\ unit'[w] = x
          /\ status'[x] = "in_progress" /\ misread' = misread \ {x}
      BY <1>0, <2>2, <2>7 DEF StartUnit, At, MarkStatus
    <3>2. Scan!Begin(x)
      BY <2>1, <2>2, <2>3, <2>4, <2>5, <2>6, <3>1 DEF Scan!Begin
    <3>3. QED BY <3>2 DEF Scan!ScanNext
  <2>8. CASE SaveResult(w)
    <3>1. /\ pc[w] = "query" /\ pc'[w] = "push" /\ owner \in Owners
          /\ status'[x] = "done" /\ payload'[x] = owner /\ UNCHANGED misread
      BY <1>0, <2>1, <2>2, <2>8 DEF SaveResult, At, MarkDone, ThreadsInv, Working
    <3>2. Scan!Record(x)
      BY <2>1, <2>2, <2>3, <2>4, <2>5, <2>6, <3>1 DEF Scan!Record
    <3>3. QED BY <3>2 DEF Scan!ScanNext
  <2>9. CASE RecordError(w) \/ (MarkThrows(w) /\ pc[w] = "error")
    <3>1. /\ pc[w] = "error" /\ pc'[w] \in {"progress", "idle"}
          /\ status'[x] \in {status[x], "error"} /\ status'[x] # "done"
          /\ UNCHANGED misread
      BY <1>0, <2>2, <2>6, <2>9
      DEF RecordError, MarkThrows, Return, At, MarkStatus, ResultsInv, ToRead
    <3>2. Scan!Fail(x)
      BY <2>1, <2>2, <2>3, <2>4, <2>5, <2>6, <3>1 DEF Scan!Fail
    <3>3. QED BY <3>2 DEF Scan!ScanNext
  <2>10. CASE QueryThrows(w) \/ ReportProgress(w) \/ (MarkThrows(w) /\ pc[w] = "start")
    <3>1. /\ UNCHANGED <<status, payload, misread>>
          /\ pc[w] \in {"query", "error"} <=> unit'[w] = x /\ pc'[w] \in {"query", "error"}
      BY <1>0, <2>2, <2>10 DEF QueryThrows, ReportProgress, MarkThrows, Return, At
    <3>2. BeingRead' = BeingRead /\ Stored' = Stored
      BY <2>3, <3>1 DEF Stored
    <3>3. QED
      BY <2>1, <2>4, <2>5, <3>1, <3>2 DEF Scan!scanVars
  <2>11. QED
    BY <1>13, <2>7, <2>8, <2>9, <2>10 DEF MarkThrows
<1>14. ASSUME NEW w \in Workers, PushFinding(w)
       PROVE  [Scan!ScanNext]_(Scan!scanVars)
  <2>1. PICK u \in Units : u = unit[w]
    BY <1>0, <1>14 DEF PushFinding, At
  <2>2. /\ UNCHANGED <<main, exit, verdict, plan, status, payload, unit, misread>>
        /\ pc[w] = "push" /\ pc' = [pc EXCEPT ![w] = "progress"]
        /\ report' = [report EXCEPT ![u] = Append(@, owner)]
        /\ main \in Working
    BY <1>0, <1>14, <2>1 DEF PushFinding, At, PushResult
  <2>3. /\ u \in plan /\ report[u] = <<>> /\ report'[u] # <<>>
        /\ u \in Stored /\ u \notin misread
    <3>1. u \notin misread
      BY <2>1, <2>2, <1>0 DEF MisreadInv
    <3>2. QED
      BY <1>0, <2>1, <2>2, <3>1 DEF PlannedInv, ResultsInv, Busy, Stored
  <2>4. {v \in Units : report'[v] # <<>>} = {v \in Units : report[v] # <<>>} \cup {u}
    BY <1>0, <2>2, <2>3
  <2>5. BeingRead' = BeingRead /\ Stored' = Stored
    BY <1>0, <2>2 DEF BeingRead, Stored, Holds
  <2>6. Scan!Show(u)
    BY <1>1, <2>2, <2>3, <2>4, <2>5 DEF Scan!Show
  <2>7. QED BY <2>6 DEF Scan!ScanNext
<1>15. CASE MainThrows \/ PhaseThrows \/ Crash
  <2>1. /\ Quit("failure") \/ Quit("crash")
        /\ UNCHANGED storeVars /\ main # "off"
    BY <1>15 DEF MainThrows, PhaseThrows, Crash, Barrier, InPhase, Phases
  <2>2. State \in Scan!Reported \cup {"scanning"}
    BY <2>1, StateByPlace DEF Scan!Reported
  <2>3. Scan!End({"failure", "crash"})
    BY <2>1, EndScan
  <2>4. QED BY <2>2, <2>3 DEF Scan!Die, Scan!ScanNext
<1>16. CASE WriteReports
  <2>1. ASSUME verdict = "completed"
        PROVE  Scan!Exit
    <3>1. State = "complete" /\ Quit("ok") /\ UNCHANGED storeVars
      BY <1>16, <2>1, StateByPlace DEF WriteReports
    <3>2. QED BY <3>1, EndScan DEF Scan!Exit
  <2>2. ASSUME verdict # "completed"
        PROVE  Scan!Exit
    <3>1. State = "partial" /\ Quit("interrupted") /\ UNCHANGED storeVars
      BY <1>16, <2>2, StateByPlace DEF WriteReports
    <3>2. QED BY <3>1, EndScan DEF Scan!Exit
  <2>3. QED BY <2>1, <2>2 DEF Scan!ScanNext
<1>17. CASE MainStep
  BY <1>4, <1>5, <1>6, <1>7, <1>8, <1>10, <1>11, <1>15, <1>16, <1>17
  DEF MainStep, Submission, Scan!ScanNext
<1>18. ASSUME NEW w \in Workers, WorkerStep(w)
       PROVE  [Scan!ScanNext]_(Scan!scanVars)
  BY <1>12, <1>13, <1>14, <1>18 DEF WorkerStep
<1>19. QED
  BY <1>3, <1>9, <1>15, <1>17, <1>18 DEF Next, Signal, Done, vars, Scan!ScanNext

\* README "Checkpoint / resume / apagado ordenado": over any number of
\* launches, stops, failing calls, failing reads and crashes, and with any number of threads,
\* a scan does what ResumableScan promises.
THEOREM EngineIsAResumableScan ==
    ASSUME UnitsOnce
    PROVE  Spec => ImplementsResumableScan
<1>1. OnceInvariant /\ [Next]_vars => [Scan!ScanNext]_(Scan!scanVars)
  BY StepScan
<1>2. QED
  BY OnceInvariance, InitScan, <1>1, PTL DEF Spec, ImplementsResumableScan, Scan!ScanSpec

==============================================================================
