--------------------------- MODULE ThreadPoolProofs ---------------------------
(***************************************************************************)
(* Theorems about ThreadPool, for every number of workers and of tasks.    *)
(***************************************************************************)
EXTENDS ThreadPool, FiniteSetTheorems, TLAPS

USE DEF OwnerPlaces, WorkerPlaces

------------------------------------------------------------------------------
(* The inductive invariant *)

\* The invariant holds at the start.
LEMMA InitInvariant == Init => InductiveInvariant
<1> SUFFICES ASSUME Init PROVE InductiveInvariant
  OBVIOUS
<1>1. TypeOK
  <2>1. <<>> \in Seq(1..MaxTasks)
    OBVIOUS
  <2>2. next \in 0..MaxTasks /\ got \in 0..next
    BY ThreadPoolAssumption DEF Init
  <2>3. QED
    BY <2>1, <2>2, ThreadPoolAssumption DEF Init, TypeOK
<1>2. MutexInv /\ QueueInv /\ TaskInv /\ OwnerInv
  BY ThreadPoolAssumption
  DEF Init, MutexInv, QueueInv, TaskInv, OwnerInv, Begun, RunsOnce
<1>3. QED
  BY <1>1, <1>2 DEF InductiveInvariant

\* Every variable keeps its type.
LEMMA TypeStep ==
    ASSUME InductiveInvariant, [Next]_vars
    PROVE  TypeOK'
<1> USE ThreadPoolAssumption DEF InductiveInvariant, TypeOK, OwnerInv, ownerVars
<1>1. ASSUME NEW w \in Workers, Spawn(w)
      PROVE  TypeOK'
  BY <1>1 DEF Spawn, OwnerGoes, WorkerGoes
<1>2. CASE SpawnFails
  BY <1>2 DEF SpawnFails, OwnerGoes, WorkerGoes
<1>3. CASE SubmitLocks
  BY <1>3 DEF SubmitLocks, OwnerGoes, WorkerGoes
<1>4. CASE Push
  BY <1>4 DEF Push, OwnerGoes, WorkerGoes
<1>5. CASE NotifyOne
  BY <1>5 DEF NotifyOne, OwnerGoes, WorkerGoes
<1>6. CASE SubmissionEnds
  BY <1>6 DEF SubmissionEnds, OwnerGoes, WorkerGoes
<1>7. CASE Get
  BY <1>7 DEF Get, OwnerGoes, WorkerGoes
<1>8. CASE GotAll
  BY <1>8 DEF GotAll, OwnerGoes, WorkerGoes
<1>9. CASE CloseLocks
  BY <1>9 DEF CloseLocks, OwnerGoes, WorkerGoes
<1>10. CASE SetStop
  BY <1>10 DEF SetStop, OwnerGoes, WorkerGoes
<1>11. CASE NotifyAll
  BY <1>11 DEF NotifyAll, OwnerGoes, WorkerGoes
<1>12. CASE Join
  BY <1>12 DEF Join, OwnerGoes, WorkerGoes
<1>13. CASE Terminate
  BY <1>13 DEF Terminate, OwnerGoes, QueueInv
<1>14. ASSUME NEW w \in Workers, Lock(w)
      PROVE  TypeOK'
  BY <1>14 DEF Lock, OwnerGoes, WorkerGoes
<1>15. ASSUME NEW w \in Workers, Wait(w)
      PROVE  TypeOK'
  BY <1>15 DEF Wait, OwnerGoes, WorkerGoes
<1>16. ASSUME NEW w \in Workers, WakeSpuriously(w)
      PROVE  TypeOK'
  BY <1>16 DEF WakeSpuriously, OwnerGoes, WorkerGoes
<1>17. ASSUME NEW w \in Workers, Returns(w)
      PROVE  TypeOK'
  BY <1>17 DEF Returns, OwnerGoes, WorkerGoes
<1>18. ASSUME NEW w \in Workers, Take(w)
      PROVE  TypeOK'
  BY <1>18 DEF Take, OwnerGoes, WorkerGoes
<1>19. ASSUME NEW w \in Workers, Run(w)
      PROVE  TypeOK'
  BY <1>19 DEF Run, OwnerGoes, WorkerGoes
<1>20. CASE UNCHANGED vars
  BY <1>20 DEF vars
<1>21. QED
  BY <1>1, <1>2, <1>3, <1>4, <1>5, <1>6, <1>7, <1>8, <1>9, <1>10, <1>11,
     <1>12, <1>13, <1>14, <1>15, <1>16, <1>17, <1>18, <1>19, <1>20
  DEF Next, OwnerStep, WorkerStep, Done

\* A thread holds the mutex exactly in its critical sections.
LEMMA MutexStep ==
    ASSUME InductiveInvariant, [Next]_vars
    PROVE  MutexInv'
<1> USE ThreadPoolAssumption DEF InductiveInvariant, TypeOK, MutexInv, ownerVars, Waiting
<1>1. ASSUME NEW w \in Workers, Spawn(w)
      PROVE  MutexInv'
  BY <1>1 DEF Spawn, OwnerGoes, WorkerGoes
<1>2. CASE SpawnFails
  BY <1>2 DEF SpawnFails, OwnerGoes, WorkerGoes
<1>3. CASE SubmitLocks
  BY <1>3 DEF SubmitLocks, OwnerGoes, WorkerGoes
<1>4. CASE Push
  BY <1>4 DEF Push, OwnerGoes, WorkerGoes
<1>5. CASE NotifyOne
  BY <1>5 DEF NotifyOne, OwnerGoes, WorkerGoes
<1>6. CASE SubmissionEnds
  BY <1>6 DEF SubmissionEnds, OwnerGoes, WorkerGoes
<1>7. CASE Get
  BY <1>7 DEF Get, OwnerGoes, WorkerGoes
<1>8. CASE GotAll
  BY <1>8 DEF GotAll, OwnerGoes, WorkerGoes
<1>9. CASE CloseLocks
  BY <1>9 DEF CloseLocks, OwnerGoes, WorkerGoes
<1>10. CASE SetStop
  BY <1>10 DEF SetStop, OwnerGoes, WorkerGoes
<1>11. CASE NotifyAll
  BY <1>11 DEF NotifyAll, OwnerGoes, WorkerGoes
<1>12. CASE Join
  BY <1>12 DEF Join, OwnerGoes, WorkerGoes
<1>13. CASE Terminate
  BY <1>13 DEF Terminate, OwnerGoes, QueueInv
<1>14. ASSUME NEW w \in Workers, Lock(w)
      PROVE  MutexInv'
  BY <1>14 DEF Lock, OwnerGoes, WorkerGoes
<1>15. ASSUME NEW w \in Workers, Wait(w)
      PROVE  MutexInv'
  BY <1>15 DEF Wait, OwnerGoes, WorkerGoes
<1>16. ASSUME NEW w \in Workers, WakeSpuriously(w)
      PROVE  MutexInv'
  BY <1>16 DEF WakeSpuriously, OwnerGoes, WorkerGoes
<1>17. ASSUME NEW w \in Workers, Returns(w)
      PROVE  MutexInv'
  BY <1>17 DEF Returns, OwnerGoes, WorkerGoes
<1>18. ASSUME NEW w \in Workers, Take(w)
      PROVE  MutexInv'
  BY <1>18 DEF Take, OwnerGoes, WorkerGoes
<1>19. ASSUME NEW w \in Workers, Run(w)
      PROVE  MutexInv'
  BY <1>19 DEF Run, OwnerGoes, WorkerGoes
<1>20. CASE UNCHANGED vars
  BY <1>20 DEF vars
<1>21. QED
  BY <1>1, <1>2, <1>3, <1>4, <1>5, <1>6, <1>7, <1>8, <1>9, <1>10, <1>11,
     <1>12, <1>13, <1>14, <1>15, <1>16, <1>17, <1>18, <1>19, <1>20
  DEF Next, OwnerStep, WorkerStep, Done

\* What the queue holds after a task was appended ...
LEMMA PushedQueue ==
    ASSUME TypeOK, QueueInv, OwnerInv, Push
    PROVE  /\ next' = next + 1 /\ Len(tasks') = Len(tasks) + 1 /\ Begun' = Begun
           /\ \A i \in 1..Len(tasks) : tasks'[i] = tasks[i]
           /\ tasks'[Len(tasks) + 1] = next + 1
BY DEF TypeOK, Push, OwnerGoes, Begun

\* ... and after the oldest was taken, which is the next one to begin.
LEMMA TakenQueue ==
    ASSUME TypeOK, QueueInv, NEW w \in Workers, Take(w)
    PROVE  /\ Len(tasks) > 0 /\ Len(tasks') = Len(tasks) - 1
           /\ \A i \in 1..Len(tasks') : tasks'[i] = tasks[i + 1]
           /\ Head(tasks) = Begun + 1 /\ Begun' = Begun + 1
           /\ Begun \in 0..MaxTasks /\ Begun + 1 \in 1..MaxTasks
<1>1. /\ Len(tasks) > 0 /\ Len(tasks') = Len(tasks) - 1
      /\ \A i \in 1..Len(tasks') : tasks'[i] = tasks[i + 1]
      /\ Head(tasks) = tasks[1]
  BY DEF TypeOK, Take
<1>2. next' = next /\ next \in 0..MaxTasks /\ Len(tasks) \in Nat /\ Len(tasks) <= next
  BY DEF TypeOK, QueueInv, Take, ownerVars
<1>3. tasks[1] = Begun + 1
  BY <1>1, <1>2 DEF QueueInv
<1>4. QED
  BY <1>1, <1>2, <1>3, ThreadPoolAssumption DEF Begun

\* The queue holds the tasks that were not begun, in order.
LEMMA QueueStep ==
    ASSUME InductiveInvariant, TypeOK', [Next]_vars
    PROVE  QueueInv'
<1> USE ThreadPoolAssumption DEF InductiveInvariant
<1>1. CASE UNCHANGED <<next, tasks, result>>
  BY <1>1 DEF QueueInv, Begun
<1>2. CASE Push
  <2>1. \A t \in 1..MaxTasks : t > Begun' => result'[t] = "none"
    BY <1>2, PushedQueue DEF Push, QueueInv
  <2>2. ASSUME NEW i \in 1..Len(tasks')
        PROVE  tasks'[i] = Begun' + i
    <3>1. i \in 1..Len(tasks) \/ i = Len(tasks) + 1
      BY <1>2, PushedQueue DEF TypeOK
    <3>2. CASE i \in 1..Len(tasks)
      BY <1>2, <3>2, PushedQueue DEF QueueInv
    <3>3. CASE i = Len(tasks) + 1
      <4>1. tasks'[i] = next + 1 /\ Begun' = next - Len(tasks)
        BY <1>2, <3>3, PushedQueue DEF Begun
      <4>2. next \in Nat /\ Len(tasks) \in Nat
        BY DEF TypeOK
      <4>3. QED BY <3>3, <4>1, <4>2
    <3>4. QED
      BY <3>1, <3>2, <3>3
  <2>3. QED
    BY <1>2, <2>1, <2>2, PushedQueue DEF QueueInv, TypeOK
<1>3. ASSUME NEW w \in Workers, Take(w)
      PROVE  QueueInv'
  <2>1. next' = next /\ result' = result
    BY <1>3 DEF Take, ownerVars
  <2>2. ASSUME NEW i \in 1..Len(tasks')
        PROVE  tasks'[i] = Begun' + i
    <3>1. i + 1 \in 1..Len(tasks) /\ tasks'[i] = tasks[i + 1]
      BY <1>3, TakenQueue DEF TypeOK
    <3>2. tasks'[i] = Begun + (i + 1)
      BY <3>1 DEF QueueInv
    <3>3. Begun' = Begun + 1 /\ Begun \in Nat /\ i \in Nat
      BY <1>3, TakenQueue DEF TypeOK
    <3>4. QED BY <3>2, <3>3
  <2>3. \A t \in 1..MaxTasks : t > Begun' => result'[t] = "none"
    BY <1>3, <2>1, TakenQueue DEF QueueInv
  <2>4. QED
    BY <1>3, <2>1, <2>2, <2>3, TakenQueue DEF QueueInv, TypeOK
<1>4. ASSUME NEW w \in Workers, Run(w)
      PROVE  QueueInv'
  BY <1>4 DEF Run, WorkerGoes, ownerVars, QueueInv, TaskInv, TypeOK, Begun
<1>5. QED
  BY <1>1, <1>2, <1>3, <1>4
  DEF Next, OwnerStep, WorkerStep, Done, vars, ownerVars, OwnerGoes, WorkerGoes,
      Spawn, SpawnFails, SubmitLocks, NotifyOne, SubmissionEnds, Get, GotAll,
      CloseLocks, SetStop, NotifyAll, Join, Terminate, Lock, Wait,
      WakeSpuriously, Returns

\* Taken tasks are in one worker's hands until they are over.
LEMMA TaskStep ==
    ASSUME InductiveInvariant, TypeOK', [Next]_vars
    PROVE  TaskInv'
<1> USE ThreadPoolAssumption DEF InductiveInvariant
<1>1. CASE /\ UNCHANGED <<task, result>> /\ Begun' = Begun
           /\ \A w \in Workers : pc'[w] = "run" <=> pc[w] = "run"
  BY <1>1 DEF TaskInv, RunsOnce
<1>2. ASSUME NEW w \in Workers, Take(w)
      PROVE  TaskInv'
  <2>1. /\ pc[w] = "check" /\ pc' = [pc EXCEPT ![w] = "run"]
        /\ task' = [task EXCEPT ![w] = Begun + 1]
        /\ result' = result /\ Begun' = Begun + 1
        /\ Begun \in 0..MaxTasks /\ Begun + 1 \in 1..MaxTasks
    BY <1>2, TakenQueue DEF Take, WorkerGoes
  <2>2. result[Begun + 1] = "none"
    BY <2>1 DEF QueueInv
  <2>3. RunsOnce'
    BY <2>1, <2>2 DEF TaskInv, RunsOnce, TypeOK
  <2>4. \A v \in Workers : pc'[v] = "run" => task'[v] \in 1..Begun'
    BY <2>1 DEF TaskInv, TypeOK
  <2>5. \A t \in 1..Begun' :
           result'[t] # "none" \/ \E v \in Workers : pc'[v] = "run" /\ task'[v] = t
    <3> SUFFICES ASSUME NEW t \in 1..Begun', result'[t] = "none"
                 PROVE  \E v \in Workers : pc'[v] = "run" /\ task'[v] = t
      OBVIOUS
    <3>1. CASE t = Begun + 1
      BY <2>1, <3>1 DEF TypeOK
    <3>2. CASE t # Begun + 1
      BY <2>1, <3>2 DEF TaskInv, TypeOK
    <3>3. QED BY <3>1, <3>2
  <2>6. QED
    BY <2>3, <2>4, <2>5 DEF TaskInv
<1>3. ASSUME NEW w \in Workers, Run(w)
      PROVE  TaskInv'
  <2>1. /\ pc[w] = "run" /\ pc' = [pc EXCEPT ![w] = "lock"]
        /\ task' = task /\ Begun' = Begun
    BY <1>3 DEF Run, WorkerGoes, ownerVars, Begun
  <2>2. PICK r \in {"value", "exception"} : result' = [result EXCEPT ![task[w]] = r]
    BY <1>3 DEF Run
  <2>3. task[w] \in 1..Begun /\ Begun \in 0..MaxTasks
    BY <2>1 DEF TaskInv, QueueInv, TypeOK, Begun
  <2>4. RunsOnce'
    BY <2>1, <2>2, <2>3 DEF TaskInv, RunsOnce, TypeOK
  <2>5. QED
    BY <2>1, <2>2, <2>3, <2>4 DEF TaskInv, TypeOK
<1>4. CASE Push
  <2>1. Begun' = Begun
    BY <1>4, PushedQueue
  <2>2. QED
    BY <1>1, <1>4, <2>1 DEF Push
<1>5. CASE UNCHANGED vars
  BY <1>1, <1>5 DEF vars, ownerVars, Begun
<1>6. CASE NotifyOne \/ NotifyAll
  <2>1. \A w \in Workers : pc'[w] = "run" <=> pc[w] = "run"
    BY <1>6 DEF NotifyOne, NotifyAll, Waiting, TypeOK
  <2>2. QED
    BY <1>1, <1>6, <2>1 DEF NotifyOne, NotifyAll, Begun
<1>7. CASE Terminate
  <2>1. next = 0 /\ Begun \in 0..0
    BY <1>7 DEF Terminate, OwnerGoes, OwnerInv, QueueInv, TypeOK, Begun
  <2>2. \A w \in Workers : pc'[w] # "run" /\ pc[w] # "run"
    BY <1>7, <2>1 DEF Terminate, TaskInv
  <2>3. QED
    BY <1>1, <1>7, <2>2 DEF Terminate, Begun
<1>8. QED
  BY <1>1, <1>2, <1>3, <1>4, <1>5, <1>6, <1>7
  DEF Next, OwnerStep, WorkerStep, Done, ownerVars, OwnerGoes, WorkerGoes, Begun,
      Spawn, SpawnFails, SubmitLocks, SubmissionEnds, Get, GotAll, CloseLocks,
      SetStop, Join, Lock, Wait, WakeSpuriously, Returns, TypeOK

\* How far the pool has come.
LEMMA OwnerStepInv ==
    ASSUME InductiveInvariant, TypeOK', [Next]_vars
    PROVE  OwnerInv'
<1> USE ThreadPoolAssumption DEF InductiveInvariant, TypeOK, OwnerInv, ownerVars
<1>1. ASSUME NEW w \in Workers, Spawn(w)
      PROVE  OwnerInv'
  BY <1>1 DEF Spawn, OwnerGoes, WorkerGoes
<1>2. CASE SpawnFails
  BY <1>2 DEF SpawnFails, QueueInv
<1>3. CASE SubmitLocks
  BY <1>3 DEF SubmitLocks, OwnerGoes, WorkerGoes
<1>4. CASE Push
  BY <1>4 DEF Push, OwnerGoes, WorkerGoes
<1>5. CASE NotifyOne
  BY <1>5 DEF NotifyOne, OwnerGoes, Waiting
<1>6. CASE SubmissionEnds
  BY <1>6 DEF SubmissionEnds, OwnerGoes, WorkerGoes
<1>7. CASE Get
  BY <1>7 DEF Get, OwnerGoes, WorkerGoes
<1>8. CASE GotAll
  BY <1>8 DEF GotAll, OwnerGoes, WorkerGoes
<1>9. CASE CloseLocks
  BY <1>9 DEF CloseLocks, OwnerGoes, WorkerGoes
<1>10. CASE SetStop
  BY <1>10 DEF SetStop, OwnerGoes, WorkerGoes
<1>11. CASE NotifyAll
  BY <1>11 DEF NotifyAll, OwnerGoes, Waiting
<1>12. CASE Join
  BY <1>12 DEF Join, OwnerGoes, WorkerGoes
<1>13. CASE Terminate
  BY <1>13 DEF Terminate, OwnerGoes, QueueInv
<1>14. ASSUME NEW w \in Workers, Lock(w)
      PROVE  OwnerInv'
  BY <1>14 DEF Lock, OwnerGoes, WorkerGoes
<1>15. ASSUME NEW w \in Workers, Wait(w)
      PROVE  OwnerInv'
  BY <1>15 DEF Wait, OwnerGoes, WorkerGoes
<1>16. ASSUME NEW w \in Workers, WakeSpuriously(w)
      PROVE  OwnerInv'
  BY <1>16 DEF WakeSpuriously, OwnerGoes, WorkerGoes
<1>17. ASSUME NEW w \in Workers, Returns(w)
      PROVE  OwnerInv'
  BY <1>17 DEF Returns, OwnerGoes, WorkerGoes
<1>18. ASSUME NEW w \in Workers, Take(w)
      PROVE  OwnerInv'
  BY <1>18 DEF Take, OwnerGoes, WorkerGoes
<1>19. ASSUME NEW w \in Workers, Run(w)
      PROVE  OwnerInv'
  BY <1>19 DEF Run, WorkerGoes, TaskInv, RunsOnce, QueueInv, Begun
<1>20. CASE UNCHANGED vars
  BY <1>20 DEF vars
<1>21. QED
  BY <1>1, <1>2, <1>3, <1>4, <1>5, <1>6, <1>7, <1>8, <1>9, <1>10, <1>11,
     <1>12, <1>13, <1>14, <1>15, <1>16, <1>17, <1>18, <1>19, <1>20
  DEF Next, OwnerStep, WorkerStep, Done

------------------------------------------------------------------------------
(* No lost wakeup *)

\* How many are awake, when one more is, or one less.
LEMMA AwakeCount ==
    /\ IsFiniteSet(Awake) /\ Cardinality(Awake) \in Nat
    /\ \A w \in Workers \ Awake : Cardinality(Awake \cup {w}) = Cardinality(Awake) + 1
    /\ \A w \in Awake : Cardinality(Awake \ {w}) = Cardinality(Awake) - 1
<1>1. Awake \in SUBSET Workers /\ IsFiniteSet(Workers)
  BY ThreadPoolAssumption DEF Awake
<1>2. IsFiniteSet(Awake)
  BY <1>1, FS_Subset
<1>3. QED
  BY <1>2, FS_CardinalityType, FS_AddElement, FS_RemoveElement

\* Each task in the queue has a waking worker of its own, or nobody sleeps.
LEMMA WakeupStep ==
    ASSUME InductiveInvariant, NoLostWakeup, TypeOK', [Next]_vars
    PROVE  NoLostWakeup'
<1> USE DEF InductiveInvariant
<1>1. /\ Len(tasks) \in Nat
      /\ Cardinality(Awake) \in Nat
      /\ tasks = <<>> => Len(tasks) = 0
  BY AwakeCount DEF TypeOK
<1>2. CASE /\ UNCHANGED <<pc, tasks, stop>>
           /\ owner # "notify"
           /\ stop => owner' = "broadcast" \/ Waiting = {}
  BY <1>1, <1>2 DEF NoLostWakeup, Waiting, Awake
<1>3. ASSUME NEW w \in Workers, Spawn(w)
      PROVE  NoLostWakeup'
  <2>1. /\ tasks' = tasks /\ tasks = <<>> /\ ~stop'
    BY <1>3, <1>1 DEF Spawn, OwnerInv, QueueInv, TypeOK
  <2>2. /\ Awake' = Awake \cup {w} /\ w \in Workers \ Awake
    BY <1>3 DEF Spawn, Awake, TypeOK
  <2>3. QED
    BY <1>1, <2>1, <2>2, AwakeCount DEF NoLostWakeup
<1>4. CASE Push
  BY <1>1, <1>4, PushedQueue
  DEF Push, OwnerGoes, NoLostWakeup, Waiting, Awake, OwnerInv
<1>5. CASE NotifyOne
  <2>1. CASE Waiting = {}
    BY <1>5, <2>1 DEF NotifyOne, NoLostWakeup, Waiting
  <2>2. CASE Waiting # {}
    <3>1. PICK w \in Waiting : pc' = [pc EXCEPT ![w] = "lock"]
      BY <1>5, <2>2 DEF NotifyOne
    <3>2. /\ Awake' = Awake \cup {w} /\ w \in Workers \ Awake
      BY <3>1 DEF Waiting, Awake, TypeOK
    <3>3. QED
      BY <1>1, <1>5, <2>2, <3>2, AwakeCount
      DEF NotifyOne, OwnerGoes, NoLostWakeup, OwnerInv
  <2>3. QED BY <2>1, <2>2
<1>6. CASE SetStop
  BY <1>1, <1>6 DEF SetStop, OwnerGoes, NoLostWakeup, Waiting, Awake
<1>7. CASE NotifyAll \/ Terminate
  BY <1>7 DEF NotifyAll, Terminate, NoLostWakeup, Waiting
<1>8. CASE Join
  BY <1>8 DEF Join, NoLostWakeup, Waiting
<1>9. ASSUME NEW w \in Workers, Lock(w)
      PROVE  NoLostWakeup'
  <2>1. Waiting' = Waiting /\ Awake' = Awake
    BY <1>9 DEF Lock, WorkerGoes, Waiting, Awake, TypeOK
  <2>2. QED
    BY <1>9, <2>1 DEF Lock, ownerVars, NoLostWakeup
<1>10. ASSUME NEW w \in Workers, Wait(w)
       PROVE  NoLostWakeup'
  <2>1. tasks' = <<>> /\ ~stop' /\ Len(tasks') = 0
    BY <1>1, <1>10 DEF Wait
  <2>2. Cardinality(Awake') \in Nat
    <3>1. Awake' \in SUBSET Workers
      BY DEF Awake
    <3>2. QED
      BY <3>1, ThreadPoolAssumption, FS_Subset, FS_CardinalityType
  <2>3. QED
    BY <2>1, <2>2 DEF NoLostWakeup
<1>11. ASSUME NEW w \in Workers, WakeSpuriously(w)
       PROVE  NoLostWakeup'
  <2>1. /\ w \in Waiting
        /\ Awake' = Awake \cup {w} /\ w \in Workers \ Awake
    BY <1>11 DEF WakeSpuriously, WorkerGoes, Waiting, Awake, TypeOK
  <2>2. QED
    BY <1>1, <1>11, <2>1, AwakeCount DEF WakeSpuriously, ownerVars, NoLostWakeup
<1>12. ASSUME NEW w \in Workers, Returns(w)
       PROVE  NoLostWakeup'
  <2>1. Waiting' = Waiting /\ tasks' = tasks /\ Len(tasks) = 0
    BY <1>1, <1>12 DEF Returns, WorkerGoes, Waiting, TypeOK
  <2>2. Cardinality(Awake') \in Nat
    <3>1. Awake' \in SUBSET Workers
      BY DEF Awake
    <3>2. QED
      BY <3>1, ThreadPoolAssumption, FS_Subset, FS_CardinalityType
  <2>3. QED
    BY <1>12, <2>1, <2>2 DEF Returns, ownerVars, NoLostWakeup
<1>13. ASSUME NEW w \in Workers, Take(w)
       PROVE  NoLostWakeup'
  <2>1. /\ Waiting' = Waiting
        /\ Awake' = Awake \ {w} /\ w \in Awake
    BY <1>13 DEF Take, WorkerGoes, Waiting, Awake, TypeOK
  <2>2. Len(tasks') = Len(tasks) - 1
    BY <1>13, TakenQueue
  <2>3. QED
    BY <1>1, <1>13, <2>1, <2>2, AwakeCount DEF Take, ownerVars, NoLostWakeup
<1>14. ASSUME NEW w \in Workers, Run(w)
       PROVE  NoLostWakeup'
  <2>1. /\ Waiting' = Waiting
        /\ Awake' = Awake \cup {w} /\ w \in Workers \ Awake
    BY <1>14 DEF Run, WorkerGoes, Waiting, Awake, TypeOK
  <2>2. QED
    BY <1>1, <1>14, <2>1, AwakeCount DEF Run, ownerVars, NoLostWakeup
<1>15. CASE UNCHANGED vars
  BY <1>15 DEF vars, ownerVars, NoLostWakeup, Waiting, Awake
<1>16. QED
  BY <1>2, <1>3, <1>4, <1>5, <1>6, <1>7, <1>8, <1>9, <1>10, <1>11, <1>12,
     <1>13, <1>14, <1>15
  DEF Next, OwnerStep, WorkerStep, Done, OwnerGoes, OwnerInv, SpawnFails,
      SubmitLocks, SubmissionEnds, Get, GotAll, CloseLocks

------------------------------------------------------------------------------
(* Theorems *)

\* Every step keeps the invariant.
LEMMA InvariantStep ==
    InductiveInvariant /\ [Next]_vars => InductiveInvariant'
BY TypeStep, MutexStep, QueueStep, TaskStep, OwnerStepInv DEF InductiveInvariant

\* All that the following theorems are read off from.
THEOREM Invariance == Spec => []InductiveInvariant
BY InitInvariant, InvariantStep, PTL DEF Spec

\* Every variable keeps its type, in every behaviour.
THEOREM TypeCorrect == Spec => []TypeOK
<1>1. InductiveInvariant => TypeOK
  BY DEF InductiveInvariant
<1>2. QED
  BY Invariance, <1>1, PTL

\* ThreadPool.cpp:12-18: no task is run twice, or by two workers.
THEOREM TasksRunOnce == Spec => []RunsOnce
<1>1. InductiveInvariant => RunsOnce
  BY DEF InductiveInvariant, TaskInv
<1>2. QED
  BY Invariance, <1>1, PTL

\* ThreadPool.cpp:24-33: a destroyed pool has run all its tasks, and has no
\* worker left.
THEOREM DestructorDrains == Spec => []NothingLeftBehind
<1>1. InductiveInvariant => NothingLeftBehind
  <2> SUFFICES ASSUME InductiveInvariant, owner = "gone"
               PROVE  /\ \A w \in Workers : pc[w] \in {"unborn", "exited"}
                      /\ \A t \in 1..next : result[t] # "none"
    BY DEF NothingLeftBehind
  <2>1. \A w \in Workers : pc[w] \in {"unborn", "exited"}
    BY DEF InductiveInvariant, OwnerInv
  <2>2. Begun = next
    BY DEF InductiveInvariant, OwnerInv, TypeOK, Begun
  <2>3. QED
    BY <2>1, <2>2 DEF InductiveInvariant, TaskInv
<1>2. QED
  BY Invariance, <1>1, PTL

\* ScanEngine.cpp:123: an owner that has got all the futures has no task
\* running behind it.
THEOREM FuturesAreABarrier == Spec => []BarrierIsTight
<1>1. InductiveInvariant => BarrierIsTight
  BY DEF InductiveInvariant, OwnerInv, BarrierIsTight
<1>2. QED
  BY Invariance, <1>1, PTL

\* ThreadPool.hpp:29-33: no worker sleeps while a task waits for it.
THEOREM WakeupsArrive == Spec => []NoLostWakeup
<1>1. Init => NoLostWakeup
  BY DEF Init, NoLostWakeup, Waiting
<1>2. InductiveInvariant /\ NoLostWakeup /\ [Next]_vars => NoLostWakeup'
  BY WakeupStep, TypeStep
<1>3. QED
  BY Invariance, <1>1, <1>2, PTL DEF Spec

------------------------------------------------------------------------------
(* The pool implements TaskPool. *)

\* A pool starts as an abstract pool does.
LEMMA InitPool == Init => Pool!PoolInit
<1> SUFFICES ASSUME Init PROVE Pool!PoolInit
  OBVIOUS
<1>1. next = 0 /\ Len(tasks) = 0 /\ owner # "gone"
  BY DEF Init
<1>2. {t \in 1..MaxTasks : result[t] # "none"} = {}
  BY DEF Init
<1>3. QED
  BY <1>1, <1>2 DEF Pool!PoolInit, Begun

\* Push gives a task, Take begins it, Run finishes it, Join closes the pool;
\* everything else is the pool's own business.
LEMMA StepPool ==
    ASSUME InductiveInvariant, InductiveInvariant', [Next]_vars
    PROVE  [Pool!PoolNext]_(Pool!poolVars)
<1> USE DEF Pool!PoolNext, Pool!poolVars
<1>1. CASE UNCHANGED <<next, tasks, result>> /\ (owner = "gone" <=> owner' = "gone")
  BY <1>1 DEF Begun
<1>2. CASE Push
  <2>1. /\ owner # "gone" /\ owner' # "gone" /\ next < MaxTasks
        /\ next' = next + 1 /\ Begun' = Begun /\ result' = result
    BY <1>2, PushedQueue DEF Push, OwnerGoes, InductiveInvariant, OwnerInv
  <2>2. Pool!Give
    BY <2>1 DEF Pool!Give
  <2>3. QED BY <2>2
<1>3. ASSUME NEW w \in Workers, Take(w)
      PROVE  Pool!Begin
  <2>1. Begun' = Begun + 1 /\ Len(tasks) > 0
    BY <1>3, TakenQueue DEF InductiveInvariant
  <2>2. owner # "gone" /\ owner' # "gone" /\ UNCHANGED <<next, result>>
    BY <1>3 DEF Take, WorkerGoes, ownerVars, InductiveInvariant, OwnerInv
  <2>3. Begun < next
    BY <2>1 DEF Begun, InductiveInvariant, TypeOK
  <2>4. QED
    BY <2>1, <2>2, <2>3 DEF Pool!Begin
<1>4. ASSUME NEW w \in Workers, Run(w)
      PROVE  Pool!Finish
  <2>1. /\ owner # "gone" /\ owner' # "gone"
        /\ UNCHANGED <<next, tasks>> /\ Begun' = Begun
    BY <1>4 DEF Run, WorkerGoes, ownerVars, InductiveInvariant, OwnerInv, Begun
  <2>2. /\ task[w] \in 1..Begun /\ task[w] \in 1..MaxTasks
        /\ result[task[w]] = "none"
    BY <1>4 DEF Run, WorkerGoes, InductiveInvariant, TaskInv, RunsOnce, QueueInv,
       TypeOK, Begun
  <2>3. PICK r \in {"value", "exception"} : result' = [result EXCEPT ![task[w]] = r]
    BY <1>4 DEF Run
  <2>4. {t \in 1..MaxTasks : result'[t] # "none"}
           = {t \in 1..MaxTasks : result[t] # "none"} \cup {task[w]}
    BY <2>2, <2>3 DEF InductiveInvariant, TypeOK
  <2>5. QED
    BY <2>1, <2>2, <2>4 DEF Pool!Finish
<1>5. CASE owner # "gone" /\ owner' = "gone" /\ UNCHANGED <<next, tasks, result>>
  <2>1. /\ Begun = next /\ next \in 0..MaxTasks /\ MaxTasks \in Nat
        /\ Begun' = next
    BY <1>5, ThreadPoolAssumption DEF InductiveInvariant, OwnerInv, TypeOK, Begun
  <2>2. \A t \in 1..next : result[t] # "none"
    BY <1>5, <2>1 DEF InductiveInvariant, OwnerInv, TaskInv
  <2>3. \A t \in 1..MaxTasks : t > next => result[t] = "none"
    BY <2>1 DEF InductiveInvariant, QueueInv
  <2>4. {t \in 1..MaxTasks : result[t] # "none"} = 1..next
    BY <2>1, <2>2, <2>3
  <2>5. Pool!Close
    BY <1>5, <2>4 DEF Pool!Close, Begun
  <2>6. QED BY <2>5
<1>6. QED
  BY <1>1, <1>2, <1>3, <1>4, <1>5
  DEF Next, OwnerStep, WorkerStep, Done, vars, ownerVars, OwnerGoes, WorkerGoes,
      Spawn, SpawnFails, SubmitLocks, NotifyOne, SubmissionEnds, Get, GotAll,
      CloseLocks, SetStop, NotifyAll, Join, Terminate, Lock, Wait,
      WakeSpuriously, Returns

\* ThreadPool.hpp:13-15, ThreadPool.cpp:5-33: what the engine expects of a pool
\* is what it gets.
THEOREM PoolIsATaskPool == Spec => ImplementsTaskPool
<1>1. InductiveInvariant /\ InductiveInvariant' /\ [Next]_vars
         => [Pool!PoolNext]_(Pool!poolVars)
  BY StepPool
<1>2. QED
  BY Invariance, InitPool, <1>1, PTL DEF Spec, ImplementsTaskPool, Pool!PoolSpec

==============================================================================
