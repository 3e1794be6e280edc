------------------------------ MODULE ThreadPool ------------------------------
(***************************************************************************)
(* The worker pool of one phase (src/src/engine/ThreadPool) and the thread *)
(* that owns it: runDiscoveryPhase() or runConsistencyPhase() constructs   *)
(* the pool, submits tasks, gets their futures and destroys the pool.      *)
(*                                                                         *)
(* Unlike ScanEngine, which takes a task in one step, this module has the  *)
(* mutex and the condition variable: a thread that evaluates a condition   *)
(* holds the mutex, a wait gives it up, a notification wakes a waiter that *)
(* must take the mutex again, and a waiter may also wake for no reason.    *)
(***************************************************************************)
EXTENDS Naturals, Sequences, FiniteSets

CONSTANTS
    Workers,         \* the threads, numThreads of them
    Owner,           \* the thread of the phase
    Free,            \* the mutex is free
    MaxTasks,        \* bound: the tasks of the phase
    SpawnMayFail,    \* std::thread may throw std::system_error
    MayThrow         \* a task, and the submission loop, may throw

\* Config::fromCliArgs() refuses to run with less than one thread.
ASSUME ThreadPoolAssumption ==
    /\ IsFiniteSet(Workers) /\ Workers # {}
    /\ Owner \notin Workers /\ Free \notin Workers \cup {Owner}
    /\ MaxTasks \in Nat
    /\ {SpawnMayFail, MayThrow} \subseteq BOOLEAN

VARIABLES
    owner,     \* where the owner is
    pc,        \* where each worker is
    mutex,     \* mutex_: who holds it
    tasks,     \* tasks_
    stop,      \* stop_
    task,      \* what each worker took last
    next,      \* tasks submitted so far: 1..next
    got,       \* futures the owner has got
    result     \* the futures' shared states

ownerVars == <<owner, next, got>>
vars == <<owner, pc, mutex, tasks, stop, task, next, got, result>>

OwnerPlaces ==
    {"spawn", "submit", "push", "notify", "get", "close", "setStop",
     "broadcast", "join", "gone", "unwind", "terminated"}

WorkerPlaces == {"unborn", "lock", "check", "wait", "run", "exited"}

\* The wait set of cv_, and the workers on their way to look at the queue.
Waiting == {w \in Workers : pc[w] = "wait"}
Awake == {w \in Workers : pc[w] \in {"lock", "check"}}

\* The type of every variable.
TypeOK ==
    /\ owner \in OwnerPlaces
    /\ pc \in [Workers -> WorkerPlaces]
    /\ mutex \in Workers \cup {Owner, Free}
    /\ tasks \in Seq(1..MaxTasks)
    /\ stop \in BOOLEAN
    /\ task \in [Workers -> 0..MaxTasks]
    /\ next \in 0..MaxTasks
    /\ got \in 0..next
    /\ result \in [1..MaxTasks -> {"none", "value", "exception"}]

Init ==
    /\ owner = "spawn"
    /\ pc = [w \in Workers |-> "unborn"]
    /\ mutex = Free
    /\ tasks = <<>>
    /\ stop = FALSE
    /\ task = [w \in Workers |-> 0]
    /\ next = 0
    /\ got = 0
    /\ result = [t \in 1..MaxTasks |-> "none"]

------------------------------------------------------------------------------
(* The owner *)

OwnerGoes(here, there) == owner = here /\ owner' = there

\* The constructor starts the workers one after the other.
Spawn(w) ==
    /\ owner = "spawn"
    /\ pc[w] = "unborn"
    /\ pc' = [pc EXCEPT ![w] = "lock"]
    /\ owner' = IF \A v \in Workers \ {w} : pc[v] # "unborn"
                THEN "submit" ELSE "spawn"
    /\ UNCHANGED <<mutex, tasks, stop, task, next, got, result>>

\* A thread cannot be created: the constructor throws.  Without any worker the
\* exception leaves the phase; otherwise the members are destroyed under the
\* workers that use them.
SpawnFails ==
    /\ SpawnMayFail
    /\ owner = "spawn"
    /\ owner' = IF \A w \in Workers : pc[w] = "unborn" THEN "gone" ELSE "unwind"
    /\ UNCHANGED <<pc, mutex, tasks, stop, task, next, got, result>>

\* The destructor of workers_ meets joinable threads: std::terminate().  It
\* may never get there, when the destructor of cv_ blocks on a waiter.
Terminate ==
    /\ OwnerGoes("unwind", "terminated")
    /\ pc' = [w \in Workers |-> "exited"]
    /\ mutex' = Free
    /\ UNCHANGED <<tasks, stop, task, next, got, result>>

\* submit() takes the mutex, ...
SubmitLocks ==
    /\ OwnerGoes("submit", "push")
    /\ next < MaxTasks
    /\ mutex = Free /\ mutex' = Owner
    /\ UNCHANGED <<pc, tasks, stop, task, next, got, result>>

\* ... appends the task and gives the mutex back, ...
Push ==
    /\ OwnerGoes("push", "notify")
    /\ tasks' = Append(tasks, next + 1)
    /\ next' = next + 1
    /\ mutex' = Free
    /\ UNCHANGED <<pc, stop, task, got, result>>

\* A mistake the runs must notice: no notification.
NotifyNobody ==
    /\ OwnerGoes("notify", "submit")
    /\ UNCHANGED <<pc, mutex, tasks, stop, task, next, got, result>>

\* ... and wakes one waiter, if there is one.
NotifyOne ==
    /\ OwnerGoes("notify", "submit")
    /\ IF Waiting = {}
       THEN UNCHANGED pc
       ELSE \E w \in Waiting : pc' = [pc EXCEPT ![w] = "lock"]
    /\ UNCHANGED <<mutex, tasks, stop, task, next, got, result>>

\* The submission loop is over, or throws between two tasks.
SubmissionEnds ==
    /\ \/ OwnerGoes("submit", "get")
       \/ OwnerGoes("submit", "close") /\ MayThrow
    /\ UNCHANGED <<pc, mutex, tasks, stop, task, next, got, result>>

\* A mistake the runs must notice: the owner asks, but does not wait.
GetDoesNotWait ==
    /\ owner = "get"
    /\ got < next
    /\ got' = got + 1
    /\ UNCHANGED <<owner, pc, mutex, tasks, stop, task, next, result>>

\* future.get(), in the order of submission: an exception leaves the phase.
Get ==
    /\ owner = "get"
    /\ got < next
    /\ \/ /\ result[got + 1] = "value"
          /\ got' = got + 1
          /\ UNCHANGED owner
       \/ /\ result[got + 1] = "exception"
          /\ OwnerGoes("get", "close")
          /\ UNCHANGED got
    /\ UNCHANGED <<pc, mutex, tasks, stop, task, next, result>>

GotAll ==
    /\ OwnerGoes("get", "close")
    /\ got = next
    /\ UNCHANGED <<pc, mutex, tasks, stop, task, next, got, result>>

\* The destructor takes the mutex, ...
CloseLocks ==
    /\ OwnerGoes("close", "setStop")
    /\ mutex = Free /\ mutex' = Owner
    /\ UNCHANGED <<pc, tasks, stop, task, next, got, result>>

\* ... raises stop_, ...
SetStop ==
    /\ OwnerGoes("setStop", "broadcast")
    /\ stop' = TRUE
    /\ mutex' = Free
    /\ UNCHANGED <<pc, tasks, task, next, got, result>>

\* A mistake the runs must notice: notify_one() in the destructor.
NotifyAllButOne ==
    /\ OwnerGoes("broadcast", "join")
    /\ pc' = IF Waiting = {} THEN pc
             ELSE [pc EXCEPT ![CHOOSE w \in Waiting : TRUE] = "lock"]
    /\ UNCHANGED <<mutex, tasks, stop, task, next, got, result>>

\* ... wakes all waiters, ...
NotifyAll ==
    /\ OwnerGoes("broadcast", "join")
    /\ pc' = [w \in Workers |-> IF w \in Waiting THEN "lock" ELSE pc[w]]
    /\ UNCHANGED <<mutex, tasks, stop, task, next, got, result>>

\* A mistake the runs must notice: the threads are detached.
JoinNobody ==
    /\ OwnerGoes("join", "gone")
    /\ UNCHANGED <<pc, mutex, tasks, stop, task, next, got, result>>

\* ... and waits for every worker to return.
Join ==
    /\ OwnerGoes("join", "gone")
    /\ \A w \in Workers : pc[w] = "exited"
    /\ UNCHANGED <<pc, mutex, tasks, stop, task, next, got, result>>

------------------------------------------------------------------------------
(* A worker *)

WorkerGoes(w, here, there) == pc[w] = here /\ pc' = [pc EXCEPT ![w] = there]

\* A mistake the runs must notice: the condition without the mutex.
LockAnyway(w) ==
    /\ WorkerGoes(w, "lock", "check")
    /\ mutex' = w
    /\ UNCHANGED <<ownerVars, tasks, stop, task, result>>

\* The worker goes to look at the condition, which needs the mutex.
Lock(w) ==
    /\ WorkerGoes(w, "lock", "check")
    /\ mutex = Free /\ mutex' = w
    /\ UNCHANGED <<ownerVars, tasks, stop, task, result>>

\* cv_.wait(): the condition does not hold; blocks and unlocks in one step.
Wait(w) ==
    /\ WorkerGoes(w, "check", "wait")
    /\ ~stop /\ tasks = <<>>
    /\ mutex' = Free
    /\ UNCHANGED <<ownerVars, tasks, stop, task, result>>

\* A wait may end without a notification.
WakeSpuriously(w) ==
    /\ WorkerGoes(w, "wait", "lock")
    /\ UNCHANGED <<ownerVars, mutex, tasks, stop, task, result>>

\* A mistake the runs must notice: a stopped pool drops its queue.
ReturnsEarly(w) ==
    /\ WorkerGoes(w, "check", "exited")
    /\ stop
    /\ mutex' = Free
    /\ UNCHANGED <<ownerVars, tasks, stop, task, result>>

\* The worker returns only when nothing is left to do.
Returns(w) ==
    /\ WorkerGoes(w, "check", "exited")
    /\ stop /\ tasks = <<>>
    /\ mutex' = Free
    /\ UNCHANGED <<ownerVars, tasks, stop, task, result>>

\* A mistake the runs must notice: the front is read but not popped.
TakeWithoutPop(w) ==
    /\ WorkerGoes(w, "check", "run")
    /\ tasks # <<>>
    /\ task' = [task EXCEPT ![w] = Head(tasks)]
    /\ mutex' = Free
    /\ UNCHANGED <<ownerVars, tasks, stop, result>>

\* Takes the oldest task, stop_ or not.
Take(w) ==
    /\ WorkerGoes(w, "check", "run")
    /\ tasks # <<>>
    /\ task' = [task EXCEPT ![w] = Head(tasks)]
    /\ tasks' = Tail(tasks)
    /\ mutex' = Free
    /\ UNCHANGED <<ownerVars, stop, result>>

\* task(): the packaged task stores a value or an exception.
Run(w) ==
    /\ WorkerGoes(w, "run", "lock")
    /\ \E r \in {"value"} \cup (IF MayThrow THEN {"exception"} ELSE {}) :
          result' = [result EXCEPT ![task[w]] = r]
    /\ UNCHANGED <<ownerVars, mutex, tasks, stop, task>>

------------------------------------------------------------------------------

OwnerStep ==
    \/ \E w \in Workers : Spawn(w)
    \/ SpawnFails
    \/ SubmitLocks \/ Push \/ NotifyOne \/ SubmissionEnds
    \/ Get \/ GotAll
    \/ CloseLocks \/ SetStop \/ NotifyAll \/ Join

WorkerStep(w) ==
    Lock(w) \/ Wait(w) \/ WakeSpuriously(w) \/ Returns(w) \/ Take(w) \/ Run(w)

Done == owner \in {"gone", "terminated"} /\ UNCHANGED vars

Next ==
    \/ OwnerStep
    \/ \E w \in Workers : WorkerStep(w)
    \/ Terminate
    \/ Done

Spec == Init /\ [][Next]_vars

\* Threads that can run do run, tasks end (Oracle answers), and a thread that
\* waits for a mutex that is released again and again gets it at last.  No
\* spurious wakeup is owed to anyone, and no end of a blocked destructor.
Fairness ==
    /\ WF_vars(OwnerStep)
    /\ SF_vars(SubmitLocks) /\ SF_vars(CloseLocks)
    /\ \A w \in Workers :
          /\ WF_vars(Wait(w) \/ Returns(w) \/ Take(w) \/ Run(w))
          /\ SF_vars(Lock(w))

FairSpec == Spec /\ Fairness

------------------------------------------------------------------------------
(* Properties *)

\* A task is run once: two workers never have the same one, and none has one
\* whose future is ready.
RunsOnce ==
    \A w \in Workers : pc[w] = "run" =>
        /\ result[task[w]] = "none"
        /\ \A v \in Workers \ {w} : pc[v] = "run" => task[v] # task[w]

\* ThreadPool.cpp:24-33: when the destructor returns, every task that was
\* submitted has run, also when the owner left the phase by an exception, and
\* no worker is left that could still use the phase's local variables.
NothingLeftBehind ==
    owner = "gone" =>
        /\ \A w \in Workers : pc[w] \in {"unborn", "exited"}
        /\ \A t \in 1..next : result[t] # "none"

\* ThreadPool.hpp:13-15: getting all futures is a barrier.  An owner that has
\* got them all has only tasks behind it that are over, and over well.
BarrierIsTight ==
    got = next /\ owner = "get" => \A t \in 1..next : result[t] = "value"

\* No lost wakeup (ThreadPool.hpp:29-33): while a worker sleeps, every task in
\* the queue has a worker of its own that is awake to take it, but for the
\* one whose notification is on its way; no worker sleeps through the stop.
NoLostWakeup ==
    Waiting # {} =>
        /\ Len(tasks) <= Cardinality(Awake) + (IF owner = "notify" THEN 1 ELSE 0)
        /\ stop => owner = "broadcast"

\* Every pool comes to its end, unless a worker could not be started: then
\* there is no end that the code would owe (Terminate).
PoolEnds == <>(owner \in {"gone", "unwind"})

\* Every task that is submitted is run, if the owner gets its future or not.
EveryTaskRuns == \A t \in 1..MaxTasks : next >= t ~> result[t] # "none"

------------------------------------------------------------------------------
(***************************************************************************)
(* The inductive invariant.                                                *)
(***************************************************************************)

\* Tasks 1..Begun have been taken from the queue, which holds the rest.
Begun == next - Len(tasks)

\* Who holds the mutex is where the code holds it.
MutexInv ==
    /\ mutex = Owner <=> owner \in {"push", "setStop"}
    /\ \A w \in Workers : mutex = w <=> pc[w] = "check"

\* The queue holds the youngest tasks, in order, none of them run.
QueueInv ==
    /\ Len(tasks) <= next
    /\ \A i \in 1..Len(tasks) : tasks[i] = Begun + i
    /\ \A t \in 1..MaxTasks : t > Begun => result[t] = "none"

\* A task that was taken is over or in the hands of one worker.
TaskInv ==
    /\ RunsOnce
    /\ \A w \in Workers : pc[w] = "run" => task[w] \in 1..Begun
    /\ \A t \in 1..Begun :
          result[t] # "none" \/ \E w \in Workers : pc[w] = "run" /\ task[w] = t

\* Where the owner is tells how far the pool has come.
OwnerInv ==
    /\ owner \in {"spawn", "unwind", "terminated"} => next = 0
    /\ owner = "push" => next < MaxTasks
    /\ stop => owner \in {"broadcast", "join", "gone"}
    /\ owner \in {"broadcast", "join"} => stop
    /\ owner = "gone" => /\ tasks = <<>>
                         /\ \A w \in Workers : pc[w] \in {"unborn", "exited"}
    /\ \A w \in Workers :
          pc[w] = "exited" => tasks = <<>> /\ (stop \/ owner = "terminated")
    /\ \A t \in 1..got : result[t] = "value"

\* All of the above: true at the start, and kept by every step.
InductiveInvariant ==
    /\ TypeOK
    /\ MutexInv
    /\ QueueInv
    /\ TaskInv
    /\ OwnerInv

------------------------------------------------------------------------------
(* The pool implements TaskPool. *)

Pool == INSTANCE TaskPool WITH
    given <- next,
    begun <- Begun,
    finished <- {t \in 1..MaxTasks : result[t] # "none"},
    closed <- owner = "gone"

\* Tasks are begun in the order of their submission, each is finished once and
\* after it was begun, and a pool that is gone has finished them all.
ImplementsTaskPool == Pool!PoolSpec

==============================================================================
