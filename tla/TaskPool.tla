------------------------------- MODULE TaskPool -------------------------------
(***************************************************************************)
(* What the engine expects of a ThreadPool (src/src/engine/ThreadPool.hpp, *)
(* "batch a phase's work and block on all of it as a barrier"): tasks are  *)
(* begun in the order of their submission, each once and by one worker,    *)
(* and a pool that is gone has finished every task it was given.           *)
(***************************************************************************)
EXTENDS Naturals

CONSTANT MaxTasks    \* bound: the tasks that may be submitted

VARIABLES
    given,       \* tasks submitted: 1..given
    begun,       \* tasks begun: 1..begun
    finished,    \* the tasks whose future is ready
    closed       \* the pool is gone

poolVars == <<given, begun, finished, closed>>

PoolInit == given = 0 /\ begun = 0 /\ finished = {} /\ closed = FALSE

Give ==
    /\ ~closed /\ given < MaxTasks
    /\ given' = given + 1
    /\ UNCHANGED <<begun, finished, closed>>

Begin ==
    /\ ~closed /\ begun < given
    /\ begun' = begun + 1
    /\ UNCHANGED <<given, finished, closed>>

Finish ==
    /\ ~closed
    /\ \E t \in (1..begun) \ finished : finished' = finished \cup {t}
    /\ UNCHANGED <<given, begun, closed>>

Close ==
    /\ finished = 1..given
    /\ closed' = TRUE
    /\ UNCHANGED <<given, begun, finished>>

PoolNext == Give \/ Begin \/ Finish \/ Close

PoolSpec == PoolInit /\ [][PoolNext]_poolVars

==============================================================================
