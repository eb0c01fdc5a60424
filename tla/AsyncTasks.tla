----------------------------- MODULE AsyncTasks -----------------------------
(***************************************************************************)
(* The backend is one asyncio event loop.  Code between two awaits runs    *)
(* without interruption, so an action of the backend modules stands for    *)
(* one such stretch of one task.  An asyncio.Lock keeps its waiters in     *)
(* arrival order and a newcomer never overtakes them; the modules keep     *)
(* each lock as an owner and a sequence of waiters.                        *)
(***************************************************************************)
EXTENDS Integers, Sequences

CONSTANTS
    Tasks,  \* the tasks of the event loop that use the KIS client
    NoTask  \* the owner of a free lock

ASSUME NoTaskAssumption == NoTask \notin Tasks

\* The tasks that wait in queue q.
Waiting(q) == {q[i] : i \in DOMAIN q}

\* Task t is the next one that queue q lets through.
IsNext(t, q) == q # <<>> /\ Head(q) = t

\* No task waits twice in q.
NoRepeats(q) == \A i, j \in DOMAIN q : q[i] = q[j] => i = j
=============================================================================
