---------------------------- MODULE RateLimiter -----------------------------
(***************************************************************************)
(* RateLimiter of backend/app/kis/client.py.  acquire() takes the          *)
(* limiter's lock, sleeps while the next slot is still ahead, and books    *)
(* the slot after the one it used.  The lock is held across the sleep.     *)
(* Time is an integer; a woken sleeper may run later than it asked for.    *)
(***************************************************************************)
EXTENDS AsyncTasks

CONSTANTS
    Interval,  \* 1 / calls_per_second, in clock ticks
    MaxClock   \* bound of the model: the clock stops here

ASSUME LimiterAssumption == Interval \in Nat /\ MaxClock \in Nat

VARIABLES
    now,            \* time.monotonic()
    nextAvailable,  \* _next_available
    limiterLock,    \* the task asleep inside acquire(), or NoTask
    limiterQueue,   \* tasks waiting for the limiter's lock
    wakeAt,         \* when the sleep of limiterLock ends
    grants          \* history: the times at which acquire() returned

limiterVars == <<now, nextAvailable, limiterLock, limiterQueue, wakeAt, grants>>

LimiterTypeOK ==
    /\ now \in Nat
    /\ nextAvailable \in Nat
    /\ limiterLock \in Tasks \cup {NoTask}
    /\ limiterQueue \in Seq(Tasks)
    /\ wakeAt \in Nat
    /\ grants \in Seq(Nat)

LimiterInit ==
    /\ now = 0
    /\ nextAvailable = 0
    /\ limiterLock = NoTask
    /\ limiterQueue = <<>>
    /\ wakeAt = 0
    /\ grants = <<>>

InLimiter(t) == t \in Waiting(limiterQueue) \cup {limiterLock}

\* A call of acquire(): the task queues for the lock.
Acquire(t) ==
    /\ ~InLimiter(t)
    /\ limiterQueue' = Append(limiterQueue, t)
    /\ UNCHANGED <<now, nextAvailable, limiterLock, wakeAt, grants>>

\* A variant of Book that no specification uses: slots counted from the last
\* booked one, as if a late caller could catch up.
BookCatchingUp ==
    /\ nextAvailable' = nextAvailable + Interval
    /\ grants' = Append(grants, now)
    /\ UNCHANGED now

\* acquire() books the slot that follows the present one and returns.
Book ==
    /\ nextAvailable' = now + Interval
    /\ grants' = Append(grants, now)
    /\ UNCHANGED now

\* The lock is free and the slot is due: no sleep.
GrantAtOnce(t) ==
    /\ limiterLock = NoTask
    /\ IsNext(t, limiterQueue)
    /\ nextAvailable <= now
    /\ limiterQueue' = Tail(limiterQueue)
    /\ Book
    /\ UNCHANGED <<limiterLock, wakeAt>>

\* The slot is ahead: the task sleeps and keeps the lock.
Sleep(t) ==
    /\ limiterLock = NoTask
    /\ IsNext(t, limiterQueue)
    /\ nextAvailable > now
    /\ limiterQueue' = Tail(limiterQueue)
    /\ limiterLock' = t
    /\ wakeAt' = nextAvailable
    /\ UNCHANGED <<now, nextAvailable, grants>>

\* The sleep ends, at wakeAt or later, and the slot is taken.
Wake(t) ==
    /\ limiterLock = t
    /\ now >= wakeAt
    /\ limiterLock' = NoTask
    /\ Book
    /\ UNCHANGED <<limiterQueue, wakeAt>>

\* acquire() returns to task t.
Grant(t) == GrantAtOnce(t) \/ Wake(t)

Tick ==
    /\ now < MaxClock
    /\ now' = now + 1
    /\ UNCHANGED <<nextAvailable, limiterLock, limiterQueue, wakeAt, grants>>

LimiterNext ==
    \/ \E t \in Tasks : Acquire(t) \/ Sleep(t) \/ Grant(t)
    \/ Tick

LimiterSpec == LimiterInit /\ [][LimiterNext]_limiterVars
-----------------------------------------------------------------------------
(***************************************************************************)
(* acquire() returns to two tasks at least Interval apart, whatever tasks  *)
(* queue, sleep or oversleep (RateLimiter.acquire, client.py:45-52).       *)
(***************************************************************************)
GrantsSpaced ==
    \A i \in DOMAIN grants : \A j \in DOMAIN grants :
        i < j => grants[j] - grants[i] >= Interval

(***************************************************************************)
(* Every sleeper sleeps until the slot that is booked last, so a wake-up   *)
(* cannot take a slot that another task was given during the sleep: the    *)
(* lock is held across the sleep (client.py:46-50).                        *)
(***************************************************************************)
SleeperOwnsSlot == limiterLock # NoTask => wakeAt = nextAvailable
=============================================================================
