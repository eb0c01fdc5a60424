---------------------------- MODULE TokenManager ----------------------------
(***************************************************************************)
(* TokenManager of backend/app/kis/token.py: one cached OAuth token, a     *)
(* lock, and three operations that concurrent tasks call.  get_token       *)
(* returns the cached token without the lock while it is not near expiry;  *)
(* otherwise it takes the lock, looks again, and issues a token only if    *)
(* that is still needed.  refresh always issues.  revoke tells KIS and     *)
(* drops the token whatever KIS answers.  Issuing makes at most            *)
(* MaxRetries attempts and holds the lock across all of them.              *)
(***************************************************************************)
EXTENDS AsyncTasks

CONSTANTS
    MaxRetries,  \* _MAX_RETRIES
    MaxIssued    \* bound of the model: KIS issues no more tokens than this

ASSUME TokenAssumption == MaxRetries \in Nat \ {0} /\ MaxIssued \in Nat

VARIABLES
    configured,  \* the core credentials are set (they never change at run time)
    token,       \* the cached token; tokens are numbered as KIS issues them, 0: none
    nearExpiry,  \* the cached token is within the refresh buffer of its expiry
    issued,      \* how many tokens have been issued so far
    revoked,     \* history: the tokens whose revocation has returned
    lock,        \* the owner of TokenManager._lock, or NoTask
    lockQueue,   \* tasks waiting for the lock
    op,          \* per task: the operation it is in
    stage,       \* per task: where in that operation it awaits
    attempt      \* per task: the attempt at issuing a token it is making

tokenVars == <<configured, token, nearExpiry, issued, revoked, lock, lockQueue,
               op, stage, attempt>>

None == 0
Operations == {"none", "get", "refresh", "revoke"}
Stages == {"idle", "queued", "issuing", "backoff", "revoking"}

TokenTypeOK ==
    /\ configured \in BOOLEAN
    /\ token \in Nat
    /\ nearExpiry \in BOOLEAN
    /\ issued \in Nat
    /\ revoked \in SUBSET Nat
    /\ lock \in Tasks \cup {NoTask}
    /\ lockQueue \in Seq(Tasks)
    /\ op \in [Tasks -> Operations]
    /\ stage \in [Tasks -> Stages]
    /\ attempt \in [Tasks -> 0..MaxRetries]

TokenInit ==
    /\ configured \in BOOLEAN
    /\ token = None
    /\ nearExpiry = FALSE
    /\ issued = 0
    /\ revoked = {}
    /\ lock = NoTask
    /\ lockQueue = <<>>
    /\ op = [t \in Tasks |-> "none"]
    /\ stage = [t \in Tasks |-> "idle"]
    /\ attempt = [t \in Tasks |-> 0]

IsExpired == token = None \/ nearExpiry

Idle(t) == stage[t] = "idle"
-----------------------------------------------------------------------------
\* get_token finds a usable token and returns it; no lock, no await.
GetCached(t) ==
    /\ Idle(t)
    /\ ~IsExpired
    /\ UNCHANGED tokenVars

\* The task starts operation o and queues for the lock.
Queue(t, o) ==
    /\ Idle(t)
    /\ op' = [op EXCEPT ![t] = o]
    /\ stage' = [stage EXCEPT ![t] = "queued"]
    /\ lockQueue' = Append(lockQueue, t)
    /\ UNCHANGED <<configured, token, nearExpiry, issued, revoked, lock, attempt>>

GetQueued(t) == IsExpired /\ Queue(t, "get")
Refresh(t)   == Queue(t, "refresh")
Revoke(t)    == Queue(t, "revoke")

\* A variant of Turn that no specification uses: the lock is not taken.
TurnUnlocked(t) == IsNext(t, lockQueue)

\* The lock is free and t is the first of its waiters.
Turn(t) == lock = NoTask /\ IsNext(t, lockQueue)

\* The operation of t ends; t holds no lock any more.
Finish(t) ==
    /\ op' = [op EXCEPT ![t] = "none"]
    /\ stage' = [stage EXCEPT ![t] = "idle"]
    /\ attempt' = [attempt EXCEPT ![t] = 0]
    /\ lock' = NoTask

\* A variant of MustIssue that no specification uses: no second look.
MustIssueUnchecked(t) == op[t] \in {"get", "refresh"}

MustIssue(t) == op[t] = "refresh" \/ (op[t] = "get" /\ IsExpired)

\* get_token, lock in hand, finds that another task has refreshed meanwhile.
TurnFresh(t) ==
    /\ Turn(t)
    /\ op[t] = "get" /\ ~IsExpired
    /\ lockQueue' = Tail(lockQueue)
    /\ Finish(t)
    /\ UNCHANGED <<configured, token, nearExpiry, issued, revoked>>

\* _refresh_locked starts: the first POST to /oauth2/tokenP.
TurnIssue(t) ==
    /\ Turn(t)
    /\ MustIssue(t)
    /\ configured
    /\ lockQueue' = Tail(lockQueue)
    /\ lock' = t
    /\ stage' = [stage EXCEPT ![t] = "issuing"]
    /\ attempt' = [attempt EXCEPT ![t] = 1]
    /\ UNCHANGED <<configured, token, nearExpiry, issued, revoked, op>>

\* Credentials are missing: KISNotConfiguredError before anything is sent.
TurnUnconfigured(t) ==
    /\ Turn(t)
    /\ MustIssue(t)
    /\ ~configured
    /\ lockQueue' = Tail(lockQueue)
    /\ Finish(t)
    /\ UNCHANGED <<configured, token, nearExpiry, issued, revoked>>

\* revoke with a cached token: the POST to /oauth2/revokeP.
TurnRevoke(t) ==
    /\ Turn(t)
    /\ op[t] = "revoke" /\ token # None
    /\ lockQueue' = Tail(lockQueue)
    /\ lock' = t
    /\ stage' = [stage EXCEPT ![t] = "revoking"]
    /\ UNCHANGED <<configured, token, nearExpiry, issued, revoked, op, attempt>>

\* revoke without a cached token returns at once.
TurnRevokeNothing(t) ==
    /\ Turn(t)
    /\ op[t] = "revoke" /\ token = None
    /\ lockQueue' = Tail(lockQueue)
    /\ Finish(t)
    /\ UNCHANGED <<configured, token, nearExpiry, issued, revoked>>
-----------------------------------------------------------------------------
\* KIS answers with a token, which replaces the cached one.
IssueOk(t) ==
    /\ stage[t] = "issuing"
    /\ issued < MaxIssued
    /\ issued' = issued + 1
    /\ token' = issued + 1
    /\ nearExpiry' = FALSE
    /\ Finish(t)
    /\ UNCHANGED <<configured, revoked, lockQueue>>

\* A variant of IssueFailed that no specification uses: the last attempt is
\* followed by one more.
IssueFailedUncounted(t) ==
    /\ stage[t] = "issuing"
    /\ stage' = [stage EXCEPT ![t] = "backoff"]
    /\ UNCHANGED <<configured, token, nearExpiry, issued, revoked, lock, lockQueue, op, attempt>>

\* Network error or HTTP status >= 400: sleep, the lock still held.
IssueFailed(t) ==
    /\ stage[t] = "issuing"
    /\ attempt[t] < MaxRetries
    /\ stage' = [stage EXCEPT ![t] = "backoff"]
    /\ UNCHANGED <<configured, token, nearExpiry, issued, revoked, lock, lockQueue, op, attempt>>

BackoffOver(t) ==
    /\ stage[t] = "backoff"
    /\ stage' = [stage EXCEPT ![t] = "issuing"]
    /\ attempt' = [attempt EXCEPT ![t] = @ + 1]
    /\ UNCHANGED <<configured, token, nearExpiry, issued, revoked, lock, lockQueue, op>>

\* Variants that no specification uses: the error leaves the lock taken.
LeaveLocked(t) ==
    /\ op' = [op EXCEPT ![t] = "none"]
    /\ stage' = [stage EXCEPT ![t] = "idle"]
    /\ attempt' = [attempt EXCEPT ![t] = 0]
    /\ UNCHANGED <<configured, token, nearExpiry, issued, revoked, lock, lockQueue>>

IssueExhaustedLocked(t) == stage[t] = "issuing" /\ attempt[t] = MaxRetries /\ LeaveLocked(t)
IssueMalformedLocked(t) == stage[t] = "issuing" /\ LeaveLocked(t)

\* The last attempt failed: TokenExpiredError.  The old token stays cached.
IssueExhausted(t) ==
    /\ stage[t] = "issuing"
    /\ attempt[t] = MaxRetries
    /\ Finish(t)
    /\ UNCHANGED <<configured, token, nearExpiry, issued, revoked, lockQueue>>

\* The answer is not a token response: the parse error leaves the retry loop.
IssueMalformed(t) ==
    /\ stage[t] = "issuing"
    /\ Finish(t)
    /\ UNCHANGED <<configured, token, nearExpiry, issued, revoked, lockQueue>>

\* A variant of RevokeDone that no specification uses: a revocation that
\* fails on the way keeps the token.
RevokeDoneOrKept(t) ==
    /\ stage[t] = "revoking"
    /\ revoked' = revoked \cup {token}
    /\ token' \in {None, token}
    /\ Finish(t)
    /\ UNCHANGED <<configured, nearExpiry, issued, lockQueue>>

\* KIS answered the revocation or could not be reached: the token is dropped.
RevokeDone(t) ==
    /\ stage[t] = "revoking"
    /\ revoked' = revoked \cup {token}
    /\ token' = None
    /\ Finish(t)
    /\ UNCHANGED <<configured, nearExpiry, issued, lockQueue>>

\* The clock passes expires_at - _REFRESH_BUFFER.
Age ==
    /\ ~IsExpired
    /\ nearExpiry' = TRUE
    /\ UNCHANGED <<configured, token, issued, revoked, lock, lockQueue, op, stage, attempt>>
-----------------------------------------------------------------------------
Start(t) == GetQueued(t) \/ Refresh(t) \/ Revoke(t)

\* What a task that is inside an operation does next.
Proceed(t) ==
    \/ TurnFresh(t) \/ TurnIssue(t) \/ TurnUnconfigured(t)
    \/ TurnRevoke(t) \/ TurnRevokeNothing(t)
    \/ IssueOk(t) \/ IssueFailed(t) \/ BackoffOver(t)
    \/ IssueExhausted(t) \/ IssueMalformed(t) \/ RevokeDone(t)

TokenNext == Age \/ \E t \in Tasks : Start(t) \/ Proceed(t)

TokenSpec == TokenInit /\ [][TokenNext]_tokenVars

-----------------------------------------------------------------------------
Inside(t) == stage[t] \in {"issuing", "backoff", "revoking"}

(***************************************************************************)
(* A task that talks to KIS about the token, or sleeps between two tries,  *)
(* is the owner of the lock, so at most one of them does (token.py:46-61). *)
(***************************************************************************)
OneTaskInside == \A t \in Tasks : Inside(t) <=> lock = t

(***************************************************************************)
(* The tasks that queue for the lock are exactly those that wait for it,   *)
(* each once: nobody is forgotten, nobody is let in twice.                 *)
(***************************************************************************)
QueueExact ==
    /\ NoRepeats(lockQueue)
    /\ Waiting(lockQueue) = {t \in Tasks : stage[t] = "queued"}

(***************************************************************************)
(* Double-checked locking: while get_token issues a token there is no      *)
(* usable token in the cache, although other tasks refreshed and revoked   *)
(* between its first look and its turn (token.py:41-48).                   *)
(***************************************************************************)
NoNeedlessIssue == \A t \in Tasks : op[t] = "get" /\ Inside(t) => IsExpired

(***************************************************************************)
(* A token whose revocation has returned is never cached again, even if    *)
(* KIS could not be reached (token.py:73-78).                              *)
(***************************************************************************)
RevokedNotCached == token \notin revoked

(***************************************************************************)
(* The three operations are atomic to their callers: the manager is a      *)
(* TokenCell, although each of them may await the lock, KIS and a backoff, *)
(* and the token ages meanwhile (token.py:35-78).                          *)
(***************************************************************************)
Cell == INSTANCE TokenCell WITH
    Users <- Tasks, cell <- token, usable <- ~IsExpired, last <- issued, pending <- op

ImplementsTokenCell == Cell!CellSpec

(***************************************************************************)
(* Every operation returns: KIS failing for good, a revocation in between  *)
(* or missing credentials never leave the lock taken.                      *)
(***************************************************************************)
EveryOperationReturns == \A t \in Tasks : ~Idle(t) ~> Idle(t)
=============================================================================
