------------------------- MODULE TokenManagerProofs -------------------------
(***************************************************************************)
(* Safety of the token manager, for every set of tasks, number of retries  *)
(* and number of tokens.  OneTaskInside, QueueExact and NoNeedlessIssue    *)
(* need each other: a task taken from the queue must be a queued one for   *)
(* the owner of the lock to be the only task inside, and the cache must    *)
(* change only at the hands of that owner for a get_token to stay needed.  *)
(***************************************************************************)
EXTENDS TokenManager, TLAPS

\* A task is in an operation exactly when it awaits something, and what it
\* awaits fits the operation.
StageFitsOp ==
    \A t \in Tasks :
        /\ stage[t] = "idle" <=> op[t] = "none"
        /\ stage[t] \in {"issuing", "backoff"} => op[t] \in {"get", "refresh"}
        /\ stage[t] = "revoking" => op[t] = "revoke" /\ token # None
        /\ stage[t] = "backoff" => attempt[t] < MaxRetries

\* Tokens are numbered as they are issued.
TokensNumbered == token <= issued /\ revoked \subseteq 1..issued

TokenInv ==
    /\ TokenTypeOK
    /\ StageFitsOp
    /\ OneTaskInside
    /\ QueueExact
    /\ NoNeedlessIssue
    /\ TokensNumbered
    /\ RevokedNotCached
-----------------------------------------------------------------------------
(* Joining a queue adds the newcomer and nobody twice. *)
LEMMA AppendWaits ==
    ASSUME NEW q \in Seq(Tasks), NEW t \in Tasks, t \notin Waiting(q), NoRepeats(q)
    PROVE  /\ Append(q, t) \in Seq(Tasks)
           /\ Waiting(Append(q, t)) = Waiting(q) \cup {t}
           /\ NoRepeats(Append(q, t))
<1> DEFINE a == Append(q, t)
<1>1. /\ a \in Seq(Tasks)
      /\ DOMAIN a = 1..(Len(q) + 1)
      /\ DOMAIN q = 1..Len(q)
      /\ \A i \in DOMAIN q : a[i] = q[i]
      /\ a[Len(q) + 1] = t
      /\ Len(q) \in Nat
  OBVIOUS
<1> HIDE DEF a
<1>2. Waiting(a) = Waiting(q) \cup {t}
  <2>1. ASSUME NEW x \in Waiting(a)
        PROVE  x \in Waiting(q) \cup {t}
    <3>1. PICK i \in DOMAIN a : x = a[i]
      BY <2>1 DEF Waiting
    <3> QED
      BY <3>1, <1>1 DEF Waiting
  <2>2. ASSUME NEW x \in Waiting(q) \cup {t}
        PROVE  x \in Waiting(a)
    BY <2>2, <1>1 DEF Waiting
  <2> QED
    BY <2>1, <2>2
<1>3. NoRepeats(a)
  <2> SUFFICES ASSUME NEW i \in DOMAIN a, NEW j \in DOMAIN a, a[i] = a[j]
               PROVE  i = j
    BY DEF NoRepeats
  <2> QED
    BY <1>1 DEF NoRepeats, Waiting
<1> QED
  BY <1>1, <1>2, <1>3 DEF a

(* Leaving a queue at its head removes that task and no other. *)
LEMMA TailWaits ==
    ASSUME NEW q \in Seq(Tasks), q # <<>>, NoRepeats(q)
    PROVE  /\ Tail(q) \in Seq(Tasks)
           /\ Head(q) \in Waiting(q)
           /\ Waiting(Tail(q)) = Waiting(q) \ {Head(q)}
           /\ NoRepeats(Tail(q))
<1> DEFINE b == Tail(q)
<1>1. /\ b \in Seq(Tasks)
      /\ Len(q) \in Nat \ {0}
      /\ DOMAIN b = 1..(Len(q) - 1)
      /\ DOMAIN q = 1..Len(q)
      /\ \A i \in DOMAIN b : b[i] = q[i + 1]
      /\ Head(q) = q[1]
  OBVIOUS
<1> HIDE DEF b
<1>2. Waiting(b) = Waiting(q) \ {Head(q)}
  <2>1. ASSUME NEW x \in Waiting(b)
        PROVE  x \in Waiting(q) \ {Head(q)}
    <3>1. PICK i \in DOMAIN b : x = b[i]
      BY <2>1 DEF Waiting
    <3>2. x = q[i + 1] /\ i + 1 \in DOMAIN q /\ i + 1 # 1 /\ 1 \in DOMAIN q
      BY <3>1, <1>1
    <3> QED
      BY <3>2, <1>1 DEF Waiting, NoRepeats
  <2>2. ASSUME NEW x \in Waiting(q) \ {Head(q)}
        PROVE  x \in Waiting(b)
    <3>1. PICK i \in DOMAIN q : x = q[i]
      BY <2>2 DEF Waiting
    <3>2. i # 1 /\ i - 1 \in DOMAIN b /\ b[i - 1] = q[i]
      BY <3>1, <2>2, <1>1
    <3> QED
      BY <3>1, <3>2 DEF Waiting
  <2> QED
    BY <2>1, <2>2
<1>3. NoRepeats(b)
  <2> SUFFICES ASSUME NEW i \in DOMAIN b, NEW j \in DOMAIN b, b[i] = b[j]
               PROVE  i = j
    BY DEF NoRepeats
  <2>1. i + 1 \in DOMAIN q /\ j + 1 \in DOMAIN q /\ q[i + 1] = q[j + 1]
    BY <1>1
  <2> QED
    BY <2>1, <1>1 DEF NoRepeats
<1>4. Head(q) \in Waiting(q)
  BY <1>1 DEF Waiting
<1> QED
  BY <1>1, <1>2, <1>3, <1>4 DEF b
-----------------------------------------------------------------------------
(* The task whose turn it is was queued, and nobody is inside. *)
LEMMA TurnFacts ==
    ASSUME TokenInv, NEW t \in Tasks, Turn(t), lockQueue' = Tail(lockQueue)
    PROVE  /\ stage[t] = "queued"
           /\ lock = NoTask
           /\ \A u \in Tasks : ~Inside(u)
           /\ lockQueue' \in Seq(Tasks)
           /\ NoRepeats(lockQueue')
           /\ Waiting(lockQueue') = {u \in Tasks : stage[u] = "queued" /\ u # t}
<1>1. lockQueue # <<>> /\ Head(lockQueue) = t /\ lock = NoTask
  BY DEF Turn, IsNext
<1>2. lockQueue \in Seq(Tasks) /\ NoRepeats(lockQueue)
      /\ Waiting(lockQueue) = {u \in Tasks : stage[u] = "queued"}
  BY DEF TokenInv, TokenTypeOK, QueueExact
<1>3. /\ t \in Waiting(lockQueue)
      /\ Waiting(lockQueue') = Waiting(lockQueue) \ {t}
      /\ NoRepeats(lockQueue') /\ lockQueue' \in Seq(Tasks)
  BY <1>1, <1>2, TailWaits
<1>4. \A u \in Tasks : ~Inside(u)
  BY <1>1, NoTaskAssumption DEF TokenInv, OneTaskInside
<1> QED
  BY <1>1, <1>2, <1>3, <1>4

(* A task that is inside is alone there, and is not in the queue. *)
LEMMA InsideFacts ==
    ASSUME TokenInv, NEW t \in Tasks, Inside(t)
    PROVE  /\ lock = t
           /\ \A u \in Tasks : Inside(u) => u = t
           /\ t \notin Waiting(lockQueue)
  BY DEF TokenInv, OneTaskInside, QueueExact, Inside

(* A task that leaves the lock, or the queue without taking it, disturbs   *)
(* nobody else: what is left is what its action does to the cache.         *)
LEMMA FinishKeeps ==
    ASSUME TokenInv, NEW t \in Tasks, Finish(t),
           \A u \in Tasks : Inside(u) => u = t,
           /\ lockQueue' \in Seq(Tasks)
           /\ NoRepeats(lockQueue')
           /\ Waiting(lockQueue') = {u \in Tasks : stage[u] = "queued" /\ u # t}
    PROVE  /\ OneTaskInside'
           /\ QueueExact'
           /\ NoNeedlessIssue'
           /\ lock' \in Tasks \cup {NoTask}
           /\ op' \in [Tasks -> Operations]
           /\ stage' \in [Tasks -> Stages]
           /\ attempt' \in [Tasks -> 0..MaxRetries]
           /\ \A u \in Tasks : u # t => stage'[u] = stage[u] /\ op'[u] = op[u]
           /\ op'[t] = "none" /\ stage'[t] = "idle"
           /\ \A u \in Tasks : ~(stage'[u] \in {"issuing", "backoff", "revoking"})
<1> USE TokenAssumption, NoTaskAssumption DEF TokenInv, TokenTypeOK, Finish
<1>1. /\ lock' = NoTask
      /\ op' \in [Tasks -> Operations]
      /\ stage' \in [Tasks -> Stages]
      /\ attempt' \in [Tasks -> 0..MaxRetries]
      /\ \A u \in Tasks : u # t => stage'[u] = stage[u] /\ op'[u] = op[u]
      /\ op'[t] = "none" /\ stage'[t] = "idle"
  BY DEF Operations, Stages
<1>2. \A u \in Tasks : ~(stage'[u] \in {"issuing", "backoff", "revoking"})
  BY <1>1 DEF Inside
<1>3. OneTaskInside'
  BY <1>1, <1>2 DEF OneTaskInside, Inside
<1>4. QueueExact'
  BY <1>1 DEF QueueExact
<1>5. NoNeedlessIssue'
  BY <1>2 DEF NoNeedlessIssue, Inside
<1> QED
  BY <1>1, <1>2, <1>3, <1>4, <1>5

LEMMA TokenInitInv == TokenInit => TokenInv
<1> SUFFICES ASSUME TokenInit PROVE TokenInv
  OBVIOUS
<1> USE TokenAssumption, NoTaskAssumption DEF TokenInit, None
<1>1. TokenTypeOK
  <2>1. configured \in BOOLEAN /\ nearExpiry \in BOOLEAN
    OBVIOUS
  <2>2. /\ token \in Nat /\ issued \in Nat
        /\ revoked \in SUBSET Nat /\ lock \in Tasks \cup {NoTask}
        /\ lockQueue \in Seq(Tasks)
    OBVIOUS
  <2>3. /\ op \in [Tasks -> Operations] /\ stage \in [Tasks -> Stages]
        /\ attempt \in [Tasks -> 0..MaxRetries]
    BY DEF Operations, Stages
  <2> QED
    BY <2>1, <2>2, <2>3 DEF TokenTypeOK
<1>2. StageFitsOp /\ OneTaskInside /\ NoNeedlessIssue /\ TokensNumbered /\ RevokedNotCached
  BY DEF StageFitsOp, OneTaskInside, NoNeedlessIssue, TokensNumbered, RevokedNotCached, Inside
<1>3. QueueExact
  BY DEF QueueExact, NoRepeats, Waiting
<1> QED
  BY <1>1, <1>2, <1>3 DEF TokenInv

(* An operation starts: its task joins the queue. *)
LEMMA QueueKeepsInv ==
    ASSUME TokenInv, NEW t \in Tasks, NEW o \in Operations \ {"none"}, Queue(t, o)
    PROVE  TokenInv'
<1> USE TokenAssumption, NoTaskAssumption DEF Queue, Idle
<1>0. TokenTypeOK /\ t \notin Waiting(lockQueue) /\ NoRepeats(lockQueue)
  BY DEF TokenInv, QueueExact
<1>1. /\ lockQueue' \in Seq(Tasks)
      /\ Waiting(lockQueue') = Waiting(lockQueue) \cup {t}
      /\ NoRepeats(lockQueue')
  BY <1>0, AppendWaits DEF TokenTypeOK
<1>2. TokenTypeOK'
  BY <1>0, <1>1 DEF TokenTypeOK, Operations, Stages
<1>3. /\ stage'[t] = "queued" /\ op'[t] = o
      /\ \A u \in Tasks : u # t => stage'[u] = stage[u] /\ op'[u] = op[u]
  BY <1>0 DEF TokenTypeOK
<1>4. StageFitsOp'
  BY <1>3 DEF TokenInv, StageFitsOp
<1>5. OneTaskInside' /\ NoNeedlessIssue'
  BY <1>3 DEF TokenInv, OneTaskInside, NoNeedlessIssue, Inside, IsExpired
<1>6. QueueExact'
  BY <1>1, <1>3 DEF TokenInv, QueueExact
<1>7. TokensNumbered' /\ RevokedNotCached'
  BY DEF TokenInv, TokensNumbered, RevokedNotCached
<1> QED
  BY <1>2, <1>4, <1>5, <1>6, <1>7 DEF TokenInv

(* A task's turn ends its operation at once: TurnFresh, TurnUnconfigured   *)
(* and TurnRevokeNothing leave the cache alone.                            *)
LEMMA TurnFinishKeepsInv ==
    ASSUME TokenInv, NEW t \in Tasks, Turn(t), lockQueue' = Tail(lockQueue), Finish(t),
           UNCHANGED <<configured, token, nearExpiry, issued, revoked>>
    PROVE  TokenInv'
<1>1. /\ \A u \in Tasks : Inside(u) => u = t
      /\ lockQueue' \in Seq(Tasks)
      /\ NoRepeats(lockQueue')
      /\ Waiting(lockQueue') = {u \in Tasks : stage[u] = "queued" /\ u # t}
  BY TurnFacts
<1>2. /\ OneTaskInside' /\ QueueExact' /\ NoNeedlessIssue'
      /\ lock' \in Tasks \cup {NoTask}
      /\ op' \in [Tasks -> Operations]
      /\ stage' \in [Tasks -> Stages]
      /\ attempt' \in [Tasks -> 0..MaxRetries]
      /\ \A u \in Tasks : u # t => stage'[u] = stage[u] /\ op'[u] = op[u]
      /\ op'[t] = "none" /\ stage'[t] = "idle"
      /\ \A u \in Tasks : ~(stage'[u] \in {"issuing", "backoff", "revoking"})
  BY <1>1, FinishKeeps
<1>3. TokenTypeOK'
  BY <1>1, <1>2 DEF TokenInv, TokenTypeOK
<1>4. StageFitsOp'
  BY <1>2 DEF TokenInv, StageFitsOp
<1>5. TokensNumbered' /\ RevokedNotCached'
  BY DEF TokenInv, TokensNumbered, RevokedNotCached
<1> QED
  BY <1>2, <1>3, <1>4, <1>5 DEF TokenInv

(* A task that is inside ends its operation; the cache holds what it held, *)
(* a newer token, or nothing.                                              *)
LEMMA InsideFinishKeepsInv ==
    ASSUME TokenInv, NEW t \in Tasks, Inside(t), Finish(t),
           UNCHANGED <<configured, lockQueue>>,
           nearExpiry' \in BOOLEAN, token' \in Nat, issued' \in Nat, revoked' \in SUBSET Nat,
           TokensNumbered', RevokedNotCached'
    PROVE  TokenInv'
<1>1. /\ \A u \in Tasks : Inside(u) => u = t
      /\ lockQueue' \in Seq(Tasks)
      /\ NoRepeats(lockQueue')
      /\ Waiting(lockQueue') = {u \in Tasks : stage[u] = "queued" /\ u # t}
  <2>1. stage[t] # "queued"
    BY DEF Inside
  <2>2. lockQueue' = lockQueue
    OBVIOUS
  <2> QED
    BY <2>1, <2>2, InsideFacts DEF TokenInv, TokenTypeOK, QueueExact
<1>2. /\ OneTaskInside' /\ QueueExact' /\ NoNeedlessIssue'
      /\ lock' \in Tasks \cup {NoTask}
      /\ op' \in [Tasks -> Operations]
      /\ stage' \in [Tasks -> Stages]
      /\ attempt' \in [Tasks -> 0..MaxRetries]
      /\ \A u \in Tasks : u # t => stage'[u] = stage[u] /\ op'[u] = op[u]
      /\ op'[t] = "none" /\ stage'[t] = "idle"
      /\ \A u \in Tasks : ~(stage'[u] \in {"issuing", "backoff", "revoking"})
  BY <1>1, FinishKeeps
<1>3. configured' \in BOOLEAN
  BY DEF TokenInv, TokenTypeOK
<1>4. TokenTypeOK'
  BY <1>1, <1>2, <1>3 DEF TokenTypeOK
<1>5. StageFitsOp'
  BY <1>2 DEF TokenInv, StageFitsOp
<1> QED
  BY <1>2, <1>4, <1>5 DEF TokenInv

(* A task's turn takes it inside. *)
LEMMA EnterKeepsInv ==
    ASSUME TokenInv, NEW t \in Tasks, TurnIssue(t) \/ TurnRevoke(t)
    PROVE  TokenInv'
<1> USE TokenAssumption, NoTaskAssumption
<1>1. Turn(t) /\ lockQueue' = Tail(lockQueue)
  BY DEF TurnIssue, TurnRevoke
<1>2. /\ stage[t] = "queued" /\ lock = NoTask
      /\ \A u \in Tasks : ~Inside(u)
      /\ lockQueue' \in Seq(Tasks)
      /\ NoRepeats(lockQueue')
      /\ Waiting(lockQueue') = {u \in Tasks : stage[u] = "queued" /\ u # t}
  BY <1>1, TurnFacts
<1>3. /\ stage'[t] \in {"issuing", "revoking"} /\ lock' = t
      /\ \A u \in Tasks : u # t => stage'[u] = stage[u]
      /\ UNCHANGED <<configured, token, nearExpiry, issued, revoked, op>>
      /\ stage'[t] = "issuing" => MustIssue(t)
      /\ stage'[t] = "revoking" => op[t] = "revoke" /\ token # None
  BY DEF TurnIssue, TurnRevoke, TokenInv, TokenTypeOK
<1>4. TokenTypeOK'
  <2>0. /\ \E s \in {"issuing", "revoking"} : stage' = [stage EXCEPT ![t] = s]
        /\ attempt' = attempt \/ attempt' = [attempt EXCEPT ![t] = 1]
    BY DEF TurnIssue, TurnRevoke
  <2>1. stage' \in [Tasks -> Stages] /\ attempt' \in [Tasks -> 0..MaxRetries]
    BY <2>0 DEF TokenInv, TokenTypeOK, Stages
  <2>2. configured' \in BOOLEAN /\ nearExpiry' \in BOOLEAN
    BY <1>3 DEF TokenInv, TokenTypeOK
  <2> QED
    BY <2>1, <2>2, <1>2, <1>3 DEF TokenInv, TokenTypeOK
<1>5. StageFitsOp'
  <2>1. \A u \in Tasks : stage[u] \notin {"issuing", "backoff", "revoking"}
    BY <1>2 DEF Inside
  <2>2. op[t] \in {"get", "refresh"} \/ (op[t] = "revoke" /\ token # None)
    BY <1>3 DEF MustIssue
  <2>3. stage'[t] = "issuing" => op[t] \in {"get", "refresh"}
    BY <1>3 DEF MustIssue
  <2> QED
    BY <1>3, <2>1, <2>2, <2>3 DEF TokenInv, StageFitsOp
<1>6. OneTaskInside'
  BY <1>2, <1>3 DEF OneTaskInside, Inside
<1>7. QueueExact'
  BY <1>2, <1>3 DEF QueueExact
<1>8. NoNeedlessIssue'
  BY <1>2, <1>3 DEF NoNeedlessIssue, Inside, MustIssue, IsExpired
<1>9. TokensNumbered' /\ RevokedNotCached'
  BY <1>3 DEF TokenInv, TokensNumbered, RevokedNotCached
<1> QED
  BY <1>4, <1>5, <1>6, <1>7, <1>8, <1>9 DEF TokenInv

(* Between two attempts at issuing only the stage and the count change. *)
LEMMA AttemptKeepsInv ==
    ASSUME TokenInv, NEW t \in Tasks, IssueFailed(t) \/ BackoffOver(t)
    PROVE  TokenInv'
<1> USE TokenAssumption, NoTaskAssumption
<1>1. /\ Inside(t) /\ stage[t] # "queued"
      /\ UNCHANGED <<configured, token, nearExpiry, issued, revoked, lock, lockQueue, op>>
      /\ \/ /\ stage' = [stage EXCEPT ![t] = "backoff"]
            /\ attempt[t] < MaxRetries
            /\ attempt' = attempt
         \/ /\ stage' = [stage EXCEPT ![t] = "issuing"]
            /\ attempt' = [attempt EXCEPT ![t] = @ + 1]
            /\ stage[t] = "backoff"
      /\ stage[t] \in {"issuing", "backoff"}
  BY DEF IssueFailed, BackoffOver, Inside
<1>2. /\ stage \in [Tasks -> Stages] /\ op \in [Tasks -> Operations]
      /\ attempt \in [Tasks -> 0..MaxRetries]
      /\ stage[t] = "backoff" => attempt[t] < MaxRetries
  BY DEF TokenInv, TokenTypeOK, StageFitsOp
<1>3. /\ stage' \in [Tasks -> Stages]
      /\ attempt' \in [Tasks -> 0..MaxRetries]
      /\ \A u \in Tasks : u # t => stage'[u] = stage[u] /\ attempt'[u] = attempt[u]
      /\ stage'[t] \in {"issuing", "backoff"}
      /\ stage'[t] = "backoff" => attempt'[t] < MaxRetries
  BY <1>1, <1>2 DEF Stages
<1>4. TokenTypeOK'
  <2>1. configured' \in BOOLEAN /\ nearExpiry' \in BOOLEAN
    BY <1>1 DEF TokenInv, TokenTypeOK
  <2> QED
    BY <1>1, <1>3, <2>1 DEF TokenInv, TokenTypeOK
<1>5. StageFitsOp'
  BY <1>1, <1>3 DEF TokenInv, StageFitsOp
<1>6. OneTaskInside'
  BY <1>1, <1>3 DEF TokenInv, OneTaskInside, Inside
<1>7. QueueExact'
  BY <1>1, <1>3 DEF TokenInv, QueueExact
<1>8. NoNeedlessIssue'
  BY <1>1, <1>3 DEF TokenInv, NoNeedlessIssue, Inside, IsExpired
<1>9. TokensNumbered' /\ RevokedNotCached'
  BY <1>1 DEF TokenInv, TokensNumbered, RevokedNotCached
<1> QED
  BY <1>4, <1>5, <1>6, <1>7, <1>8, <1>9 DEF TokenInv

LEMMA TokenStepInv == TokenInv /\ [TokenNext]_tokenVars => TokenInv'
<1> SUFFICES ASSUME TokenInv, [TokenNext]_tokenVars
             PROVE  TokenInv'
  OBVIOUS
<1>1. ASSUME NEW t \in Tasks, Start(t)
      PROVE  TokenInv'
  BY <1>1, QueueKeepsInv DEF Start, GetQueued, Refresh, Revoke, Operations
<1>2. ASSUME NEW t \in Tasks, TurnFresh(t) \/ TurnUnconfigured(t) \/ TurnRevokeNothing(t)
      PROVE  TokenInv'
  BY <1>2, TurnFinishKeepsInv DEF TurnFresh, TurnUnconfigured, TurnRevokeNothing
<1>3. ASSUME NEW t \in Tasks, TurnIssue(t) \/ TurnRevoke(t)
      PROVE  TokenInv'
  BY <1>3, EnterKeepsInv
<1>4. ASSUME NEW t \in Tasks, IssueFailed(t) \/ BackoffOver(t)
      PROVE  TokenInv'
  BY <1>4, AttemptKeepsInv
<1>5. ASSUME NEW t \in Tasks, IssueOk(t)
      PROVE  TokenInv'
  <2>1. Inside(t) /\ Finish(t) /\ UNCHANGED <<configured, lockQueue, revoked>>
        /\ nearExpiry' = FALSE /\ token' = issued + 1 /\ issued' = issued + 1
    BY <1>5 DEF IssueOk, Inside
  <2>2. /\ issued \in Nat /\ revoked \in SUBSET Nat /\ revoked \subseteq 1..issued
    BY DEF TokenInv, TokenTypeOK, TokensNumbered
  <2>3. token' \in Nat /\ issued' \in Nat /\ revoked' \in SUBSET Nat
        /\ TokensNumbered' /\ RevokedNotCached'
    BY <2>1, <2>2 DEF TokensNumbered, RevokedNotCached
  <2>4. nearExpiry' \in BOOLEAN
    BY <2>1
  <2> QED
    BY <2>1, <2>3, <2>4, InsideFinishKeepsInv
<1>6. ASSUME NEW t \in Tasks, IssueExhausted(t) \/ IssueMalformed(t)
      PROVE  TokenInv'
  <2>1. Inside(t) /\ Finish(t)
        /\ UNCHANGED <<configured, token, nearExpiry, issued, revoked, lockQueue>>
    BY <1>6 DEF IssueExhausted, IssueMalformed, Inside
  <2>2. /\ nearExpiry' \in BOOLEAN /\ token' \in Nat /\ issued' \in Nat
        /\ revoked' \in SUBSET Nat
        /\ TokensNumbered' /\ RevokedNotCached'
    BY <2>1 DEF TokenInv, TokenTypeOK, TokensNumbered, RevokedNotCached
  <2> QED
    BY <2>1, <2>2, InsideFinishKeepsInv
<1>7. ASSUME NEW t \in Tasks, RevokeDone(t)
      PROVE  TokenInv'
  <2>1. Inside(t) /\ Finish(t) /\ stage[t] = "revoking"
        /\ UNCHANGED <<configured, nearExpiry, issued, lockQueue>>
        /\ token' = 0 /\ revoked' = revoked \cup {token}
    BY <1>7 DEF RevokeDone, Inside, None
  <2>2. /\ token \in Nat \ {0} /\ issued \in Nat /\ revoked \in SUBSET Nat
        /\ token <= issued /\ revoked \subseteq 1..issued
    BY <2>1 DEF TokenInv, TokenTypeOK, TokensNumbered, StageFitsOp, None
  <2>3. token' \in Nat /\ issued' \in Nat /\ revoked' \in SUBSET Nat
        /\ TokensNumbered' /\ RevokedNotCached'
    BY <2>1, <2>2 DEF TokensNumbered, RevokedNotCached
  <2>4. nearExpiry' \in BOOLEAN
    BY <2>1 DEF TokenInv, TokenTypeOK
  <2> QED
    BY <2>1, <2>3, <2>4, InsideFinishKeepsInv
<1>8. CASE Age
  <2>1. /\ nearExpiry' = TRUE
        /\ UNCHANGED <<configured, token, issued, revoked, lock, lockQueue, op, stage, attempt>>
    BY <1>8 DEF Age
  <2>2. TokenTypeOK'
    BY <2>1 DEF TokenInv, TokenTypeOK
  <2>3. OneTaskInside' /\ QueueExact' /\ NoNeedlessIssue'
    BY <2>1 DEF TokenInv, OneTaskInside, QueueExact, NoNeedlessIssue, Inside, IsExpired
  <2>4. StageFitsOp' /\ TokensNumbered' /\ RevokedNotCached'
    BY <2>1 DEF TokenInv, StageFitsOp, TokensNumbered, RevokedNotCached
  <2> QED
    BY <2>2, <2>3, <2>4 DEF TokenInv
<1>9. CASE UNCHANGED tokenVars
  BY <1>9 DEF tokenVars, TokenInv, TokenTypeOK, StageFitsOp, OneTaskInside, QueueExact,
              NoNeedlessIssue, TokensNumbered, RevokedNotCached, Inside, IsExpired
<1> QED
  BY <1>1, <1>2, <1>3, <1>4, <1>5, <1>6, <1>7, <1>8, <1>9 DEF TokenNext, Proceed

LEMMA TokenInvariant == TokenSpec => []TokenInv
  BY TokenInitInv, TokenStepInv, PTL DEF TokenSpec

(* At most one task talks to KIS about the token, and it owns the lock     *)
(* (token.py:46-61).                                                       *)
THEOREM TokenOneTaskInside == TokenSpec => []OneTaskInside
<1>1. TokenInv => OneTaskInside
  BY DEF TokenInv
<1> QED
  BY <1>1, TokenInvariant, PTL

(* get_token issues only while the cache holds no usable token             *)
(* (token.py:41-48).                                                       *)
THEOREM TokenNoNeedlessIssue == TokenSpec => []NoNeedlessIssue
<1>1. TokenInv => NoNeedlessIssue
  BY DEF TokenInv
<1> QED
  BY <1>1, TokenInvariant, PTL

(* A revoked token is never cached again (token.py:73-78).                 *)
THEOREM TokenRevokedNotCached == TokenSpec => []RevokedNotCached
<1>1. TokenInv => RevokedNotCached
  BY DEF TokenInv
<1> QED
  BY <1>1, TokenInvariant, PTL

(* The queue of the lock holds exactly the tasks that wait for it.         *)
THEOREM TokenQueueExact == TokenSpec => []QueueExact
<1>1. TokenInv => QueueExact
  BY DEF TokenInv
<1> QED
  BY <1>1, TokenInvariant, PTL
-----------------------------------------------------------------------------
(***************************************************************************)
(* The refinement.  What a task does while it is inside an operation is    *)
(* not seen by the cell; the step by which it leaves is the operation.     *)
(***************************************************************************)

\* Joining the lock's queue is the call.
LEMMA QueueIsCall ==
    ASSUME TokenInv, NEW t \in Tasks, NEW o \in {"get", "refresh", "revoke"}, Queue(t, o)
    PROVE  Cell!Call(t, o)
<1>1. op[t] = "none"
  BY DEF TokenInv, StageFitsOp, Queue, Idle
<1> QED
  BY <1>1 DEF Queue, Cell!Call, IsExpired

\* Getting the lock and failing an attempt change nothing that the cell has.
LEMMA InsideIsHidden ==
    ASSUME NEW t \in Tasks,
           TurnIssue(t) \/ TurnRevoke(t) \/ IssueFailed(t) \/ BackoffOver(t)
    PROVE  UNCHANGED Cell!cellVars
  BY DEF TurnIssue, TurnRevoke, IssueFailed, BackoffOver, Cell!cellVars, IsExpired

\* The lock's owner leaves with what it did.
LEMMA OwnerReturns ==
    ASSUME TokenInv, NEW t \in Tasks,
           \/ IssueOk(t) \/ IssueExhausted(t) \/ IssueMalformed(t) \/ RevokeDone(t)
    PROVE  Cell!Fill(t) \/ Cell!Renew(t) \/ Cell!Fail(t) \/ Cell!Clear(t)
<1>1. CASE stage[t] = "issuing"
  <2>1. op[t] = "refresh" \/ (op[t] = "get" /\ IsExpired)
    <3>1. op[t] \in {"get", "refresh"}
      BY <1>1 DEF TokenInv, StageFitsOp
    <3>2. op[t] = "get" => IsExpired
      BY <1>1 DEF TokenInv, NoNeedlessIssue, Inside
    <3> QED
      BY <3>1, <3>2
  <2>2. CASE IssueOk(t)
    <3>1. issued' = issued + 1 /\ token' = issued' /\ ~IsExpired'
      <4>1. issued + 1 # None
        BY DEF TokenInv, TokenTypeOK, None
      <4> QED
        BY <2>2, <4>1 DEF IssueOk, IsExpired
    <3> QED
      BY <2>1, <2>2, <3>1
      DEF IssueOk, Finish, Cell!Fill, Cell!Renew, Cell!Replace, Cell!Return
  <2>3. CASE IssueExhausted(t) \/ IssueMalformed(t)
    BY <2>1, <2>3
    DEF IssueExhausted, IssueMalformed, Finish, IsExpired, Cell!Fail, Cell!Keep, Cell!Return
  <2>4. ~RevokeDone(t)
    BY <1>1 DEF RevokeDone
  <2> QED
    BY <2>2, <2>3, <2>4
<1>2. CASE stage[t] = "revoking"
  <2>1. op[t] = "revoke"
    BY <1>2 DEF TokenInv, StageFitsOp
  <2>2. RevokeDone(t)
    BY <1>2 DEF IssueOk, IssueExhausted, IssueMalformed
  <2> QED
    BY <2>1, <2>2 DEF RevokeDone, Finish, IsExpired, None, Cell!Clear, Cell!Return
<1> QED
  BY <1>1, <1>2 DEF IssueOk, IssueExhausted, IssueMalformed, RevokeDone

\* A task that finds nothing to do, or no credentials, leaves at its turn.
LEMMA TurnReturns ==
    ASSUME NEW t \in Tasks, TurnFresh(t) \/ TurnUnconfigured(t) \/ TurnRevokeNothing(t)
    PROVE  Cell!Read(t) \/ Cell!Fail(t) \/ Cell!Clear(t)
<1>1. CASE TurnFresh(t)
  BY <1>1 DEF TurnFresh, Finish, IsExpired, Cell!Read, Cell!Keep, Cell!Return
<1>2. CASE TurnUnconfigured(t)
  BY <1>2 DEF TurnUnconfigured, MustIssue, Finish, IsExpired, Cell!Fail, Cell!Keep, Cell!Return
<1>3. CASE TurnRevokeNothing(t)
  BY <1>3 DEF TurnRevokeNothing, Finish, IsExpired, None, Cell!Clear, Cell!Return
<1> QED
  BY <1>1, <1>2, <1>3

LEMMA TokenStepRefines ==
    TokenInv /\ [TokenNext]_tokenVars => [Cell!CellNext]_(Cell!cellVars)
<1> SUFFICES ASSUME TokenInv, [TokenNext]_tokenVars
             PROVE  Cell!CellNext \/ UNCHANGED Cell!cellVars
  OBVIOUS
<1>1. CASE Age
  BY <1>1 DEF Age, IsExpired, Cell!CellNext, Cell!Expire
<1>2. ASSUME NEW t \in Tasks, Start(t)
      PROVE  Cell!CellNext
  BY <1>2, QueueIsCall DEF Start, GetQueued, Refresh, Revoke, Cell!CellNext
<1>3. ASSUME NEW t \in Tasks, Proceed(t)
      PROVE  Cell!CellNext \/ UNCHANGED Cell!cellVars
  BY <1>3, InsideIsHidden, OwnerReturns, TurnReturns DEF Proceed, Cell!CellNext
<1>4. CASE UNCHANGED tokenVars
  BY <1>4 DEF tokenVars, IsExpired, Cell!cellVars
<1> QED
  BY <1>1, <1>2, <1>3, <1>4 DEF TokenNext

\* get_token, refresh and revoke are atomic to their callers: the token manager
\* implements TokenCell, for any tasks, attempts and tokens (token.py:35-78).
THEOREM TokenImplementsCell == TokenSpec => ImplementsTokenCell
<1>1. TokenInit => Cell!CellInit
  BY DEF TokenInit, IsExpired, None, Cell!CellInit
<1> QED
  BY <1>1, TokenStepRefines, TokenInvariant, PTL DEF TokenSpec, ImplementsTokenCell, Cell!CellSpec

=============================================================================
