-------------------------- MODULE KISClientProofs ---------------------------
(***************************************************************************)
(* Safety of the KIS client, for every set of requests and admin tasks.    *)
(* Its steps are steps of the token manager and of the limiter, so their   *)
(* invariants hold in it.  ExecutedAtMostOnce is not inductive: that a     *)
(* second send exists says nothing of the first unless the program points  *)
(* of _request are tied to what happened at KIS, which RequestInv does.    *)
(***************************************************************************)
EXTENDS KISClient, TokenManagerProofs, FiniteSetTheorems

(***************************************************************************)
(* The limiter spaces its grants, for every set of tasks and interval.     *)
(* GrantsSpaced is not inductive: a step from a state where nextAvailable  *)
(* lies before the last grant would break it.  The strengthening says that *)
(* every grant lies at least Interval before nextAvailable, and that a     *)
(* sleeper waits for nextAvailable itself.                                 *)
(***************************************************************************)
GrantsBeforeNext == \A i \in DOMAIN grants : grants[i] + Interval <= nextAvailable

LimiterInv ==
    /\ LimiterTypeOK
    /\ SleeperOwnsSlot
    /\ GrantsBeforeNext
    /\ GrantsSpaced

(* Booking a slot at or after nextAvailable keeps the grants spaced. *)
LEMMA BookKeepsSpacing ==
    ASSUME LimiterInv, Book, now >= nextAvailable
    PROVE  /\ nextAvailable' \in Nat
           /\ grants' \in Seq(Nat)
           /\ GrantsBeforeNext'
           /\ GrantsSpaced'
<1> USE LimiterAssumption DEF LimiterInv, LimiterTypeOK, Book
<1>1. nextAvailable' \in Nat /\ grants' \in Seq(Nat)
  OBVIOUS
<1>2. /\ DOMAIN grants' = 1..(Len(grants) + 1)
      /\ DOMAIN grants = 1..Len(grants)
      /\ \A i \in DOMAIN grants : grants'[i] = grants[i] /\ grants[i] \in Nat
      /\ grants'[Len(grants) + 1] = now
      /\ Len(grants) \in Nat
  OBVIOUS
<1>3. GrantsBeforeNext'
  <2> SUFFICES ASSUME NEW i \in DOMAIN grants'
               PROVE  grants'[i] + Interval <= nextAvailable'
    BY DEF GrantsBeforeNext
  <2>1. CASE i \in DOMAIN grants
    BY <2>1, <1>2 DEF GrantsBeforeNext
  <2>2. CASE i = Len(grants) + 1
    BY <2>2, <1>2
  <2> QED
    BY <2>1, <2>2, <1>2
<1>4. GrantsSpaced'
  <2> SUFFICES ASSUME NEW i \in DOMAIN grants', NEW j \in DOMAIN grants', i < j
               PROVE  grants'[j] - grants'[i] >= Interval
    BY DEF GrantsSpaced
  <2>1. i \in DOMAIN grants
    BY <1>2
  <2>2. CASE j \in DOMAIN grants
    BY <2>1, <2>2, <1>2 DEF GrantsSpaced
  <2>3. CASE j = Len(grants) + 1
    BY <2>1, <2>3, <1>2 DEF GrantsBeforeNext
  <2> QED
    BY <2>2, <2>3, <1>2
<1> QED
  BY <1>1, <1>3, <1>4

LEMMA LimiterInitInv == LimiterInit => LimiterInv
  BY DEF LimiterInit, LimiterInv, LimiterTypeOK, SleeperOwnsSlot, GrantsBeforeNext, GrantsSpaced

LEMMA LimiterStepInv == LimiterInv /\ [LimiterNext]_limiterVars => LimiterInv'
<1> SUFFICES ASSUME LimiterInv, [LimiterNext]_limiterVars
             PROVE  LimiterInv'
  OBVIOUS
<1> USE NoTaskAssumption, LimiterAssumption
<1>1. ASSUME NEW t \in Tasks, Acquire(t)
      PROVE  LimiterInv'
  BY <1>1 DEF Acquire, LimiterInv, LimiterTypeOK, SleeperOwnsSlot, GrantsBeforeNext, GrantsSpaced
<1>2. ASSUME NEW t \in Tasks, Sleep(t)
      PROVE  LimiterInv'
  BY <1>2 DEF Sleep, IsNext, LimiterInv, LimiterTypeOK, SleeperOwnsSlot, GrantsBeforeNext, GrantsSpaced
<1>3. ASSUME NEW t \in Tasks, GrantAtOnce(t)
      PROVE  LimiterInv'
  <2>1. now >= nextAvailable /\ Book /\ limiterLock' = NoTask
    BY <1>3 DEF GrantAtOnce, LimiterInv, LimiterTypeOK
  <2>2. LimiterTypeOK'
    BY <1>3, <2>1, BookKeepsSpacing DEF GrantAtOnce, IsNext, Book, LimiterInv, LimiterTypeOK
  <2> QED
    BY <2>1, <2>2, BookKeepsSpacing DEF LimiterInv, SleeperOwnsSlot
<1>4. ASSUME NEW t \in Tasks, Wake(t)
      PROVE  LimiterInv'
  <2>1. now >= nextAvailable /\ Book /\ limiterLock' = NoTask
    BY <1>4 DEF Wake, LimiterInv, LimiterTypeOK, SleeperOwnsSlot
  <2>2. LimiterTypeOK'
    BY <1>4, <2>1, BookKeepsSpacing DEF Wake, Book, LimiterInv, LimiterTypeOK
  <2> QED
    BY <2>1, <2>2, BookKeepsSpacing DEF LimiterInv, SleeperOwnsSlot
<1>5. CASE Tick
  BY <1>5 DEF Tick, LimiterInv, LimiterTypeOK, SleeperOwnsSlot, GrantsBeforeNext, GrantsSpaced
<1>6. CASE UNCHANGED limiterVars
  BY <1>6 DEF limiterVars, LimiterInv, LimiterTypeOK, SleeperOwnsSlot, GrantsBeforeNext, GrantsSpaced
<1> QED
  BY <1>1, <1>2, <1>3, <1>4, <1>5, <1>6 DEF LimiterNext, Grant

LEMMA LimiterInvariant == LimiterSpec => []LimiterInv
  BY LimiterInitInv, LimiterStepInv, PTL DEF LimiterSpec

(* RateLimiter.acquire returns at times at least Interval apart            *)
(* (client.py:45-52), for any number of tasks.                             *)
THEOREM LimiterSpacesGrants == LimiterSpec => []GrantsSpaced
<1>1. LimiterInv => GrantsSpaced
  BY DEF LimiterInv
<1> QED
  BY <1>1, LimiterInvariant, PTL

(* The slot a sleeper sleeps for is the one booked last (client.py:46-50). *)
THEOREM LimiterSleeperOwnsSlot == LimiterSpec => []SleeperOwnsSlot
<1>1. LimiterInv => SleeperOwnsSlot
  BY DEF LimiterInv
<1> QED
  BY <1>1, LimiterInvariant, PTL
-----------------------------------------------------------------------------
(* Every step of the client is a step of the token manager or leaves it. *)
LEMMA StepIsTokenStep == [Next]_vars => [TokenNext]_tokenVars
<1> SUFFICES ASSUME [Next]_vars
             PROVE  [TokenNext]_tokenVars
  OBVIOUS
<1>0. ASSUME NEW t \in Tasks, Start(t) \/ Proceed(t)
      PROVE  TokenNext
  BY <1>0 DEF TokenNext
<1>1. ASSUME NEW r \in Requests, Call(r) \/ SlotAndSend(r) \/ SlotSleep(r)
      PROVE  UNCHANGED tokenVars
  BY <1>1 DEF Call, SlotAndSend, SlotSleep, GetCached
<1>2. ASSUME NEW r \in Requests, SlotAndWait(r) \/ StartRefresh(r)
      PROVE  TokenNext
  BY <1>2, <1>0, RequestsAssumption DEF SlotAndWait, StartRefresh, Start
<1>3. ASSUME NEW r \in Requests,
             TokenCached(r) \/ TokenIssued(r) \/ TokenExhausted(r) \/ TokenError(r)
                 \/ TokenPending(r) \/ Retry(r)
      PROVE  TokenNext
  BY <1>3, <1>0, RequestsAssumption
     DEF TokenCached, TokenIssued, TokenExhausted, TokenError, TokenPending, Retry, Proceed
<1>4. ASSUME NEW r \in Requests,
             AnswerExecuted(r) \/ AnswerRefused(r) \/ AnswerRejected(r) \/ NetworkError(r)
      PROVE  UNCHANGED tokenVars
  BY <1>4 DEF AnswerExecuted, AnswerRefused, AnswerRejected, NetworkError
<1>5. ASSUME NEW a \in Admins, AdminStart(a) \/ AdminStep(a)
      PROVE  TokenNext
  BY <1>5, <1>0 DEF Admins, AdminStart, AdminStep, AdminProceed, AdminIssued, AdminRevoked, Start, Proceed
<1>6. CASE KISStep \/ Clock \/ UNCHANGED vars
  BY <1>6 DEF KISStep, Serve, Invalidate, Clock, vars
<1>7. CASE Aging
  BY <1>7 DEF Aging, TokenNext
<1> QED
  BY <1>1, <1>2, <1>3, <1>4, <1>5, <1>6, <1>7 DEF Next, RequestStep

(* Every step of the client is a step of the limiter or leaves it. *)
LEMMA StepIsLimiterStep == [Next]_vars => [LimiterNext]_limiterVars
<1> SUFFICES ASSUME [Next]_vars
             PROVE  [LimiterNext]_limiterVars
  OBVIOUS
<1>0. ASSUME NEW t \in Tasks, Acquire(t) \/ Sleep(t) \/ Grant(t)
      PROVE  LimiterNext
  BY <1>0 DEF LimiterNext
<1>1. ASSUME NEW r \in Requests,
             Call(r) \/ SlotAndSend(r) \/ SlotAndWait(r) \/ SlotSleep(r) \/ Retry(r)
      PROVE  LimiterNext
  BY <1>1, <1>0, RequestsAssumption
     DEF Call, SlotAndSend, SlotAndWait, SlotSleep, Retry, DoRequest
<1>2. ASSUME NEW r \in Requests,
             TokenCached(r) \/ TokenIssued(r) \/ TokenExhausted(r) \/ TokenError(r)
                 \/ TokenPending(r) \/ StartRefresh(r)
      PROVE  UNCHANGED limiterVars
  BY <1>2 DEF TokenCached, TokenIssued, TokenExhausted, TokenError, TokenPending, StartRefresh
<1>3. ASSUME NEW r \in Requests,
             AnswerExecuted(r) \/ AnswerRefused(r) \/ AnswerRejected(r) \/ NetworkError(r)
      PROVE  UNCHANGED limiterVars
  BY <1>3 DEF AnswerExecuted, AnswerRefused, AnswerRejected, NetworkError
<1>4. ASSUME NEW a \in Admins, AdminStart(a) \/ AdminStep(a)
      PROVE  UNCHANGED limiterVars
  BY <1>4 DEF AdminStart, AdminStep, AdminProceed, AdminIssued, AdminRevoked
<1>5. CASE KISStep \/ Aging \/ UNCHANGED vars
  BY <1>5 DEF KISStep, Serve, Invalidate, Aging, vars
<1>6. CASE Clock
  BY <1>6 DEF Clock, LimiterNext
<1> QED
  BY <1>1, <1>2, <1>3, <1>4, <1>5, <1>6 DEF Next, RequestStep

LEMMA ClientRunsManager == Spec => TokenSpec /\ LimiterSpec
<1>1. Init => TokenInit /\ LimiterInit
  BY DEF Init
<1> QED
  BY <1>1, StepIsTokenStep, StepIsLimiterStep, PTL DEF Spec, TokenSpec, LimiterSpec
-----------------------------------------------------------------------------
\* What the program point p of a request, the number n of its _do_request and
\* its token operation o say of the fates N of its sends.
Coherent(p, n, N, o) ==
    /\ p = "new" <=> n = 0
    /\ o \in {"none", "get", "refresh"}
    /\ o # "none" => p = "token"
    /\ p = "limiter" \/ o = "get" => N[n] = "unsent"
    /\ p = "expired" \/ o = "refresh" => n = 1 /\ N[1] \in {"unsent", "rejected"}
    /\ p = "inflight" => N[n] # "unsent"
    /\ p = "ok" => N[n] \in {"executed", "refused"}
    /\ n = 0 => N[1] = "unsent"
    /\ n < 2 => N[2] = "unsent"
    /\ n = 2 => N[1] \in {"unsent", "rejected"}

RequestInv == \A r \in Requests : Coherent(phase[r], try[r], net[r], op[r])

ClientInv == ClientTypeOK /\ RequestInv

Managers == TokenInv /\ LimiterInv

(* A step that moves request r alone keeps the invariant when the new      *)
(* values of r cohere.                                                     *)
LEMMA Move ==
    ASSUME RequestInv, NEW r \in Requests,
           \A q \in Requests \ {r} :
               /\ phase'[q] = phase[q] /\ try'[q] = try[q]
               /\ net'[q] = net[q] /\ op'[q] = op[q],
           Coherent(phase'[r], try'[r], net'[r], op'[r])
    PROVE  RequestInv'
<1>1. ASSUME NEW q \in Requests
      PROVE  Coherent(phase'[q], try'[q], net'[q], op'[q])
  <2>1. CASE q = r
    BY <2>1
  <2>2. CASE q # r
    <3>1. phase'[q] = phase[q] /\ try'[q] = try[q] /\ net'[q] = net[q] /\ op'[q] = op[q]
      BY <2>2
    <3> QED
      BY <3>1 DEF RequestInv
  <2> QED
    BY <2>1, <2>2
<1> QED
  BY <1>1 DEF RequestInv

(* A send: the fate of the present _do_request goes from unsent to sent. *)
LEMMA SendKeeps ==
    ASSUME ClientInv, Managers, NEW r \in Requests, NEW k \in Nat,
           phase[r] = "limiter" \/ op[r] = "get",
           phase' = [phase EXCEPT ![r] = "inflight"],
           net' = [net EXCEPT ![r][try[r]] = "sent"],
           sentWith' = [sentWith EXCEPT ![r][try[r]] = k],
           sends' = Append(sends, now),
           UNCHANGED <<try, adminCalls>>,
           accepted' \in SUBSET Nat,
           op' = [op EXCEPT ![r] = "none"]
    PROVE  ClientInv'
<1>1. /\ phase \in [Requests -> Phases] /\ try \in [Requests -> 0..2]
      /\ net \in [Requests -> [Sends -> Fates]]
      /\ sentWith \in [Requests -> [Sends -> Nat]]
      /\ sends \in Seq(Nat) /\ now \in Nat /\ adminCalls \in Nat
      /\ op \in [Tasks -> Operations] /\ r \in Tasks /\ Requests \subseteq Tasks
      /\ Coherent(phase[r], try[r], net[r], op[r])
  BY RequestsAssumption
     DEF ClientInv, ClientTypeOK, RequestInv, Managers, LimiterInv, LimiterTypeOK, TokenInv, TokenTypeOK
<1>2. try[r] \in Sends /\ net[r][try[r]] = "unsent"
  BY <1>1 DEF Coherent, Sends
<1>3. /\ phase' \in [Requests -> Phases] /\ try' \in [Requests -> 0..2]
      /\ sentWith' \in [Requests -> [Sends -> Nat]]
      /\ sends' \in Seq(Nat) /\ adminCalls' \in Nat
  BY <1>1, <1>2 DEF Phases
<1>4. net' \in [Requests -> [Sends -> Fates]]
  BY <1>1, <1>2 DEF Fates
<1>5. /\ phase'[r] = "inflight" /\ try'[r] = try[r] /\ op'[r] = "none"
      /\ net'[r][try[r]] = "sent"
      /\ \A m \in Sends : m # try[r] => net'[r][m] = net[r][m]
      /\ \A q \in Requests \ {r} :
               /\ phase'[q] = phase[q] /\ try'[q] = try[q]
               /\ net'[q] = net[q] /\ op'[q] = op[q]
  BY <1>1, <1>2
<1>6. Coherent(phase'[r], try'[r], net'[r], op'[r])
  BY <1>1, <1>2, <1>5 DEF Coherent, Sends
<1>7. RequestInv'
  BY <1>5, <1>6, Move DEF ClientInv
<1> QED
  BY <1>3, <1>4, <1>7 DEF ClientInv, ClientTypeOK

(* A step that only moves the program point and the token operation of r. *)
LEMMA GotoKeeps ==
    ASSUME ClientInv, Managers, NEW r \in Requests,
           NEW p \in Phases, NEW n \in 0..2, NEW o \in Operations,
           phase' = [phase EXCEPT ![r] = p],
           try' = [try EXCEPT ![r] = n],
           op' = [op EXCEPT ![r] = o],
           UNCHANGED <<net, sentWith, sends, adminCalls>>,
           accepted' \in SUBSET Nat,
           Coherent(p, n, net[r], o)
    PROVE  ClientInv'
<1>1. /\ phase \in [Requests -> Phases] /\ try \in [Requests -> 0..2]
      /\ net \in [Requests -> [Sends -> Fates]]
      /\ sentWith' \in [Requests -> [Sends -> Nat]]
      /\ sends' \in Seq(Nat) /\ adminCalls' \in Nat
      /\ op \in [Tasks -> Operations] /\ r \in Tasks /\ Requests \subseteq Tasks
  BY RequestsAssumption DEF ClientInv, ClientTypeOK, Managers, TokenInv, TokenTypeOK
<1>2. /\ phase' \in [Requests -> Phases] /\ try' \in [Requests -> 0..2]
      /\ net' \in [Requests -> [Sends -> Fates]]
      /\ phase'[r] = p /\ try'[r] = n /\ op'[r] = o /\ net'[r] = net[r]
      /\ \A q \in Requests \ {r} :
               /\ phase'[q] = phase[q] /\ try'[q] = try[q]
               /\ net'[q] = net[q] /\ op'[q] = op[q]
  BY <1>1
<1>3. RequestInv'
  BY <1>2, Move DEF ClientInv
<1> QED
  BY <1>1, <1>2, <1>3 DEF ClientInv, ClientTypeOK

(* A step that moves no request. *)
LEMMA OthersKeep ==
    ASSUME ClientInv,
           UNCHANGED <<phase, try, net, sentWith, sends>>,
           accepted' \in SUBSET Nat, adminCalls' \in Nat,
           \A q \in Requests : op'[q] = op[q]
    PROVE  ClientInv'
<1>1. RequestInv'
  BY DEF ClientInv, RequestInv
<1> QED
  BY <1>1 DEF ClientInv, ClientTypeOK

(* What every step may use of request r. *)
LEMMA RequestFacts ==
    ASSUME ClientInv, Managers, NEW r \in Requests
    PROVE  /\ phase \in [Requests -> Phases] /\ phase[r] \in Phases
           /\ try \in [Requests -> 0..2] /\ try[r] \in 0..2
           /\ net \in [Requests -> [Sends -> Fates]] /\ net[r] \in [Sends -> Fates]
           /\ op \in [Tasks -> Operations] /\ r \in Tasks
           /\ Requests \subseteq Tasks
           /\ token \in Nat /\ issued \in Nat /\ accepted \in SUBSET Nat
           /\ op[r] = "none" <=> stage[r] = "idle"
           /\ Coherent(phase[r], try[r], net[r], op[r])
  BY RequestsAssumption
     DEF ClientInv, ClientTypeOK, RequestInv, Managers, TokenInv, TokenTypeOK, StageFitsOp

(* The steps that send. *)
LEMMA SendingSteps ==
    ASSUME ClientInv, Managers, NEW r \in Requests,
           SlotAndSend(r) \/ TokenCached(r) \/ TokenIssued(r)
    PROVE  ClientInv'
<1>0. /\ op \in [Tasks -> Operations] /\ r \in Tasks /\ token \in Nat /\ issued \in Nat
      /\ accepted \in SUBSET Nat
      /\ Coherent(phase[r], try[r], net[r], op[r])
  BY RequestFacts
<1>1. CASE SlotAndSend(r)
  <2>1. /\ phase[r] = "limiter" /\ op' = op /\ accepted' = accepted
        /\ phase' = [phase EXCEPT ![r] = "inflight"]
        /\ net' = [net EXCEPT ![r][try[r]] = "sent"]
        /\ sentWith' = [sentWith EXCEPT ![r][try[r]] = token]
        /\ sends' = Append(sends, now)
        /\ UNCHANGED <<try, adminCalls>>
    BY <1>1 DEF SlotAndSend, Send, GetCached, tokenVars
  <2>2. op[r] = "none"
    BY <1>0, <2>1 DEF Coherent
  <2>3. op' = [op EXCEPT ![r] = "none"]
    BY <1>0, <2>1, <2>2
  <2> QED
    BY <1>0, <2>1, <2>3, SendKeeps
<1>2. CASE TokenCached(r)
  <2>1. /\ op[r] = "get" /\ accepted' = accepted
        /\ op' = [op EXCEPT ![r] = "none"]
        /\ phase' = [phase EXCEPT ![r] = "inflight"]
        /\ net' = [net EXCEPT ![r][try[r]] = "sent"]
        /\ sentWith' = [sentWith EXCEPT ![r][try[r]] = token]
        /\ sends' = Append(sends, now)
        /\ UNCHANGED <<try, adminCalls>>
    BY <1>2 DEF TokenCached, TurnFresh, Finish, Send
  <2> QED
    BY <1>0, <2>1, SendKeeps
<1>3. CASE TokenIssued(r)
  <2>1. /\ op[r] = "get" /\ token' = issued + 1
        /\ accepted' \in {accepted \cup {token'}, {token'}}
        /\ op' = [op EXCEPT ![r] = "none"]
        /\ phase' = [phase EXCEPT ![r] = "inflight"]
        /\ net' = [net EXCEPT ![r][try[r]] = "sent"]
        /\ sentWith' = [sentWith EXCEPT ![r][try[r]] = token']
        /\ sends' = Append(sends, now)
        /\ UNCHANGED <<try, adminCalls>>
    BY <1>3 DEF TokenIssued, IssueOk, Finish
  <2>2. token' \in Nat /\ accepted' \in SUBSET Nat
    BY <1>0, <2>1
  <2> QED
    BY <2>1, <2>2, SendKeeps
<1> QED
  BY <1>1, <1>2, <1>3

(* The steps inside the token manager that send nothing. *)
LEMMA TokenSteps ==
    ASSUME ClientInv, Managers, NEW r \in Requests,
           \/ SlotAndWait(r) \/ TokenExhausted(r) \/ TokenError(r)
           \/ TokenPending(r) \/ StartRefresh(r) \/ Retry(r)
    PROVE  ClientInv'
<1> DEFINE Goto(p, n, o) ==
        /\ phase' = [phase EXCEPT ![r] = p]
        /\ try' = [try EXCEPT ![r] = n]
        /\ op' = [op EXCEPT ![r] = o]
        /\ UNCHANGED <<net, sentWith, sends, adminCalls>>
<1>0. /\ phase \in [Requests -> Phases] /\ phase[r] \in Phases
      /\ try \in [Requests -> 0..2] /\ try[r] \in 0..2
      /\ op \in [Tasks -> Operations] /\ r \in Tasks /\ token \in Nat /\ issued \in Nat
      /\ accepted \in SUBSET Nat
      /\ try = [try EXCEPT ![r] = try[r]]
      /\ Coherent(phase[r], try[r], net[r], op[r])
      /\ op[r] = "none" <=> stage[r] = "idle"
  BY RequestFacts
<1>1. CASE SlotAndWait(r)
  <2>1. phase[r] = "limiter" /\ Goto("token", try[r], "get") /\ accepted' = accepted
    BY <1>0, <1>1 DEF SlotAndWait, GetQueued, Queue
  <2>2. Coherent("token", try[r], net[r], "get")
    BY <1>0, <2>1 DEF Coherent
  <2> QED
    BY <1>0, <2>1, <2>2, GotoKeeps DEF Phases, Operations
<1>2. CASE TokenExhausted(r)
  <2>1. /\ op[r] = "get" /\ accepted' = accepted
        /\ Goto(IF try[r] = 1 THEN "expired" ELSE "failed", try[r], "none")
    BY <1>0, <1>2 DEF TokenExhausted, IssueExhausted, Finish, Expired
  <2>2. Coherent(IF try[r] = 1 THEN "expired" ELSE "failed", try[r], net[r], "none")
    BY <1>0, <2>1 DEF Coherent
  <2>3. (IF try[r] = 1 THEN "expired" ELSE "failed") \in Phases
    BY DEF Phases
  <2> QED
    BY <1>0, <2>1, <2>2, <2>3, GotoKeeps DEF Operations
<1>3. CASE TokenError(r)
  <2>1. /\ op[r] # "none" /\ accepted' = accepted /\ Goto("failed", try[r], "none")
    BY <1>0, <1>3 DEF TokenError, TurnUnconfigured, MustIssue, IssueMalformed, IssueExhausted, Finish, Fail
  <2>2. Coherent("failed", try[r], net[r], "none")
    BY <1>0, <2>1 DEF Coherent
  <2> QED
    BY <1>0, <2>1, <2>2, GotoKeeps DEF Phases, Operations
<1>4. CASE TokenPending(r)
  <2>1. /\ UNCHANGED <<phase, try, net, sentWith, sends, accepted, adminCalls>> /\ op' = op
    BY <1>4 DEF TokenPending, TurnIssue, IssueFailed, BackoffOver, clientVars
  <2>2. adminCalls' \in Nat
    BY <2>1 DEF ClientInv, ClientTypeOK
  <2> QED
    BY <1>0, <2>1, <2>2, OthersKeep
<1>5. CASE StartRefresh(r)
  <2>1. phase[r] = "expired" /\ Goto("token", try[r], "refresh") /\ accepted' = accepted
    BY <1>0, <1>5 DEF StartRefresh, Refresh, Queue
  <2>2. Coherent("token", try[r], net[r], "refresh")
    BY <1>0, <2>1 DEF Coherent
  <2> QED
    BY <1>0, <2>1, <2>2, GotoKeeps DEF Phases, Operations
<1>6. CASE Retry(r)
  <2>1. /\ op[r] = "refresh" /\ Goto("limiter", 2, "none") /\ token' = issued + 1
        /\ accepted' \in {accepted \cup {token'}, {token'}}
    BY <1>0, <1>6 DEF Retry, IssueOk, Finish, DoRequest
  <2>2. Coherent("limiter", 2, net[r], "none")
    BY <1>0, <2>1 DEF Coherent
  <2>3. accepted' \in SUBSET Nat /\ "limiter" \in Phases /\ 2 \in 0..2 /\ "none" \in Operations
    BY <1>0, <2>1 DEF Phases, Operations
  <2> QED
    BY <2>1, <2>2, <2>3, GotoKeeps
<1> QED
  BY <1>1, <1>2, <1>3, <1>4, <1>5, <1>6

(* The steps that end a send. *)
LEMMA AnswerSteps ==
    ASSUME ClientInv, Managers, NEW r \in Requests,
           AnswerExecuted(r) \/ AnswerRefused(r) \/ AnswerRejected(r) \/ NetworkError(r)
    PROVE  ClientInv'
<1>0. /\ try[r] \in 0..2 /\ try = [try EXCEPT ![r] = try[r]]
      /\ op = [op EXCEPT ![r] = op[r]] /\ op[r] \in Operations
      /\ accepted \in SUBSET Nat
      /\ Coherent(phase[r], try[r], net[r], op[r])
  BY RequestFacts
<1>1. PICK p \in {"ok", "failed", "expired"} :
        /\ phase' = [phase EXCEPT ![r] = p]
        /\ p = "expired" => try[r] = 1 /\ net[r][1] = "rejected"
        /\ p = "ok" => net[r][try[r]] \in {"executed", "refused"}
  BY DEF AnswerExecuted, AnswerRefused, AnswerRejected, NetworkError, Fail, Expired
<1>2. /\ phase[r] = "inflight" /\ try' = try /\ op' = op /\ accepted' = accepted
      /\ UNCHANGED <<net, sentWith, sends, adminCalls>>
  BY DEF AnswerExecuted, AnswerRefused, AnswerRejected, NetworkError, tokenVars
<1>3. Coherent(p, try[r], net[r], op[r]) /\ p \in Phases
  BY <1>0, <1>1, <1>2 DEF Coherent, Phases
<1>4. /\ try' = [try EXCEPT ![r] = try[r]] /\ op' = [op EXCEPT ![r] = op[r]]
      /\ accepted' \in SUBSET Nat
  BY <1>0, <1>2
<1> QED
  BY <1>0, <1>1, <1>2, <1>3, <1>4, GotoKeeps

(* KIS handles a message: its fate is sent, and then one of three. *)
LEMMA ServeStep ==
    ASSUME ClientInv, Managers, NEW r \in Requests, NEW n \in Sends, Serve(r, n)
    PROVE  ClientInv'
<1>0. /\ net \in [Requests -> [Sends -> Fates]]
      /\ Coherent(phase[r], try[r], net[r], op[r])
      /\ try[r] \in 0..2
  BY RequestFacts
<1>1. PICK fate \in {"executed", "refused", "rejected"} : net' = [net EXCEPT ![r][n] = fate]
  BY DEF Serve
<1>2. /\ net[r][n] = "sent"
      /\ UNCHANGED <<phase, try, op, sentWith, accepted, sends, adminCalls>>
  BY DEF Serve, tokenVars
<1>3. /\ net' \in [Requests -> [Sends -> Fates]]
      /\ net'[r][n] = fate
      /\ \A m \in Sends : m # n => net'[r][m] = net[r][m]
      /\ \A q \in Requests \ {r} : net'[q] = net[q]
  BY <1>0, <1>1 DEF Fates
<1>4. Coherent(phase[r], try[r], net'[r], op[r])
  BY <1>0, <1>2, <1>3 DEF Coherent, Sends
<1>5. RequestInv'
  BY <1>2, <1>3, <1>4, Move DEF ClientInv
<1> QED
  BY <1>2, <1>3, <1>5 DEF ClientInv, ClientTypeOK

LEMMA ClientInitInv == Init => ClientInv
<1> SUFFICES ASSUME Init PROVE ClientInv
  OBVIOUS
<1>1. ClientTypeOK
  BY DEF Init, ClientTypeOK, Phases, Fates, Sends, None
<1>2. RequestInv
  BY RequestsAssumption DEF Init, TokenInit, RequestInv, Coherent, Sends
<1> QED
  BY <1>1, <1>2 DEF ClientInv

LEMMA ClientStepInv == ClientInv /\ Managers /\ [Next]_vars => ClientInv'
<1> SUFFICES ASSUME ClientInv, Managers, [Next]_vars
             PROVE  ClientInv'
  OBVIOUS
<1>0. /\ accepted \in SUBSET Nat /\ adminCalls \in Nat /\ token \in Nat /\ issued \in Nat
      /\ op \in [Tasks -> Operations] /\ Requests \subseteq Tasks
  BY RequestsAssumption DEF ClientInv, ClientTypeOK, Managers, TokenInv, TokenTypeOK
<1>1. ASSUME NEW r \in Requests, Call(r)
      PROVE  ClientInv'
  <2>1. /\ phase[r] = "new"
        /\ phase' = [phase EXCEPT ![r] = "limiter"] /\ try' = [try EXCEPT ![r] = 1]
        /\ op' = op /\ accepted' = accepted
        /\ UNCHANGED <<net, sentWith, sends, adminCalls>>
    BY <1>1 DEF Call, DoRequest, tokenVars
  <2>2. /\ Coherent(phase[r], try[r], net[r], op[r]) /\ try[r] \in 0..2
        /\ op = [op EXCEPT ![r] = op[r]] /\ op[r] \in Operations
    BY RequestFacts
  <2>3. Coherent("limiter", 1, net[r], op[r])
    BY <2>1, <2>2 DEF Coherent
  <2>4. op' = [op EXCEPT ![r] = op[r]] /\ accepted' \in SUBSET Nat
        /\ "limiter" \in Phases /\ 1 \in 0..2
    BY <1>0, <2>1, <2>2 DEF Phases
  <2> QED
    BY <2>1, <2>2, <2>3, <2>4, GotoKeeps
<1>2. ASSUME NEW r \in Requests, RequestStep(r)
      PROVE  ClientInv'
  <2>1. CASE SlotSleep(r)
    BY <1>0, <2>1, OthersKeep DEF SlotSleep, tokenVars, clientVars
  <2> QED
    BY <1>2, <2>1, SendingSteps, TokenSteps, AnswerSteps DEF RequestStep
<1>3. ASSUME NEW a \in Admins, AdminStart(a) \/ AdminStep(a)
      PROVE  ClientInv'
  <2>1. a \in Tasks /\ a \notin Requests
    BY DEF Admins
  <2>2. \E o \in Operations : op' = op \/ op' = [op EXCEPT ![a] = o]
    BY <1>3 DEF AdminStart, AdminStep, AdminProceed, AdminIssued, AdminRevoked, Refresh, Revoke,
                Queue, TurnIssue, TurnUnconfigured, TurnRevoke, TurnRevokeNothing, IssueFailed,
                BackoffOver, IssueExhausted, IssueMalformed, IssueOk, RevokeDone, Finish, Operations
  <2>3. \A q \in Requests : op'[q] = op[q]
    BY <1>0, <2>1, <2>2
  <2>4. UNCHANGED <<phase, try, net, sentWith, sends>> /\ adminCalls' \in {adminCalls, adminCalls + 1}
    BY <1>3 DEF AdminStart, AdminStep, AdminProceed, AdminIssued, AdminRevoked, clientVars
  <2>5. accepted' \in SUBSET Nat
    <3>1. CASE AdminIssued(a)
      BY <1>0, <3>1 DEF AdminIssued, IssueOk
    <3>2. CASE ~AdminIssued(a)
      <4>1. accepted' = accepted \/ accepted' = accepted \ {token}
        BY <1>3, <3>2 DEF AdminStart, AdminStep, AdminProceed, AdminRevoked, clientVars
      <4> QED
        BY <1>0, <4>1
    <3> QED
      BY <3>1, <3>2
  <2>6. adminCalls' \in Nat
    BY <1>0, <2>4
  <2> QED
    BY <2>3, <2>4, <2>5, <2>6, OthersKeep
<1>4. CASE KISStep
  <2>1. ASSUME NEW k \in accepted, Invalidate(k)
        PROVE  ClientInv'
    BY <1>0, <2>1, OthersKeep DEF Invalidate, tokenVars
  <2> QED
    BY <1>4, <2>1, ServeStep DEF KISStep
<1>5. CASE Aging
  BY <1>0, <1>5, OthersKeep DEF Aging, Age, clientVars
<1>6. CASE Clock \/ UNCHANGED vars
  BY <1>0, <1>6, OthersKeep DEF Clock, vars, tokenVars, clientVars
<1> QED
  BY <1>1, <1>2, <1>3, <1>4, <1>5, <1>6 DEF Next

LEMMA ClientInvariant == Spec => [](ClientInv /\ Managers)
<1>1. Spec => []Managers
  BY ClientRunsManager, TokenInvariant, LimiterInvariant, PTL DEF Managers
<1> QED
  BY <1>1, ClientInitInv, ClientStepInv, PTL DEF Spec

(* The types of the client's state. *)
THEOREM ClientTypeCorrect == Spec => []TypeOK
<1>1. ClientInv /\ Managers => TypeOK
  BY DEF ClientInv, Managers, TokenInv, LimiterInv, TypeOK
<1> QED
  BY <1>1, ClientInvariant, PTL

(* A request is sent again only after KIS rejected its token, or when it   *)
(* was not sent at all (client.py:99-119).                                 *)
THEOREM ClientRetryOnlyAfterRejection == Spec => []RetryOnlyAfterRejection
<1>1. ClientInv => RetryOnlyAfterRejection
  BY DEF ClientInv, RequestInv, Coherent, RetryOnlyAfterRejection
<1> QED
  BY <1>1, ClientInvariant, PTL

(* KIS executes a request at most once, however often and late messages    *)
(* are served (client.py:99-119, 155-163).                                 *)
THEOREM ClientExecutedAtMostOnce == Spec => []ExecutedAtMostOnce
<1>1. ASSUME ClientInv
      PROVE  ExecutedAtMostOnce
  <2>1. \A r \in Requests : Coherent(phase[r], try[r], net[r], op[r]) /\ try[r] \in 0..2
    BY <1>1 DEF ClientInv, ClientTypeOK, RequestInv
  <2>2. \A r \in Requests : ~(net[r][1] = "executed" /\ net[r][2] = "executed")
    BY <2>1 DEF Coherent
  <2> QED
    BY <2>2 DEF ExecutedAtMostOnce, Sends
<1> QED
  BY <1>1, ClientInvariant, PTL

(* The slots the limiter grants to the client's requests are spaced.       *)
THEOREM ClientGrantsSpaced == Spec => []GrantsSpaced
<1>1. Managers => GrantsSpaced
  BY DEF Managers, LimiterInv
<1> QED
  BY <1>1, ClientInvariant, PTL
-----------------------------------------------------------------------------
\* What request r knows of the age of the tokens: the first send carried one
\* issued before now, and once the retry is on its way the cached token, if
\* there is one, is younger.
Ordered(r) ==
    /\ sentWith[r][1] <= issued
    /\ try[r] = 2 /\ token # None => sentWith[r][1] < token
    /\ net[r][2] # "unsent" => sentWith[r][1] < sentWith[r][2]

OrderInv == \A r \in Requests : Ordered(r)

(* A step keeps the cached token, replaces it by the next one or drops it. *)
LEMMA CacheMoves ==
    ASSUME Managers, [Next]_vars
    PROVE  \/ UNCHANGED <<token, issued>>
           \/ token' = issued + 1 /\ issued' = issued + 1
           \/ token' = None /\ issued' = issued
<1>1. ASSUME NEW t \in Tasks, Start(t) \/ Proceed(t)
      PROVE  \/ UNCHANGED <<token, issued>>
             \/ token' = issued + 1 /\ issued' = issued + 1
             \/ token' = None /\ issued' = issued
  BY <1>1 DEF Start, GetQueued, Refresh, Revoke, Queue, Proceed, TurnFresh, TurnIssue,
              TurnUnconfigured, TurnRevoke, TurnRevokeNothing, IssueOk, IssueFailed, BackoffOver,
              IssueExhausted, IssueMalformed, RevokeDone
<1> QED
  BY <1>1, StepIsTokenStep DEF TokenNext, tokenVars, Age

(* A step that sends uses a token that is cached and usable, or new. *)
LEMMA SendingFacts ==
    ASSUME ClientInv, Managers, NEW r \in Requests,
           SlotAndSend(r) \/ TokenCached(r) \/ TokenIssued(r)
    PROVE  /\ net' = [net EXCEPT ![r][try[r]] = "sent"]
           /\ sentWith' = [sentWith EXCEPT ![r][try[r]] = token']
           /\ try' = try
           /\ try[r] \in Sends
           /\ token' \in {token, issued + 1} /\ token' # None
<1>0. /\ try \in [Requests -> 0..2]
      /\ token \in Nat /\ issued \in Nat
      /\ Coherent(phase[r], try[r], net[r], op[r])
  BY DEF ClientInv, ClientTypeOK, RequestInv, Managers, TokenInv, TokenTypeOK
<1>1. CASE SlotAndSend(r)
  <2>1. phase[r] = "limiter" /\ token' = token /\ ~IsExpired
    BY <1>1 DEF SlotAndSend, GetCached, tokenVars
  <2>2. try[r] \in Sends
    BY <1>0, <2>1 DEF Coherent, Sends
  <2> QED
    BY <1>1, <2>1, <2>2 DEF SlotAndSend, Send, IsExpired
<1>2. CASE TokenCached(r)
  <2>1. op[r] = "get" /\ token' = token /\ ~IsExpired
    BY <1>2 DEF TokenCached, TurnFresh
  <2>2. try[r] \in Sends
    BY <1>0, <2>1 DEF Coherent, Sends
  <2> QED
    BY <1>2, <2>1, <2>2 DEF TokenCached, Send, IsExpired
<1>3. CASE TokenIssued(r)
  <2>1. op[r] = "get" /\ token' = issued + 1
    BY <1>3 DEF TokenIssued, IssueOk
  <2>2. try[r] \in Sends
    BY <1>0, <2>1 DEF Coherent, Sends
  <2> QED
    BY <1>0, <1>3, <2>1, <2>2 DEF TokenIssued, None
<1> QED
  BY <1>1, <1>2, <1>3

(* The steps that touch the sends of a request: there are four kinds. *)
LEMMA StepKinds ==
    ASSUME [Next]_vars
    PROVE  \/ \E r \in Requests : SlotAndSend(r) \/ TokenCached(r) \/ TokenIssued(r)
           \/ \E r \in Requests : Retry(r) \/ Call(r)
           \/ \E r \in Requests : \E n \in Sends : Serve(r, n)
           \/ UNCHANGED <<try, net, sentWith>>
  BY DEF Next, RequestStep, SlotAndWait, SlotSleep, TokenExhausted, TokenError, TokenPending,
         StartRefresh, AnswerExecuted, AnswerRefused, AnswerRejected, NetworkError, AdminStart,
         AdminStep, AdminProceed, AdminIssued, AdminRevoked, KISStep, Invalidate, Aging, Clock,
         vars, clientVars

(* What a step does to the sends of a request, and when. *)
LEMMA SendMoves ==
    ASSUME ClientInv, Managers, [Next]_vars, NEW q \in Requests
    PROVE  \/ /\ UNCHANGED <<try[q], sentWith[q]>>
              /\ net'[q][2] # "unsent" => net[q][2] # "unsent"
           \/ /\ try'[q] = 1 /\ sentWith'[q] = sentWith[q] /\ net'[q] = net[q]
           \/ /\ try'[q] = 2 /\ token' = issued + 1
              /\ sentWith'[q] = sentWith[q] /\ net'[q] = net[q] /\ net[q][2] = "unsent"
           \/ /\ try'[q] = try[q] /\ try[q] = 1
              /\ sentWith'[q][1] = token' /\ token' \in {token, issued + 1} /\ token' # None
              /\ net'[q][2] = "unsent"
           \/ /\ try'[q] = try[q] /\ try[q] = 2
              /\ sentWith'[q][1] = sentWith[q][1] /\ sentWith'[q][2] = token'
              /\ token' \in {token, issued + 1} /\ token' # None
<1>0. /\ try \in [Requests -> 0..2]
      /\ net \in [Requests -> [Sends -> Fates]]
      /\ sentWith \in [Requests -> [Sends -> Nat]]
      /\ token \in Nat /\ issued \in Nat
      /\ \A r \in Requests : Coherent(phase[r], try[r], net[r], op[r])
  BY DEF ClientInv, ClientTypeOK, RequestInv, Managers, TokenInv, TokenTypeOK
<1>2. ASSUME NEW r \in Requests, Retry(r)
      PROVE  /\ try' = [try EXCEPT ![r] = 2] /\ token' = issued + 1
             /\ net' = net /\ sentWith' = sentWith
             /\ net[r][2] = "unsent"
  BY <1>0, <1>2 DEF Retry, IssueOk, DoRequest, Coherent
<1>3. ASSUME NEW r \in Requests, Call(r)
      PROVE  try' = [try EXCEPT ![r] = 1] /\ net' = net /\ sentWith' = sentWith
  BY <1>3 DEF Call, DoRequest
<1>4. ASSUME NEW r \in Requests, NEW n \in Sends, Serve(r, n)
      PROVE  /\ UNCHANGED <<try, sentWith>>
             /\ net[r][n] = "sent"
             /\ \E fate \in Fates : net' = [net EXCEPT ![r][n] = fate]
  BY <1>4 DEF Serve, Fates
<1>5. CASE \E r \in Requests : SlotAndSend(r) \/ TokenCached(r) \/ TokenIssued(r)
  <2>1. PICK r \in Requests : SlotAndSend(r) \/ TokenCached(r) \/ TokenIssued(r)
    BY <1>5
  <2>2. CASE q # r
    BY <1>0, SendingFacts, <2>1, <2>2
  <2>3. CASE q = r /\ try[q] = 1
    <3>1. net[q][2] = "unsent"
      BY <1>0, <2>3 DEF Coherent
    <3> QED
      BY <1>0, SendingFacts, <2>1, <2>3, <3>1 DEF Sends
  <2>4. CASE q = r /\ try[q] = 2
    BY <1>0, SendingFacts, <2>1, <2>4 DEF Sends
  <2> QED
    BY SendingFacts, <2>1, <2>2, <2>3, <2>4 DEF Sends
<1>6. CASE \E r \in Requests : Retry(r)
  BY <1>0, <1>2, <1>6
<1>7. CASE \E r \in Requests : Call(r)
  BY <1>0, <1>3, <1>7
<1>8. CASE \E r \in Requests : \E n \in Sends : Serve(r, n)
  <2>1. PICK r \in Requests, n \in Sends : Serve(r, n)
    BY <1>8
  <2>2. CASE q = r /\ n = 2
    BY <1>0, <1>4, <2>1, <2>2 DEF Sends
  <2>3. CASE ~(q = r /\ n = 2)
    BY <1>0, <1>4, <2>1, <2>3 DEF Sends
  <2> QED
    BY <2>2, <2>3
<1>9. CASE UNCHANGED <<try, net, sentWith>>
  BY <1>9
<1> QED
  BY <1>5, <1>6, <1>7, <1>8, <1>9, StepKinds

LEMMA OrderStep == OrderInv /\ ClientInv /\ Managers /\ [Next]_vars => OrderInv'
<1> SUFFICES ASSUME OrderInv, ClientInv, Managers, [Next]_vars, NEW q \in Requests
             PROVE  Ordered(q)'
  BY DEF OrderInv
<1>1. /\ sentWith[q][1] \in Nat /\ sentWith[q][2] \in Nat
      /\ token \in Nat /\ issued \in Nat /\ token <= issued
      /\ try[q] \in 0..2
  BY DEF ClientInv, ClientTypeOK, Managers, TokenInv, TokenTypeOK, TokensNumbered, Sends
<1>2. Ordered(q)
  BY DEF OrderInv
<1> QED
  BY <1>1, <1>2, CacheMoves, SendMoves DEF Ordered, None

LEMMA OrderInvariant == Spec => []OrderInv
<1>1. Init => OrderInv
  BY RequestsAssumption DEF Init, TokenInit, OrderInv, Ordered, Sends, None
<1> QED
  BY <1>1, OrderStep, ClientInvariant, PTL DEF Spec

(* The retry of a request carries a token issued after the rejected one    *)
(* (client.py:108-112, token.py:41-57).                                    *)
THEOREM ClientRetryCarriesNewerToken == Spec => []RetryCarriesNewerToken
<1>1. OrderInv => RetryCarriesNewerToken
  BY DEF OrderInv, Ordered, RetryCarriesNewerToken
<1> QED
  BY <1>1, OrderInvariant, PTL
-----------------------------------------------------------------------------
(* A step that sends takes the token from the cache, where no revoked      *)
(* token is, or has just been given a new one.                             *)
LEMMA StepSendsUnrevoked == ClientInv /\ Managers /\ [Next]_vars => SendsUnrevoked
<1> SUFFICES ASSUME ClientInv, Managers, [Next]_vars,
                    NEW r \in Requests, NEW n \in Sends,
                    net[r][n] = "unsent", net'[r][n] = "sent"
             PROVE  sentWith'[r][n] \notin revoked
  BY DEF SendsUnrevoked
<1>0. /\ net \in [Requests -> [Sends -> Fates]]
      /\ sentWith \in [Requests -> [Sends -> Nat]]
  BY DEF ClientInv, ClientTypeOK
<1>1. token \notin revoked /\ issued + 1 \notin revoked
  BY DEF Managers, TokenInv, TokenTypeOK, TokensNumbered, RevokedNotCached
<1>2. CASE \E q \in Requests : SlotAndSend(q) \/ TokenCached(q) \/ TokenIssued(q)
  <2>1. PICK q \in Requests : SlotAndSend(q) \/ TokenCached(q) \/ TokenIssued(q)
    BY <1>2
  <2>2. /\ net' = [net EXCEPT ![q][try[q]] = "sent"]
        /\ sentWith' = [sentWith EXCEPT ![q][try[q]] = token']
        /\ token' \in {token, issued + 1}
    BY <2>1, SendingFacts
  <2>3. q = r /\ try[q] = n
    BY <1>0, <2>2
  <2> QED
    BY <1>0, <1>1, <2>2, <2>3
<1>3. CASE \E q \in Requests : Retry(q) \/ Call(q)
  BY <1>3 DEF Retry, Call
<1>4. CASE \E q \in Requests : \E m \in Sends : Serve(q, m)
  <2>1. PICK q \in Requests, m \in Sends : Serve(q, m)
    BY <1>4
  <2>2. PICK fate \in {"executed", "refused", "rejected"} : net' = [net EXCEPT ![q][m] = fate]
    BY <2>1 DEF Serve
  <2> QED
    BY <1>0, <2>2
<1>5. CASE UNCHANGED <<try, net, sentWith>>
  BY <1>5
<1> QED
  BY <1>2, <1>3, <1>4, <1>5, StepKinds

(* No request leaves with a token whose revocation has returned            *)
(* (client.py:131-148, token.py:73-78).                                    *)
THEOREM ClientRevokedNeverSent == Spec => RevokedNeverSent
  BY StepSendsUnrevoked, ClientInvariant, PTL DEF Spec, RevokedNeverSent

(* The requests and the auth router find the token manager atomic          *)
(* (token.py:35-78), also with the retries of _request among its callers.  *)
THEOREM ClientFindsCellAtomic == Spec => ImplementsTokenCell
  BY ClientRunsManager, TokenImplementsCell, PTL

-----------------------------------------------------------------------------
(***************************************************************************)
(* The pace of the client.  A slot is spent when it is granted, the        *)
(* request leaves when it has a token, so slots run ahead of sends: by     *)
(* those that still wait for a token, and by those that never got one.     *)
(***************************************************************************)

\* The requests whose slot is spent and whose token is still awaited.
Awaiting == {r \in Requests : op[r] = "get"}

Pace ==
    /\ IsFiniteSet(Awaiting)
    /\ Len(sends) + Cardinality(Awaiting) <= Len(grants)
    /\ Len(grants) * Interval <= nextAvailable
    /\ (Len(grants) - 1) * Interval <= now
    /\ PaceKept

LEMMA Intervals ==
    ASSUME NEW m \in Int, NEW n \in Int, m <= n
    PROVE  m * Interval <= n * Interval
<1>1. PICK d \in Nat : n = m + d
  <2>1. n - m \in Nat /\ n = m + (n - m)
    OBVIOUS
  <2> QED
    BY <2>1
<1>2. n * Interval = m * Interval + d * Interval /\ d * Interval \in Nat
  BY <1>1, LimiterAssumption
<1> QED
  BY <1>2, LimiterAssumption

LEMMA PaceFacts ==
    ASSUME Managers, ClientInv
    PROVE  /\ now \in Nat /\ nextAvailable \in Nat /\ Interval \in Nat
           /\ sends \in Seq(Nat) /\ Len(sends) \in Nat
           /\ grants \in Seq(Nat) /\ Len(grants) \in Nat
           /\ op \in [Tasks -> Operations]
  BY LimiterAssumption
     DEF Managers, TokenInv, TokenTypeOK, LimiterInv, LimiterTypeOK, ClientInv, ClientTypeOK

(* A slot that is granted is due, and the next one is an interval later.   *)
LEMMA GrantPace ==
    ASSUME Managers, ClientInv, Pace, NEW r \in Requests, Grant(r)
    PROVE  /\ Len(grants') = Len(grants) + 1
           /\ Len(grants') * Interval <= nextAvailable'
           /\ Len(grants) * Interval <= now
           /\ now' = now
<1>1. nextAvailable <= now /\ Book
  BY NoTaskAssumption, RequestsAssumption
     DEF Grant, GrantAtOnce, Wake, Managers, LimiterInv, LimiterTypeOK, SleeperOwnsSlot
<1>2. Len(grants') = Len(grants) + 1 /\ nextAvailable' = now + Interval /\ now' = now
  BY <1>1, PaceFacts DEF Book
<1>3. Len(grants) * Interval <= now /\ (Len(grants) + 1) * Interval = Len(grants) * Interval + Interval
  BY <1>1, PaceFacts DEF Pace
<1> QED
  BY <1>2, <1>3, PaceFacts

(* A request that leaves when enough intervals have passed keeps the pace. *)
LEMMA SendPace ==
    ASSUME Managers, ClientInv, Pace, sends' = Append(sends, now), Len(sends) * Interval <= now
    PROVE  PaceKept' /\ Len(sends') = Len(sends) + 1
<1>1. /\ DOMAIN sends' = 1 .. Len(sends) + 1 /\ Len(sends') = Len(sends) + 1
      /\ \A k \in DOMAIN sends : sends'[k] = sends[k]
      /\ sends'[Len(sends) + 1] = now
  BY PaceFacts
<1>2. ASSUME NEW k \in DOMAIN sends'
      PROVE  sends'[k] >= (k - 1) * Interval
  <2>1. CASE k \in DOMAIN sends
    BY <1>1, <2>1 DEF Pace, PaceKept
  <2>2. CASE k = Len(sends) + 1
    <3>1. k - 1 = Len(sends)
      BY <2>2, PaceFacts
    <3> QED
      BY <1>1, <2>2, <3>1, PaceFacts
  <2> QED
    BY <1>1, <2>1, <2>2, PaceFacts
<1> QED
  BY <1>1, <1>2 DEF PaceKept

(* A request gets its slot and is sent, or waits for a token.              *)
LEMMA SlotPace ==
    ASSUME Managers, ClientInv, Pace, NEW r \in Requests, SlotAndSend(r) \/ SlotAndWait(r)
    PROVE  Pace'
<1>1. /\ Len(grants') = Len(grants) + 1 /\ Len(grants') * Interval <= nextAvailable'
      /\ Len(grants) * Interval <= now /\ now' = now
  BY GrantPace DEF SlotAndSend, SlotAndWait
<1>2. IsFiniteSet(Awaiting) /\ Cardinality(Awaiting) \in Nat /\ Len(sends) + Cardinality(Awaiting) <= Len(grants)
  BY FS_CardinalityType DEF Pace
<1>3. (Len(grants') - 1) * Interval <= now'
  <2>1. Len(grants') - 1 = Len(grants)
    BY <1>1, PaceFacts
  <2> QED
    BY <1>1, <2>1
<1>4. CASE SlotAndSend(r)
  <2>1. op' = op /\ sends' = Append(sends, now)
    BY <1>4 DEF SlotAndSend, GetCached, tokenVars, Send
  <2>2. Awaiting' = Awaiting
    BY <2>1 DEF Awaiting
  <2>3. Len(sends) * Interval <= Len(grants) * Interval
    BY <1>2, PaceFacts, Intervals
  <2>4. Len(sends) * Interval <= now
    BY <1>1, <2>3, PaceFacts
  <2>5. PaceKept' /\ Len(sends') = Len(sends) + 1
    BY <2>1, <2>4, SendPace
  <2> QED
    BY <1>1, <1>2, <1>3, <2>2, <2>5, PaceFacts DEF Pace
<1>5. CASE SlotAndWait(r)
  <2>1. op' = [op EXCEPT ![r] = "get"] /\ sends' = sends
    BY <1>5 DEF SlotAndWait, GetQueued, Queue
  <2>2. Awaiting' = Awaiting \cup {r}
    BY <2>1, PaceFacts, RequestsAssumption DEF Awaiting
  <2>3. IsFiniteSet(Awaiting') /\ Cardinality(Awaiting') <= Cardinality(Awaiting) + 1
        /\ Cardinality(Awaiting') \in Nat
    BY <1>2, <2>2, FS_AddElement, FS_CardinalityType
  <2>4. PaceKept'
    BY <2>1 DEF Pace, PaceKept
  <2> QED
    BY <1>1, <1>2, <1>3, <2>1, <2>3, <2>4, PaceFacts DEF Pace
<1> QED
  BY <1>4, <1>5

(* A request gets the token it waited for, or none.                        *)
LEMMA TokenPace ==
    ASSUME Managers, ClientInv, Pace, NEW r \in Requests,
           TokenCached(r) \/ TokenIssued(r) \/ TokenExhausted(r) \/ TokenError(r)
    PROVE  Pace'
<1>1. op' = [op EXCEPT ![r] = "none"] /\ UNCHANGED limiterVars
  BY DEF TokenCached, TurnFresh, TokenIssued, IssueOk, TokenExhausted, IssueExhausted, TokenError,
         TurnUnconfigured, IssueMalformed, Finish
<1>2. Awaiting' = Awaiting \ {r}
  BY <1>1, PaceFacts, RequestsAssumption DEF Awaiting
<1>3. /\ IsFiniteSet(Awaiting') /\ Cardinality(Awaiting) \in Nat /\ Cardinality(Awaiting') \in Nat
      /\ Cardinality(Awaiting') =
           IF r \in Awaiting THEN Cardinality(Awaiting) - 1 ELSE Cardinality(Awaiting)
      /\ Len(sends) + Cardinality(Awaiting) <= Len(grants)
  BY <1>2, FS_RemoveElement, FS_CardinalityType DEF Pace
<1>4. now' = now /\ grants' = grants /\ nextAvailable' = nextAvailable
  BY <1>1 DEF limiterVars
<1>5. CASE TokenCached(r) \/ TokenIssued(r)
  <2>1. r \in Awaiting /\ sends' = Append(sends, now)
    BY <1>5 DEF TokenCached, TurnFresh, TokenIssued, Send, Awaiting
  <2>2. Len(sends) <= Len(grants) - 1
    BY <1>3, <2>1, PaceFacts
  <2>3. Len(sends) * Interval <= (Len(grants) - 1) * Interval
    BY <2>2, PaceFacts, Intervals
  <2>4. Len(sends) * Interval <= now
    BY <2>3, PaceFacts DEF Pace
  <2>5. PaceKept' /\ Len(sends') = Len(sends) + 1
    BY <2>1, <2>4, SendPace
  <2> QED
    BY <1>3, <1>4, <2>1, <2>5, PaceFacts DEF Pace
<1>6. CASE TokenExhausted(r) \/ TokenError(r)
  <2>1. sends' = sends
    BY <1>6 DEF TokenExhausted, TokenError
  <2> QED
    BY <1>3, <1>4, <2>1, PaceFacts DEF Pace, PaceKept
<1> QED
  BY <1>5, <1>6

(* Every other step leaves the slots, the sends and the requests that wait *)
(* for a token as they are; only the clock may go on.                      *)
LEMMA IdlePace ==
    ASSUME Managers, ClientInv, Pace,
           UNCHANGED <<sends, grants, nextAvailable>>, now' \in {now, now + 1},
           \A r \in Requests : op'[r] = "get" <=> op[r] = "get"
    PROVE  Pace'
<1>1. Awaiting' = Awaiting
  BY DEF Awaiting
<1> QED
  BY <1>1, PaceFacts DEF Pace, PaceKept

LEMMA StepPace == Managers /\ ClientInv /\ Pace /\ [Next]_vars => Pace'
<1> SUFFICES ASSUME Managers, ClientInv, Pace, [Next]_vars
             PROVE  Pace'
  OBVIOUS
<1>0. op \in [Tasks -> Operations] /\ Requests \subseteq Tasks
  BY PaceFacts, RequestsAssumption
<1>1. ASSUME NEW r \in Requests, Call(r) \/ SlotSleep(r)
      PROVE  Pace'
  BY <1>1, IdlePace DEF Call, DoRequest, Acquire, SlotSleep, Sleep, tokenVars, clientVars
<1>2. ASSUME NEW r \in Requests, TokenPending(r)
      PROVE  Pace'
  BY <1>2, IdlePace DEF TokenPending, TurnIssue, IssueFailed, BackoffOver, limiterVars, clientVars
<1>3. ASSUME NEW r \in Requests, StartRefresh(r)
      PROVE  Pace'
  <2>1. op[r] = "none"
    BY <1>3, RequestFacts DEF StartRefresh, Refresh, Queue, Idle
  <2>2. op' = [op EXCEPT ![r] = "refresh"]
    BY <1>3 DEF StartRefresh, Refresh, Queue
  <2> QED
    BY <1>0, <1>3, <2>1, <2>2, IdlePace DEF StartRefresh, limiterVars
<1>4. ASSUME NEW r \in Requests, Retry(r)
      PROVE  Pace'
  <2>1. op[r] = "refresh" /\ op' = [op EXCEPT ![r] = "none"]
    BY <1>4 DEF Retry, IssueOk, Finish
  <2> QED
    BY <1>0, <1>4, <2>1, IdlePace DEF Retry, DoRequest, Acquire
<1>5. ASSUME NEW r \in Requests,
             AnswerExecuted(r) \/ AnswerRefused(r) \/ AnswerRejected(r) \/ NetworkError(r)
      PROVE  Pace'
  BY <1>5, IdlePace DEF AnswerExecuted, AnswerRefused, AnswerRejected, NetworkError,
                        tokenVars, limiterVars
<1>6. ASSUME NEW a \in Admins, AdminStart(a) \/ AdminStep(a)
      PROVE  Pace'
  <2>1. a \in Tasks /\ a \notin Requests
    BY DEF Admins
  <2>2. /\ UNCHANGED limiterVars /\ sends' = sends
        /\ \E o \in Operations : op' = [op EXCEPT ![a] = o]
    <3>1. UNCHANGED limiterVars /\ sends' = sends
      BY <1>6 DEF AdminStart, AdminStep, AdminProceed, AdminIssued, AdminRevoked, clientVars
    <3>2. \/ op' = [op EXCEPT ![a] = "refresh"] \/ op' = [op EXCEPT ![a] = "revoke"]
          \/ op' = [op EXCEPT ![a] = "none"] \/ op' = op
      BY <1>6 DEF AdminStart, Refresh, Revoke, Queue, AdminStep, AdminProceed, AdminIssued,
                  AdminRevoked, TurnIssue, TurnUnconfigured, TurnRevoke, TurnRevokeNothing,
                  IssueFailed, BackoffOver, IssueExhausted, IssueMalformed, IssueOk, RevokeDone, Finish
    <3>3. op = [op EXCEPT ![a] = op[a]] /\ op[a] \in Operations
      BY <1>0, <2>1
    <3> QED
      BY <3>1, <3>2, <3>3 DEF Operations
  <2>3. \A r \in Requests : op'[r] = op[r]
    BY <1>0, <2>1, <2>2
  <2> QED
    BY <2>2, <2>3, IdlePace DEF limiterVars
<1>7. CASE KISStep \/ Aging
  BY <1>7, IdlePace DEF KISStep, Serve, Invalidate, Aging, Age, tokenVars, limiterVars, clientVars
<1>8. CASE Clock
  BY <1>8, IdlePace DEF Clock, Tick, tokenVars, clientVars
<1>9. CASE UNCHANGED vars
  BY <1>9, IdlePace DEF vars, tokenVars, limiterVars, clientVars
<1> QED
  BY <1>1, <1>2, <1>3, <1>4, <1>5, <1>6, <1>7, <1>8, <1>9, SlotPace, TokenPace
     DEF Next, RequestStep

LEMMA InitPace == Init => Pace
<1> SUFFICES ASSUME Init
             PROVE  Pace
  OBVIOUS
<1>1. Awaiting = {}
  BY RequestsAssumption DEF Init, TokenInit, Awaiting
<1>2. sends = <<>> /\ grants = <<>> /\ now = 0 /\ nextAvailable = 0
  BY DEF Init, LimiterInit
<1> QED
  BY <1>1, <1>2, FS_EmptySet, LimiterAssumption DEF Pace, PaceKept

(* The k-th request that leaves, retries included, does so no earlier than *)
(* k - 1 intervals after the start, however many requests waited together  *)
(* for a token (client.py:45-52, 131, 148).                                *)
THEOREM ClientPaceKept == Spec => []PaceKept
<1>1. Pace => PaceKept
  BY DEF Pace
<1> QED
  BY <1>1, InitPace, StepPace, ClientInvariant, PTL DEF Spec
-----------------------------------------------------------------------------
(* The KIS client implements CallOnce, for every set of requests: each of its steps is a  *)
(* step of the abstract call under the mapping callStatus, callOutcome, or leaves the     *)
(* mapped state alone.                                                                    *)

\* The abstract status of a program point, for a request that KIS has executed or not.
StatusOf(p, done) ==
    IF p \in {"new", "failed"} THEN p
    ELSE IF p # "ok" THEN "pending"
    ELSE IF done THEN "ok" ELSE "declined"

\* The abstract step that request r takes when its program point becomes p.
Follows(r, p) ==
    LET new == StatusOf(p, Executed(r))
    IN  \/ new = callStatus[r]
        \/ callStatus[r] = "new" /\ new = "pending"
        \/ callStatus[r] = "pending" /\ new = "failed"
        \/ callStatus[r] = "pending" /\ new = "ok" /\ callOutcome[r] = "done"
        \/ callStatus[r] = "pending" /\ new = "declined" /\ callOutcome[r] = "refused"

\* What KIS has decided is as it was.
Undecided == \A q \in Requests : Executed(q)' = Executed(q) /\ Refused(q)' = Refused(q)

LEMMA MappedStatus ==
    \A r \in Requests : callStatus[r] = StatusOf(phase[r], Executed(r))
BY DEF callStatus, StatusOf

(* A step that moves the program point of one request. *)
LEMMA PhaseStep ==
    ASSUME ClientInv, NEW r \in Requests, NEW p \in Phases,
           phase' = [phase EXCEPT ![r] = p], Undecided, Follows(r, p)
    PROVE  [Abstract!CallNext]_<<callStatus, callOutcome>>
<1>1. phase \in [Requests -> Phases]
  BY DEF ClientInv, ClientTypeOK
<1>2. callOutcome' = callOutcome
  BY DEF callOutcome, Undecided
<1>3. callStatus' = [callStatus EXCEPT ![r] = StatusOf(p, Executed(r))]
  BY <1>1 DEF callStatus, StatusOf, Undecided
<1>4. callStatus = [callStatus EXCEPT ![r] = callStatus[r]]
  BY DEF callStatus
<1>5. CASE StatusOf(p, Executed(r)) = callStatus[r]
  BY <1>2, <1>3, <1>4, <1>5
<1>6. CASE callStatus[r] = "new" /\ StatusOf(p, Executed(r)) = "pending"
  BY <1>2, <1>3, <1>6 DEF Abstract!CallNext, Abstract!Begin
<1>7. CASE callStatus[r] = "pending" /\ StatusOf(p, Executed(r)) = "failed"
  BY <1>2, <1>3, <1>7 DEF Abstract!CallNext, Abstract!GiveUp
<1>8. CASE /\ callStatus[r] = "pending" /\ StatusOf(p, Executed(r)) = "ok"
           /\ callOutcome[r] = "done"
  BY <1>2, <1>3, <1>8 DEF Abstract!CallNext, Abstract!Succeed
<1>9. CASE /\ callStatus[r] = "pending" /\ StatusOf(p, Executed(r)) = "declined"
           /\ callOutcome[r] = "refused"
  BY <1>2, <1>3, <1>9 DEF Abstract!CallNext, Abstract!Decline
<1> QED
  BY <1>5, <1>6, <1>7, <1>8, <1>9 DEF Follows

(* The steps that send: pending before and after, and nothing decided. *)
LEMMA SendStep ==
    ASSUME ClientInv, Managers, NEW r \in Requests,
           SlotAndSend(r) \/ TokenCached(r) \/ TokenIssued(r)
    PROVE  [Abstract!CallNext]_<<callStatus, callOutcome>>
<1>0. /\ phase \in [Requests -> Phases]
      /\ net \in [Requests -> [Sends -> Fates]]
      /\ Coherent(phase[r], try[r], net[r], op[r])
  BY DEF ClientInv, ClientTypeOK, RequestInv
<1>1. /\ net' = [net EXCEPT ![r][try[r]] = "sent"] /\ try[r] \in Sends
  BY SendingFacts
<1>2. phase' = [phase EXCEPT ![r] = "inflight"] /\ phase[r] \in {"limiter", "token"}
  BY <1>0 DEF SlotAndSend, TokenCached, TokenIssued, Send, TurnFresh, Coherent
<1>3. net[r][try[r]] = "unsent"
  BY <1>0 DEF SlotAndSend, TokenCached, TokenIssued, TurnFresh, Coherent
<1>4. Undecided
  BY <1>0, <1>1, <1>3 DEF Executed, Refused, Undecided
<1>5. Follows(r, "inflight") /\ "inflight" \in Phases
  BY <1>2, MappedStatus DEF Follows, StatusOf, Phases
<1> QED
  BY <1>2, <1>4, <1>5, PhaseStep

(* The other steps of a request leave its sends alone. *)
LEMMA QuietStep ==
    ASSUME ClientInv, Managers, NEW r \in Requests,
           \/ Call(r) \/ SlotAndWait(r) \/ TokenExhausted(r) \/ TokenError(r)
           \/ StartRefresh(r) \/ Retry(r)
           \/ AnswerExecuted(r) \/ AnswerRefused(r) \/ AnswerRejected(r) \/ NetworkError(r)
    PROVE  [Abstract!CallNext]_<<callStatus, callOutcome>>
<1>0. Coherent(phase[r], try[r], net[r], op[r]) /\ try[r] \in 0..2
  BY DEF ClientInv, ClientTypeOK, RequestInv
<1>1. Undecided
  BY DEF Call, SlotAndWait, TokenExhausted, TokenError, StartRefresh, Retry, AnswerExecuted,
         AnswerRefused, AnswerRejected, NetworkError, Executed, Refused, Undecided
<1>2. ASSUME NEW p \in Phases, phase' = [phase EXCEPT ![r] = p], Follows(r, p)
      PROVE  [Abstract!CallNext]_<<callStatus, callOutcome>>
  BY <1>1, <1>2, PhaseStep
<1>3. CASE Call(r)
  BY <1>2, <1>3, MappedStatus DEF Call, DoRequest, Follows, StatusOf, Phases
<1>4. CASE SlotAndWait(r) \/ StartRefresh(r) \/ Retry(r)
  <2>1. PICK p \in {"token", "limiter"} : phase' = [phase EXCEPT ![r] = p]
    BY <1>4 DEF SlotAndWait, StartRefresh, Retry, DoRequest
  <2>2. phase[r] \in {"limiter", "expired", "token"}
    BY <1>0, <1>4 DEF SlotAndWait, StartRefresh, Retry, Coherent
  <2> QED
    BY <1>2, <2>1, <2>2, MappedStatus DEF Follows, StatusOf, Phases
<1>5. CASE TokenExhausted(r) \/ TokenError(r)
  <2>1. PICK p \in {"expired", "failed"} : phase' = [phase EXCEPT ![r] = p]
    BY <1>5 DEF TokenExhausted, TokenError, Expired, Fail
  <2>2. op[r] # "none"
    BY <1>5, RequestsAssumption
       DEF TokenExhausted, TokenError, TurnUnconfigured, MustIssue, IssueMalformed,
           Managers, TokenInv, StageFitsOp
  <2>3. phase[r] = "token"
    BY <1>0, <2>2 DEF Coherent
  <2> QED
    BY <1>2, <2>1, <2>3, MappedStatus DEF Follows, StatusOf, Phases
<1>6. CASE AnswerExecuted(r) \/ AnswerRefused(r) \/ AnswerRejected(r) \/ NetworkError(r)
  <2>1. PICK p \in {"ok", "failed", "expired"} :
          /\ phase' = [phase EXCEPT ![r] = p]
          /\ p = "ok" => net[r][try[r]] \in {"executed", "refused"}
    BY <1>6 DEF AnswerExecuted, AnswerRefused, AnswerRejected, NetworkError, Fail, Expired
  <2>2. phase[r] = "inflight"
    BY <1>6 DEF AnswerExecuted, AnswerRefused, AnswerRejected, NetworkError
  <2>3. try[r] \in Sends
    BY <1>0, <2>2 DEF Coherent, Sends
  <2>4. p = "ok" => callOutcome[r] = IF Executed(r) THEN "done" ELSE "refused"
    BY <2>1, <2>3 DEF callOutcome, Executed, Refused
  <2> QED
    BY <1>2, <2>1, <2>2, <2>4, MappedStatus DEF Follows, StatusOf, Phases
<1> QED
  BY <1>3, <1>4, <1>5, <1>6

(* KIS serves a message: that decides the call, or (a rejection) leaves it open. *)
LEMMA ServeRefines ==
    ASSUME ClientInv, Managers, NEW r \in Requests, NEW n \in Sends, Serve(r, n)
    PROVE  [Abstract!CallNext]_<<callStatus, callOutcome>>
<1>0. /\ net \in [Requests -> [Sends -> Fates]]
      /\ phase \in [Requests -> Phases]
      /\ Coherent(phase[r], try[r], net[r], op[r]) /\ try[r] \in 0..2
  BY DEF ClientInv, ClientTypeOK, RequestInv
<1>1. PICK fate \in {"executed", "refused", "rejected"} : net' = [net EXCEPT ![r][n] = fate]
  BY DEF Serve
<1>2. net[r][n] = "sent" /\ phase' = phase
  BY DEF Serve
<1>3. ~Executed(r) /\ ~Refused(r) /\ phase[r] \notin {"new", "ok"}
  BY <1>0, <1>2 DEF Coherent, Sends, Executed, Refused
<1>4. /\ \A q \in Requests \ {r} : Executed(q)' = Executed(q) /\ Refused(q)' = Refused(q)
      /\ Executed(r)' = (fate = "executed") /\ Refused(r)' = (fate = "refused")
  BY <1>0, <1>1, <1>3 DEF Executed, Refused
<1>5. callStatus' = callStatus
  BY <1>2, <1>3, <1>4 DEF callStatus
<1>6. callStatus[r] \in {"pending", "failed"} /\ callOutcome[r] = "open"
  BY <1>0, <1>3 DEF callStatus, callOutcome
<1>7. CASE fate \in {"executed", "refused"}
  <2>1. callOutcome' = [callOutcome EXCEPT ![r] = IF fate = "executed" THEN "done" ELSE "refused"]
    BY <1>4, <1>7 DEF callOutcome
  <2> QED
    BY <1>5, <1>6, <1>7, <2>1 DEF Abstract!CallNext, Abstract!Decide
<1>8. CASE fate = "rejected"
  <2>1. callOutcome' = callOutcome
    BY <1>3, <1>4, <1>8 DEF callOutcome
  <2> QED
    BY <1>5, <2>1
<1> QED
  BY <1>7, <1>8

LEMMA StepRefines ==
    ClientInv /\ Managers /\ [Next]_vars => [Abstract!CallNext]_<<callStatus, callOutcome>>
<1> SUFFICES ASSUME ClientInv, Managers, [Next]_vars
             PROVE  [Abstract!CallNext]_<<callStatus, callOutcome>>
  OBVIOUS
<1>1. CASE \E r \in Requests :
            \/ Call(r) \/ SlotAndWait(r) \/ TokenExhausted(r) \/ TokenError(r)
            \/ StartRefresh(r) \/ Retry(r)
            \/ AnswerExecuted(r) \/ AnswerRefused(r) \/ AnswerRejected(r) \/ NetworkError(r)
  BY <1>1, QuietStep
<1>2. CASE \E r \in Requests : SlotAndSend(r) \/ TokenCached(r) \/ TokenIssued(r)
  BY <1>2, SendStep
<1>3. CASE \E r \in Requests : \E n \in Sends : Serve(r, n)
  BY <1>3, ServeRefines
<1>4. CASE UNCHANGED <<phase, net>>
  BY <1>4 DEF callStatus, callOutcome, Executed, Refused
<1>5. \/ \E r \in Requests : SlotSleep(r) \/ TokenPending(r)
      \/ \E a \in Admins : AdminStart(a) \/ AdminStep(a)
      \/ \E k \in accepted : Invalidate(k)
      \/ Aging \/ Clock \/ UNCHANGED vars
      => UNCHANGED <<phase, net>>
  BY DEF SlotSleep, TokenPending, AdminStart, AdminStep, AdminProceed, AdminIssued, AdminRevoked,
         Invalidate, Aging, Clock, vars, clientVars
<1> QED
  BY <1>1, <1>2, <1>3, <1>4, <1>5 DEF Next, RequestStep, KISStep

(* A caller of KISClient._request sees an abstract call: decided at most   *)
(* once, as the answer says; a failure may be decided later (client.py:89, *)
(* 155-167).                                                               *)
THEOREM ClientImplementsCallOnce == Spec => ImplementsCallOnce
<1>1. Init => Abstract!CallInit
  BY DEF Init, Abstract!CallInit, callStatus, callOutcome, Executed, Refused, Sends
<1> QED
  BY <1>1, StepRefines, ClientInvariant, PTL DEF Spec, ImplementsCallOnce, Abstract!CallSpec
=============================================================================
