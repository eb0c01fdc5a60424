------------------------------ MODULE KISClient -----------------------------
(***************************************************************************)
(* KISClient._request and _do_request of backend/app/kis/client.py, with   *)
(* the token manager and the rate limiter they call, and the KIS server as *)
(* their environment.  A request acquires a limiter slot, gets a token and *)
(* sends.  A TokenExpiredError from either of the last two makes it        *)
(* refresh the token and do the whole once more.  The tasks that are not   *)
(* requests are those of the auth router: forced refresh and revoke.       *)
(*                                                                         *)
(* A message that was sent may be served after the client gave up on it:   *)
(* the HTTP timeout ends the wait, not the work at KIS.                    *)
(***************************************************************************)
EXTENDS TokenManager, RateLimiter

CONSTANTS
    Requests,      \* the tasks that call _request, once each
    MaxAdminCalls  \* bound of the model: calls of the auth router

ASSUME RequestsAssumption == Requests \subseteq Tasks /\ MaxAdminCalls \in Nat

Admins == Tasks \ Requests
Sends  == 1..2  \* _do_request runs at most twice for a request

VARIABLES
    phase,     \* per request: where _request stands
    try,       \* per request: which _do_request runs, 0 before the first
    net,       \* per request and send: what became of it at KIS
    sentWith,  \* per request and send: the token it carried, None if unsent
    accepted,  \* the tokens KIS accepts
    sends,     \* history: the times at which requests were sent
    adminCalls \* calls of the auth router so far

clientVars == <<phase, try, net, sentWith, accepted, sends, adminCalls>>
vars == <<tokenVars, limiterVars, clientVars>>

Phases == {"new", "limiter", "token", "expired", "inflight", "ok", "failed"}
Fates == {"unsent", "sent", "executed", "refused", "rejected"}

ClientTypeOK ==
    /\ phase \in [Requests -> Phases]
    /\ try \in [Requests -> 0..2]
    /\ net \in [Requests -> [Sends -> Fates]]
    /\ sentWith \in [Requests -> [Sends -> Nat]]
    /\ accepted \in SUBSET Nat
    /\ sends \in Seq(Nat)
    /\ adminCalls \in Nat

TypeOK == TokenTypeOK /\ LimiterTypeOK /\ ClientTypeOK

Init ==
    /\ TokenInit
    /\ LimiterInit
    /\ phase = [r \in Requests |-> "new"]
    /\ try = [r \in Requests |-> 0]
    /\ net = [r \in Requests |-> [n \in Sends |-> "unsent"]]
    /\ sentWith = [r \in Requests |-> [n \in Sends |-> None]]
    /\ accepted = {}
    /\ sends = <<>>
    /\ adminCalls = 0
-----------------------------------------------------------------------------
\* _do_request starts for the n-th time: it waits for a limiter slot.
DoRequest(r, n) ==
    /\ Acquire(r)
    /\ phase' = [phase EXCEPT ![r] = "limiter"]
    /\ try' = [try EXCEPT ![r] = n]

Call(r) ==
    /\ phase[r] = "new"
    /\ DoRequest(r, 1)
    /\ UNCHANGED <<tokenVars, net, sentWith, accepted, sends, adminCalls>>

\* The HTTP request leaves with token k.
Send(r, k) ==
    /\ phase' = [phase EXCEPT ![r] = "inflight"]
    /\ net' = [net EXCEPT ![r][try[r]] = "sent"]
    /\ sentWith' = [sentWith EXCEPT ![r][try[r]] = k]
    /\ sends' = Append(sends, now)
    /\ UNCHANGED <<try, accepted, adminCalls>>

\* A slot, and a usable token in the cache: sent at once.
SlotAndSend(r) ==
    /\ phase[r] = "limiter"
    /\ Grant(r)
    /\ GetCached(r)
    /\ Send(r, token)

\* A slot, but no usable token: the slot is spent while the token is awaited.
SlotAndWait(r) ==
    /\ phase[r] = "limiter"
    /\ Grant(r)
    /\ GetQueued(r)
    /\ phase' = [phase EXCEPT ![r] = "token"]
    /\ UNCHANGED <<try, net, sentWith, accepted, sends, adminCalls>>

SlotSleep(r) == phase[r] = "limiter" /\ Sleep(r) /\ UNCHANGED <<tokenVars, clientVars>>

\* get_token returns, from the cache or with a token just issued.
TokenCached(r) ==
    /\ TurnFresh(r)
    /\ Send(r, token)
    /\ UNCHANGED limiterVars

TokenIssued(r) ==
    /\ op[r] = "get"
    /\ IssueOk(r)
    /\ phase' = [phase EXCEPT ![r] = "inflight"]
    /\ net' = [net EXCEPT ![r][try[r]] = "sent"]
    /\ sentWith' = [sentWith EXCEPT ![r][try[r]] = token']
    /\ sends' = Append(sends, now)
    /\ accepted' \in {accepted \cup {token'}, {token'}}
    /\ UNCHANGED <<limiterVars, try, adminCalls>>

\* TokenExpiredError, from the token manager or as KIS's 401: the first
\* _do_request is caught by _request, the second is not.
Expired(r) ==
    phase' = [phase EXCEPT ![r] = IF try[r] = 1 THEN "expired" ELSE "failed"]

Fail(r) == phase' = [phase EXCEPT ![r] = "failed"]

TokenExhausted(r) ==
    /\ op[r] = "get"
    /\ IssueExhausted(r)
    /\ Expired(r)
    /\ UNCHANGED <<limiterVars, try, net, sentWith, accepted, sends, adminCalls>>

\* Any other error of the token manager, and every error of the forced
\* refresh, reaches the caller.
TokenError(r) ==
    /\ \/ TurnUnconfigured(r)
       \/ IssueMalformed(r)
       \/ op[r] = "refresh" /\ IssueExhausted(r)
    /\ Fail(r)
    /\ UNCHANGED <<limiterVars, try, net, sentWith, accepted, sends, adminCalls>>

\* The steps inside get_token or refresh that return nothing yet.
TokenPending(r) ==
    /\ TurnIssue(r) \/ IssueFailed(r) \/ BackoffOver(r)
    /\ UNCHANGED <<limiterVars, clientVars>>

\* A variant of StartRefresh that no specification uses: the second
\* _do_request without a refresh.
RetryUnrefreshed(r) ==
    /\ phase[r] = "expired"
    /\ DoRequest(r, 2)
    /\ UNCHANGED <<tokenVars, net, sentWith, accepted, sends, adminCalls>>

\* The except clause of _request: a forced refresh.
StartRefresh(r) ==
    /\ phase[r] = "expired"
    /\ Refresh(r)
    /\ phase' = [phase EXCEPT ![r] = "token"]
    /\ UNCHANGED <<limiterVars, try, net, sentWith, accepted, sends, adminCalls>>

\* A variant of Retry that no specification uses: the second send takes no
\* slot of its own.
RetryUnpaced(r) ==
    /\ op[r] = "refresh"
    /\ IssueOk(r)
    /\ phase' = [phase EXCEPT ![r] = "inflight"]
    /\ try' = [try EXCEPT ![r] = 2]
    /\ net' = [net EXCEPT ![r][2] = "sent"]
    /\ sentWith' = [sentWith EXCEPT ![r][2] = token']
    /\ sends' = Append(sends, now)
    /\ accepted' \in {accepted \cup {token'}, {token'}}
    /\ UNCHANGED <<limiterVars, adminCalls>>

\* The refresh succeeded: the second and last _do_request.
Retry(r) ==
    /\ op[r] = "refresh"
    /\ IssueOk(r)
    /\ DoRequest(r, 2)
    /\ accepted' \in {accepted \cup {token'}, {token'}}
    /\ UNCHANGED <<net, sentWith, sends, adminCalls>>
-----------------------------------------------------------------------------
\* KIS handles a message: 401 for a token it does not accept, otherwise it
\* executes the request or refuses it, with another error status or with a
\* 200 whose body says so (rt_cd).
Serve(r, n) ==
    /\ net[r][n] = "sent"
    /\ \E fate \in {"executed", "refused", "rejected"} :
           /\ fate = "rejected" <=> sentWith[r][n] \notin accepted
           /\ net' = [net EXCEPT ![r][n] = fate]
    /\ UNCHANGED <<tokenVars, limiterVars, phase, try, sentWith, accepted, sends, adminCalls>>

\* The response arrives and parses, or (a 200 that is not the model's shape)
\* fails to.
AnswerExecuted(r) ==
    /\ phase[r] = "inflight"
    /\ net[r][try[r]] = "executed"
    /\ \E p \in {"ok", "failed"} : phase' = [phase EXCEPT ![r] = p]
    /\ UNCHANGED <<tokenVars, limiterVars, try, net, sentWith, accepted, sends, adminCalls>>

\* A variant of AnswerRefused that no specification uses: every refusal is
\* taken for a 401.
RefusedAsExpired(r) ==
    /\ phase[r] = "inflight"
    /\ net[r][try[r]] = "refused"
    /\ Expired(r)
    /\ UNCHANGED <<tokenVars, limiterVars, try, net, sentWith, accepted, sends, adminCalls>>

\* An error status is a KISAPIError.  A refusal in a 200 is returned like any
\* other answer: whoever called reads its rt_cd.
AnswerRefused(r) ==
    /\ phase[r] = "inflight"
    /\ net[r][try[r]] = "refused"
    /\ \E p \in {"ok", "failed"} : phase' = [phase EXCEPT ![r] = p]
    /\ UNCHANGED <<tokenVars, limiterVars, try, net, sentWith, accepted, sends, adminCalls>>

AnswerRejected(r) ==
    /\ phase[r] = "inflight"
    /\ net[r][try[r]] = "rejected"
    /\ Expired(r)
    /\ UNCHANGED <<tokenVars, limiterVars, try, net, sentWith, accepted, sends, adminCalls>>

\* A variant of NetworkError that no specification uses: retried like a 401.
NetworkErrorAsExpired(r) ==
    /\ phase[r] = "inflight"
    /\ Expired(r)
    /\ UNCHANGED <<tokenVars, limiterVars, try, net, sentWith, accepted, sends, adminCalls>>

\* Timeout or network error: KISAPIError, whatever KIS did or will do.
NetworkError(r) ==
    /\ phase[r] = "inflight"
    /\ Fail(r)
    /\ UNCHANGED <<tokenVars, limiterVars, try, net, sentWith, accepted, sends, adminCalls>>

\* POST /auth/token and POST /auth/revoke, up to their answers.
AdminStart(a) ==
    /\ adminCalls < MaxAdminCalls
    /\ Refresh(a) \/ Revoke(a)
    /\ adminCalls' = adminCalls + 1
    /\ UNCHANGED <<limiterVars, phase, try, net, sentWith, accepted, sends>>

AdminProceed(a) ==
    /\ \/ TurnIssue(a) \/ TurnUnconfigured(a) \/ TurnRevoke(a) \/ TurnRevokeNothing(a)
       \/ IssueFailed(a) \/ BackoffOver(a) \/ IssueExhausted(a) \/ IssueMalformed(a)
    /\ UNCHANGED <<limiterVars, clientVars>>

AdminIssued(a) ==
    /\ IssueOk(a)
    /\ accepted' \in {accepted \cup {token'}, {token'}}
    /\ UNCHANGED <<limiterVars, phase, try, net, sentWith, sends, adminCalls>>

AdminRevoked(a) ==
    /\ RevokeDone(a)
    /\ accepted' \in {accepted, accepted \ {token}}
    /\ UNCHANGED <<limiterVars, phase, try, net, sentWith, sends, adminCalls>>

\* KIS stops accepting a token: it expired there, or was replaced.
Invalidate(k) ==
    /\ k \in accepted
    /\ accepted' = accepted \ {k}
    /\ UNCHANGED <<tokenVars, limiterVars, phase, try, net, sentWith, sends, adminCalls>>

Aging == Age /\ UNCHANGED <<limiterVars, clientVars>>
Clock == Tick /\ UNCHANGED <<tokenVars, clientVars>>
-----------------------------------------------------------------------------
\* What the task of request r does, once called.
RequestStep(r) ==
    \/ SlotAndSend(r) \/ SlotAndWait(r) \/ SlotSleep(r)
    \/ TokenCached(r) \/ TokenIssued(r) \/ TokenExhausted(r) \/ TokenError(r)
    \/ TokenPending(r) \/ StartRefresh(r) \/ Retry(r)
    \/ AnswerExecuted(r) \/ AnswerRefused(r) \/ AnswerRejected(r) \/ NetworkError(r)

AdminStep(a) == AdminProceed(a) \/ AdminIssued(a) \/ AdminRevoked(a)

KISStep ==
    \/ \E r \in Requests : \E n \in Sends : Serve(r, n)
    \/ \E k \in accepted : Invalidate(k)

Next ==
    \/ \E r \in Requests : Call(r) \/ RequestStep(r)
    \/ \E a \in Admins : AdminStart(a) \/ AdminStep(a)
    \/ KISStep
    \/ Aging
    \/ Clock

Spec == Init /\ [][Next]_vars

\* The event loop runs every ready task and HTTP calls end in an answer or a
\* timeout.  Nothing is assumed of KIS, of the clock's effect on the token, or
\* of whoever starts requests and admin operations.
Fairness ==
    /\ \A r \in Requests : WF_vars(RequestStep(r))
    /\ \A a \in Admins : WF_vars(AdminStep(a))
    /\ WF_vars(Clock)

FairSpec == Spec /\ Fairness
-----------------------------------------------------------------------------
Executed(r) == \E n \in Sends : net[r][n] = "executed"
Refused(r)  == \E n \in Sends : net[r][n] = "refused"

(***************************************************************************)
(* KIS executes a request at most once, although the client may send it    *)
(* twice and messages outlive the client's timeout: an order is not placed *)
(* twice by one call (client.py:99-119, 155-163).                          *)
(***************************************************************************)
ExecutedAtMostOnce ==
    \A r \in Requests : \A m \in Sends : \A n \in Sends :
        net[r][m] = "executed" /\ net[r][n] = "executed" => m = n

(***************************************************************************)
(* The second send of a request happens only when the first _do_request    *)
(* ended in a rejection by KIS or was never sent (its token could not be   *)
(* issued), never after a timeout, a refusal or an execution.              *)
(***************************************************************************)
RetryOnlyAfterRejection ==
    \A r \in Requests : try[r] = 2 => net[r][1] \in {"unsent", "rejected"}

(***************************************************************************)
(* The retry carries a token issued after the one that was rejected,       *)
(* whatever the other requests, revocations and expiries did in between    *)
(* (client.py:108-112, token.py:41-57).                                    *)
(***************************************************************************)
RetryCarriesNewerToken ==
    \A r \in Requests :
        net[r][1] # "unsent" /\ net[r][2] # "unsent" => sentWith[r][1] < sentWith[r][2]

\* A step that sends carries a token whose revocation has not returned.
SendsUnrevoked ==
    \A r \in Requests : \A n \in Sends :
        net[r][n] = "unsent" /\ net'[r][n] = "sent" => sentWith'[r][n] \notin revoked

(***************************************************************************)
(* Once a revocation has returned, no request leaves with that token: the  *)
(* token is read after the limiter's wait, in the step that sends          *)
(* (client.py:131-148, token.py:73-78).                                    *)
(***************************************************************************)
RevokedNeverSent == [][SendsUnrevoked]_vars

(***************************************************************************)
(* Every request that was called ends, with an answer or an error.         *)
(***************************************************************************)
EveryRequestEnds ==
    \A r \in Requests : phase[r] # "new" ~> phase[r] \in {"ok", "failed"}

(***************************************************************************)
(* The client implements the abstract call: KIS decides a request at most  *)
(* once, and a request that _request returns an answer for is decided, as  *)
(* the answer says, and not done later nor otherwise (client.py:89-167).   *)
(* The phases between the call and its end are "pending".                  *)
(***************************************************************************)
callStatus ==
    [r \in Requests |->
        IF phase[r] \in {"new", "failed"} THEN phase[r]
        ELSE IF phase[r] # "ok" THEN "pending"
        ELSE IF Executed(r) THEN "ok" ELSE "declined"]

callOutcome ==
    [r \in Requests |->
        IF Executed(r) THEN "done" ELSE IF Refused(r) THEN "refused" ELSE "open"]

Abstract == INSTANCE CallOnce WITH Calls <- Requests, status <- callStatus, outcome <- callOutcome

ImplementsCallOnce == Abstract!CallSpec

(***************************************************************************)
(* The client keeps its pace in the long run: the k-th request, retries    *)
(* included, leaves no earlier than k - 1 intervals after the start, since *)
(* each send has a slot of its own (client.py:52, 131, 148).               *)
(***************************************************************************)
PaceKept == \A k \in DOMAIN sends : sends[k] >= (k - 1) * Interval
=============================================================================
