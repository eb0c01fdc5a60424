------------------------------ MODULE CallOnce ------------------------------
(***************************************************************************)
(* What a caller may rely on when it calls KIS through the client.  KIS    *)
(* decides a call at most once: it has its effect, or is refused for good. *)
(* An answer tells which, so what was answered is decided.  A call that    *)
(* fails may have been decided either way, or may be later, because a lost *)
(* answer looks like a lost request.                                       *)
(***************************************************************************)
CONSTANT Calls

VARIABLES
    status,  \* per call: how far the caller sees it
    outcome  \* per call: what KIS has decided

CallTypeOK ==
    /\ status \in [Calls -> {"new", "pending", "ok", "declined", "failed"}]
    /\ outcome \in [Calls -> {"open", "done", "refused"}]

CallInit ==
    /\ status = [c \in Calls |-> "new"]
    /\ outcome = [c \in Calls |-> "open"]

Begin(c) ==
    /\ status[c] = "new"
    /\ status' = [status EXCEPT ![c] = "pending"]
    /\ UNCHANGED outcome

Decide(c) ==
    /\ status[c] \in {"pending", "failed"}
    /\ outcome[c] = "open"
    /\ \E decision \in {"done", "refused"} : outcome' = [outcome EXCEPT ![c] = decision]
    /\ UNCHANGED status

Succeed(c) ==
    /\ status[c] = "pending"
    /\ outcome[c] = "done"
    /\ status' = [status EXCEPT ![c] = "ok"]
    /\ UNCHANGED outcome

Decline(c) ==
    /\ status[c] = "pending"
    /\ outcome[c] = "refused"
    /\ status' = [status EXCEPT ![c] = "declined"]
    /\ UNCHANGED outcome

GiveUp(c) ==
    /\ status[c] = "pending"
    /\ status' = [status EXCEPT ![c] = "failed"]
    /\ UNCHANGED outcome

CallNext == \E c \in Calls : Begin(c) \/ Decide(c) \/ Succeed(c) \/ Decline(c) \/ GiveUp(c)

CallSpec == CallInit /\ [][CallNext]_<<status, outcome>>
=============================================================================
