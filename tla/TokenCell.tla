----------------------------- MODULE TokenCell ------------------------------
(***************************************************************************)
(* What the users of a token manager may rely on: it behaves as one cell   *)
(* whose operations are atomic, each at the moment it returns, however     *)
(* long it waited, slept and tried again before.  A get fills the cell     *)
(* only where there is nothing usable in it, and fails only then; a        *)
(* refresh that succeeds puts in a newer token; a revoke empties the cell. *)
(***************************************************************************)
EXTENDS Naturals

CONSTANT Users

VARIABLES
    cell,    \* the token in the cell, numbered in the order of issue; 0: none
    usable,  \* it is there and far from its expiry
    last,    \* the newest token
    pending  \* per user: the operation under way

cellVars == <<cell, usable, last, pending>>

CellInit ==
    /\ cell = 0 /\ usable = FALSE /\ last = 0
    /\ pending = [u \in Users |-> "none"]

Call(u, operation) ==
    /\ pending[u] = "none"
    /\ pending' = [pending EXCEPT ![u] = operation]
    /\ UNCHANGED <<cell, usable, last>>

Return(u) == pending' = [pending EXCEPT ![u] = "none"]

Keep == UNCHANGED <<cell, usable, last>>

Replace ==
    /\ last' = last + 1
    /\ cell' = last'
    /\ usable' = TRUE

Read(u) == pending[u] = "get" /\ usable /\ Keep /\ Return(u)

Fill(u) == pending[u] = "get" /\ ~usable /\ Replace /\ Return(u)

Renew(u) == pending[u] = "refresh" /\ Replace /\ Return(u)

Clear(u) ==
    /\ pending[u] = "revoke"
    /\ cell' = 0 /\ usable' = FALSE /\ UNCHANGED last
    /\ Return(u)

Fail(u) ==
    /\ \/ pending[u] = "get" /\ ~usable
       \/ pending[u] = "refresh"
    /\ Keep /\ Return(u)

Expire == usable /\ usable' = FALSE /\ UNCHANGED <<cell, last, pending>>

CellNext ==
    \/ \E u \in Users :
          \/ \E operation \in {"get", "refresh", "revoke"} : Call(u, operation)
          \/ Read(u) \/ Fill(u) \/ Renew(u) \/ Clear(u) \/ Fail(u)
    \/ Expire

CellSpec == CellInit /\ [][CellNext]_cellVars
=============================================================================
