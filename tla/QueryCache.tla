----------------------------- MODULE QueryCache -----------------------------
(***************************************************************************)
(* One cached query of TanStack Query 5, as the pages of the front end use *)
(* it: the data it holds, at most one fetch under way, and whether it was  *)
(* invalidated.  The library is external; the defaults are the ones of     *)
(* createQueryClient.  A query is a record, and this module has operators  *)
(* on it only: the pages keep their queries as variables.                  *)
(*                                                                         *)
(* The data, and the answer a fetch brings home, are sets of at most one   *)
(* snapshot of what the server held.                                       *)
(***************************************************************************)
EXTENDS Naturals, FiniteSets

Query(Snapshot) ==
    [data : SUBSET Snapshot, answer : SUBSET Snapshot,
     fetching : BOOLEAN, failed : BOOLEAN, invalid : BOOLEAN]

\* Nothing is known and nothing was asked.
Unasked ==
    [data |-> {}, answer |-> {},
     fetching |-> FALSE, failed |-> FALSE, invalid |-> FALSE]

-----------------------------------------------------------------------------
Start(q) ==
    [q EXCEPT !.fetching = TRUE, !.answer = {}, !.failed = @ /\ q.data # {}]

\* Who asks while a fetch is under way joins it.
Fetch(q) == IF q.fetching THEN q ELSE Start(q)

\* An invalidation does not join one, unless there is no data yet.
Joined(q) == q.fetching /\ q.data = {}
Invalidate(q, active) ==
    LET marked == [q EXCEPT !.invalid = TRUE]
    IN  IF ~active \/ Joined(q) THEN marked ELSE Start(marked)

\* A component that shows the query appears; old is whether the data is past staleTime.
Mount(q, old) == IF q.data = {} \/ q.invalid \/ old THEN Fetch(q) ELSE q

\* The server reads what it will answer.
Answered(q, snapshot) == [q EXCEPT !.answer = {snapshot}]

\* The answer arrives.
Succeed(q) ==
    [q EXCEPT !.data = q.answer, !.answer = {},
              !.fetching = FALSE, !.failed = FALSE, !.invalid = FALSE]

\* The last attempt fails.  A query on the screen is tried once more after a failure; the
\* attempts of a fetch are not told apart, its answer is what the last one reads.
Fail(q) == [q EXCEPT !.fetching = FALSE, !.answer = {}, !.failed = TRUE]

-----------------------------------------------------------------------------
\* Nothing is under way and nothing is known to be old.
Settled(q) == ~q.fetching /\ ~q.failed /\ ~q.invalid /\ q.data # {}
=============================================================================
