----------------------------- MODULE Watchlist -----------------------------
(***************************************************************************)
(* The watchlist: WatchlistService (services/watchlist/service.py), the    *)
(* confirmed batches of the assistant that call it symbol by symbol        *)
(* (services/assistant/tools.py), and the request-scoped database session  *)
(* they run in (api/deps.py).  A request is one transaction.  Its handler  *)
(* awaits the database and KIS, so requests interleave at every statement; *)
(* its answer is sent before get_db_session commits.                       *)
(*                                                                         *)
(* The database is one of two.  SQLite (the default) lets one transaction  *)
(* write at a time, from its first write to its end; a second writer gives *)
(* up after the busy timeout; a new row takes the largest id in use plus   *)
(* one.  PostgreSQL (the compose file) lets transactions write side by     *)
(* side; one waits for another only over the same row or the same symbol,  *)
(* a cycle of waits is broken by an error, and ids are never used again.   *)
(* Both read only committed rows and the reader's own; either may fail at  *)
(* any statement and in any commit.                                        *)
(***************************************************************************)
EXTENDS Integers, Sequences, FiniteSets

CONSTANTS
    Requests,      \* the requests in flight
    Symbols,       \* stock symbols
    MaxItems,      \* MAX_WATCHLIST_ITEMS
    SingleWriter,  \* TRUE: SQLite; FALSE: PostgreSQL
    Tables,        \* the tables to start from, each as the sequence of its symbols
    Work           \* what requests may ask for: [kind, todo]

Kinds == {"add", "addAll", "remove", "removeAll", "reorder", "list"}
Ids == Nat \ {0}
Place == [id : Ids, order : Nat]
Row == [id : Ids, symbol : Symbols, order : Nat]

\* What a request still has to do: symbols, an id, places, nothing.
Todos(k) ==
    CASE k \in {"add", "addAll", "removeAll"} -> Seq(Symbols)
      [] k = "remove" -> Seq(Ids)
      [] k = "reorder" -> Seq(Place)
      [] k = "list" -> {<<>>}

ASSUME WatchlistAssumption ==
    /\ MaxItems \in Nat
    /\ SingleWriter \in BOOLEAN
    /\ Tables \subseteq Seq(Symbols)
    /\ \A q \in Tables : \A i, j \in 1..Len(q) : q[i] = q[j] => i = j
    /\ \A w \in Work :
          /\ w.kind \in Kinds
          /\ w.todo \in Todos(w.kind)
          /\ w.kind \notin {"reorder", "list"} => w.todo # <<>>

VARIABLES
    rows,    \* the committed rows of the table
    lastId,  \* PostgreSQL: the last id its sequence gave out
    pc,      \* per request: what its handler does next
    kind,    \* per request: what it was asked
    todo,    \* per request: the symbols, ids or places it has not dealt with
    tx,      \* per request: its transaction: rows written, rows deleted, mode
    doomed,  \* per request: the row passed to session.delete and not yet flushed
    counted, \* per request: the number of rows its add has counted
    report   \* per request: the symbols it reports added, removed or listed

vars == <<rows, lastId, pc, kind, todo, tx, doomed, counted, report>>

NoTx == [written |-> {}, deleted |-> {}, mode |-> "none"]
IdsOf(S) == {x.id : x \in S}
SymbolsOf(S) == {x.symbol : x \in S}
Adding(t) == kind[t] \in {"add", "addAll"}
Removing(t) == kind[t] \in {"remove", "removeAll"}
Ended == {"done", "failed", "lost"}

TypeOK ==
    /\ rows \subseteq Row
    /\ lastId \in Nat
    /\ pc \in [Requests -> {"idle", "count", "dup", "price", "insert", "find", "check",
                            "update", "read", "answer", "commit"} \cup Ended]
    /\ kind \in [Requests -> Kinds]
    /\ todo = [t \in Requests |-> todo[t]]
    /\ \A t \in Requests : todo[t] \in Todos(kind[t])
    /\ tx \in [Requests -> [written : SUBSET Row, deleted : SUBSET Row,
                            mode : {"none", "open", "broken"}]]
    /\ doomed \in [Requests -> SUBSET Row]
    /\ counted \in [Requests -> Nat]
    /\ report \in [Requests -> SUBSET Symbols]

Table(q) == {[id |-> i, symbol |-> q[i], order |-> i - 1] : i \in 1..Len(q)}

Init ==
    /\ \E q \in Tables : rows = Table(q) /\ lastId = Len(q)
    /\ pc = [t \in Requests |-> "idle"]
    /\ kind = [t \in Requests |-> "list"]
    /\ todo = [t \in Requests |-> <<>>]
    /\ tx = [t \in Requests |-> NoTx]
    /\ doomed = [t \in Requests |-> {}]
    /\ counted = [t \in Requests |-> 0]
    /\ report = [t \in Requests |-> {}]

-----------------------------------------------------------------------------
(* What the statements of a transaction see, and what they wait for.        *)

Touched(t) == tx[t].written \cup tx[t].deleted

View(t) == {x \in rows : x.id \notin IdsOf(Touched(t))} \cup tx[t].written

\* What is left for t once its pending delete is flushed.
Left(t) == {x \in View(t) : x.id \notin IdsOf(doomed[t])}

Flushed(t) ==
    IF doomed[t] = {} THEN tx[t]
    ELSE [tx[t] EXCEPT !.deleted = @ \cup (View(t) \ Left(t)), !.mode = "open"]

\* The statement t is about to run has to wait for the transaction of u.
WaitsFor(t, u) ==
    /\ u # t /\ tx[u].mode = "open"
    /\ \/ /\ pc[t] = "insert"
          /\ SingleWriter \/ Head(todo[t]) \in SymbolsOf(Touched(u))
       \/ /\ pc[t] = "update"
          /\ SingleWriter \/ Head(todo[t]).id \in IdsOf(Touched(u))
       \/ /\ pc[t] \in {"find", "commit"} /\ doomed[t] # {}
          /\ SingleWriter \/ IdsOf(doomed[t]) \cap IdsOf(Touched(u)) # {}

Blocked(t) == \E u \in Requests : WaitsFor(t, u)

InDeadlock(t) ==
    \E S \in SUBSET Requests : t \in S /\ \A u \in S : \E v \in S : WaitsFor(u, v)

\* The wait ends with an error: the busy timeout, or a deadlock detected.
GivesUp(t) == Blocked(t) /\ (SingleWriter \/ InDeadlock(t))

\* Variants of the next two definitions that no specification uses.
AlwaysReused(t, i) ==
    /\ \A x \in View(t) : x.id < i
    /\ i = 1 \/ i - 1 \in IdsOf(View(t))
NeverTaken(t) == FALSE

\* The database gives a row that t inserts the id i.
TakesId(t, i) ==
    IF SingleWriter THEN /\ \A x \in View(t) : x.id < i
                         /\ i = 1 \/ i - 1 \in IdsOf(View(t))
                    ELSE i = lastId + 1

\* The unique index holds the symbol that t inserts.
Taken(t) == Head(todo[t]) \in SymbolsOf(View(t))

-----------------------------------------------------------------------------
(* How a request begins, goes on and ends.                                  *)

FirstStep(w) ==
    CASE w.kind \in {"add", "addAll"} -> "count"
      [] w.kind \in {"remove", "removeAll"} -> "find"
      [] w.kind = "reorder" -> IF w.todo = <<>> THEN "answer" ELSE "check"
      [] w.kind = "list" -> "read"

Start(t) ==
    /\ pc[t] = "idle"
    /\ \E w \in Work :
          /\ kind' = [kind EXCEPT ![t] = w.kind]
          /\ todo' = [todo EXCEPT ![t] = w.todo]
          /\ pc' = [pc EXCEPT ![t] = FirstStep(w)]
    /\ UNCHANGED <<rows, lastId, tx, doomed, counted, report>>

GoTo(t, p) == pc' = [pc EXCEPT ![t] = p]

\* The head of todo is dealt with: go on with the next at p, or answer.
Advance(t, p) ==
    /\ todo' = [todo EXCEPT ![t] = Tail(@)]
    /\ GoTo(t, IF Len(todo[t]) = 1 THEN "answer" ELSE p)

\* Variants of Fail that no specification uses: the session is neither rolled back
\* nor closed; the session commits either way.
FailHolding(t) ==
    /\ GoTo(t, "failed")
    /\ report' = [report EXCEPT ![t] = {}]
    /\ UNCHANGED <<rows, lastId, kind, todo, tx, doomed, counted>>
FailCommitting(t) ==
    /\ GoTo(t, "failed")
    /\ rows' = IF tx[t].mode = "broken" THEN rows ELSE View(t)
    /\ tx' = [tx EXCEPT ![t] = NoTx]
    /\ doomed' = [doomed EXCEPT ![t] = {}]
    /\ report' = [report EXCEPT ![t] = {}]
    /\ UNCHANGED <<lastId, kind, todo, counted>>

\* An exception leaves the handler: get_db_session rolls back, the answer is an error.
Fail(t) ==
    /\ GoTo(t, "failed")
    /\ tx' = [tx EXCEPT ![t] = NoTx]
    /\ doomed' = [doomed EXCEPT ![t] = {}]
    /\ report' = [report EXCEPT ![t] = {}]
    /\ UNCHANGED <<rows, lastId, kind, todo, counted>>

\* A variant of Refuse that no specification uses: a batch rolls the session back
\* for the symbol it skips.
RefuseRollingBack(t) ==
    IF kind[t] = "add" THEN Fail(t)
    ELSE /\ Advance(t, "count")
         /\ tx' = [tx EXCEPT ![t] = NoTx]
         /\ UNCHANGED <<rows, lastId, kind, doomed, counted, report>>

\* The service refuses the head of todo with a StockquareError: the answer of a
\* single request, an entry of "skipped" in a batch.
Refuse(t) ==
    IF kind[t] = "add" THEN Fail(t)
    ELSE /\ Advance(t, "count")
         /\ UNCHANGED <<rows, lastId, kind, tx, doomed, counted, report>>

-----------------------------------------------------------------------------
(* Adding: count, look for a duplicate, ask KIS, insert.                    *)

\* A session whose flush has failed raises at its next statement.
Broken(t) ==
    /\ pc[t] = "count" /\ tx[t].mode = "broken"
    /\ Fail(t)

\* A variant of Count that no specification uses: <= for <.
CountLoosely(t) ==
    /\ pc[t] = "count" /\ tx[t].mode # "broken"
    /\ IF Cardinality(View(t)) > MaxItems
       THEN Refuse(t)
       ELSE /\ counted' = [counted EXCEPT ![t] = Cardinality(View(t))]
            /\ GoTo(t, "dup")
            /\ UNCHANGED <<rows, lastId, kind, todo, tx, doomed, report>>

Count(t) ==
    /\ pc[t] = "count" /\ tx[t].mode # "broken"
    /\ IF Cardinality(View(t)) >= MaxItems
       THEN Refuse(t)
       ELSE /\ counted' = [counted EXCEPT ![t] = Cardinality(View(t))]
            /\ GoTo(t, "dup")
            /\ UNCHANGED <<rows, lastId, kind, todo, tx, doomed, report>>

Duplicate(t) ==
    /\ pc[t] = "dup"
    /\ IF Taken(t)
       THEN Refuse(t)
       ELSE /\ GoTo(t, "price")
            /\ UNCHANGED <<rows, lastId, kind, todo, tx, doomed, counted, report>>

PriceOk(t) ==
    /\ pc[t] = "price"
    /\ GoTo(t, "insert")
    /\ UNCHANGED <<rows, lastId, kind, todo, tx, doomed, counted, report>>

PriceRefused(t) == pc[t] = "price" /\ Refuse(t)

\* An answer of KIS that does not validate is no StockquareError.
PriceRaises(t) == pc[t] = "price" /\ Fail(t)

\* The transaction of t when the rows it has written are S.
Wrote(t, S) == [tx[t] EXCEPT !.written = S, !.mode = "open"]

\* A variant of NewRow that no specification uses: off by one.
NewRowBehind(t, i) == [id |-> i, symbol |-> Head(todo[t]), order |-> counted[t] - 1]

NewRow(t, i) == [id |-> i, symbol |-> Head(todo[t]), order |-> counted[t]]

\* The flush that inserts the row, with the id the database gives it.
Insert(t) ==
    /\ pc[t] = "insert" /\ ~Blocked(t) /\ ~Taken(t)
    /\ \E i \in 1..(lastId + 1) :
          /\ TakesId(t, i)
          /\ lastId' = IF i > lastId THEN i ELSE lastId
          /\ tx' = [tx EXCEPT ![t] = Wrote(t, tx[t].written \cup {NewRow(t, i)})]
    /\ report' = [report EXCEPT ![t] = @ \cup {Head(todo[t])}]
    /\ Advance(t, "count")
    /\ UNCHANGED <<rows, kind, doomed, counted>>

\* The unique index refuses the row: IntegrityError, answered or skipped as a
\* duplicate.  The flush has rolled the whole transaction back, and the session
\* stays unusable until somebody calls rollback.  (The number that PostgreSQL's
\* sequence skips here is left out.)
InsertRefused(t) ==
    /\ pc[t] = "insert" /\ ~Blocked(t) /\ Taken(t)
    /\ IF kind[t] = "add"
       THEN Fail(t)
       ELSE /\ tx' = [tx EXCEPT ![t] = [NoTx EXCEPT !.mode = "broken"]]
            /\ Advance(t, "count")
            /\ UNCHANGED <<rows, lastId, kind, doomed, counted, report>>

-----------------------------------------------------------------------------
(* Removing: find the row by id or symbol and pass it to session.delete;    *)
(* the delete itself runs before the next lookup or in the commit.          *)

IsWanted(t, x) == Head(todo[t]) = IF kind[t] = "remove" THEN x.id ELSE x.symbol

Find(t) ==
    /\ pc[t] = "find" /\ ~Blocked(t)
    /\ tx' = [tx EXCEPT ![t] = Flushed(t)]
    /\ \E x \in Left(t) :
          /\ IsWanted(t, x)
          /\ doomed' = [doomed EXCEPT ![t] = {x}]
          /\ report' = [report EXCEPT ![t] = @ \cup {x.symbol}]
    /\ Advance(t, "find")
    /\ UNCHANGED <<rows, lastId, kind, counted>>

FindNothing(t) ==
    /\ pc[t] = "find" /\ ~Blocked(t)
    /\ ~\E x \in Left(t) : IsWanted(t, x)
    /\ IF kind[t] = "remove"
       THEN Fail(t)
       ELSE /\ tx' = [tx EXCEPT ![t] = Flushed(t)]
            /\ doomed' = [doomed EXCEPT ![t] = {}]
            /\ Advance(t, "find")
            /\ UNCHANGED <<rows, lastId, kind, counted, report>>

-----------------------------------------------------------------------------
(* Reordering: check that every id exists, then one update per place.       *)

Check(t) ==
    /\ pc[t] = "check"
    /\ IF IdsOf({todo[t][i] : i \in DOMAIN todo[t]}) \subseteq IdsOf(View(t))
       THEN /\ GoTo(t, "update")
            /\ UNCHANGED <<rows, lastId, kind, todo, tx, doomed, counted, report>>
       ELSE Fail(t)

\* An update of a row that is gone by now changes nothing; it is a write all the same.
Update(t) ==
    /\ pc[t] = "update" /\ ~Blocked(t)
    /\ LET old == {x \in View(t) : x.id = Head(todo[t]).id}
           new == {[x EXCEPT !.order = Head(todo[t]).order] : x \in old}
       IN  tx' = [tx EXCEPT ![t] = Wrote(t, (tx[t].written \ old) \cup new)]
    /\ Advance(t, "update")
    /\ UNCHANGED <<rows, lastId, kind, doomed, counted, report>>

-----------------------------------------------------------------------------
(* Listing, answering and the end of the transaction.                       *)

Read(t) ==
    /\ pc[t] = "read"
    /\ report' = [report EXCEPT ![t] = SymbolsOf(View(t))]
    /\ GoTo(t, "answer")
    /\ UNCHANGED <<rows, lastId, kind, todo, tx, doomed, counted>>

\* A statement of the handler gives up waiting: the error is no StockquareError.
WriteFails(t) ==
    /\ pc[t] \in {"insert", "find", "update"} /\ GivesUp(t)
    /\ Fail(t)

\* The handler returns and its answer is sent.
Answer(t) ==
    /\ pc[t] = "answer"
    /\ GoTo(t, "commit")
    /\ UNCHANGED <<rows, lastId, kind, todo, tx, doomed, counted, report>>

\* The session flushes what is pending and commits.  (A commit that takes place and
\* is not acknowledged, because the connection breaks, changes the table as much.)
Commit(t) ==
    /\ pc[t] = "commit" /\ tx[t].mode # "broken" /\ ~Blocked(t)
    /\ rows' = Left(t)
    /\ GoTo(t, "done")
    /\ tx' = [tx EXCEPT ![t] = NoTx]
    /\ doomed' = [doomed EXCEPT ![t] = {}]
    /\ UNCHANGED <<lastId, kind, todo, counted, report>>

\* The commit raises: the transaction is rolled back under an answer already sent.
Lose(t) ==
    /\ pc[t] = "commit"
    /\ GoTo(t, "lost")
    /\ tx' = [tx EXCEPT ![t] = NoTx]
    /\ doomed' = [doomed EXCEPT ![t] = {}]
    /\ UNCHANGED <<rows, lastId, kind, todo, counted, report>>

\* It raises for what the requests have done: the session is broken, or the commit
\* gives up waiting for a lock.
CommitLost(t) == (tx[t].mode = "broken" \/ GivesUp(t)) /\ Lose(t)

\* The database fails for its own reasons (a full disk, a lost connection), at a
\* statement of the handler or in the commit.
DatabaseFails(t) ==
    \/ pc[t] \in {"count", "dup", "insert", "find", "check", "update", "read"} /\ Fail(t)
    \/ Lose(t)

AddStep(t) == \/ Broken(t) \/ Count(t) \/ Duplicate(t) \/ PriceOk(t) \/ PriceRefused(t)
              \/ PriceRaises(t) \/ Insert(t) \/ InsertRefused(t)

Step(t) == \/ AddStep(t) \/ Find(t) \/ FindNothing(t) \/ Check(t) \/ Update(t) \/ Read(t)
           \/ WriteFails(t) \/ Answer(t) \/ Commit(t) \/ CommitLost(t)

Next == \E t \in Requests : Start(t) \/ Step(t) \/ DatabaseFails(t)

Spec == Init /\ [][Next]_vars

\* The event loop runs every handler on; KIS and the database answer every call.
\* That the database fails is never required.
FairSpec == Spec /\ \A t \in Requests : WF_vars(Step(t))

-----------------------------------------------------------------------------
(* Properties.                                                              *)

\* The table never holds a symbol or an id twice, however concurrent adds, batches
\* and removals of the same symbol interleave (db/models.py:30-31).
SymbolsUnique ==
    \A x, y \in rows : x.symbol = y.symbol \/ x.id = y.id => x = y

\* Concurrent requests overshoot the cap by at most one row each: under SQLite a
\* request can act on one stale count only, for its first insert locks the others
\* out until it ends.
OvershootBounded == Cardinality(rows) <= MaxItems + Cardinality(Requests) - 1

\* The table changes only by the commit of a request that was answered with success,
\* as a whole, and in the direction asked for: an add drops no symbol, a removal
\* brings none in, a reorder does neither (api/deps.py:45-54).
AllOrNothing ==
    [][ rows' # rows =>
          \E t \in Requests :
             /\ pc[t] = "commit" /\ pc'[t] = "done"
             /\ Adding(t) \/ SymbolsOf(rows') \subseteq SymbolsOf(rows)
             /\ Removing(t) \/ SymbolsOf(rows) \subseteq SymbolsOf(rows') ]_vars

\* What a request was answered to have added, its transaction holds until the commit,
\* and the table holds once the commit has succeeded: nothing that happens in the
\* handler, a symbol refused or skipped after others were added, takes an addition
\* back under a report that names it (tools.py:602-619).
AddedReachesCommit ==
    [][ \A t \in Requests : pc[t] = "commit" /\ pc'[t] # "commit" /\ Adding(t)
           => report[t] \subseteq SymbolsOf(IF pc'[t] = "done" THEN rows' ELSE tx[t].written) ]_vars

\* A symbol enters the table only by the end of a request that reported that very symbol
\* added, also when a batch has lost what it added before (tools.py:602-619).
AddsOnlyReported ==
    [][ SymbolsOf(rows') \subseteq SymbolsOf(rows)
          \cup UNION {report[t] : t \in {u \in Requests : Adding(u) /\ pc[u] = "commit"
                                                               /\ pc'[u] = "done"}} ]_vars

\* A symbol leaves the table only by the end of a request that looked that very
\* symbol up and reported it removed.
RemovesOnlyReported ==
    [][ SymbolsOf(rows) \subseteq SymbolsOf(rows')
          \cup UNION {report[t] : t \in {u \in Requests : pc[u] = "commit" /\ pc'[u] = "done"}} ]_vars

\* Every request ends: no two of them wait for each other for ever.
EveryTransactionEnds == \A t \in Requests : pc[t] # "idle" ~> pc[t] \in Ended
=============================================================================
