-------------------------- MODULE WatchlistProofs --------------------------
(***************************************************************************)
(* Proofs about Watchlist, for any set of requests, any work they ask for  *)
(* and either database.  Stage says which kinds of request reach which     *)
(* step; Database is the strengthening that makes SymbolsUnique inductive: *)
(* every transaction sees a table without duplicates, and what two open    *)
(* transactions have touched never shares an id or a symbol.               *)
(***************************************************************************)
EXTENDS Watchlist, SequenceTheorems, FiniteSetTheorems, TLAPS

Stage(t) ==
    /\ pc[t] \in {"count", "dup", "price", "insert"} => Adding(t) /\ todo[t] # <<>>
    /\ pc[t] = "find" => Removing(t) /\ todo[t] # <<>>
    /\ pc[t] \in {"check", "update"} => kind[t] = "reorder" /\ todo[t] # <<>>
    /\ pc[t] = "read" => kind[t] = "list"
    /\ pc[t] \in {"idle"} \cup Ended => tx[t] = NoTx /\ doomed[t] = {}
    /\ pc[t] = "idle" => report[t] = {}
    /\ IsFiniteSet(tx[t].written)

Typing == TypeOK /\ IsFiniteSet(rows) /\ \A t \in Requests : Stage(t)

Distinct(S) == \A x, y \in S : x.symbol = y.symbol \/ x.id = y.id => x = y

\* What the transaction of t holds fits its kind and its mode.
OwnWork(t) ==
    /\ ~Removing(t) => tx[t].deleted = {} /\ doomed[t] = {}
    /\ Removing(t) => tx[t].written = {}
    /\ tx[t].mode # "open" => tx[t].written = {} /\ tx[t].deleted = {}
    /\ tx[t].deleted \subseteq rows

\* A row that t has written replaces the row with its id, which has its symbol.
Replaces(t) ==
    \A x \in tx[t].written :
       /\ \A y \in rows : y.id = x.id => y.symbol = x.symbol
       /\ Adding(t) \/ \E y \in rows : y.id = x.id /\ y.symbol = x.symbol

\* No id and no symbol is touched by two open transactions.
Apart(t, u) ==
    \A x \in Touched(t), y \in Touched(u) : x.id # y.id /\ x.symbol # y.symbol

GivenOut(t) == \A x \in Touched(t) : x.id <= lastId

Database ==
    /\ Distinct(rows)
    /\ \A x \in rows : x.id <= lastId
    /\ \A t \in Requests : Distinct(View(t)) /\ OwnWork(t) /\ Replaces(t) /\ GivenOut(t)
    /\ \A t, u \in Requests : t # u => Apart(t, u)

Inv == Typing /\ Database

\* Under SQLite one transaction writes, and what it reports it has written.
Reported(t) ==
    Adding(t) =>
       /\ tx[t].mode = "broken" => report[t] = {}
       /\ tx[t].mode # "broken" /\ pc[t] \notin Ended => report[t] \subseteq SymbolsOf(tx[t].written)
       /\ tx[t].mode = "open" /\ pc[t] \in {"price", "insert"} => ~Taken(t)

OneWriter ==
    /\ \A t, u \in Requests : tx[t].mode = "open" /\ tx[u].mode = "open" => t = u
    /\ \A t \in Requests : Reported(t)

-----------------------------------------------------------------------------
(* Types.                                                                   *)

\* The first table holds each symbol once, under the ids 1, 2, ...
LEMMA TableFacts ==
    ASSUME NEW q \in Tables
    PROVE  /\ Table(q) \subseteq Row /\ IsFiniteSet(Table(q)) /\ Distinct(Table(q)) /\ Len(q) \in Nat
           /\ \A x \in Table(q) : x.id <= Len(q)
<1>1. /\ q \in Seq(Symbols) /\ Len(q) \in Nat
      /\ \A i, j \in 1..Len(q) : q[i] = q[j] => i = j
  BY WatchlistAssumption
<1>2. Table(q) \subseteq Row
  BY <1>1 DEF Table, Row, Ids
<1>3. \A x \in Table(q) : x.id <= Len(q)
  BY <1>1 DEF Table
<1>4. Distinct(Table(q))
  BY <1>1 DEF Table, Distinct
<1>5. IsFiniteSet(Table(q))
  <2>1. IsFiniteSet(1..Len(q))
    BY <1>1, FS_Interval
  <2> DEFINE f == [i \in 1..Len(q) |-> [id |-> i, symbol |-> q[i], order |-> i - 1]]
  <2>2. f \in Surjection(1..Len(q), Table(q))
    BY DEF Surjection, Table
  <2> QED
    BY <2>1, <2>2, FS_Surjection
<1> QED
  BY <1>1, <1>2, <1>3, <1>4, <1>5

LEMMA TailFacts ==
    ASSUME NEW S, NEW s \in Seq(S), s # <<>>
    PROVE  /\ Head(s) \in S /\ Tail(s) \in Seq(S)
           /\ Len(s) = 1 \/ Tail(s) # <<>>
<1>1. Len(s) \in Nat \ {0}
  OBVIOUS
<1>2. Tail(s) \in Seq(S) /\ Len(Tail(s)) = Len(s) - 1 /\ Head(s) \in S
  BY <1>1
<1>3. ASSUME Tail(s) = <<>>
      PROVE  Len(s) = 1
  <2>1. Len(Tail(s)) = 0
    BY <1>3, EmptySeq, Zenon
  <2>2. Len(s) - 1 = 0
    BY <1>2, <2>1, Zenon
  <2> QED
    BY <1>1, <2>2
<1> QED
  BY <1>2, <1>3

\* What is left to do stays of the type of its kind, and is dealt with one by one.
LEMMA AdvanceTyping ==
    ASSUME Typing, NEW t \in Requests, NEW p \in {"count", "find", "update"},
           todo[t] # <<>>, Advance(t, p), kind' = kind
    PROVE  /\ \A u \in Requests : todo'[u] \in Todos(kind'[u])
           /\ pc' = [pc EXCEPT ![t] = pc'[t]]
           /\ \/ pc'[t] = "answer"
              \/ pc'[t] = p /\ todo'[t] # <<>>
           /\ \A u \in Requests \ {t} : todo'[u] = todo[u]
<1>1. kind[t] \in Kinds /\ todo[t] \in Todos(kind[t])
  BY DEF Typing, TypeOK
<1>2. \A S : todo[t] \in Seq(S) => /\ Tail(todo[t]) \in Seq(S)
                                   /\ Len(todo[t]) = 1 \/ Tail(todo[t]) # <<>>
  BY TailFacts
<1>3. \E S : todo[t] \in Seq(S)
  BY <1>1 DEF Todos, Kinds
<1>4. Tail(todo[t]) \in Todos(kind[t])
  BY <1>1, <1>2 DEF Todos, Kinds
<1>5. /\ todo' = [todo EXCEPT ![t] = Tail(@)]
      /\ todo = [u \in Requests |-> todo[u]]
      /\ \A u \in Requests : todo[u] \in Todos(kind[u])
      /\ pc' = [pc EXCEPT ![t] = IF Len(todo[t]) = 1 THEN "answer" ELSE p]
      /\ pc = [u \in Requests |-> pc[u]]
  BY DEF Advance, GoTo, Typing, TypeOK
<1>6. /\ todo'[t] = Tail(todo[t]) /\ pc'[t] = IF Len(todo[t]) = 1 THEN "answer" ELSE p
      /\ \A u \in Requests \ {t} : todo'[u] = todo[u]
  BY <1>5
<1>7. PICK S : todo[t] \in Seq(S)
  BY <1>3
<1>8. Len(todo[t]) = 1 \/ todo'[t] # <<>>
  BY <1>2, <1>6, <1>7
<1>w. \A u \in Requests : todo'[u] \in Todos(kind'[u])
  BY <1>4, <1>5, <1>6
<1> QED
  BY <1>5, <1>6, <1>8, <1>w

LEMMA RowsTyped ==
    ASSUME Typing, NEW t \in Requests
    PROVE  /\ IsFiniteSet(View(t)) /\ IsFiniteSet(Left(t))
           /\ View(t) \subseteq Row /\ Left(t) \subseteq View(t)
           /\ Touched(t) \subseteq Row
           /\ Flushed(t) \in [written : SUBSET Row, deleted : SUBSET Row,
                              mode : {"none", "open", "broken"}]
<1>1. /\ tx[t] \in [written : SUBSET Row, deleted : SUBSET Row,
                    mode : {"none", "open", "broken"}]
      /\ rows \subseteq Row
  BY DEF Typing, TypeOK
<1>2. View(t) \subseteq Row /\ Left(t) \subseteq View(t) /\ Touched(t) \subseteq Row
  BY <1>1 DEF View, Left, Touched
<1>3. IsFiniteSet(View(t)) /\ IsFiniteSet(Left(t))
  <2>1. IsFiniteSet(rows) /\ IsFiniteSet(tx[t].written)
    BY DEF Typing, Stage
  <2>2. IsFiniteSet({x \in rows : x.id \notin IdsOf(Touched(t))})
    BY <2>1, FS_Subset
  <2>3. IsFiniteSet(View(t))
    BY <2>1, <2>2, FS_Union DEF View
  <2> QED
    BY <1>2, <2>3, FS_Subset
<1> QED
  BY <1>1, <1>2, <1>3 DEF Flushed

LEMMA InitTyping == Init => Typing
<1> SUFFICES ASSUME Init
             PROVE  Typing
  OBVIOUS
<1>1. rows \subseteq Row /\ lastId \in Nat /\ IsFiniteSet(rows)
  BY TableFacts DEF Init
<1>2. \A t \in Requests : todo[t] \in Todos(kind[t])
  BY DEF Init, Todos
<1>3. TypeOK
  BY <1>1, <1>2 DEF Init, TypeOK, Kinds, NoTx
<1>4. \A t \in Requests : Stage(t)
  BY FS_EmptySet DEF Init, Stage, NoTx, Ended
<1> QED
  BY <1>1, <1>3, <1>4 DEF Typing

\* A step of t leaves every other request where it is.
OthersKept(t) ==
    \A u \in Requests \ {t} :
       /\ pc'[u] = pc[u] /\ kind'[u] = kind[u] /\ todo'[u] = todo[u]
       /\ tx'[u] = tx[u] /\ doomed'[u] = doomed[u] /\ report'[u] = report[u]

LEMMA StageFrame ==
    ASSUME Typing, NEW t \in Requests, OthersKept(t), Stage(t)', TypeOK', IsFiniteSet(rows)'
    PROVE  Typing'
<1>1. ASSUME NEW u \in Requests \ {t}
      PROVE  Stage(u)'
  <2>1. Stage(u)
    BY DEF Typing
  <2> QED
    BY <2>1 DEF OthersKept, Stage, Adding, Removing, Ended, NoTx
<1> QED
  BY <1>1 DEF Typing

LEMMA FailTyping ==
    ASSUME Typing, NEW t \in Requests, Fail(t)
    PROVE  Typing' /\ OthersKept(t)
<1>1. TypeOK'
  BY DEF Typing, TypeOK, Fail, GoTo, Ended, NoTx
<1>2. OthersKept(t)
  BY DEF Typing, TypeOK, Fail, GoTo, OthersKept
<1>3. Stage(t)'
  BY FS_EmptySet DEF Typing, TypeOK, Fail, GoTo, Stage, Ended, NoTx
<1>4. IsFiniteSet(rows)'
  BY DEF Typing, Fail
<1> QED
  BY <1>1, <1>2, <1>3, <1>4, StageFrame

LEMMA StartTyping ==
    ASSUME Typing, NEW t \in Requests, Start(t)
    PROVE  Typing' /\ OthersKept(t)
<1>1. PICK w \in Work :
          /\ kind' = [kind EXCEPT ![t] = w.kind]
          /\ todo' = [todo EXCEPT ![t] = w.todo]
          /\ pc' = [pc EXCEPT ![t] = FirstStep(w)]
  BY DEF Start
<1>2. w.kind \in Kinds /\ w.todo \in Todos(w.kind)
      /\ (w.kind \notin {"reorder", "list"} => w.todo # <<>>)
  BY WatchlistAssumption
<1>3. /\ w.kind \in {"add", "addAll"} => FirstStep(w) = "count"
      /\ w.kind \in {"remove", "removeAll"} => FirstStep(w) = "find"
      /\ w.kind = "reorder" => FirstStep(w) = IF w.todo = <<>> THEN "answer" ELSE "check"
      /\ w.kind = "list" => FirstStep(w) = "read"
  BY DEF FirstStep
<1>4. /\ todo' = [u \in Requests |-> todo'[u]]
      /\ \A u \in Requests : todo'[u] \in Todos(kind'[u])
  BY <1>1, <1>2 DEF Typing, TypeOK
<1>5. TypeOK'
  BY <1>1, <1>2, <1>3, <1>4 DEF Typing, TypeOK, Start, Kinds, Ended
<1>6. OthersKept(t)
  BY <1>1 DEF Typing, TypeOK, Start, OthersKept
<1>7. Stage(t)'
  BY <1>1, <1>2, <1>3 DEF Typing, TypeOK, Start, Stage, Adding, Removing, Kinds, Ended
<1>8. IsFiniteSet(rows)'
  BY DEF Typing, Start
<1> QED
  BY <1>5, <1>6, <1>7, <1>8, StageFrame

LEMMA RefuseTyping ==
    ASSUME Typing, NEW t \in Requests, pc[t] \in {"count", "dup", "price"}, Refuse(t)
    PROVE  Typing' /\ OthersKept(t)
<1>1. CASE kind[t] = "add"
  BY <1>1, FailTyping DEF Refuse
<1>2. CASE kind[t] # "add"
  <2>1. /\ Advance(t, "count") /\ todo[t] # <<>> /\ Adding(t)
        /\ UNCHANGED <<rows, lastId, kind, tx, doomed, counted, report>>
    BY <1>2 DEF Refuse, Typing, Stage
  <2>2. /\ \A u \in Requests : todo'[u] \in Todos(kind'[u])
        /\ pc' = [pc EXCEPT ![t] = pc'[t]]
        /\ pc'[t] = "answer" \/ (pc'[t] = "count" /\ todo'[t] # <<>>)
        /\ \A u \in Requests \ {t} : todo'[u] = todo[u]
    BY <2>1, AdvanceTyping
  <2>3. TypeOK'
    BY <2>1, <2>2 DEF Typing, TypeOK, Advance
  <2>4. OthersKept(t)
    BY <2>1, <2>2 DEF Typing, TypeOK, OthersKept
  <2>5. Stage(t)'
    BY <2>1, <2>2 DEF Typing, TypeOK, Stage, Adding, Ended
  <2>6. IsFiniteSet(rows)'
    BY <2>1 DEF Typing
  <2> QED
    BY <2>3, <2>4, <2>5, <2>6, StageFrame
<1> QED
  BY <1>1, <1>2

\* The steps that touch neither the table nor a transaction.
LEMMA QuietTyping ==
    ASSUME Typing, NEW t \in Requests,
           \/ Count(t) \/ Duplicate(t) \/ PriceOk(t) \/ PriceRefused(t) \/ Check(t)
           \/ Read(t) \/ Answer(t)
    PROVE  Typing' /\ OthersKept(t)
<1>0. Stage(t) /\ View(t) \subseteq Row /\ IsFiniteSet(View(t)) /\ IsFiniteSet(rows)
  BY RowsTyped DEF Typing
<1>c. Cardinality(View(t)) \in Nat
  BY <1>0, FS_CardinalityType
<1>1. CASE pc[t] \in {"count", "dup", "price"} /\ Refuse(t)
  BY <1>1, RefuseTyping
<1>2. CASE pc[t] = "check" /\ Fail(t)
  BY <1>2, FailTyping
<1>3. CASE /\ pc[t] = "count" /\ GoTo(t, "dup")
           /\ counted' = [counted EXCEPT ![t] = Cardinality(View(t))]
           /\ UNCHANGED <<rows, lastId, kind, todo, tx, doomed, report>>
  <2>1. TypeOK'
    BY <1>3, <1>c DEF Typing, TypeOK, GoTo
  <2>2. OthersKept(t)
    BY <1>3 DEF Typing, TypeOK, GoTo, OthersKept
  <2>3. Stage(t)'
    BY <1>0, <1>3 DEF Typing, TypeOK, GoTo, Stage, Adding, Ended
  <2> QED
    BY <1>0, <1>3, <2>1, <2>2, <2>3, StageFrame
<1>4. CASE /\ \/ pc[t] = "dup" /\ GoTo(t, "price")
              \/ pc[t] = "price" /\ GoTo(t, "insert")
              \/ pc[t] = "check" /\ GoTo(t, "update")
              \/ pc[t] = "answer" /\ GoTo(t, "commit")
           /\ UNCHANGED <<rows, lastId, kind, todo, tx, doomed, counted, report>>
  <2>1. TypeOK'
    BY <1>4 DEF Typing, TypeOK, GoTo
  <2>2. OthersKept(t)
    BY <1>4 DEF Typing, TypeOK, GoTo, OthersKept
  <2>3. Stage(t)'
    BY <1>0, <1>4 DEF Typing, TypeOK, GoTo, Stage, Adding, Removing, Ended
  <2> QED
    BY <1>0, <1>4, <2>1, <2>2, <2>3, StageFrame
<1>5. CASE Read(t)
  <2>1. SymbolsOf(View(t)) \subseteq Symbols
    BY <1>0 DEF SymbolsOf, Row
  <2>2. TypeOK'
    BY <1>5, <2>1 DEF Typing, TypeOK, GoTo, Read
  <2>3. OthersKept(t)
    BY <1>5 DEF Typing, TypeOK, GoTo, OthersKept, Read
  <2>4. Stage(t)'
    BY <1>0, <1>5 DEF Typing, TypeOK, GoTo, Stage, Ended, Read
  <2> QED
    BY <1>0, <1>5, <2>2, <2>3, <2>4, StageFrame DEF Read
<1> QED
  BY <1>1, <1>2, <1>3, <1>4, <1>5
     DEF Count, Duplicate, PriceOk, PriceRefused, Check, Answer

\* A step that deals with the head of todo, and writes, deletes or reports on the way.
LEMMA WorkTyping ==
    ASSUME Typing, NEW t \in Requests, NEW p \in {"count", "find", "update"},
           Advance(t, p), todo[t] # <<>>,
           UNCHANGED <<rows, kind, counted>>,
           lastId' \in Nat, report' \in [Requests -> SUBSET Symbols],
           tx' = [tx EXCEPT ![t] = tx'[t]], doomed' = [doomed EXCEPT ![t] = doomed'[t]],
           report' = [report EXCEPT ![t] = report'[t]],
           doomed'[t] \subseteq Row,
           tx'[t] \in [written : SUBSET Row, deleted : SUBSET Row,
                       mode : {"none", "open", "broken"}],
           IsFiniteSet(tx'[t].written),
           p = "count" => Adding(t), p = "find" => Removing(t),
           p = "update" => kind[t] = "reorder"
    PROVE  Typing' /\ OthersKept(t)
<1>1. /\ \A u \in Requests : todo'[u] \in Todos(kind'[u])
      /\ pc' = [pc EXCEPT ![t] = pc'[t]]
      /\ pc'[t] = "answer" \/ (pc'[t] = p /\ todo'[t] # <<>>)
      /\ \A u \in Requests \ {t} : todo'[u] = todo[u]
  BY AdvanceTyping
<1>2. todo' = [u \in Requests |-> todo'[u]]
  BY DEF Typing, TypeOK, Advance
<1>3. TypeOK'
  <2>1. pc'[t] \in {"answer", "count", "find", "update"}
    BY <1>1
  <2>2. pc' \in [Requests -> {"idle", "count", "dup", "price", "insert", "find", "check",
                             "update", "read", "answer", "commit"} \cup Ended]
    BY <1>1, <2>1 DEF Typing, TypeOK
  <2>3. /\ tx' \in [Requests -> [written : SUBSET Row, deleted : SUBSET Row,
                                 mode : {"none", "open", "broken"}]]
        /\ doomed' \in [Requests -> SUBSET Row]
    BY DEF Typing, TypeOK
  <2> QED
    BY <1>1, <1>2, <2>2, <2>3 DEF Typing, TypeOK
<1>4. OthersKept(t)
  BY <1>1 DEF Typing, TypeOK, OthersKept
<1>5. Stage(t)'
  BY <1>1 DEF Typing, TypeOK, Stage, Adding, Removing, Ended
<1> QED
  BY <1>3, <1>4, <1>5, StageFrame DEF Typing

LEMMA WroteFacts ==
    ASSUME Typing, NEW t \in Requests, NEW S
    PROVE  /\ Wrote(t, S).written = S /\ Wrote(t, S).mode = "open"
           /\ Wrote(t, S).deleted = tx[t].deleted
           /\ S \subseteq Row => Wrote(t, S) \in [written : SUBSET Row, deleted : SUBSET Row,
                                                 mode : {"none", "open", "broken"}]
  BY DEF Typing, TypeOK, Wrote

LEMMA InsertTyping ==
    ASSUME Typing, NEW t \in Requests, Insert(t) \/ InsertRefused(t)
    PROVE  Typing' /\ OthersKept(t)
<1>1. /\ Adding(t) /\ todo[t] # <<>> /\ todo[t] \in Todos(kind[t])
      /\ IsFiniteSet(tx[t].written)
  BY DEF Typing, TypeOK, Stage, Insert, InsertRefused
<1>2. todo[t] \in Seq(Symbols) /\ Head(todo[t]) \in Symbols
  BY <1>1, TailFacts DEF Todos, Adding
<1>3. CASE Insert(t)
  <2>1. PICK i \in 1..(lastId + 1) :
           /\ lastId' = IF i > lastId THEN i ELSE lastId
           /\ tx' = [tx EXCEPT ![t] = Wrote(t, tx[t].written \cup {NewRow(t, i)})]
    BY <1>3 DEF Insert
  <2>2. NewRow(t, i) \in Row
    BY <1>2, <2>1 DEF NewRow, Row, Ids, Typing, TypeOK
  <2>3. IsFiniteSet(tx[t].written \cup {NewRow(t, i)})
    BY <1>1, FS_AddElement
  <2>4. /\ tx' = [tx EXCEPT ![t] = tx'[t]]
        /\ tx'[t].written = tx[t].written \cup {NewRow(t, i)}
        /\ tx'[t] \in [written : SUBSET Row, deleted : SUBSET Row,
                       mode : {"none", "open", "broken"}]
    <3> DEFINE W == tx[t].written \cup {NewRow(t, i)}
    <3>1. W \subseteq Row /\ tx' = [tx EXCEPT ![t] = Wrote(t, W)]
      BY <2>1, <2>2 DEF Typing, TypeOK
    <3> HIDE DEF W
    <3>2. tx' = [tx EXCEPT ![t] = tx'[t]] /\ tx'[t] = Wrote(t, W)
      BY <3>1 DEF Typing, TypeOK
    <3>3. /\ tx'[t].written = W
          /\ tx'[t] \in [written : SUBSET Row, deleted : SUBSET Row,
                         mode : {"none", "open", "broken"}]
      BY <3>1, <3>2, WroteFacts
    <3> QED
      BY <3>2, <3>3 DEF W
  <2>5. /\ report' = [report EXCEPT ![t] = report'[t]]
        /\ report' \in [Requests -> SUBSET Symbols]
    BY <1>2, <1>3 DEF Insert, Typing, TypeOK
  <2>6. lastId' \in Nat
    BY <2>1 DEF Typing, TypeOK
  <2>7. doomed' = [doomed EXCEPT ![t] = doomed'[t]] /\ doomed'[t] \subseteq Row
    BY <1>3 DEF Insert, Typing, TypeOK
  <2> QED
    BY <1>1, <1>3, <2>3, <2>4, <2>5, <2>6, <2>7, WorkTyping DEF Insert
<1>4. CASE InsertRefused(t) /\ kind[t] = "add"
  BY <1>4, FailTyping DEF InsertRefused
<1>5. CASE InsertRefused(t) /\ kind[t] # "add"
  <2>1. /\ tx' = [tx EXCEPT ![t] = tx'[t]]
        /\ tx'[t] = [NoTx EXCEPT !.mode = "broken"]
        /\ doomed' = [doomed EXCEPT ![t] = doomed'[t]] /\ doomed'[t] \subseteq Row
        /\ report' = [report EXCEPT ![t] = report'[t]]
        /\ report' \in [Requests -> SUBSET Symbols]
        /\ lastId' \in Nat
    BY <1>5 DEF InsertRefused, Typing, TypeOK
  <2>2. IsFiniteSet(tx'[t].written)
    BY <2>1, FS_EmptySet DEF NoTx
  <2>3. tx'[t] \in [written : SUBSET Row, deleted : SUBSET Row,
                    mode : {"none", "open", "broken"}]
    BY <2>1 DEF NoTx
  <2> QED
    BY <1>1, <1>5, <2>1, <2>2, <2>3, WorkTyping DEF InsertRefused
<1> QED
  BY <1>3, <1>4, <1>5

LEMMA FindTyping ==
    ASSUME Typing, NEW t \in Requests, Find(t) \/ FindNothing(t)
    PROVE  Typing' /\ OthersKept(t)
<1>1. Removing(t) /\ todo[t] # <<>> /\ IsFiniteSet(tx[t].written)
  BY DEF Typing, Stage, Find, FindNothing
<1>2. CASE FindNothing(t) /\ kind[t] = "remove"
  BY <1>2, FailTyping DEF FindNothing
<1>3. CASE Find(t) \/ (FindNothing(t) /\ kind[t] # "remove")
  <2>1. /\ tx' = [tx EXCEPT ![t] = Flushed(t)] /\ Advance(t, "find")
        /\ UNCHANGED <<rows, lastId, kind, counted>>
    BY <1>3 DEF Find, FindNothing
  <2>2. /\ tx' = [tx EXCEPT ![t] = tx'[t]]
        /\ tx'[t] \in [written : SUBSET Row, deleted : SUBSET Row,
                       mode : {"none", "open", "broken"}]
        /\ tx'[t].written = tx[t].written
    BY <2>1, RowsTyped DEF Typing, TypeOK, Flushed
  <2>3. \A x \in Left(t) : x \in Row /\ x.symbol \in Symbols
    BY RowsTyped DEF Row
  <2>4. /\ doomed' = [doomed EXCEPT ![t] = doomed'[t]] /\ doomed'[t] \subseteq Row
        /\ report' = [report EXCEPT ![t] = report'[t]]
        /\ report' \in [Requests -> SUBSET Symbols]
    BY <1>3, <2>3 DEF Find, FindNothing, Typing, TypeOK
  <2>5. lastId' \in Nat
    BY <2>1 DEF Typing, TypeOK
  <2> QED
    BY <1>1, <2>1, <2>2, <2>4, <2>5, WorkTyping
<1> QED
  BY <1>2, <1>3

LEMMA UpdateTyping ==
    ASSUME Typing, NEW t \in Requests, Update(t)
    PROVE  Typing' /\ OthersKept(t)
<1> DEFINE old == {x \in View(t) : x.id = Head(todo[t]).id}
           new == {[x EXCEPT !.order = Head(todo[t]).order] : x \in old}
<1>1. /\ kind[t] = "reorder" /\ todo[t] # <<>> /\ todo[t] \in Todos(kind[t])
      /\ IsFiniteSet(tx[t].written)
  BY DEF Typing, TypeOK, Stage, Update
<1>2. Head(todo[t]) \in Place
  BY <1>1, TailFacts DEF Todos
<1>3. new \subseteq Row
  BY <1>2, RowsTyped DEF Row, Place
<1>4. IsFiniteSet(new)
  <2> DEFINE f == [x \in old |-> [x EXCEPT !.order = Head(todo[t]).order]]
  <2>1. IsFiniteSet(old)
    BY RowsTyped, FS_Subset
  <2>2. f \in Surjection(old, new)
    BY DEF Surjection
  <2> QED
    BY <2>1, <2>2, FS_Surjection
<1>5. IsFiniteSet((tx[t].written \ old) \cup new)
  BY <1>1, <1>4, FS_Subset, FS_Union
<1>6. tx' = [tx EXCEPT ![t] = Wrote(t, (tx[t].written \ old) \cup new)]
  BY DEF Update
<1>w. tx[t].written \subseteq Row
  BY DEF Typing, TypeOK
<1>7. /\ tx' = [tx EXCEPT ![t] = tx'[t]]
      /\ tx'[t].written = (tx[t].written \ old) \cup new
      /\ tx'[t] \in [written : SUBSET Row, deleted : SUBSET Row,
                     mode : {"none", "open", "broken"}]
  <2> DEFINE W == (tx[t].written \ old) \cup new
  <2>1. W \subseteq Row /\ tx' = [tx EXCEPT ![t] = Wrote(t, W)]
    BY <1>3, <1>6, <1>w
  <2> HIDE DEF W
  <2>2. tx' = [tx EXCEPT ![t] = tx'[t]] /\ tx'[t] = Wrote(t, W)
    BY <2>1 DEF Typing, TypeOK
  <2>3. /\ tx'[t].written = W
        /\ tx'[t] \in [written : SUBSET Row, deleted : SUBSET Row,
                       mode : {"none", "open", "broken"}]
    BY <2>1, <2>2, WroteFacts
  <2> QED
    BY <2>2, <2>3 DEF W
<1>8. /\ doomed' = [doomed EXCEPT ![t] = doomed'[t]] /\ doomed'[t] \subseteq Row
      /\ report' = [report EXCEPT ![t] = report'[t]]
      /\ report' \in [Requests -> SUBSET Symbols]
      /\ lastId' \in Nat
  BY DEF Update, Typing, TypeOK
<1> QED
  BY <1>1, <1>5, <1>7, <1>8, WorkTyping DEF Update

LEMMA EndTyping ==
    ASSUME Typing, NEW t \in Requests,
           Commit(t) \/ Lose(t) \/ Fail(t) \/ Broken(t) \/ PriceRaises(t) \/ WriteFails(t)
    PROVE  Typing' /\ OthersKept(t)
<1>1. CASE Fail(t) \/ Broken(t) \/ PriceRaises(t) \/ WriteFails(t)
  BY <1>1, FailTyping DEF Broken, PriceRaises, WriteFails
<1>2. CASE Commit(t) \/ Lose(t)
  <2>1. rows' \subseteq Row /\ IsFiniteSet(rows')
    BY <1>2, RowsTyped DEF Commit, CommitLost, DatabaseFails, Lose, Typing, TypeOK
  <2>0. /\ pc' = [pc EXCEPT ![t] = pc'[t]] /\ pc'[t] \in {"done", "lost"}
        /\ tx' = [tx EXCEPT ![t] = NoTx] /\ doomed' = [doomed EXCEPT ![t] = {}]
        /\ UNCHANGED <<lastId, kind, todo, counted, report>>
    BY <1>2 DEF Commit, CommitLost, DatabaseFails, Lose, GoTo, Typing, TypeOK
  <2>2. TypeOK'
    <3>1. NoTx \in [written : SUBSET Row, deleted : SUBSET Row,
                    mode : {"none", "open", "broken"}]
      BY DEF NoTx
    <3> QED
      BY <2>0, <2>1, <3>1 DEF Typing, TypeOK, Ended
  <2>3. OthersKept(t)
    BY <2>0 DEF Typing, TypeOK, OthersKept
  <2>4. Stage(t)'
    BY <2>0, FS_EmptySet DEF Typing, TypeOK, Stage, Ended, NoTx
  <2> QED
    BY <2>1, <2>2, <2>3, <2>4, StageFrame
<1> QED
  BY <1>1, <1>2

LEMMA StepTyping ==
    ASSUME Typing, NEW t \in Requests, Start(t) \/ Step(t) \/ DatabaseFails(t)
    PROVE  Typing' /\ OthersKept(t)
  BY StartTyping, QuietTyping, InsertTyping, FindTyping, UpdateTyping, EndTyping
     DEF Step, AddStep, DatabaseFails, CommitLost

(* Every value of the model has its type, in every reachable state. *)
THEOREM WatchlistTyped == Spec => []TypeOK
<1>1. Typing /\ UNCHANGED vars => Typing'
  BY DEF Typing, TypeOK, Stage, Adding, Removing, Ended, NoTx, vars
<1>2. Typing /\ [Next]_vars => Typing'
  BY <1>1, StepTyping DEF Next
<1>3. Typing => TypeOK
  BY DEF Typing
<1> QED
  BY InitTyping, <1>2, <1>3, PTL DEF Spec

-----------------------------------------------------------------------------
(* The database: no duplicates, committed or not.                           *)

LEMMA InitDatabase == Init => Database
<1> SUFFICES ASSUME Init
             PROVE  Database
  OBVIOUS
<1>1. Distinct(rows) /\ \A x \in rows : x.id <= lastId
  BY TableFacts DEF Init
<1>2. ASSUME NEW t \in Requests
      PROVE  /\ tx[t].written = {} /\ tx[t].deleted = {} /\ doomed[t] = {}
             /\ Touched(t) = {} /\ View(t) = rows
  BY DEF Init, NoTx, Touched, View, IdsOf
<1>3. \A t \in Requests : Distinct(View(t)) /\ OwnWork(t) /\ Replaces(t) /\ GivenOut(t)
  BY <1>1, <1>2 DEF OwnWork, Replaces, GivenOut
<1> QED
  BY <1>1, <1>2, <1>3 DEF Database, Apart

\* A step that leaves the table alone has to keep only what concerns its request.
LEMMA TxFrame ==
    ASSUME Typing, Typing', Database, NEW t \in Requests, OthersKept(t), rows' = rows,
           lastId <= lastId',
           Distinct(View(t))', OwnWork(t)', Replaces(t)', GivenOut(t)',
           \A u \in Requests \ {t} : Apart(t, u)'
    PROVE  Database'
<1>1. lastId \in Nat /\ lastId' \in Nat /\ \A x \in rows : x.id \in Nat
  BY DEF Typing, TypeOK, Row, Ids
<1>2. ASSUME NEW u \in Requests \ {t}
      PROVE  /\ (Distinct(View(u)) /\ OwnWork(u) /\ Replaces(u) /\ GivenOut(u))'
             /\ Touched(u)' = Touched(u)
  <2>1. Touched(u)' = Touched(u) /\ View(u)' = View(u)
    BY DEF OthersKept, Touched, View
  <2>2. Distinct(View(u)) /\ OwnWork(u) /\ Replaces(u) /\ GivenOut(u)
    BY DEF Database
  <2>3. \A x \in Touched(u) : x.id \in Nat
    BY RowsTyped DEF Row, Ids
  <2>4. GivenOut(u)'
    BY <1>1, <2>1, <2>2, <2>3 DEF GivenOut
  <2> QED
    BY <2>1, <2>2, <2>4 DEF OthersKept, OwnWork, Replaces, Distinct, Adding, Removing
<1>3. \A x \in rows' : x.id <= lastId'
  BY <1>1 DEF Database
<1>4. ASSUME NEW u \in Requests, NEW v \in Requests, u # v
      PROVE  Apart(u, v)'
  <2>1. CASE u = t
    BY <1>4, <2>1
  <2>2. CASE v = t
    BY <1>4, <2>2 DEF Apart
  <2>3. CASE u # t /\ v # t
    BY <1>2, <1>4, <2>3 DEF Apart, Database
  <2> QED
    BY <2>1, <2>2, <2>3
<1> QED
  BY <1>2, <1>3, <1>4 DEF Database, Distinct

\* A transaction that is rolled back, or not begun, holds nothing.
LEMMA ResetDatabase ==
    ASSUME Typing, Typing', Database, NEW t \in Requests, OthersKept(t),
           UNCHANGED <<rows, lastId>>,
           tx'[t].written = {}, tx'[t].deleted = {}, doomed'[t] = {}
    PROVE  Database'
<1>1. Touched(t)' = {} /\ View(t)' = rows
  BY DEF Touched, View, IdsOf
<1>2. Distinct(View(t))' /\ OwnWork(t)' /\ Replaces(t)' /\ GivenOut(t)'
  BY <1>1 DEF Database, Distinct, OwnWork, Replaces, GivenOut
<1>3. \A u \in Requests \ {t} : Apart(t, u)'
  BY <1>1 DEF Apart
<1>4. lastId <= lastId'
  BY DEF Typing, TypeOK
<1> QED
  BY <1>2, <1>3, <1>4, TxFrame

\* A step of the handler that runs no write.
LEMMA QuietDatabase ==
    ASSUME Typing, Typing', Database, NEW t \in Requests, OthersKept(t),
           UNCHANGED <<rows, lastId, kind, tx, doomed>>
    PROVE  Database'
<1>1. \A u \in Requests : Touched(u)' = Touched(u) /\ View(u)' = View(u)
  BY DEF Touched, View
<1> QED
  BY <1>1 DEF Database, Distinct, OwnWork, Replaces, GivenOut, Apart, Adding, Removing

\* A statement that does not have to wait meets nothing another transaction touched.
LEMMA NoWait ==
    ASSUME Typing, Database, NEW t \in Requests, NEW u \in Requests \ {t}, ~Blocked(t)
    PROVE  /\ SingleWriter /\ pc[t] = "insert" => Touched(u) = {}
           /\ pc[t] = "insert" => Head(todo[t]) \notin SymbolsOf(Touched(u))
           /\ pc[t] = "update" => Head(todo[t]).id \notin IdsOf(Touched(u))
           /\ pc[t] \in {"find", "commit"} =>
                 IdsOf(doomed[t]) \cap IdsOf(Touched(u)) = {}
<1>1. ~WaitsFor(t, u)
  BY DEF Blocked
<1>2. tx[u].mode # "open" => Touched(u) = {}
  BY DEF Database, OwnWork, Touched
<1>3. Touched(u) = {} => IdsOf(Touched(u)) = {} /\ SymbolsOf(Touched(u)) = {}
  BY DEF IdsOf, SymbolsOf
<1>4. doomed[t] = {} => IdsOf(doomed[t]) = {}
  BY DEF IdsOf
<1> QED
  BY <1>1, <1>2, <1>3, <1>4 DEF WaitsFor

\* A row that t sees and u has not touched shares no symbol with what u has touched.
LEMMA SeenApart ==
    ASSUME Typing, Database, NEW t \in Requests, NEW u \in Requests \ {t},
           NEW x \in View(t), x.id \notin IdsOf(Touched(u)), NEW y \in Touched(u)
    PROVE  x.symbol # y.symbol
<1>1. CASE x \in tx[t].written
  BY <1>1 DEF Database, Apart, Touched
<1>2. CASE x \in rows /\ y \in tx[u].deleted
  <2>1. y \in rows /\ y.id # x.id
    BY <1>2 DEF Database, OwnWork, IdsOf
  <2> QED
    BY <1>2, <2>1 DEF Database, Distinct
<1>3. CASE x \in rows /\ y \in tx[u].written
  <2>1. x \in View(u) /\ y \in View(u) /\ y.id # x.id
    BY <1>3 DEF View, IdsOf
  <2> QED
    BY <2>1 DEF Database, Distinct
<1> QED
  BY <1>1, <1>2, <1>3 DEF View, Touched

LEMMA InsertDatabase ==
    ASSUME Typing, Typing', Database, NEW t \in Requests, OthersKept(t), Insert(t)
    PROVE  Database'
<1>1. PICK i \in 1..(lastId + 1) :
         /\ TakesId(t, i)
         /\ lastId' = IF i > lastId THEN i ELSE lastId
         /\ tx' = [tx EXCEPT ![t] = Wrote(t, tx[t].written \cup {NewRow(t, i)})]
  BY DEF Insert
<1> DEFINE n == NewRow(t, i)
<1>2. n.id = i /\ n.symbol = Head(todo[t])
  BY DEF NewRow
<1>3. /\ ~Blocked(t) /\ ~Taken(t) /\ rows' = rows /\ kind' = kind /\ doomed' = doomed
      /\ pc[t] = "insert" /\ Adding(t) /\ ~Removing(t)
  BY DEF Insert, Typing, Stage, Adding, Removing
<1>4. /\ tx'[t].written = tx[t].written \cup {n} /\ tx'[t].deleted = tx[t].deleted
      /\ tx[t].deleted = {} /\ doomed[t] = {}
      /\ tx'[t].mode = "open"
  BY <1>1, <1>3, WroteFacts DEF Typing, TypeOK, Database, OwnWork
<1> HIDE DEF n
<1>5. /\ lastId \in Nat /\ lastId' \in Nat /\ lastId <= lastId' /\ i <= lastId' /\ i \in Nat
      /\ \A x \in rows \cup View(t) : x.id \in Nat
  BY <1>1, RowsTyped DEF Typing, TypeOK, Row, Ids
<1>6. \A x \in rows \cup View(t) : x.id # i
  <2>1. \A x \in rows : \E y \in View(t) : y.id = x.id
    BY <1>4 DEF View, Touched, IdsOf
  <2>2. CASE SingleWriter
    BY <1>1, <1>5, <2>1, <2>2 DEF TakesId
  <2>3. CASE ~SingleWriter
    <3>1. i = lastId + 1
      BY <1>1, <2>3 DEF TakesId
    <3>2. \A x \in rows \cup View(t) : x.id <= lastId
      BY DEF Database, GivenOut, View, Touched
    <3> QED
      BY <1>5, <3>1, <3>2
  <2> QED
    BY <2>2, <2>3
<1>7. \A x \in View(t) : x.symbol # n.symbol
  BY <1>2, <1>3 DEF Taken, SymbolsOf
<1>8. View(t)' \subseteq View(t) \cup {n} /\ Touched(t)' = Touched(t) \cup {n}
  BY <1>3, <1>4 DEF View, Touched, IdsOf
<1>9. Distinct(View(t))'
  BY <1>2, <1>6, <1>7, <1>8 DEF Database, Distinct
<1>10. OwnWork(t)'
  BY <1>3, <1>4 DEF OwnWork, Removing
<1>11. Replaces(t)'
  BY <1>2, <1>3, <1>4, <1>6 DEF Database, Replaces, Adding
<1>12. GivenOut(t)'
  <2>1. \A x \in Touched(t) : x.id <= lastId /\ x.id \in Nat
    BY RowsTyped DEF Database, GivenOut, Row, Ids
  <2> QED
    BY <1>2, <1>5, <1>8, <2>1 DEF GivenOut
<1>13. ASSUME NEW u \in Requests \ {t}
       PROVE  Apart(t, u)'
  <2>1. Touched(u)' = Touched(u)
    BY DEF OthersKept, Touched
  <2>2. \A y \in Touched(u) : y.symbol # n.symbol
    BY <1>2, <1>3, NoWait DEF SymbolsOf
  <2>3. \A y \in Touched(u) : y.id # n.id
    <3>1. CASE SingleWriter
      BY <1>3, <3>1, NoWait
    <3>2. CASE ~SingleWriter
      <4>1. i = lastId + 1
        BY <1>1, <3>2 DEF TakesId
      <4>2. \A y \in Touched(u) : y.id <= lastId /\ y.id \in Nat
        BY RowsTyped DEF Database, GivenOut, Row, Ids
      <4> QED
        BY <1>2, <1>5, <4>1, <4>2
    <3> QED
      BY <3>1, <3>2
  <2> QED
    BY <1>8, <2>1, <2>2, <2>3 DEF Apart, Database
<1> QED
  BY <1>3, <1>5, <1>9, <1>10, <1>11, <1>12, <1>13, TxFrame

LEMMA FlushDatabase ==
    ASSUME Typing, Typing', Database, NEW t \in Requests, OthersKept(t),
           pc[t] = "find", ~Blocked(t),
           UNCHANGED <<rows, lastId, kind>>, tx' = [tx EXCEPT ![t] = Flushed(t)]
    PROVE  Database'
<1> DEFINE gone == View(t) \ Left(t)
<1>1. Removing(t) /\ tx[t].written = {} /\ tx[t].deleted \subseteq rows
  BY DEF Typing, Stage, Database, OwnWork
<1>2. View(t) \subseteq rows /\ gone \subseteq rows /\ gone \subseteq View(t)
  BY <1>1 DEF View
<1>3. \A x \in gone : x.id \in IdsOf(doomed[t])
  BY DEF Left
<1>4. tx[t] \in [written : SUBSET Row, deleted : SUBSET Row,
                 mode : {"none", "open", "broken"}]
  BY DEF Typing, TypeOK
<1>5. tx'[t] = Flushed(t)
  BY DEF Typing, TypeOK
<1>8. lastId <= lastId'
  BY DEF Typing, TypeOK
<1>6. CASE doomed[t] = {}
  <2>1. tx'[t] = tx[t]
    BY <1>5, <1>6 DEF Flushed
  <2>2. Touched(t)' = Touched(t) /\ View(t)' = View(t)
    BY <2>1 DEF Touched, View
  <2>3. (Distinct(View(t)) /\ OwnWork(t) /\ Replaces(t) /\ GivenOut(t))'
    BY <1>1, <2>1, <2>2 DEF Database, Distinct, OwnWork, Replaces, GivenOut, Removing
  <2>4. \A u \in Requests \ {t} : Touched(u)' = Touched(u)
    BY DEF OthersKept, Touched
  <2>5. \A u \in Requests \ {t} : Apart(t, u)'
    BY <2>2, <2>4 DEF Database, Apart
  <2> QED
    BY <1>8, <2>3, <2>5, TxFrame
<1>7. CASE doomed[t] # {}
  <2>0. tx'[t] = [tx[t] EXCEPT !.deleted = @ \cup gone, !.mode = "open"]
    BY <1>5, <1>7 DEF Flushed
  <2> HIDE DEF gone
  <2>1. /\ tx'[t].deleted = tx[t].deleted \cup gone /\ tx'[t].written = {}
        /\ tx'[t].mode = "open"
    BY <1>1, <1>4, <2>0
  <2>2. Touched(t)' = Touched(t) \cup gone /\ View(t)' \subseteq View(t)
    BY <1>1, <2>1 DEF Touched, View, IdsOf
  <2>3. Distinct(View(t))'
    BY <2>2 DEF Database, Distinct
  <2>4. OwnWork(t)' /\ Replaces(t)'
    BY <1>1, <1>2, <2>1 DEF OwnWork, Replaces, Removing
  <2>5. GivenOut(t)'
    BY <1>2, <2>2 DEF Database, GivenOut
  <2>6. ASSUME NEW u \in Requests \ {t}
        PROVE  Apart(t, u)'
    <3>1. Touched(u)' = Touched(u)
      BY DEF OthersKept, Touched
    <3>2. \A x \in gone : x.id \notin IdsOf(Touched(u))
      BY <1>3, NoWait
    <3>3. \A x \in gone, y \in Touched(u) : x.id # y.id /\ x.symbol # y.symbol
      BY <1>2, <3>2, SeenApart DEF IdsOf
    <3> QED
      BY <2>2, <3>1, <3>3 DEF Apart, Database
  <2> QED
    BY <1>8, <2>3, <2>4, <2>5, <2>6, TxFrame
<1> QED
  BY <1>6, <1>7

LEMMA UpdateDatabase ==
    ASSUME Typing, Typing', Database, NEW t \in Requests, OthersKept(t), Update(t)
    PROVE  Database'
<1> DEFINE i == Head(todo[t]).id
           old == {x \in View(t) : x.id = i}
           new == {[x EXCEPT !.order = Head(todo[t]).order] : x \in old}
<1>1. /\ ~Blocked(t) /\ rows' = rows /\ kind' = kind /\ doomed' = doomed /\ lastId' = lastId
      /\ pc[t] = "update" /\ ~Adding(t) /\ ~Removing(t)
      /\ tx' = [tx EXCEPT ![t] = Wrote(t, (tx[t].written \ old) \cup new)]
  BY DEF Update, Typing, Stage, Adding, Removing
<1>2. \A x \in View(t) : x \in Row
  BY RowsTyped
<1>3. \A y \in new : \E x \in old : y.id = x.id /\ y.symbol = x.symbol /\ y.id = i
  BY <1>2 DEF Row
<1>4. \A x \in old : x \in View(t) /\ x.id = i
  OBVIOUS
<1>10. ASSUME NEW x \in old
       PROVE  \E y \in new : y.id = i
  <2>1. [x EXCEPT !.order = Head(todo[t]).order].id = i
    BY <1>2 DEF Row
  <2> QED
    BY <2>1
<1> HIDE DEF new
<1>5. /\ tx'[t].written = (tx[t].written \ old) \cup new /\ tx'[t].deleted = {}
      /\ tx[t].deleted = {} /\ doomed[t] = {} /\ tx'[t].mode = "open"
  BY <1>1, WroteFacts DEF Typing, TypeOK, Database, OwnWork
<1>6. /\ Touched(t) = tx[t].written /\ Touched(t)' = (tx[t].written \ old) \cup new
      /\ tx[t].written \subseteq View(t)
  BY <1>5 DEF Touched, View
<1>7. \A y \in View(t)' : \/ y \in View(t) /\ y.id # i
                          \/ y \in new
  <2>1. ASSUME NEW y \in rows, y.id \notin IdsOf(Touched(t)'), y \notin new
        PROVE  y \in View(t) /\ y.id # i
    <3>1. ASSUME y.id = i
          PROVE  FALSE
      <4>1. i \notin IdsOf(Touched(t))
        <5>1. ASSUME NEW x \in tx[t].written, x.id = i
              PROVE  FALSE
          <6>1. x \in old
            BY <1>6, <5>1
          <6>2. \E z \in new : z.id = y.id
            BY <1>10, <3>1, <6>1
          <6> QED
            BY <1>6, <2>1, <6>2 DEF IdsOf
        <5> QED
          BY <1>6, <5>1 DEF IdsOf
      <4>2. y \in old
        BY <3>1, <4>1 DEF View
      <4>3. \E z \in new : z.id = y.id
        BY <1>10, <3>1, <4>2
      <4> QED
        BY <1>6, <2>1, <4>3 DEF IdsOf
    <3>2. y.id \notin IdsOf(Touched(t))
      BY <1>6, <2>1, <3>1 DEF IdsOf
    <3> QED
      BY <3>1, <3>2 DEF View
  <2>2. \A y \in tx[t].written \ old : y \in View(t) /\ y.id # i
    BY <1>6
  <2> QED
    BY <1>1, <1>5, <1>6, <2>1, <2>2 DEF View
<1>8. Distinct(View(t))'
  <2>1. Distinct(View(t))
    BY DEF Database
  <2>2. \A x, y \in new : x = y
    <3>1. \A x, y \in old : x = y
      BY <2>1 DEF Distinct
    <3> QED
      BY <3>1 DEF new
  <2>3. ASSUME NEW x \in View(t)', NEW y \in View(t)', x.symbol = y.symbol \/ x.id = y.id
        PROVE  x = y
    BY <1>3, <1>4, <1>7, <2>1, <2>2, <2>3 DEF Distinct
  <2> QED
    BY <2>3 DEF Distinct
<1>9. OwnWork(t)'
  BY <1>1, <1>5 DEF OwnWork, Removing
<1>11. \A x \in old : /\ \A y \in rows : y.id = x.id => y.symbol = x.symbol
                      /\ \E y \in rows : y.id = x.id /\ y.symbol = x.symbol
  <2>1. \A x \in old : x \in rows \/ x \in tx[t].written
    BY DEF View
  <2> QED
    BY <1>1, <2>1 DEF Database, Distinct, Replaces
<1>12. Replaces(t)'
  <2>1. \A x \in tx'[t].written : \/ x \in tx[t].written
                                  \/ \E z \in old : x.id = z.id /\ x.symbol = z.symbol
    BY <1>3, <1>5
  <2>2. /\ \A x \in tx[t].written : /\ \A y \in rows : y.id = x.id => y.symbol = x.symbol
                                    /\ \E y \in rows : y.id = x.id /\ y.symbol = x.symbol
    BY <1>1 DEF Database, Replaces
  <2> QED
    BY <1>1, <1>11, <2>1, <2>2 DEF Replaces
<1>13. GivenOut(t)'
  <2>1. \A x \in View(t) : x.id <= lastId
    BY DEF Database, GivenOut, View, Touched
  <2> QED
    BY <1>1, <1>3, <1>4, <1>6, <2>1 DEF GivenOut
<1>14. ASSUME NEW u \in Requests \ {t}
       PROVE  Apart(t, u)'
  <2>1. Touched(u)' = Touched(u)
    BY DEF OthersKept, Touched
  <2>2. i \notin IdsOf(Touched(u))
    BY <1>1, NoWait
  <2>3. \A x \in old, y \in Touched(u) : x.id # y.id /\ x.symbol # y.symbol
    BY <2>2, SeenApart DEF IdsOf
  <2> QED
    BY <1>3, <1>6, <2>1, <2>3 DEF Apart, Database
<1>15. lastId <= lastId'
  BY <1>1 DEF Typing, TypeOK
<1> QED
  BY <1>1, <1>8, <1>9, <1>12, <1>13, <1>14, <1>15, TxFrame

LEMMA CommitDatabase ==
    ASSUME Typing, Typing', Database, NEW t \in Requests, OthersKept(t), Commit(t)
    PROVE  Database'
<1>1. /\ ~Blocked(t) /\ rows' = Left(t) /\ lastId' = lastId /\ kind' = kind
      /\ pc[t] = "commit" /\ tx'[t] = NoTx /\ doomed'[t] = {}
  BY DEF Commit, Typing, TypeOK
<1>2. /\ Touched(t)' = {} /\ View(t)' = Left(t) /\ tx'[t].written = {} /\ tx'[t].deleted = {}
  BY <1>1 DEF Touched, View, IdsOf, NoTx
<1>3. Left(t) \subseteq View(t) /\ Distinct(Left(t))
  BY DEF Left, Database, Distinct
<1>4. \A x \in Left(t) : x.id <= lastId
  BY <1>3 DEF Database, GivenOut, View, Touched
<1>5. Distinct(View(t))' /\ OwnWork(t)' /\ Replaces(t)' /\ GivenOut(t)'
  BY <1>1, <1>2, <1>3 DEF Distinct, OwnWork, Replaces, GivenOut
<1>6. ASSUME NEW u \in Requests \ {t}
      PROVE  /\ (Distinct(View(u)) /\ OwnWork(u) /\ Replaces(u) /\ GivenOut(u))'
             /\ Touched(u)' = Touched(u)
  <2>1. Touched(u)' = Touched(u) /\ tx'[u] = tx[u] /\ doomed'[u] = doomed[u]
    BY DEF OthersKept, Touched
  <2>2. Distinct(View(u)) /\ OwnWork(u) /\ Replaces(u) /\ GivenOut(u)
    BY DEF Database
  <2>3. View(u)' = {x \in Left(t) : x.id \notin IdsOf(Touched(u))} \cup tx[u].written
    BY <1>1, <2>1 DEF View
  \* A committed row that u has touched is no row of t and stays.
  <2>4. ASSUME NEW z \in rows, z.id \in IdsOf(Touched(u))
        PROVE  z \in Left(t)
    <3>1. z.id \notin IdsOf(doomed[t])
      BY <1>1, <2>4, NoWait
    <3>2. z.id \notin IdsOf(Touched(t))
      BY <2>4 DEF Database, Apart, IdsOf
    <3> QED
      BY <3>1, <3>2 DEF Left, View
  <2>5. Distinct(View(u))'
    <3>1. ASSUME NEW x \in Left(t), x.id \notin IdsOf(Touched(u)), NEW y \in tx[u].written
          PROVE  x.symbol # y.symbol /\ x.id # y.id
      BY <1>3, <3>1, SeenApart DEF Touched, IdsOf
    <3>2. \A x, y \in tx[u].written : x.symbol = y.symbol \/ x.id = y.id => x = y
      BY <2>2 DEF Distinct, View
    <3>3. \A x, y \in Left(t) : x.symbol = y.symbol \/ x.id = y.id => x = y
      BY <1>3 DEF Distinct
    <3> QED
      BY <2>3, <3>1, <3>2, <3>3 DEF Distinct
  <2>6. OwnWork(u)'
    <3>1. tx[u].deleted \subseteq Left(t)
      BY <2>2, <2>4 DEF OwnWork, Touched, IdsOf
    <3> QED
      BY <1>1, <2>1, <2>2, <3>1 DEF OwnWork, Removing
  <2>7. Replaces(u)'
    <3>1. ASSUME NEW x \in tx[u].written, NEW y \in Left(t), y.id = x.id
          PROVE  y.symbol = x.symbol
      <4>1. y \in rows
        BY <3>1 DEF Left, View, Database, Apart, Touched
      <4> QED
        BY <2>2, <3>1, <4>1 DEF Replaces
    <3>2. ASSUME NEW x \in tx[u].written, ~Adding(u)
          PROVE  \E y \in Left(t) : y.id = x.id /\ y.symbol = x.symbol
      <4>1. PICK y \in rows : y.id = x.id /\ y.symbol = x.symbol
        BY <2>2, <3>2 DEF Replaces
      <4> QED
        BY <2>4, <4>1 DEF IdsOf, Touched
    <3> QED
      BY <1>1, <2>1, <3>1, <3>2 DEF Replaces, Adding
  <2>8. GivenOut(u)'
    BY <1>1, <2>1, <2>2 DEF GivenOut
  <2> QED
    BY <2>1, <2>5, <2>6, <2>7, <2>8
<1>7. ASSUME NEW u \in Requests, NEW v \in Requests, u # v
      PROVE  Apart(u, v)'
  <2>1. CASE u = t \/ v = t
    BY <1>2, <2>1 DEF Apart
  <2>2. CASE u # t /\ v # t
    BY <1>6, <1>7, <2>2 DEF Apart, Database
  <2> QED
    BY <2>1, <2>2
<1> QED
  BY <1>1, <1>3, <1>4, <1>5, <1>6, <1>7 DEF Database, Distinct

LEMMA StepDatabase ==
    ASSUME Typing, Typing', Database, NEW t \in Requests,
           Start(t) \/ Step(t) \/ DatabaseFails(t), OthersKept(t)
    PROVE  Database'
<1>1. CASE Start(t)
  <2>1. tx'[t] = NoTx /\ doomed'[t] = {} /\ UNCHANGED <<rows, lastId>>
    BY <1>1 DEF Start, Typing, Stage
  <2> QED
    BY <2>1, ResetDatabase DEF NoTx
<1>2. CASE Fail(t)
  <2>1. tx'[t] = NoTx /\ doomed'[t] = {} /\ UNCHANGED <<rows, lastId>>
    BY <1>2 DEF Fail, Typing, TypeOK
  <2> QED
    BY <2>1, ResetDatabase DEF NoTx
<1>3. CASE UNCHANGED <<rows, lastId, kind, tx, doomed>>
  BY <1>3, QuietDatabase
<1>4. CASE InsertRefused(t)
  <2>1. CASE kind[t] = "add"
    BY <1>2, <1>4, <2>1 DEF InsertRefused
  <2>2. CASE kind[t] # "add"
    <3>0. /\ tx'[t] = [NoTx EXCEPT !.mode = "broken"] /\ UNCHANGED <<rows, lastId>>
          /\ doomed'[t] = doomed[t]
      BY <1>4, <2>2 DEF InsertRefused, Typing, TypeOK
    <3>1. tx'[t].written = {} /\ tx'[t].deleted = {}
      BY <3>0 DEF NoTx
    <3>2. doomed[t] = {}
      BY <1>4 DEF InsertRefused, Typing, Stage, Database, OwnWork, Adding, Removing
    <3> QED
      BY <3>0, <3>1, <3>2, ResetDatabase
  <2> QED
    BY <2>1, <2>2
<1>5. CASE Lose(t)
  <2>1. tx'[t] = NoTx /\ doomed'[t] = {} /\ UNCHANGED <<rows, lastId>>
    BY <1>5 DEF CommitLost, DatabaseFails, Lose, Typing, TypeOK
  <2> QED
    BY <2>1, ResetDatabase DEF NoTx
<1>6. CASE Find(t)
  BY <1>6, FlushDatabase DEF Find
<1>7. CASE FindNothing(t)
  BY <1>2, <1>7, FlushDatabase DEF FindNothing
<1> QED
  BY <1>1, <1>2, <1>3, <1>4, <1>5, <1>6, <1>7, InsertDatabase, UpdateDatabase, CommitDatabase
     DEF Step, AddStep, Broken, Count, Duplicate, PriceOk, PriceRefused, PriceRaises, Refuse,
         Check, Read, WriteFails, Answer, CommitLost, DatabaseFails

LEMMA InvHolds == Spec => []Inv
<1>1. Init => Inv
  BY InitTyping, InitDatabase DEF Inv
<1>2. Inv /\ UNCHANGED vars => Inv'
  <2> SUFFICES ASSUME Inv, UNCHANGED vars
               PROVE  Inv'
    OBVIOUS
  <2>1. Typing'
    BY DEF Inv, Typing, TypeOK, Stage, Adding, Removing, Ended, NoTx, vars
  <2>2. \A t \in Requests : View(t)' = View(t) /\ Touched(t)' = Touched(t)
    BY DEF View, Touched, vars
  <2>3. Database'
    BY <2>2 DEF Inv, Database, Distinct, OwnWork, Replaces, GivenOut, Apart, Adding, Removing, vars
  <2> QED
    BY <2>1, <2>3 DEF Inv
<1>3. Inv /\ [Next]_vars => Inv'
  BY <1>2, StepTyping, StepDatabase DEF Inv, Next
<1> QED
  BY <1>1, <1>3, PTL DEF Spec

(* No symbol and no id is in the table twice, whatever requests run together,  *)
(* and however their counts, lookups, prices and inserts interleave            *)
(* (services/watchlist/service.py:133-185), under either database.             *)
THEOREM WatchlistSymbolsUnique == Spec => []SymbolsUnique
<1>1. Inv => SymbolsUnique
  BY DEF Inv, Database, Distinct, SymbolsUnique
<1> QED
  BY InvHolds, <1>1, PTL

-----------------------------------------------------------------------------
(* What a commit changes, and what an answer has promised.                  *)

LEMMA OnlyCommitWrites ==
    ASSUME NEW t \in Requests, Start(t) \/ Step(t) \/ DatabaseFails(t), rows' # rows
    PROVE  Commit(t)
  BY DEF Start, Step, AddStep, Broken, Count, Duplicate, PriceOk, PriceRefused, PriceRaises,
         Refuse, Insert, InsertRefused, Find, FindNothing, Check, Update, Read, WriteFails,
         Answer, CommitLost, DatabaseFails, Lose, Fail

LEMMA CommitChanges ==
    ASSUME Inv, NEW t \in Requests, Commit(t)
    PROVE  /\ Adding(t) \/ SymbolsOf(rows') \subseteq SymbolsOf(rows)
           /\ Removing(t) \/ SymbolsOf(rows) \subseteq SymbolsOf(rows')
<1>1. rows' = Left(t) /\ OwnWork(t) /\ Replaces(t)
  BY DEF Commit, Inv, Database
<1>2. ASSUME ~Adding(t), NEW x \in Left(t)
      PROVE  \E y \in rows : y.symbol = x.symbol
  BY <1>1, <1>2 DEF Left, View, Replaces
<1>3. ASSUME ~Removing(t), NEW x \in rows
      PROVE  \E y \in Left(t) : y.symbol = x.symbol
  <2>1. Left(t) = View(t) /\ Touched(t) = tx[t].written
    BY <1>1, <1>3 DEF OwnWork, Left, Touched, IdsOf
  <2>2. CASE x.id \in IdsOf(Touched(t))
    <3>1. PICK w \in tx[t].written : w.id = x.id
      BY <2>1, <2>2 DEF IdsOf
    <3>2. w \in Left(t) /\ x.symbol = w.symbol
      BY <1>1, <2>1, <3>1 DEF View, Replaces
    <3> QED
      BY <3>2
  <2>3. CASE x.id \notin IdsOf(Touched(t))
    BY <2>1, <2>3 DEF View
  <2> QED
    BY <2>2, <2>3
<1> QED
  BY <1>1, <1>2, <1>3 DEF SymbolsOf

(* The table changes only when a request that was answered with success        *)
(* commits; a removal brings no symbol in, an add drops none, a reorder does   *)
(* neither (api/deps.py:41-54).                                                *)
THEOREM WatchlistAllOrNothing == Spec => AllOrNothing
<1> DEFINE Fits == rows' # rows =>
              \E t \in Requests :
                 /\ pc[t] = "commit" /\ pc'[t] = "done"
                 /\ Adding(t) \/ SymbolsOf(rows') \subseteq SymbolsOf(rows)
                 /\ Removing(t) \/ SymbolsOf(rows) \subseteq SymbolsOf(rows')
<1>1. Inv /\ [Next]_vars => Fits
  <2> SUFFICES ASSUME Inv, [Next]_vars, rows' # rows
               PROVE  Fits
    OBVIOUS
  <2>1. PICK t \in Requests : Start(t) \/ Step(t) \/ DatabaseFails(t)
    BY DEF Next, vars
  <2>2. Commit(t)
    BY <2>1, OnlyCommitWrites
  <2>3. pc[t] = "commit" /\ pc'[t] = "done"
    BY <2>2 DEF Commit, GoTo, Inv, Typing, TypeOK
  <2> QED
    BY <2>2, <2>3, CommitChanges
<1>2. Inv /\ [Next]_vars => [Fits]_vars
  BY <1>1
<1> QED
  BY InvHolds, <1>2, PTL DEF Spec, AllOrNothing

\* Under SQLite a transaction writes only while no other one is open.
LEMMA Alone ==
    ASSUME SingleWriter, NEW t \in Requests, ~Blocked(t),
           \/ pc[t] \in {"insert", "update"}
           \/ pc[t] \in {"find", "commit"} /\ doomed[t] # {}
    PROVE  \A u \in Requests \ {t} : tx[u].mode # "open"
  BY DEF Blocked, WaitsFor

\* While one transaction is open, the commit of another changes nothing.
LEMMA IdleCommit ==
    ASSUME SingleWriter, Inv, OneWriter, NEW t \in Requests, NEW u \in Requests \ {t},
           Commit(t), tx[u].mode = "open"
    PROVE  rows' = rows
<1>1. tx[t].mode # "open" /\ rows' = Left(t) /\ ~Blocked(t) /\ pc[t] = "commit"
  BY DEF OneWriter, Commit
<1>2. doomed[t] = {}
  BY <1>1, Alone
<1>3. Touched(t) = {} /\ tx[t].written = {}
  BY <1>1 DEF Inv, Database, OwnWork, Touched
<1> QED
  BY <1>1, <1>2, <1>3 DEF Left, View, IdsOf

LEMMA ReportedKept ==
    ASSUME SingleWriter, Inv, OneWriter, NEW t \in Requests,
           Start(t) \/ Step(t) \/ DatabaseFails(t), OthersKept(t)
    PROVE  \A u \in Requests \ {t} : Reported(u)'
<1> SUFFICES ASSUME NEW u \in Requests \ {t}
             PROVE  Reported(u)'
  OBVIOUS
<1>1. Reported(u)
  BY DEF OneWriter
<1>2. tx[u].mode = "open" => rows' = rows
  BY OnlyCommitWrites, IdleCommit
<1>3. tx[u].mode = "open" => (Taken(u)' <=> Taken(u))
  BY <1>2 DEF OthersKept, Taken, View, Touched
<1> QED
  BY <1>1, <1>3 DEF OthersKept, Reported, Adding

LEMMA ReportedOwn ==
    ASSUME Inv, NEW t \in Requests, Reported(t), Start(t) \/ Step(t) \/ DatabaseFails(t)
    PROVE  Reported(t)'
<1>0. /\ Stage(t) /\ OwnWork(t) /\ pc = [u \in Requests |-> pc[u]] /\ tx = [u \in Requests |-> tx[u]]
      /\ report = [u \in Requests |-> report[u]] /\ kind = [u \in Requests |-> kind[u]]
      /\ doomed = [u \in Requests |-> doomed[u]]
  BY DEF Inv, Typing, TypeOK, Database, Ended
<1>1. CASE Start(t)
  <2>1. tx'[t] = NoTx /\ report'[t] = {} /\ pc'[t] \notin {"price", "insert"}
    <3>1. PICK w \in Work : pc' = [pc EXCEPT ![t] = FirstStep(w)] /\ w.kind \in Kinds
      BY <1>1, WatchlistAssumption DEF Start
    <3>2. FirstStep(w) \notin {"price", "insert"}
      BY <3>1 DEF FirstStep, Kinds
    <3> QED
      BY <1>0, <1>1, <3>1, <3>2 DEF Start, Stage
  <2> QED
    BY <2>1 DEF Reported, NoTx
<1>2. CASE Fail(t)
  BY <1>0, <1>2 DEF Fail, GoTo, Reported, NoTx, Ended
<1>3. CASE /\ pc'[t] \notin {"price", "insert"} \cup Ended /\ kind' = kind
           /\ pc[t] \notin Ended /\ tx'[t] = tx[t] /\ report'[t] = report[t]
  BY <1>3 DEF Reported, Adding
<1>4. CASE /\ pc[t] \in {"count", "dup", "price"} /\ Refuse(t)
  BY <1>0, <1>2, <1>3, <1>4 DEF Refuse, Advance, GoTo, Ended
<1>5. CASE Duplicate(t) \/ PriceOk(t)
  <2>1. CASE Refuse(t) /\ pc[t] = "dup"
    BY <1>4, <2>1
  <2>2. CASE /\ UNCHANGED <<rows, kind, todo, tx, report>> /\ pc[t] \in {"dup", "price"}
             /\ pc[t] = "dup" => ~Taken(t)
    BY <2>2 DEF Reported, Adding, Taken, View, Touched, Ended
  <2> QED
    BY <1>5, <2>1, <2>2 DEF Duplicate, PriceOk
<1>6. CASE Insert(t)
  <2>1. PICK i \in 1..(lastId + 1) :
           tx' = [tx EXCEPT ![t] = Wrote(t, tx[t].written \cup {NewRow(t, i)})]
    BY <1>6 DEF Insert
  <2>2. /\ tx'[t].written = tx[t].written \cup {NewRow(t, i)} /\ tx'[t].mode = "open"
        /\ NewRow(t, i).symbol = Head(todo[t])
    BY <1>0, <2>1, WroteFacts DEF NewRow, Inv
  <2> DEFINE n == NewRow(t, i)
  <2> HIDE DEF n
  <2>3. report'[t] = report[t] \cup {Head(todo[t])} /\ pc'[t] \in {"answer", "count"}
    BY <1>0, <1>6 DEF Insert, Advance, GoTo
  <2>4. Adding(t) => report[t] \subseteq SymbolsOf(tx[t].written)
    BY <1>0, <1>6 DEF Reported, Insert, Ended, OwnWork
  <2>5. SymbolsOf(tx'[t].written) = SymbolsOf(tx[t].written) \cup {Head(todo[t])}
    BY <2>2 DEF SymbolsOf
  <2>6. kind' = kind
    BY <1>6 DEF Insert
  <2> QED
    BY <2>2, <2>3, <2>4, <2>5, <2>6 DEF Reported, Adding
<1>7. CASE InsertRefused(t) /\ kind[t] # "add"
  <2>1. report'[t] = report[t] /\ tx'[t].mode = "broken" /\ kind' = kind
    BY <1>0, <1>7 DEF InsertRefused, NoTx
  <2>2. Adding(t) => report[t] = {}
    <3>1. tx[t].mode # "open" => tx[t].written = {}
      BY <1>0 DEF OwnWork
    <3>2. SymbolsOf({}) = {}
      BY DEF SymbolsOf
    <3> QED
      BY <1>7, <3>1, <3>2 DEF InsertRefused, Reported, Ended
  <2> QED
    BY <2>1, <2>2 DEF Reported, Adding
<1>8. CASE Find(t) \/ FindNothing(t) \/ Update(t) \/ Check(t) \/ Read(t)
  <2>1. ~Adding(t)
    BY <1>0, <1>8 DEF Stage, Find, FindNothing, Update, Check, Read, Adding, Removing
  <2>2. kind' = kind
    BY <1>8 DEF Find, FindNothing, Update, Check, Read, Fail
  <2> QED
    BY <2>1, <2>2 DEF Reported, Adding
<1>9. CASE Commit(t) \/ Lose(t)
  BY <1>0, <1>9 DEF Commit, CommitLost, DatabaseFails, Lose, GoTo, Reported, NoTx, Ended
<1>10. CASE Count(t) /\ pc' = [pc EXCEPT ![t] = "dup"]
  <2>1. CASE Refuse(t)
    BY <1>4, <1>10, <2>1 DEF Count
  <2>2. CASE ~Refuse(t)
    BY <1>0, <1>3, <1>10, <2>2 DEF Count, Ended
  <2> QED
    BY <2>1, <2>2
<1>11. CASE Answer(t)
  BY <1>0, <1>3, <1>11 DEF Answer, GoTo, Ended
<1> QED
  BY <1>1, <1>2, <1>4, <1>5, <1>6, <1>7, <1>8, <1>9, <1>10, <1>11
     DEF Step, AddStep, Broken, Count, PriceRefused, PriceRaises, InsertRefused, WriteFails,
         CommitLost, DatabaseFails, GoTo

LEMMA ModesKept ==
    ASSUME SingleWriter, Inv, OneWriter, NEW t \in Requests,
           Start(t) \/ Step(t) \/ DatabaseFails(t), OthersKept(t)
    PROVE  \A u, v \in Requests : tx'[u].mode = "open" /\ tx'[v].mode = "open" => u = v
<1>0. tx = [u \in Requests |-> tx[u]] /\ Stage(t)
  BY DEF Inv, Typing, TypeOK
<1>1. \/ tx'[t].mode # "open"
      \/ tx'[t].mode = tx[t].mode
      \/ \A u \in Requests \ {t} : tx[u].mode # "open"
  <2>1. CASE Insert(t) \/ Update(t)
    BY <2>1, Alone DEF Insert, Update
  <2>2. CASE (Find(t) \/ FindNothing(t)) /\ doomed[t] # {}
    BY <2>2, Alone DEF Find, FindNothing
  <2>3. CASE UNCHANGED tx
    BY <2>3
  <2>4. CASE tx'[t] = NoTx \/ tx'[t] = [NoTx EXCEPT !.mode = "broken"]
    BY <2>4 DEF NoTx
  <2>5. CASE (Find(t) \/ FindNothing(t)) /\ doomed[t] = {}
    BY <1>0, <2>4, <2>5 DEF Find, FindNothing, Flushed, Fail
  <2> QED
    BY <1>0, <2>1, <2>2, <2>3, <2>4, <2>5
       DEF Start, Step, AddStep, Broken, Count, Duplicate, PriceOk, PriceRefused, PriceRaises,
           Refuse, InsertRefused, Check, Read, WriteFails, Answer, Commit, CommitLost,
           DatabaseFails, Lose, Fail
<1> QED
  BY <1>1 DEF OthersKept, OneWriter

LEMMA OneWriterHolds == SingleWriter => (Spec => []OneWriter)
<1> SUFFICES ASSUME SingleWriter
             PROVE  Spec => []OneWriter
  OBVIOUS
<1>1. Init => OneWriter
  BY DEF Init, OneWriter, Reported, Adding, NoTx
<1>2. Inv /\ OneWriter /\ [Next]_vars => OneWriter'
  <2> SUFFICES ASSUME Inv, OneWriter, [Next]_vars
               PROVE  OneWriter'
    OBVIOUS
  <2>1. CASE UNCHANGED vars
    BY <2>1 DEF OneWriter, Reported, Adding, Taken, View, Touched, vars
  <2>2. CASE Next
    <3>1. PICK t \in Requests : Start(t) \/ Step(t) \/ DatabaseFails(t)
      BY <2>2 DEF Next
    <3>2. OthersKept(t)
      BY <3>1, StepTyping DEF Inv
    <3>3. Reported(t)'
      BY <3>1, ReportedOwn DEF OneWriter
    <3> QED
      BY <3>1, <3>2, <3>3, ReportedKept, ModesKept DEF OneWriter
  <2> QED
    BY <2>1, <2>2
<1> QED
  BY InvHolds, <1>1, <1>2, PTL DEF Spec

(* With one writer at a time (SQLite), what a request reports as added is in   *)
(* its transaction until its commit, and in the table once that has succeeded: *)
(* a symbol of a confirmed batch that is refused or skipped costs no other     *)
(* symbol (services/assistant/tools.py:602-619, api/deps.py:41-54).            *)
THEOREM WatchlistAddedReachesCommit == SingleWriter => (Spec => AddedReachesCommit)
<1> SUFFICES ASSUME SingleWriter
             PROVE  Spec => AddedReachesCommit
  OBVIOUS
<1> DEFINE Held(t) == SymbolsOf(IF pc'[t] = "done" THEN rows' ELSE tx[t].written)
           Kept == \A t \in Requests : pc[t] = "commit" /\ pc'[t] # "commit" /\ Adding(t)
                              => report[t] \subseteq Held(t)
<1>1. Inv /\ OneWriter /\ [Next]_vars => [Kept]_vars
  <2> SUFFICES ASSUME Inv, OneWriter, Next, NEW t \in Requests,
                      pc[t] = "commit", pc'[t] # "commit", Adding(t)
               PROVE  report[t] \subseteq Held(t)
    BY DEF vars
  <2>1. PICK u \in Requests : Start(u) \/ Step(u) \/ DatabaseFails(u)
    BY DEF Next
  <2>2. u = t
    BY <2>1, StepTyping DEF Inv, OthersKept
  <2>3. Commit(t) \/ Lose(t)
    BY <2>1, <2>2 DEF Start, Step, AddStep, Broken, Count, Duplicate, PriceOk, PriceRefused,
       PriceRaises, Insert, InsertRefused, Find, FindNothing, Check, Update, Read, WriteFails,
       Answer, CommitLost, DatabaseFails
  <2>4. /\ doomed[t] = {} /\ tx[t].deleted = {} /\ Reported(t)
        /\ tx[t].mode = "open" \/ tx[t].written = {}
    BY DEF Inv, Database, OwnWork, OneWriter, Adding, Removing
  <2>5. report[t] \subseteq SymbolsOf(tx[t].written)
    BY <2>4 DEF Reported, Ended
  <2>6. CASE Commit(t)
    <3>1. rows' = View(t)
      BY <2>4, <2>6 DEF Commit, Left, IdsOf
    <3> QED
      BY <2>5, <3>1 DEF View, SymbolsOf
  <2>7. CASE Lose(t)
    <3>1. pc'[t] = "lost"
      BY <2>7 DEF Lose, GoTo, Inv, Typing, TypeOK
    <3> QED
      BY <2>5, <3>1
  <2> QED
    BY <2>3, <2>6, <2>7
<1> QED
  BY InvHolds, OneWriterHolds, <1>1, PTL DEF Spec, AddedReachesCommit

-----------------------------------------------------------------------------
(* The cap.  Under SQLite a request inserts on a stale count once at most:    *)
(* from its first insert on it is the only writer, so its later counts are    *)
(* exact.  What the table holds beyond the cap is paid for by the requests    *)
(* that have added and ended: one row each, except for the first, which can   *)
(* but fill the table, for it counted rows that no other add had changed.     *)

Spent == {t \in Requests : Adding(t) /\ pc[t] = "done"}

\* t acts on the number of rows it has counted.
HasCounted(t) == pc[t] \in {"dup", "price", "insert"}

TableCapped ==
    \/ Spent = {} /\ Cardinality(rows) <= MaxItems
    \/ Spent # {} /\ Cardinality(rows) <= MaxItems + Cardinality(Spent) - 1

RequestCapped(t) ==
    Adding(t) =>
       /\ tx[t].mode # "open" /\ HasCounted(t) /\ Spent = {} => Cardinality(rows) < MaxItems
       /\ tx[t].mode = "open" => Cardinality(View(t)) <= MaxItems + Cardinality(Spent)
       /\ tx[t].mode = "open" /\ HasCounted(t) => Cardinality(View(t)) < MaxItems

Capped == TableCapped /\ \A t \in Requests : RequestCapped(t)

LEMMA ViewFinite ==
    ASSUME Typing, NEW t \in Requests
    PROVE  /\ IsFiniteSet(rows) /\ Cardinality(rows) \in Nat
           /\ IsFiniteSet(View(t)) /\ Cardinality(View(t)) \in Nat
<1>1. IsFiniteSet(rows) /\ IsFiniteSet(tx[t].written)
  BY DEF Typing, Stage
<1>2. IsFiniteSet({x \in rows : x.id \notin IdsOf(Touched(t))})
  BY <1>1, FS_Subset
<1>3. IsFiniteSet(View(t))
  BY <1>1, <1>2, FS_Union DEF View
<1> QED
  BY <1>1, <1>3, FS_CardinalityType

LEMMA SpentFinite ==
    ASSUME IsFiniteSet(Requests)
    PROVE  /\ IsFiniteSet(Spent) /\ Cardinality(Spent) \in Nat
           /\ Spent = {} => Cardinality(Spent) = 0
           /\ Cardinality(Spent) <= Cardinality(Requests)
<1>1. Spent \in SUBSET Requests
  BY DEF Spent
<1>2. IsFiniteSet(Spent) /\ Cardinality(Spent) <= Cardinality(Requests)
  BY <1>1, FS_Subset
<1> QED
  BY <1>2, FS_CardinalityType, FS_EmptySet

\* Before its first write a request sees the committed rows.
LEMMA UnopenedView ==
    ASSUME Inv, NEW t \in Requests, tx[t].mode # "open"
    PROVE  View(t) = rows
<1>1. tx[t].written = {} /\ tx[t].deleted = {}
  BY DEF Inv, Database, OwnWork
<1> QED
  BY <1>1 DEF View, Touched, IdsOf

\* A request that does not add sees no more rows than there are: each row it
\* has written stands for the committed row with that id.
LEMMA NoMoreSeen ==
    ASSUME Inv, NEW t \in Requests, ~Adding(t)
    PROVE  Cardinality(View(t)) <= Cardinality(rows)
<1> DEFINE f == [x \in View(t) |-> CHOOSE y \in rows : y.id = x.id]
<1>1. \A x \in View(t) : \E y \in rows : y.id = x.id
  BY DEF Inv, Database, Replaces, View
<1>2. \A x \in View(t) : f[x] \in rows /\ f[x].id = x.id
  BY <1>1
<1>3. \A x, y \in View(t) : x.id = y.id => x = y
  BY DEF Inv, Database, Distinct
<1>4. f \in [View(t) -> rows]
  BY <1>2
<1>5. \A x, y \in View(t) : f[x] = f[y] => x = y
  BY <1>2, <1>3
<1> HIDE DEF f
<1>6. f \in Injection(View(t), rows)
  BY <1>4, <1>5 DEF Injection, IsInjective
<1> QED
  BY <1>6, FS_Injection, ViewFinite DEF Inv

\* A commit makes the table of what its request sees, or less.
LEMMA CommitSize ==
    ASSUME Inv, NEW t \in Requests, Commit(t)
    PROVE  /\ IsFiniteSet(rows') /\ Cardinality(rows') \in Nat
           /\ Cardinality(rows') <= Cardinality(View(t))
<1>1. rows' \in SUBSET View(t)
  BY DEF Commit, Left
<1> QED
  BY <1>1, ViewFinite, FS_Subset, FS_CardinalityType DEF Inv

(* Requests are spent by their commits only, each once. *)
LEMMA SpentMoves ==
    ASSUME Inv, NEW t \in Requests,
           Start(t) \/ Step(t) \/ DatabaseFails(t), OthersKept(t)
    PROVE  \/ Commit(t) /\ Adding(t) /\ t \notin Spent /\ Spent' = Spent \cup {t}
           \/ ~(Commit(t) /\ Adding(t)) /\ Spent' = Spent
<1>1. \A u \in Requests \ {t} : u \in Spent' <=> u \in Spent
  BY DEF OthersKept, Spent, Adding
<1>2. pc[t] # "done"
  BY DEF Start, Step, AddStep, Broken, Count, Duplicate, PriceOk, PriceRefused, PriceRaises,
         Insert, InsertRefused, Find, FindNothing, Check, Update, Read, WriteFails, Answer,
         Commit, CommitLost, DatabaseFails, Lose
<1>3. CASE Commit(t)
  <2>1. pc'[t] = "done" /\ kind' = kind
    BY <1>3 DEF Commit, GoTo, Inv, Typing, TypeOK
  <2> QED
    BY <1>1, <1>2, <1>3, <2>1 DEF Spent, Adding
<1>4. CASE ~Commit(t)
  <2>1. pc'[t] # "done"
    <3>1. pc = [u \in Requests |-> pc[u]]
      BY DEF Inv, Typing, TypeOK
    <3>2. CASE Start(t)
      <4>1. PICK w \in Work : pc' = [pc EXCEPT ![t] = FirstStep(w)] /\ w.kind \in Kinds
        BY <3>2, WatchlistAssumption DEF Start
      <4>2. FirstStep(w) # "done"
        BY <4>1 DEF FirstStep, Kinds
      <4> QED
        BY <3>1, <4>1, <4>2
    <3>3. CASE Step(t) \/ DatabaseFails(t)
      BY <1>4, <3>1, <3>3
         DEF Step, AddStep, Broken, Count, Duplicate, PriceOk, PriceRefused, PriceRaises,
             Refuse, Insert, InsertRefused, Find, FindNothing, Check, Update, Read, WriteFails,
             Answer, CommitLost, DatabaseFails, Lose, Fail, GoTo, Advance
    <3> QED
      BY <3>2, <3>3
  <2> QED
    BY <1>1, <1>2, <1>4, <2>1 DEF Spent
<1> QED
  BY <1>3, <1>4

LEMMA SpentGrows ==
    ASSUME IsFiniteSet(Requests), Inv, NEW t \in Requests,
           Start(t) \/ Step(t) \/ DatabaseFails(t), OthersKept(t)
    PROVE  /\ Cardinality(Spent) \in Nat /\ Cardinality(Spent') \in Nat
           /\ Cardinality(Spent) <= Cardinality(Spent')
           /\ Spent' = {} => Spent = {}
           /\ Commit(t) /\ Adding(t) => Spent' # {} /\ Cardinality(Spent') = Cardinality(Spent) + 1
           /\ ~(Commit(t) /\ Adding(t)) => Spent' = Spent
<1>1. IsFiniteSet(Spent) /\ Cardinality(Spent) \in Nat
  BY SpentFinite
<1>2. CASE Commit(t) /\ Adding(t)
  <2>1. t \notin Spent /\ Spent' = Spent \cup {t}
    BY <1>2, SpentMoves
  <2>2. Cardinality(Spent') = Cardinality(Spent) + 1
    BY <1>1, <2>1, FS_AddElement
  <2> QED
    BY <1>1, <1>2, <2>1, <2>2
<1>3. CASE ~(Commit(t) /\ Adding(t))
  BY <1>1, <1>3, SpentMoves
<1> QED
  BY <1>2, <1>3

LEMMA TableStaysCapped ==
    ASSUME IsFiniteSet(Requests), Inv, Capped,
           NEW t \in Requests,
           Start(t) \/ Step(t) \/ DatabaseFails(t), OthersKept(t)
    PROVE  TableCapped'
<1>0. /\ MaxItems \in Nat /\ Cardinality(rows) \in Nat /\ Cardinality(View(t)) \in Nat
      /\ Cardinality(Spent) \in Nat /\ (Spent = {} => Cardinality(Spent) = 0)
  BY WatchlistAssumption, ViewFinite, SpentFinite DEF Inv
<1>1. CASE Commit(t) /\ Adding(t)
  <2>1. Cardinality(rows') \in Nat /\ Cardinality(rows') <= Cardinality(View(t))
    BY <1>1, CommitSize
  <2>2. Spent' # {} /\ Cardinality(Spent') = Cardinality(Spent) + 1
    BY <1>1, SpentGrows
  <2>3. Cardinality(View(t)) <= MaxItems + Cardinality(Spent)
    <3>1. CASE tx[t].mode = "open"
      BY <1>1, <3>1 DEF Capped, RequestCapped
    <3>2. CASE tx[t].mode # "open"
      BY <1>0, <3>2, UnopenedView DEF Capped, TableCapped
    <3> QED
      BY <3>1, <3>2
  <2> QED
    BY <1>0, <2>1, <2>2, <2>3 DEF TableCapped
<1>2. CASE Commit(t) /\ ~Adding(t)
  <2>1. Cardinality(rows') \in Nat /\ Cardinality(rows') <= Cardinality(rows)
    BY <1>0, <1>2, CommitSize, NoMoreSeen
  <2>2. Spent' = Spent
    BY <1>2, SpentGrows
  <2> QED
    BY <1>0, <2>1, <2>2 DEF Capped, TableCapped
<1>3. CASE ~Commit(t)
  <2>1. rows' = rows /\ Spent' = Spent
    BY <1>3, OnlyCommitWrites, SpentGrows
  <2> QED
    BY <2>1 DEF Capped, TableCapped
<1> QED
  BY <1>1, <1>2, <1>3

\* A request that does not step: what it has counted holds until another add ends.
LEMMA OthersStayCapped ==
    ASSUME SingleWriter, IsFiniteSet(Requests), Inv, OneWriter, Capped,
           NEW t \in Requests,
           Start(t) \/ Step(t) \/ DatabaseFails(t), OthersKept(t),
           NEW u \in Requests \ {t}
    PROVE  RequestCapped(u)'
<1>0. /\ MaxItems \in Nat /\ Cardinality(rows) \in Nat /\ Cardinality(View(u)) \in Nat
      /\ Cardinality(Spent) \in Nat /\ Cardinality(Spent') \in Nat
      /\ Cardinality(Spent) <= Cardinality(Spent') /\ (Spent' = {} => Spent = {})
  BY WatchlistAssumption, ViewFinite, SpentGrows DEF Inv
<1>1. pc'[u] = pc[u] /\ tx'[u] = tx[u] /\ kind'[u] = kind[u] /\ RequestCapped(u)
  BY DEF OthersKept, Capped
<1>2. CASE tx[u].mode = "open"
  <2>1. rows' = rows
    BY <1>2, OnlyCommitWrites, IdleCommit
  <2>2. View(u)' = View(u)
    BY <1>1, <2>1 DEF View, Touched
  <2> QED
    BY <1>0, <1>1, <1>2, <2>2 DEF RequestCapped, HasCounted, Adding
<1>3. CASE tx[u].mode # "open"
  <2>1. Spent' = {} => Cardinality(rows') \in Nat /\ Cardinality(rows') <= Cardinality(rows)
    <3>1. CASE Commit(t) /\ Adding(t)
      BY <3>1, SpentGrows
    <3>2. CASE Commit(t) /\ ~Adding(t)
      <4>1. Cardinality(View(t)) \in Nat
        BY ViewFinite DEF Inv
      <4> QED
        BY <1>0, <3>2, <4>1, CommitSize, NoMoreSeen
    <3>3. CASE ~Commit(t)
      BY <1>0, <3>3, OnlyCommitWrites
    <3> QED
      BY <3>1, <3>2, <3>3
  <2> QED
    BY <1>0, <1>1, <1>3, <2>1 DEF RequestCapped, HasCounted, Adding
<1> QED
  BY <1>2, <1>3

\* The insert adds one row to what t sees.
LEMMA InsertCapped ==
    ASSUME IsFiniteSet(Requests), Inv, Inv', Capped,
           NEW t \in Requests, Insert(t), OthersKept(t)
    PROVE  RequestCapped(t)'
<1>1. PICK i \in 1..(lastId + 1) :
         tx' = [tx EXCEPT ![t] = Wrote(t, tx[t].written \cup {NewRow(t, i)})]
  BY DEF Insert
<1> DEFINE n == NewRow(t, i)
<1>2. /\ tx'[t].written = tx[t].written \cup {n} /\ tx'[t].deleted = tx[t].deleted
      /\ tx'[t].mode = "open" /\ rows' = rows /\ kind' = kind
  BY <1>1, WroteFacts DEF Insert, Inv, Typing, TypeOK
<1> HIDE DEF n
<1>3. View(t)' \subseteq View(t) \cup {n}
  <2>1. IdsOf(Touched(t)) \subseteq IdsOf(Touched(t))'
    BY <1>2 DEF Touched, IdsOf
  <2> QED
    BY <1>2, <2>1 DEF View
<1>4. IsFiniteSet(View(t)) /\ Cardinality(View(t)) \in Nat
  BY ViewFinite DEF Inv
<1>5. Cardinality(View(t)') \in Nat /\ Cardinality(View(t)') <= Cardinality(View(t)) + 1
  <2> DEFINE S == View(t) \cup {n}
  <2>1. IsFiniteSet(S) /\ Cardinality(S) \in {Cardinality(View(t)), Cardinality(View(t)) + 1}
    <3>1. /\ IsFiniteSet(S)
          /\ Cardinality(S) = IF n \in View(t) THEN Cardinality(View(t)) ELSE Cardinality(View(t)) + 1
      BY <1>4, FS_AddElement
    <3> QED
      BY <3>1
  <2>2. View(t)' \in SUBSET S
    BY <1>3
  <2> HIDE DEF S
  <2>3. IsFiniteSet(View(t)') /\ Cardinality(View(t)') <= Cardinality(S)
    BY <2>1, <2>2, FS_Subset
  <2>4. Cardinality(View(t)') \in Nat
    BY <2>3, FS_CardinalityType
  <2> QED
    BY <1>4, <2>1, <2>3, <2>4
<1>6. /\ Adding(t) /\ HasCounted(t) /\ RequestCapped(t) /\ TableCapped
      /\ MaxItems \in Nat /\ Cardinality(Spent) \in Nat
      /\ (Spent = {} => Cardinality(Spent) = 0) /\ Cardinality(rows) \in Nat
  BY WatchlistAssumption, SpentFinite, ViewFinite
     DEF Insert, Inv, Typing, Stage, Capped, HasCounted
<1>7. Spent' = Spent /\ ~HasCounted(t)'
  <2>1. ~Commit(t)
    BY DEF Insert, Commit
  <2>2. pc'[t] \in {"answer", "count"}
    BY DEF Insert, Advance, GoTo, Inv, Typing, TypeOK
  <2> QED
    BY <2>1, <2>2, SpentGrows DEF Step, AddStep, HasCounted
<1>8. Cardinality(View(t)) + 1 <= MaxItems + Cardinality(Spent)
  <2>1. CASE tx[t].mode = "open"
    BY <1>4, <1>6, <2>1 DEF RequestCapped
  <2>2. CASE tx[t].mode # "open"
    <3>1. View(t) = rows
      BY <2>2, UnopenedView
    <3>2. CASE Spent = {}
      BY <1>6, <2>2, <3>1, <3>2 DEF RequestCapped
    <3>3. CASE Spent # {}
      BY <1>6, <3>1, <3>3 DEF TableCapped
    <3> QED
      BY <3>2, <3>3
  <2> QED
    BY <2>1, <2>2
<1> QED
  BY <1>2, <1>4, <1>5, <1>6, <1>7, <1>8 DEF RequestCapped

\* The request that steps.
LEMMA OwnStaysCapped ==
    ASSUME IsFiniteSet(Requests), Inv, Inv', Capped,
           NEW t \in Requests,
           Start(t) \/ Step(t) \/ DatabaseFails(t), OthersKept(t)
    PROVE  RequestCapped(t)'
<1>0. /\ RequestCapped(t) /\ Stage(t)
      /\ pc = [u \in Requests |-> pc[u]] /\ tx = [u \in Requests |-> tx[u]]
      /\ kind = [u \in Requests |-> kind[u]]
      /\ MaxItems \in Nat /\ Cardinality(rows) \in Nat /\ Cardinality(View(t)) \in Nat
  BY WatchlistAssumption, ViewFinite DEF Capped, Inv, Typing, TypeOK
<1>1. CASE tx'[t].mode # "open" /\ ~HasCounted(t)'
  BY <1>1 DEF RequestCapped
<1>2. CASE Start(t)
  <2>1. tx'[t].mode # "open"
    BY <1>0, <1>2 DEF Start, Stage, NoTx
  <2>2. PICK w \in Work : pc' = [pc EXCEPT ![t] = FirstStep(w)] /\ w.kind \in Kinds
    BY <1>2, WatchlistAssumption DEF Start
  <2>3. FirstStep(w) \notin {"dup", "price", "insert"}
    BY <2>2 DEF FirstStep, Kinds
  <2> QED
    BY <1>0, <1>1, <2>1, <2>2, <2>3 DEF HasCounted
<1>3. CASE Fail(t)
  BY <1>0, <1>1, <1>3 DEF Fail, GoTo, NoTx, HasCounted
<1>4. CASE Commit(t) \/ Lose(t)
  BY <1>0, <1>1, <1>4 DEF Commit, CommitLost, DatabaseFails, Lose, GoTo, NoTx, HasCounted
\* The request goes on in the transaction it has, without a count or with the one it had.
<1>5. CASE /\ UNCHANGED <<rows, kind, tx>> /\ ~Commit(t)
           /\ HasCounted(t)' => HasCounted(t)
  <2>1. View(t)' = View(t) /\ Spent' = Spent
    BY <1>5, SpentGrows DEF View, Touched
  <2> QED
    BY <1>0, <1>5, <2>1 DEF RequestCapped, Adding
<1>6. CASE Refuse(t) /\ ~Commit(t)
  BY <1>0, <1>3, <1>5, <1>6 DEF Refuse, Advance, GoTo, HasCounted
<1>7. CASE Count(t)
  <2>1. CASE Refuse(t)
    BY <1>6, <1>7, <2>1 DEF Count, Commit
  <2>2. CASE /\ Cardinality(View(t)) < MaxItems
             /\ UNCHANGED <<rows, kind, tx>>
    <3>1. View(t)' = View(t)
      BY <2>2 DEF View, Touched
    <3>2. Spent' = Spent
      BY <1>7, SpentGrows DEF Count, Commit
    <3>3. tx[t].mode # "open" => View(t) = rows
      BY UnopenedView
    <3> QED
      BY <1>0, <2>2, <3>1, <3>2, <3>3 DEF RequestCapped, Adding
  <2> QED
    BY <1>0, <1>7, <2>1, <2>2 DEF Count
<1>8. CASE Insert(t)
  BY <1>8, InsertCapped
<1>9. CASE InsertRefused(t)
  <2>1. CASE kind[t] = "add"
    BY <1>3, <1>9, <2>1 DEF InsertRefused
  <2>2. CASE kind[t] # "add"
    BY <1>0, <1>1, <1>9, <2>2 DEF InsertRefused, Advance, GoTo, NoTx, HasCounted
  <2> QED
    BY <2>1, <2>2
<1>10. CASE Duplicate(t) \/ PriceOk(t) \/ Answer(t)
  BY <1>0, <1>5, <1>6, <1>10 DEF Duplicate, PriceOk, Answer, GoTo, Commit, HasCounted
<1>11. CASE Find(t) \/ FindNothing(t) \/ Check(t) \/ Update(t) \/ Read(t)
  <2>1. ~Adding(t) /\ kind' = kind
    BY <1>0, <1>11 DEF Stage, Find, FindNothing, Check, Update, Read, Fail, Adding, Removing
  <2> QED
    BY <2>1 DEF RequestCapped, Adding
<1> QED
  BY <1>2, <1>3, <1>4, <1>6, <1>7, <1>8, <1>9, <1>10, <1>11
     DEF Step, AddStep, Broken, PriceRefused, PriceRaises, WriteFails, Commit, CommitLost,
         DatabaseFails

LEMMA InitCapped == ASSUME \A q \in Tables : Len(q) <= MaxItems PROVE Init => Capped
<1> SUFFICES ASSUME Init
             PROVE  Capped
  OBVIOUS
<1>1. PICK q \in Tables : rows = Table(q)
  BY DEF Init
<1>2. Len(q) \in Nat /\ Len(q) <= MaxItems /\ IsFiniteSet(Table(q)) /\ MaxItems \in Nat
  BY TableFacts, WatchlistAssumption
<1>3. Cardinality(Table(q)) <= Len(q)
  <2> DEFINE f == [i \in 1..Len(q) |-> [id |-> i, symbol |-> q[i], order |-> i - 1]]
  <2>1. f \in Surjection(1..Len(q), Table(q))
    BY DEF Surjection, Table
  <2>2. IsFiniteSet(1..Len(q)) /\ Cardinality(1..Len(q)) = Len(q)
    <3>1. /\ IsFiniteSet(1..Len(q))
          /\ Cardinality(1..Len(q)) = IF 1 > Len(q) THEN 0 ELSE Len(q) - 1 + 1
      <4>1. 1 \in Int /\ Len(q) \in Int
        BY <1>2
      <4> QED
        BY <4>1, FS_Interval
    <3> QED
      BY <1>2, <3>1
  <2> HIDE DEF f
  <2> QED
    BY <2>1, <2>2, FS_Surjection
<1>4. Spent = {}
  BY DEF Init, Spent
<1>5. TableCapped
  BY <1>1, <1>2, <1>3, <1>4, FS_CardinalityType DEF TableCapped
<1>6. \A t \in Requests : RequestCapped(t)
  BY DEF Init, RequestCapped, Adding
<1> QED
  BY <1>5, <1>6 DEF Capped

LEMMA StepCapped ==
    ASSUME SingleWriter, IsFiniteSet(Requests)
    PROVE  Inv /\ Inv' /\ OneWriter /\ Capped /\ [Next]_vars => Capped'
<1> SUFFICES ASSUME Inv, Inv', OneWriter, Capped, [Next]_vars
             PROVE  Capped'
  OBVIOUS
<1>1. CASE UNCHANGED vars
  BY <1>1 DEF vars, Capped, TableCapped, RequestCapped, HasCounted, Spent, Adding, View, Touched
<1>2. CASE Next
  <2>1. PICK t \in Requests : Start(t) \/ Step(t) \/ DatabaseFails(t)
    BY <1>2 DEF Next
  <2>2. OthersKept(t)
    BY <2>1, StepTyping DEF Inv
  <2>3. TableCapped' /\ RequestCapped(t)'
    BY <2>1, <2>2, TableStaysCapped, OwnStaysCapped
  <2>4. \A u \in Requests \ {t} : RequestCapped(u)'
    BY <2>1, <2>2, OthersStayCapped
  <2> QED
    BY <2>3, <2>4 DEF Capped
<1> QED
  BY <1>1, <1>2

(* With one writer at a time (SQLite), requests that add together take the     *)
(* table past the cap by at most one row each, less one, although they count   *)
(* before they ask KIS for the price and insert afterwards                     *)
(* (services/watchlist/service.py:133-155), and whatever is removed or         *)
(* reordered meanwhile.                                                        *)
THEOREM WatchlistOvershootBounded ==
    ASSUME SingleWriter, IsFiniteSet(Requests), Requests # {},
           \A q \in Tables : Len(q) <= MaxItems
    PROVE  Spec => []OvershootBounded
<1>1. Init => Capped
  BY InitCapped
<1>2. Inv /\ Inv' /\ OneWriter /\ Capped /\ [Next]_vars => Capped'
  BY StepCapped
<1>3. Spec => []OneWriter
  BY OneWriterHolds
<1>4. Capped /\ Inv => OvershootBounded
  <2> SUFFICES ASSUME Capped, Inv
               PROVE  OvershootBounded
    OBVIOUS
  <2>1. /\ Cardinality(Spent) \in Nat /\ Cardinality(Spent) <= Cardinality(Requests)
        /\ Cardinality(Requests) \in Nat /\ Cardinality(Requests) # 0
    BY SpentFinite, FS_CardinalityType, FS_EmptySet
  <2>2. MaxItems \in Nat /\ Cardinality(rows) \in Nat
    BY WatchlistAssumption, FS_CardinalityType DEF Inv, Typing
  <2> QED
    BY <2>1, <2>2 DEF Capped, TableCapped, OvershootBounded
<1> QED
  BY <1>1, <1>2, <1>3, <1>4, InvHolds, PTL DEF Spec

-----------------------------------------------------------------------------
(* What a removal removes, when ids are never used again (PostgreSQL).      *)

Known(u) == rows \cup Touched(u)

\* The row that t is about to delete is reported, and its id has one symbol only.
Named(t) ==
    Removing(t) =>
       /\ SymbolsOf(tx[t].deleted) \subseteq report[t]
       /\ \A d \in doomed[t] :
             /\ d.id <= lastId /\ d.symbol \in report[t]
             /\ \A u \in Requests : \A x \in Known(u) : x.id = d.id => x.symbol = d.symbol

\* A row known after a step was known before under its id and symbol, or has a new id.
LEMMA NamesKept ==
    ASSUME ~SingleWriter, Inv, Inv', NEW t \in Requests,
           Start(t) \/ Step(t) \/ DatabaseFails(t), OthersKept(t),
           NEW u \in Requests, NEW x \in Known(u)'
    PROVE  \/ x.id > lastId
           \/ \E v \in Requests : \E y \in Known(v) : y.id = x.id /\ y.symbol = x.symbol
<1>0. View(t) \subseteq Known(t) /\ Left(t) \subseteq View(t)
  BY DEF View, Left, Known, Touched
<1>1. CASE x \in rows'
  <2>1. rows' = rows \/ rows' = Left(t)
    BY OnlyCommitWrites DEF Commit
  <2> QED
    BY <1>0, <1>1, <2>1 DEF Known
<1>2. CASE x \in Touched(u)' /\ u # t
  BY <1>2 DEF OthersKept, Touched, Known
<1>3. CASE x \in tx'[t].deleted /\ u = t
  \* OwnWork: what t deletes is in the table.
  BY <1>1, <1>3 DEF Inv, Database, OwnWork
<1>4. CASE x \in tx'[t].written /\ u = t
  <2>1. CASE x \in tx[t].written
    BY <2>1 DEF Known, Touched
  <2>2. CASE Insert(t)
    <3>1. PICK i \in 1..(lastId + 1) :
             TakesId(t, i) /\ tx' = [tx EXCEPT ![t] = Wrote(t, tx[t].written \cup {NewRow(t, i)})]
      BY <2>2 DEF Insert
    <3>2. tx'[t].written = tx[t].written \cup {NewRow(t, i)} /\ NewRow(t, i).id = i
      BY <3>1, WroteFacts DEF Inv, Typing, TypeOK, NewRow
    <3>3. i = lastId + 1 /\ lastId \in Nat
      BY <3>1 DEF TakesId, Inv, Typing, TypeOK
    <3> QED
      BY <1>4, <2>1, <3>2, <3>3
  <2>3. CASE Update(t)
    <3> DEFINE old == {y \in View(t) : y.id = Head(todo[t]).id}
               new == {[y EXCEPT !.order = Head(todo[t]).order] : y \in old}
    <3>1. tx' = [tx EXCEPT ![t] = Wrote(t, (tx[t].written \ old) \cup new)]
      BY <2>3 DEF Update
    <3>2. \A z \in new : \E y \in old : y.id = z.id /\ y.symbol = z.symbol
      BY RowsTyped DEF Row, Inv
    <3> HIDE DEF new
    <3>3. tx'[t].written = (tx[t].written \ old) \cup new
      BY <3>1, WroteFacts DEF Inv, Typing, TypeOK
    <3> QED
      BY <1>0, <1>4, <2>1, <3>2, <3>3
  <2>4. CASE tx'[t].written = {} \/ tx' = tx
    BY <1>4, <2>1, <2>4
  <2>5. CASE tx' = [tx EXCEPT ![t] = Flushed(t)]
    <3>1. tx'[t].written = tx[t].written
      BY <2>5 DEF Flushed, Inv, Typing, TypeOK
    <3> QED
      BY <1>4, <2>1, <3>1
  <2>6. CASE tx' = [tx EXCEPT ![t] = NoTx] \/ tx' = [tx EXCEPT ![t] = [NoTx EXCEPT !.mode = "broken"]]
    <3>1. tx'[t] = NoTx \/ tx'[t] = [NoTx EXCEPT !.mode = "broken"]
      BY <2>6 DEF Inv, Typing, TypeOK
    <3> QED
      BY <2>4, <3>1 DEF NoTx
  <2> QED
    BY <2>2, <2>3, <2>4, <2>5, <2>6
       DEF Start, Step, AddStep, Broken, Count, Duplicate, PriceOk, PriceRefused, PriceRaises,
           Refuse, InsertRefused, Find, FindNothing, Check, Read, WriteFails, Answer, Commit,
           CommitLost, DatabaseFails, Lose, Fail
<1> QED
  BY <1>1, <1>2, <1>3, <1>4 DEF Known, Touched

LEMMA NamedKept ==
    ASSUME ~SingleWriter, Inv, Inv', \A v \in Requests : Named(v),
           NEW t \in Requests,
           Start(t) \/ Step(t) \/ DatabaseFails(t), OthersKept(t), NEW u \in Requests
    PROVE  Named(u)'
<1>0. /\ lastId \in Nat /\ lastId' \in Nat
      /\ \A v \in Requests : Known(v) \subseteq Row /\ doomed[v] \subseteq Row
  BY RowsTyped DEF Inv, Typing, TypeOK, Known
<1>1. lastId <= lastId'
  <2>1. CASE Insert(t)
    BY <1>0, <2>1 DEF Insert
  <2>2. CASE lastId' = lastId
    BY <1>0, <2>2
  <2> QED
    BY <2>1, <2>2
       DEF Start, Step, AddStep, Broken, Count, Duplicate, PriceOk, PriceRefused, PriceRaises,
           Refuse, InsertRefused, Find, FindNothing, Check, Update, Read, WriteFails,
           Answer, Commit, CommitLost, DatabaseFails, Lose, Fail
\* A row whose id has one symbol keeps it through the step.
<1>2. ASSUME NEW d \in Row, d.id <= lastId,
             \A v \in Requests : \A x \in Known(v) : x.id = d.id => x.symbol = d.symbol
      PROVE  /\ d.id <= lastId'
             /\ \A v \in Requests : \A x \in Known(v)' : x.id = d.id => x.symbol = d.symbol
  <2>1. d.id \in Nat
    BY DEF Row, Ids
  <2>2. d.id <= lastId'
    BY <1>0, <1>1, <1>2, <2>1
  <2>3. ASSUME NEW v \in Requests, NEW x \in Known(v)', x.id = d.id
        PROVE  x.symbol = d.symbol
    BY <1>0, <1>2, <2>1, <2>3, NamesKept
  <2> QED
    BY <2>2, <2>3
<1>3. CASE /\ kind'[u] = kind[u] /\ doomed'[u] = doomed[u]
           /\ tx'[u].deleted = tx[u].deleted /\ report'[u] = report[u]
  BY <1>0, <1>2, <1>3 DEF Named, Removing
<1>4. CASE tx'[u].deleted = {} /\ doomed'[u] = {}
  BY <1>4 DEF Named, SymbolsOf
<1>5. CASE ~Removing(u)'
  BY <1>5 DEF Named
<1>6. CASE u = t /\ (Find(t) \/ (FindNothing(t) /\ kind[t] # "remove"))
  <2>1. /\ Removing(t) /\ OwnWork(t) /\ tx[t].written = {} /\ tx[t].deleted \subseteq rows
        /\ kind' = kind /\ tx'[t] = Flushed(t)
    BY <1>6 DEF Inv, Typing, TypeOK, Stage, Database, OwnWork, Find, FindNothing
  <2>2. Left(t) \subseteq rows /\ View(t) \subseteq rows
    BY <2>1 DEF Left, View
  <2>3. \A x \in View(t) \ Left(t) : x.symbol \in report[t]
    <3>1. ASSUME NEW x \in View(t) \ Left(t)
          PROVE  \E d \in doomed[t] : d.id = x.id
      BY DEF Left, IdsOf
    <3>2. View(t) \subseteq Known(t)
      BY DEF View, Known, Touched
    <3> QED
      BY <2>1, <3>1, <3>2 DEF Named
  <2>4. report[t] \subseteq report'[t]
    BY <1>6 DEF Find, FindNothing, Inv, Typing, TypeOK
  <2>5. SymbolsOf(tx'[t].deleted) \subseteq report'[t]
    <3>1. \/ tx'[t].deleted = tx[t].deleted
          \/ tx'[t].deleted = tx[t].deleted \cup (View(t) \ Left(t))
      BY <2>1 DEF Flushed, Inv, Typing, TypeOK
    <3> QED
      BY <2>1, <2>3, <2>4, <3>1 DEF Named, SymbolsOf
  <2>6. ASSUME NEW d \in doomed'[t]
        PROVE  d \in Left(t) /\ d.symbol \in report'[t]
    BY <1>6 DEF Find, FindNothing, Inv, Typing, TypeOK
  <2>7. ASSUME NEW d \in doomed'[t], NEW v \in Requests, NEW x \in Known(v), x.id = d.id
        PROVE  x.symbol = d.symbol
    <3>1. d \in rows
      BY <2>2, <2>6
    <3>2. x \in rows \/ x \in tx[v].written
      BY DEF Known, Touched, Inv, Database, OwnWork
    <3> QED
      BY <2>7, <3>1, <3>2 DEF Inv, Database, Distinct, Replaces
  <2>8. \A d \in doomed'[t] : d.id <= lastId /\ d \in Row
    BY <1>0, <2>2, <2>6 DEF Inv, Database, Known
  <2> QED
    BY <1>2, <1>6, <2>5, <2>6, <2>7, <2>8 DEF Named
<1>7. CASE u # t
  BY <1>3, <1>7 DEF OthersKept
<1>8. CASE u = t /\ (Start(t) \/ Fail(t) \/ Commit(t) \/ Lose(t))
  <2>1. tx'[t] = NoTx /\ doomed'[t] = {}
    BY <1>8 DEF Inv, Typing, TypeOK, Stage, Start, Fail, Commit, CommitLost, DatabaseFails, Lose
  <2> QED
    BY <1>4, <1>8, <2>1 DEF NoTx
<1>9. CASE /\ u = t /\ UNCHANGED kind
           /\ pc[t] \in {"count", "dup", "price", "insert", "check", "update", "read"}
  <2>1. ~Removing(t)
    BY <1>9 DEF Inv, Typing, Stage, Adding, Removing
  <2> QED
    BY <1>5, <1>9, <2>1 DEF Removing
<1>10. CASE u = t /\ Answer(t)
  BY <1>3, <1>10 DEF Answer
<1> QED
  BY <1>6, <1>7, <1>8, <1>9, <1>10
     DEF Step, AddStep, Broken, Count, Duplicate, PriceOk, PriceRefused, PriceRaises,
         Refuse, Insert, InsertRefused, FindNothing, Check, Update, Read, WriteFails, Fail,
         CommitLost, DatabaseFails

(* When ids are never used again (PostgreSQL), a symbol leaves the table only  *)
(* by the commit of a request that looked that symbol up and reported it       *)
(* removed (services/watchlist/service.py:167-183).                            *)
THEOREM WatchlistRemovesOnlyReported == ~SingleWriter => (Spec => RemovesOnlyReported)
<1> SUFFICES ASSUME ~SingleWriter
             PROVE  Spec => RemovesOnlyReported
  OBVIOUS
<1> DEFINE AllNamed == \A t \in Requests : Named(t)
           Ending == UNION {report[t] : t \in {u \in Requests : pc[u] = "commit" /\ pc'[u] = "done"}}
           Kept == SymbolsOf(rows) \subseteq SymbolsOf(rows') \cup Ending
<1>1. Init => AllNamed
  BY DEF Init, Named, Removing
<1>2. Inv /\ Inv' /\ AllNamed /\ [Next]_vars => AllNamed'
  <2> SUFFICES ASSUME Inv, Inv', AllNamed, [Next]_vars
               PROVE  AllNamed'
    OBVIOUS
  <2>1. CASE UNCHANGED vars
    BY <2>1 DEF Named, Removing, Known, Touched, vars
  <2>2. CASE Next
    BY <2>2, NamedKept, StepTyping DEF Next, Inv
  <2> QED
    BY <2>1, <2>2
<1>3. Inv /\ AllNamed /\ [Next]_vars => [Kept]_vars
  <2> SUFFICES ASSUME Inv, AllNamed, Next
               PROVE  Kept
    OBVIOUS
  <2>1. CASE rows' = rows
    BY <2>1
  <2>2. CASE rows' # rows
    <3>1. PICK t \in Requests : Commit(t)
      BY <2>2, OnlyCommitWrites DEF Next
    <3>2. /\ rows' = Left(t) /\ pc[t] = "commit" /\ pc'[t] = "done"
      BY <3>1 DEF Commit, GoTo, Inv, Typing, TypeOK
    <3>3. CASE ~Removing(t)
      BY <3>1, <3>3, CommitChanges
    <3>4. CASE Removing(t)
      <4>1. ASSUME NEW x \in rows, x \notin Left(t)
            PROVE  x.symbol \in report[t]
        <5>1. tx[t].written = {} /\ tx[t].deleted \subseteq rows /\ Distinct(rows)
          BY <3>4 DEF Inv, Database, OwnWork
        <5>2. CASE x \in View(t)
          <6>1. PICK d \in doomed[t] : d.id = x.id
            BY <4>1, <5>2 DEF Left, IdsOf
          <6> QED
            BY <3>4, <6>1 DEF Named, Known
        <5>3. CASE x \notin View(t)
          <6>1. PICK y \in tx[t].deleted : y.id = x.id
            BY <5>1, <5>3 DEF View, Touched, IdsOf
          <6>2. y = x
            BY <5>1, <6>1 DEF Distinct
          <6> QED
            BY <3>4, <6>1, <6>2 DEF Named, SymbolsOf
        <5> QED
          BY <5>2, <5>3
      <4>2. report[t] \subseteq Ending
        BY <3>2
      <4> QED
        BY <3>2, <4>1, <4>2 DEF SymbolsOf
    <3> QED
      BY <3>3, <3>4
  <2> QED
    BY <2>1, <2>2
<1> QED
  BY InvHolds, <1>1, <1>2, <1>3, PTL DEF Spec, RemovesOnlyReported

-----------------------------------------------------------------------------
(* What an add brings in, under either database.                            *)

\* What t has written and not lost is among what it reports.
Claims(t) == Adding(t) => SymbolsOf(tx[t].written) \subseteq report[t]

LEMMA ClaimsOwn ==
    ASSUME Inv, NEW t \in Requests, Claims(t), Start(t) \/ Step(t) \/ DatabaseFails(t)
    PROVE  Claims(t)'
<1>0. /\ Stage(t) /\ OwnWork(t) /\ tx = [u \in Requests |-> tx[u]]
      /\ report = [u \in Requests |-> report[u]]
  BY DEF Inv, Typing, TypeOK, Database
<1>1. CASE tx'[t].written = {}
  BY <1>1 DEF Claims, SymbolsOf
<1>2. CASE tx'[t] = tx[t] /\ kind' = kind /\ report'[t] = report[t]
  BY <1>2 DEF Claims, Adding
<1>3. CASE Start(t)
  BY <1>0, <1>1, <1>3 DEF Start, Stage, NoTx
<1>4. CASE Fail(t) \/ Commit(t) \/ Lose(t)
  BY <1>0, <1>1, <1>4 DEF Fail, Commit, CommitLost, DatabaseFails, Lose, NoTx
<1>5. CASE Insert(t)
  <2>1. PICK i \in 1..(lastId + 1) :
           tx' = [tx EXCEPT ![t] = Wrote(t, tx[t].written \cup {NewRow(t, i)})]
    BY <1>5 DEF Insert
  <2>2. /\ tx'[t].written = tx[t].written \cup {NewRow(t, i)}
        /\ NewRow(t, i).symbol = Head(todo[t])
    BY <1>0, <2>1, WroteFacts DEF NewRow, Inv
  <2>3. report'[t] = report[t] \cup {Head(todo[t])} /\ kind' = kind
    BY <1>0, <1>5 DEF Insert
  <2> HIDE DEF NewRow
  <2> QED
    BY <2>2, <2>3 DEF Claims, Adding, SymbolsOf
<1>6. CASE InsertRefused(t) /\ kind[t] # "add"
  BY <1>0, <1>1, <1>6 DEF InsertRefused, NoTx
<1>7. CASE Find(t) \/ FindNothing(t) \/ Update(t) \/ Check(t) \/ Read(t)
  <2>1. ~Adding(t)
    BY <1>0, <1>7 DEF Stage, Find, FindNothing, Update, Check, Read, Adding, Removing
  <2>2. kind' = kind
    BY <1>7 DEF Find, FindNothing, Update, Check, Read, Fail
  <2> QED
    BY <2>1, <2>2 DEF Claims, Adding
<1> QED
  BY <1>2, <1>3, <1>4, <1>5, <1>6, <1>7
     DEF Step, AddStep, Broken, Count, Duplicate, PriceOk, PriceRefused, PriceRaises, Refuse,
         InsertRefused, WriteFails, Answer, CommitLost, DatabaseFails

(* A symbol enters the table only by the commit of an add that reported it     *)
(* added; with WatchlistRemovesOnlyReported, what the requests report explains *)
(* every change of the set of symbols (services/watchlist/service.py:133-165). *)
THEOREM WatchlistAddsOnlyReported == Spec => AddsOnlyReported
<1> DEFINE AllClaim == \A t \in Requests : Claims(t)
           Ending == UNION {report[t] : t \in {u \in Requests : Adding(u) /\ pc[u] = "commit"
                                                                   /\ pc'[u] = "done"}}
           Kept == SymbolsOf(rows') \subseteq SymbolsOf(rows) \cup Ending
<1>1. Init => AllClaim
  BY DEF Init, Claims, Adding
<1>2. Inv /\ AllClaim /\ [Next]_vars => AllClaim'
  <2> SUFFICES ASSUME Inv, AllClaim, [Next]_vars, NEW u \in Requests
               PROVE  Claims(u)'
    OBVIOUS
  <2>1. CASE UNCHANGED vars
    BY <2>1 DEF Claims, Adding, vars
  <2>2. CASE Next
    <3>1. PICK t \in Requests : Start(t) \/ Step(t) \/ DatabaseFails(t)
      BY <2>2 DEF Next
    <3>2. CASE u = t
      BY <3>1, <3>2, ClaimsOwn
    <3>3. CASE u # t
      <4>1. OthersKept(t)
        BY <3>1, StepTyping DEF Inv
      <4> QED
        BY <3>3, <4>1 DEF OthersKept, Claims, Adding
    <3> QED
      BY <3>2, <3>3
  <2> QED
    BY <2>1, <2>2
<1>3. Inv /\ AllClaim /\ [Next]_vars => [Kept]_vars
  <2> SUFFICES ASSUME Inv, AllClaim, Next, rows' # rows
               PROVE  Kept
    OBVIOUS
  <2>1. PICK t \in Requests : Commit(t)
    BY OnlyCommitWrites DEF Next
  <2>2. rows' = Left(t) /\ pc[t] = "commit" /\ pc'[t] = "done"
    BY <2>1 DEF Commit, GoTo, Inv, Typing, TypeOK
  <2>3. CASE ~Adding(t)
    BY <2>1, <2>3, CommitChanges
  <2>4. CASE Adding(t)
    <3>1. Left(t) \subseteq rows \cup tx[t].written
      BY DEF Left, View
    <3>2. SymbolsOf(tx[t].written) \subseteq report[t] /\ report[t] \subseteq Ending
      BY <2>2, <2>4 DEF Claims
    <3> QED
      BY <2>2, <3>1, <3>2 DEF SymbolsOf
  <2> QED
    BY <2>3, <2>4
<1> QED
  BY InvHolds, <1>1, <1>2, <1>3, PTL DEF Spec, AddsOnlyReported
=============================================================================
