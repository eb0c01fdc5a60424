-------------------------- MODULE DashboardProofs ---------------------------
(***************************************************************************)
(* The safety of the dashboard, for any stocks, any watchlist to start     *)
(* from and any number of calls, rows and visits.                          *)
(*                                                                         *)
(* TypeOK is not inductive: that a row which is inserted is domestic holds *)
(* because the service looked at the symbol before it answered (Vetted).   *)
(* SparesOthers needs more: the ids that a page sends come from a list it  *)
(* was given, so every snapshot of the watchlist, on its way and in the    *)
(* cache, must give the rows that are still there their ids (Traceable).   *)
(***************************************************************************)
EXTENDS Dashboard, TLAPS

\* What the service has answered it will add is domestic.
Vetted ==
    \A c \in DOMAIN calls :
       calls[c].kind = "add" /\ calls[c].stage \notin {"sent", "refused"}
         => calls[c].symbol \in Domestic

\* The button of the stock's dialog observes an addition of the stock that is shown.
ButtonIsOwn == adding # 0 => calls[adding].symbol = active

Inv == TypeOK /\ Vetted /\ ButtonIsOwn

\* What a list may still show: a row that is gone, or one with the id that it has.
Faithful ==
    {shown \in Row : /\ shown.born <= births
                     /\ \A row \in rows : row.born = shown.born => row.id = shown.id}

\* A call names the row that was clicked, if the table still has it.
Names(call, table, count) ==
    call.kind = "remove" =>
      /\ call.clicked <= count
      /\ \A row \in table : row.born = call.clicked => row.id = call.id

Traceable ==
    /\ \A row, other \in rows : row.id = other.id \/ row.born = other.born => row = other
    /\ \A row \in rows : row.id <= births /\ row.born <= births
    /\ listed \in Query(SUBSET Faithful)
    /\ \A c \in DOMAIN calls : Names(calls[c], rows, births)

-----------------------------------------------------------------------------
(* What each operation on a query makes of one that holds snapshots of S.  *)

LEMMA StartKept == ASSUME NEW S, NEW q \in Query(S) PROVE Start(q) \in Query(S)
  BY DEF Start, Query

LEMMA FetchKept == ASSUME NEW S, NEW q \in Query(S) PROVE Fetch(q) \in Query(S)
  BY StartKept DEF Fetch

LEMMA MountKept ==
  ASSUME NEW S, NEW q \in Query(S), NEW old \in BOOLEAN PROVE Mount(q, old) \in Query(S)
  BY FetchKept DEF Mount

LEMMA InvalidateKept ==
  ASSUME NEW S, NEW q \in Query(S), NEW shown \in BOOLEAN PROVE Invalidate(q, shown) \in Query(S)
<1>1. [q EXCEPT !.invalid = TRUE] \in Query(S)
  BY DEF Query
<1> QED
  BY <1>1, StartKept DEF Invalidate

LEMMA AnsweredKept ==
  ASSUME NEW S, NEW q \in Query(S), NEW s \in S PROVE Answered(q, s) \in Query(S)
  BY DEF Answered, Query

LEMMA SucceedKept == ASSUME NEW S, NEW q \in Query(S) PROVE Succeed(q) \in Query(S)
  BY DEF Succeed, Query

LEMMA FailKept == ASSUME NEW S, NEW q \in Query(S) PROVE Fail(q) \in Query(S)
  BY DEF Fail, Query

(* The steps that touch the query of the list keep it over any snapshots   *)
(* that include what the server holds.                                     *)
QueryStep ==
    \/ \E old \in BOOLEAN : Enter(old)
    \/ Poll \/ Reconnect \/ ListWatchlist \/ ListArrives \/ ListFails
    \/ \E c \in DOMAIN calls : HearSuccess(c)

LEMMA QueryStepKeeps ==
  ASSUME NEW S, listed \in Query(S), rows \in S, mounted \in BOOLEAN, QueryStep
  PROVE  listed' \in Query(S)
<1>1. CASE \E old \in BOOLEAN : Enter(old)
  BY <1>1, MountKept DEF Enter
<1>2. CASE Poll \/ Reconnect
  BY <1>2, FetchKept DEF Poll, Reconnect
<1>3. CASE ListWatchlist
  BY <1>3, AnsweredKept DEF ListWatchlist
<1>4. CASE ListArrives
  BY <1>4, SucceedKept DEF ListArrives
<1>5. CASE ListFails
  BY <1>5, FailKept DEF ListFails
<1>6. CASE \E c \in DOMAIN calls : HearSuccess(c)
  BY <1>6, InvalidateKept DEF HearSuccess
<1> QED
  BY <1>1, <1>2, <1>3, <1>4, <1>5, <1>6 DEF QueryStep

-----------------------------------------------------------------------------
(* Each action keeps the invariant. *)

LEMMA MarketHoursTyped == ASSUME NEW time PROVE IsMarketHours(time) \in BOOLEAN
  BY DEF IsMarketHours

\* The steps that leave the calls, the server and the stock's dialog alone.
CardStep ==
    \/ \E time \in Moments : Advance(time)
    \/ \E old \in BOOLEAN : Enter(old)
    \/ Leave \/ Tick \/ Poll \/ Reconnect \/ ListWatchlist \/ ListArrives \/ ListFails
    \/ OpenSearch

LEMMA CardStepKeeps == ASSUME Inv, CardStep PROVE Inv'
<1>1. UNCHANGED <<server, calls, dialog>>
  BY DEF CardStep, Advance, Enter, Leave, Tick, Poll, Reconnect, ListWatchlist, ListArrives,
         ListFails, OpenSearch
<1>2. now' \in Moments
  BY DEF Inv, TypeOK, CardStep, Advance, Enter, Leave, Tick, Poll, Reconnect, ListWatchlist,
         ListArrives, ListFails, OpenSearch
<1>3. visit' \in Nat /\ {mounted', polling', searching'} \subseteq BOOLEAN
  <2>0. visit \in Nat /\ mounted \in BOOLEAN /\ polling \in BOOLEAN /\ searching \in BOOLEAN
    BY DEF Inv, TypeOK
  <2>1. CASE \/ \E time \in Moments : Advance(time)
             \/ Poll \/ Reconnect \/ ListWatchlist \/ ListArrives \/ ListFails
    BY <2>0, <2>1 DEF Advance, Poll, Reconnect, ListWatchlist, ListArrives, ListFails, card
  <2>2. CASE \E old \in BOOLEAN : Enter(old)
    <3>1. mounted' = TRUE /\ visit' = visit + 1 /\ polling' = IsMarketHours(now) /\ searching' = searching
      BY <2>2 DEF Enter
    <3> QED
      BY <2>0, <3>1, MarketHoursTyped
  <2>3. CASE Tick
    <3>1. polling' = IsMarketHours(now) /\ UNCHANGED <<visit, mounted, searching>>
      BY <2>3 DEF Tick
    <3> QED
      BY <2>0, <3>1, MarketHoursTyped
  <2>4. CASE Leave \/ OpenSearch
    BY <2>0, <2>4 DEF Leave, Left, OpenSearch
  <2> QED
    BY <2>1, <2>2, <2>3, <2>4 DEF CardStep
<1>4. listed' \in Query(SUBSET Row)
  <2>1. listed \in Query(SUBSET Row) /\ rows \in SUBSET Row /\ mounted \in BOOLEAN
    BY DEF Inv, TypeOK
  <2>2. CASE QueryStep
    BY <2>1, <2>2, QueryStepKeeps
  <2>3. CASE listed' = listed
    BY <2>1, <2>3
  <2> QED
    BY <2>2, <2>3 DEF CardStep, QueryStep, Advance, Leave, Tick, OpenSearch
<1>5. TypeOK'
  BY <1>1, <1>2, <1>3, <1>4 DEF Inv, TypeOK, server, dialog
<1> QED
  BY <1>1, <1>5 DEF Inv, Vetted, ButtonIsOwn, dialog

\* The steps of the stock's dialog that call nothing.
DialogStep ==
    \/ \E symbol \in Symbols : OpenDetail(symbol)
    \/ CloseDetail \/ Escape \/ OrderFromDetail

LEMMA DialogStepKeeps == ASSUME Inv, DialogStep PROVE Inv'
<1>1. \E symbol \in Symbols \cup {None} : Show(symbol)
  BY DEF DialogStep, OpenDetail, CloseDetail, Escape, OrderFromDetail
<1>2. active' \in Symbols \cup {None} /\ adding' \in {0, adding} /\ (adding' # 0 => active' = active)
  BY <1>1 DEF Show
<1>3. UNCHANGED <<now, server, calls, listed>>
  BY DEF DialogStep, OpenDetail, CloseDetail, Escape, OrderFromDetail
<1>4. visit' \in Nat /\ {mounted', polling', searching'} \subseteq BOOLEAN
  BY DEF Inv, TypeOK, DialogStep, OpenDetail, CloseDetail, Escape, OrderFromDetail, Left, card
<1>5. TypeOK'
  BY <1>2, <1>3, <1>4 DEF Inv, TypeOK, server
<1>6. ButtonIsOwn'
  BY <1>2, <1>3 DEF Inv, TypeOK, ButtonIsOwn
<1> QED
  BY <1>3, <1>5, <1>6 DEF Inv, Vetted

LEMMA NewCallTyped ==
  ASSUME NEW kind \in {"add", "remove"}, NEW symbol \in Symbols \cup {None}, NEW id \in Nat,
         NEW fromDialog \in BOOLEAN, NEW clicked \in Nat
  PROVE  NewCall(kind, symbol, id, fromDialog, clicked) \in Call
  BY DEF NewCall, Call

(* A call that is sent joins the others. *)
LEMMA SendFacts ==
  ASSUME calls \in Seq(Call), NEW call \in Call, Send(call)
  PROVE  /\ calls' \in Seq(Call) /\ Len(calls') = Len(calls) + 1
         /\ \A c \in DOMAIN calls : c \in DOMAIN calls' /\ calls'[c] = calls[c]
         /\ calls'[Len(calls) + 1] = call
         /\ \A c \in DOMAIN calls' : c \in DOMAIN calls \/ c = Len(calls) + 1
  BY DEF Send

LEMMA SendKeeps ==
  ASSUME Inv, NEW call \in Call, Send(call), call.stage = "sent"
  PROVE  calls' \in Seq(Call) /\ Len(calls') = Len(calls) + 1 /\ Vetted'
<1>1. calls \in Seq(Call)
  BY DEF Inv, TypeOK
<1> QED
  BY <1>1, SendFacts DEF Inv, Vetted

LEMMA ShownTyped == ASSUME Inv PROVE Shown \subseteq Row
  BY DEF Inv, TypeOK, Query, Shown

LEMMA ClickRemoveKeeps == ASSUME Inv, NEW row \in Shown, ClickRemove(row) PROVE Inv'
<1>1. row.id \in Nat /\ row.born \in Nat
  BY ShownTyped DEF Row
<1>2. NewCall("remove", None, row.id, FALSE, row.born) \in Call
  BY <1>1, NewCallTyped
<1>3. NewCall("remove", None, row.id, FALSE, row.born).stage = "sent"
  BY DEF NewCall
<1>4. /\ calls' \in Seq(Call) /\ Len(calls') = Len(calls) + 1 /\ Vetted'
      /\ \A c \in DOMAIN calls : calls'[c] = calls[c]
  BY <1>2, <1>3, SendKeeps, SendFacts DEF ClickRemove, Inv, TypeOK
<1>5. TypeOK'
  BY <1>4 DEF Inv, TypeOK, ClickRemove, server, card, dialog
<1> QED
  BY <1>4, <1>5 DEF Inv, TypeOK, ButtonIsOwn, ClickRemove, dialog

LEMMA PickFoundKeeps == ASSUME Inv, NEW symbol \in Symbols, PickFound(symbol) PROVE Inv'
<1>1. NewCall("add", symbol, 0, FALSE, 0) \in Call
  BY NewCallTyped
<1>2. NewCall("add", symbol, 0, FALSE, 0).stage = "sent"
  BY DEF NewCall
<1>3. /\ calls' \in Seq(Call) /\ Len(calls') = Len(calls) + 1 /\ Vetted'
      /\ \A c \in DOMAIN calls : calls'[c] = calls[c]
  BY <1>1, <1>2, SendKeeps, SendFacts DEF PickFound, Inv, TypeOK
<1>4. TypeOK'
  <2>1. searching' = FALSE /\ UNCHANGED <<now, rows, births, visit, mounted, polling, listed, active, adding>>
    BY DEF PickFound, server, dialog
  <2>2. {mounted', polling', searching'} \subseteq BOOLEAN
    BY <2>1 DEF Inv, TypeOK
  <2> QED
    BY <1>3, <2>1, <2>2 DEF Inv, TypeOK
<1> QED
  BY <1>3, <1>4 DEF Inv, TypeOK, ButtonIsOwn, PickFound, dialog

LEMMA AddFromDetailKeeps == ASSUME Inv, AddFromDetail PROVE Inv'
<1> DEFINE call == NewCall("add", active, 0, TRUE, 0)
<1>0. active \in Symbols \cup {None}
  BY DEF Inv, TypeOK
<1>1. call \in Call /\ call.symbol = active /\ call.stage = "sent"
  BY <1>0 DEF NewCall, Call
<1>2. Send(call)
  BY DEF AddFromDetail
<1> HIDE DEF call
<1>3. /\ calls' \in Seq(Call) /\ Len(calls') = Len(calls) + 1 /\ Vetted'
      /\ calls'[Len(calls) + 1] = call
  BY <1>1, <1>2, SendKeeps, SendFacts DEF Inv, TypeOK
<1>4. adding' = Len(calls) + 1 /\ active' = active
  BY DEF AddFromDetail
<1>5. TypeOK'
  BY <1>3, <1>4 DEF Inv, TypeOK, AddFromDetail, server, card
<1> QED
  BY <1>1, <1>3, <1>4, <1>5 DEF Inv, ButtonIsOwn

-----------------------------------------------------------------------------
(* The calls move on. *)

LEMMA CallTyped == ASSUME Inv, NEW c \in DOMAIN calls PROVE calls[c] \in Call
  BY DEF Inv, TypeOK

(* One call moves; it stays what it asked for. *)
LEMMA MoveKeeps ==
  ASSUME Inv, NEW c \in DOMAIN calls, NEW moved \in Call,
         calls' = [calls EXCEPT ![c] = moved], moved.symbol = calls[c].symbol,
         moved.kind = "add" /\ moved.stage \notin {"sent", "refused"} => moved.symbol \in Domestic,
         UNCHANGED dialog
  PROVE  /\ calls' \in Seq(Call) /\ Len(calls') = Len(calls)
         /\ adding' \in 0 .. Len(calls') /\ active' \in Symbols \cup {None}
         /\ Vetted' /\ ButtonIsOwn'
<1>1. /\ calls' \in Seq(Call) /\ Len(calls') = Len(calls) /\ DOMAIN calls' = DOMAIN calls
      /\ calls'[c] = moved /\ \A d \in DOMAIN calls : d # c => calls'[d] = calls[d]
  BY DEF Inv, TypeOK
<1>2. adding' = adding /\ active' = active
  BY DEF dialog
<1>3. Vetted'
  BY <1>1 DEF Inv, Vetted
<1>4. adding # 0 => adding \in DOMAIN calls
  BY DEF Inv, TypeOK
<1>5. ButtonIsOwn'
  BY <1>1, <1>2, <1>4 DEF Inv, ButtonIsOwn
<1> QED
  BY <1>1, <1>2, <1>3, <1>5 DEF Inv, TypeOK

\* The steps that only change how far a call has come, or what the page has heard of it.
CallStep(c) == Answer(c) \/ Refuse(c) \/ HearSuccess(c) \/ Refetched(c) \/ HearFailure(c)

LEMMA CallStepMoves ==
  ASSUME Inv, NEW c \in DOMAIN calls, CallStep(c)
  PROVE  \E moved \in Call :
            /\ calls' = [calls EXCEPT ![c] = moved]
            /\ moved.kind = calls[c].kind /\ moved.symbol = calls[c].symbol
            /\ moved.id = calls[c].id /\ moved.clicked = calls[c].clicked
            /\ moved.removed = calls[c].removed
            /\ moved.kind = "add" /\ moved.stage \notin {"sent", "refused"}
                 => moved.symbol \in Domestic
<1>0. /\ calls[c] \in Call /\ calls \in Seq(Call)
      /\ calls[c].kind = "add" /\ calls[c].stage \notin {"sent", "refused"}
            => calls[c].symbol \in Domestic
  BY CallTyped DEF Inv, TypeOK, Vetted
<1>1. CASE Answer(c)
  <2> DEFINE moved == [calls[c] EXCEPT !.stage = "answered"]
  <2>1. calls' = [calls EXCEPT ![c] = moved]
    BY <1>1 DEF Answer
  <2>2. moved \in Call
    BY <1>0 DEF Call
  <2>3. moved.kind = "add" => moved.symbol \in Domestic
    BY <1>0, <1>1 DEF Answer, Acceptable, Call
  <2> QED
    BY <1>0, <2>1, <2>2, <2>3 DEF Call
<1>2. CASE Refuse(c)
  <2> DEFINE moved == [calls[c] EXCEPT !.stage = IF @ = "sent" THEN "refused" ELSE "lost"]
  <2>1. calls' = [calls EXCEPT ![c] = moved]
    BY <1>2 DEF Refuse
  <2>2. moved \in Call
    BY <1>0 DEF Call
  <2>3. moved.kind = "add" /\ moved.stage \notin {"sent", "refused"} => moved.symbol \in Domestic
    BY <1>0, <1>2 DEF Call, Refuse
  <2> QED
    BY <1>0, <2>1, <2>2, <2>3 DEF Call
<1>3. CASE HearSuccess(c) \/ Refetched(c) \/ HearFailure(c)
  <2>1. \E h \in {"refetching", "success", "failure"} : calls' = [calls EXCEPT ![c].heard = h]
    BY <1>3 DEF HearSuccess, Refetched, HearFailure
  <2>2. PICK h \in {"refetching", "success", "failure"} : calls' = [calls EXCEPT ![c].heard = h]
    BY <2>1
  <2> DEFINE moved == [calls[c] EXCEPT !.heard = h]
  <2>3. calls' = [calls EXCEPT ![c] = moved]
    BY <2>2
  <2>4. moved \in Call
    BY <1>0 DEF Call
  <2> QED
    BY <1>0, <2>3, <2>4 DEF Call
<1> QED
  BY <1>1, <1>2, <1>3 DEF CallStep

LEMMA CallStepKeeps == ASSUME Inv, NEW c \in DOMAIN calls, CallStep(c) PROVE Inv'
<1>1. UNCHANGED <<now, server, card, dialog>>
  BY DEF CallStep, Answer, Refuse, HearSuccess, Refetched, HearFailure
<1>2. /\ calls' \in Seq(Call) /\ adding' \in 0 .. Len(calls') /\ active' \in Symbols \cup {None}
      /\ Vetted' /\ ButtonIsOwn'
  <2>1. PICK moved \in Call :
            /\ calls' = [calls EXCEPT ![c] = moved]
            /\ moved.symbol = calls[c].symbol
            /\ moved.kind = "add" /\ moved.stage \notin {"sent", "refused"}
                 => moved.symbol \in Domestic
    BY CallStepMoves
  <2> QED
    BY <1>1, <2>1, MoveKeeps
<1>3. listed' \in Query(SUBSET Row)
  <2>1. listed \in Query(SUBSET Row) /\ rows \in SUBSET Row /\ mounted \in BOOLEAN
    BY DEF Inv, TypeOK
  <2>2. CASE HearSuccess(c)
    BY <2>1, <2>2, QueryStepKeeps DEF QueryStep
  <2>3. CASE listed' = listed
    BY <2>1, <2>3
  <2> QED
    BY <2>2, <2>3 DEF CallStep, Answer, Refuse, Refetched, HearFailure
<1> QED
  BY <1>1, <1>2, <1>3 DEF Inv, TypeOK, server, card

LEMMA InsertTyped ==
  ASSUME Inv, NEW symbol \in Domestic, Insert(symbol)
  PROVE  rows' \subseteq Row /\ births' \in Nat
  BY DEF Inv, TypeOK, Insert, Row

LEMMA CommitAddKeeps == ASSUME Inv, NEW c \in DOMAIN calls, CommitAdd(c) PROVE Inv'
<1> DEFINE moved == [calls[c] EXCEPT !.stage = "committed"]
<1>1. calls[c] \in Call /\ calls[c].symbol \in Domestic
  BY CallTyped DEF CommitAdd, Inv, Vetted
<1>2. moved \in Call /\ moved.symbol = calls[c].symbol
  BY <1>1 DEF Call
<1>3. calls' = [calls EXCEPT ![c] = moved] /\ UNCHANGED <<now, card, listed, dialog>>
  BY DEF CommitAdd
<1> HIDE DEF moved
<1>4. /\ calls' \in Seq(Call) /\ adding' \in 0 .. Len(calls') /\ active' \in Symbols \cup {None}
      /\ Vetted' /\ ButtonIsOwn'
  BY <1>1, <1>2, <1>3, MoveKeeps
<1>5. rows' \subseteq Row /\ births' \in Nat
  BY <1>1, InsertTyped DEF CommitAdd
<1> QED
  BY <1>3, <1>4, <1>5 DEF Inv, TypeOK, card

LEMMA CommitRemoveMoves ==
  ASSUME Inv, NEW c \in DOMAIN calls, CommitRemove(c)
  PROVE  LET gone == {row \in rows : row.id = calls[c].id}
             moved == [calls[c] EXCEPT !.stage = "committed", !.removed = {row.born : row \in gone}]
         IN  /\ calls' = [calls EXCEPT ![c] = moved]
             /\ moved \in Call /\ moved.symbol = calls[c].symbol /\ moved.kind = "remove"
             /\ moved.id = calls[c].id /\ moved.clicked = calls[c].clicked
             /\ moved.removed = {row.born : row \in gone}
<1> DEFINE gone == {row \in rows : row.id = calls[c].id}
           borns == {row.born : row \in gone}
           moved == [calls[c] EXCEPT !.stage = "committed", !.removed = borns]
<1>1. calls[c] \in Call /\ calls \in Seq(Call) /\ calls[c].kind = "remove"
  BY CallTyped DEF Inv, TypeOK, CommitRemove
<1>2. borns \subseteq Nat
  BY DEF Inv, TypeOK, Row
<1>3. calls' = [calls EXCEPT ![c].stage = "committed", ![c].removed = borns]
  BY DEF CommitRemove
<1> HIDE DEF borns
<1>4. calls' = [calls EXCEPT ![c] = moved]
  BY <1>1, <1>3 DEF Call
<1>5. moved \in Call
  BY <1>1, <1>2 DEF Call
<1>6. /\ moved.symbol = calls[c].symbol /\ moved.kind = "remove" /\ moved.id = calls[c].id
      /\ moved.clicked = calls[c].clicked /\ moved.removed = borns
  BY <1>1 DEF Call
<1> QED
  BY <1>4, <1>5, <1>6 DEF borns

LEMMA CommitRemoveKeeps == ASSUME Inv, NEW c \in DOMAIN calls, CommitRemove(c) PROVE Inv'
<1>1. \E moved \in Call :
         /\ calls' = [calls EXCEPT ![c] = moved]
         /\ moved.symbol = calls[c].symbol /\ moved.kind = "remove"
  BY CommitRemoveMoves
<1>2. rows' \subseteq rows /\ UNCHANGED <<now, births, card, listed, dialog>>
  BY DEF CommitRemove
<1>3. /\ calls' \in Seq(Call) /\ adding' \in 0 .. Len(calls') /\ active' \in Symbols \cup {None}
      /\ Vetted' /\ ButtonIsOwn'
  BY <1>1, <1>2, MoveKeeps
<1> QED
  BY <1>2, <1>3 DEF Inv, TypeOK, card

LEMMA OthersKeep ==
  ASSUME Inv, \/ \E symbol \in Domestic : OthersAdd(symbol)
              \/ \E row \in rows : OthersRemove(row)
  PROVE  Inv'
<1>1. UNCHANGED <<now, calls, card, listed, dialog>>
  BY DEF OthersAdd, OthersRemove
<1>2. rows' \subseteq Row /\ births' \in Nat
  BY InsertTyped DEF OthersAdd, OthersRemove, Inv, TypeOK
<1> QED
  BY <1>1, <1>2 DEF Inv, TypeOK, Vetted, ButtonIsOwn, card, dialog

LEMMA InitInv == Init => Inv
<1> SUFFICES ASSUME Init
             PROVE  Inv
  OBVIOUS
<1>1. PICK table \in Tables :
         /\ rows = {[id |-> i, born |-> i, symbol |-> table[i]] : i \in DOMAIN table}
         /\ births = Len(table)
  BY DEF Init
<1>2. table \in Seq(Domestic)
  BY DashboardAssumption
<1>3. rows \subseteq Row /\ births \in Nat
  BY <1>1, <1>2 DEF Row
<1>4. Unasked \in Query(SUBSET Row)
  BY DEF Unasked, Query
<1>5. calls = <<>> /\ <<>> \in Seq(Call) /\ Len(<<>>) = 0 /\ DOMAIN calls = {}
  BY DEF Init
<1>6. TypeOK
  <2>1. /\ now \in Moments /\ visit = 0 /\ mounted = FALSE /\ polling = FALSE /\ searching = FALSE
        /\ listed = Unasked /\ active = None /\ adding = 0
    BY DEF Init
  <2>2. {mounted, polling, searching} \subseteq BOOLEAN
    BY <2>1
  <2>3. calls \in Seq(Call) /\ adding \in 0 .. Len(calls)
    BY <1>5, <2>1
  <2> QED
    BY <1>3, <1>4, <2>1, <2>2, <2>3 DEF TypeOK
<1>7. Vetted /\ ButtonIsOwn
  BY <1>5 DEF Init, Vetted, ButtonIsOwn
<1> QED
  BY <1>6, <1>7 DEF Inv

LEMMA StepInv == Inv /\ [Next]_vars => Inv'
<1> SUFFICES ASSUME Inv, [Next]_vars
             PROVE  Inv'
  OBVIOUS
<1>1. CASE CardStep
  BY <1>1, CardStepKeeps
<1>2. CASE DialogStep
  BY <1>2, DialogStepKeeps
<1>3. CASE \/ \E row \in Shown : ClickRemove(row)
           \/ \E symbol \in Symbols : PickFound(symbol)
           \/ AddFromDetail
  BY <1>3, ClickRemoveKeeps, PickFoundKeeps, AddFromDetailKeeps
<1>4. CASE \E c \in DOMAIN calls : CallStep(c) \/ CommitAdd(c) \/ CommitRemove(c)
  BY <1>4, CallStepKeeps, CommitAddKeeps, CommitRemoveKeeps
<1>5. CASE \/ \E symbol \in Domestic : OthersAdd(symbol)
           \/ \E row \in rows : OthersRemove(row)
  BY <1>5, OthersKeep
<1>6. CASE UNCHANGED vars
  BY <1>6 DEF vars, server, card, dialog, Inv, TypeOK, Vetted, ButtonIsOwn
<1> QED
  BY <1>1, <1>2, <1>3, <1>4, <1>5, <1>6 DEF Next, CardStep, DialogStep, CallStep

LEMMA InvHolds == Spec => []Inv
  BY InitInv, StepInv, PTL DEF Spec

(* Every row that the page, the cache and the service hold is a domestic   *)
(* one, and the button observes a call that was made (Dashboard.TypeOK).   *)
THEOREM DashboardTyped == Spec => []TypeOK
<1>1. Inv => TypeOK
  BY DEF Inv
<1> QED
  BY <1>1, InvHolds, PTL

(* "Added" on the button of the stock's dialog is about the stock that is  *)
(* shown, whatever was opened, closed or answered meanwhile                *)
(* (StockDetailModal.tsx).                                                 *)
THEOREM DashboardAddedIsOwn == Spec => []AddedIsOwn
<1>1. Inv => AddedIsOwn
  BY DEF Inv, ButtonIsOwn, AddedIsOwn, Observing
<1> QED
  BY <1>1, InvHolds, PTL

-----------------------------------------------------------------------------
(* Ids that are given out again, and lists that are old. *)

LEMMA InitTraceable == Init => Traceable
<1> SUFFICES ASSUME Init
             PROVE  Traceable
  OBVIOUS
<1>1. PICK table \in Tables :
         /\ rows = {[id |-> i, born |-> i, symbol |-> table[i]] : i \in DOMAIN table}
         /\ births = Len(table)
  BY DEF Init
<1>2. table \in Seq(Domestic)
  BY DashboardAssumption
<1>3. /\ \A row, other \in rows : row.id = other.id \/ row.born = other.born => row = other
      /\ \A row \in rows : row.id <= births /\ row.born <= births
  BY <1>1, <1>2
<1>4. Unasked \in Query(SUBSET Faithful)
  BY DEF Unasked, Query
<1>5. listed = Unasked /\ DOMAIN calls = {}
  BY DEF Init
<1> QED
  BY <1>3, <1>4, <1>5 DEF Traceable

(* Rows come with a number that no row has had, and an id that no row has.  *)
LEMMA InsertTraceable ==
  ASSUME Inv, Traceable, NEW symbol \in Domestic, Insert(symbol)
  PROVE  /\ \A row, other \in rows' : row.id = other.id \/ row.born = other.born => row = other
         /\ \A row \in rows' : row.id <= births' /\ row.born <= births'
         /\ births <= births'
         /\ \A row \in rows' \ rows : row.born > births
<1>1. PICK id \in 1 .. births + 1 :
         /\ IsNextId(id)
         /\ rows' = rows \cup {[id |-> id, born |-> births + 1, symbol |-> symbol]}
  BY DEF Insert
<1>2. births \in Nat /\ births' = births + 1 /\ rows \subseteq Row
  BY DEF Insert, Inv, TypeOK
<1>3. \A row \in rows : row.id \in Nat /\ row.born \in Nat /\ row.id <= births /\ row.born <= births
  BY <1>2 DEF Traceable, Row
<1>4. \A row \in rows : row.id < id
  BY <1>1, <1>2, <1>3 DEF IsNextId
<1> DEFINE new == [id |-> id, born |-> births + 1, symbol |-> symbol]
<1>5. new.id = id /\ new.born = births + 1
  OBVIOUS
<1> HIDE DEF new
<1>6. rows' = rows \cup {new}
  BY <1>1 DEF new
<1> QED
  BY <1>2, <1>3, <1>4, <1>5, <1>6 DEF Traceable

LEMMA ServerTraceable ==
  ASSUME Inv, Traceable, Next
  PROVE  /\ \A row, other \in rows' : row.id = other.id \/ row.born = other.born => row = other
         /\ \A row \in rows' : row.id <= births' /\ row.born <= births'
         /\ births <= births'
         /\ \A row \in rows' \ rows : row.born > births
<1>0. births \in Nat
  BY DEF Inv, TypeOK
<1>1. CASE \E c \in DOMAIN calls : CommitAdd(c)
  BY <1>1, InsertTraceable DEF CommitAdd, Inv, Vetted
<1>2. CASE \E symbol \in Domestic : OthersAdd(symbol)
  BY <1>2, InsertTraceable DEF OthersAdd
<1>3. CASE rows' \subseteq rows /\ births' = births
  BY <1>0, <1>3 DEF Traceable
<1>4. (\/ \E c \in DOMAIN calls : CommitRemove(c)
       \/ \E row \in rows : OthersRemove(row)) => rows' \subseteq rows /\ births' = births
  BY DEF CommitRemove, OthersRemove
<1>5. \/ \E c \in DOMAIN calls : CommitAdd(c) \/ CommitRemove(c)
      \/ \E symbol \in Domestic : OthersAdd(symbol)
      \/ \E row \in rows : OthersRemove(row)
      \/ rows' \subseteq rows /\ births' = births
  BY DEF Next, Advance, Enter, Leave, Tick, Poll, Reconnect, ListWatchlist, ListArrives, ListFails,
         ClickRemove, OpenSearch, CloseDetail, Escape, AddFromDetail, OrderFromDetail, PickFound,
         OpenDetail, Answer, Refuse, HearSuccess, Refetched, HearFailure, server
<1> QED
  BY <1>1, <1>2, <1>3, <1>4, <1>5

\* What was faithful stays so.
LEMMA FaithfulGrows == ASSUME Inv, Traceable, Next PROVE Faithful \subseteq Faithful'
<1>1. births \in Nat /\ births' \in Nat
  BY StepInv DEF Inv, TypeOK
<1>2. births <= births' /\ \A row \in rows' \ rows : row.born > births
  BY ServerTraceable
<1> SUFFICES ASSUME NEW shown \in Faithful
             PROVE  shown \in Faithful'
  OBVIOUS
<1>3. shown \in Row /\ shown.born \in Nat /\ shown.born <= births
  BY DEF Faithful, Row
<1>4. ASSUME NEW row \in rows', row.born = shown.born PROVE row.id = shown.id
  <2>1. row \in rows
    BY <1>1, <1>2, <1>3, <1>4
  <2> QED
    BY <1>4, <2>1 DEF Faithful
<1> QED
  BY <1>1, <1>2, <1>3, <1>4 DEF Faithful

LEMMA ListTraceable ==
  ASSUME Inv, Traceable, Next
  PROVE  listed' \in Query(SUBSET Faithful')
<1>1. listed \in Query(SUBSET Faithful) /\ rows \in SUBSET Faithful /\ mounted \in BOOLEAN
  BY DEF Inv, TypeOK, Traceable, Faithful
<1>2. QueryStep => listed' \in Query(SUBSET Faithful)
  BY <1>1, QueryStepKeeps
<1>3. listed' = listed => listed' \in Query(SUBSET Faithful)
  BY <1>1
<1>4. QueryStep \/ listed' = listed
  BY DEF Next, QueryStep, Advance, Leave, Tick, ClickRemove, OpenSearch, CloseDetail, Escape,
         AddFromDetail, OrderFromDetail, PickFound, OpenDetail, Answer, Refuse, CommitAdd,
         CommitRemove, Refetched, HearFailure, OthersAdd, OthersRemove
<1>5. listed' \in Query(SUBSET Faithful)
  BY <1>2, <1>3, <1>4
<1>6. SUBSET Faithful \subseteq SUBSET Faithful'
  BY FaithfulGrows
<1> HIDE DEF Faithful
<1> QED
  BY <1>5, <1>6 DEF Query

\* A call that names its row goes on doing so.
LEMMA NamesStay ==
  ASSUME Inv, Traceable, Next, NEW call \in Call, Names(call, rows, births)
  PROVE  Names(call, rows', births')
<1>1. births \in Nat /\ births' \in Nat /\ call.clicked \in Nat
  BY StepInv DEF Inv, TypeOK, Call
<1>2. births <= births' /\ \A row \in rows' \ rows : row.born > births
  BY ServerTraceable
<1> SUFFICES ASSUME call.kind = "remove"
             PROVE  /\ call.clicked <= births'
                    /\ \A row \in rows' : row.born = call.clicked => row.id = call.id
  BY DEF Names
<1>3. call.clicked <= births
  BY DEF Names
<1>4. ASSUME NEW row \in rows', row.born = call.clicked PROVE row.id = call.id
  <2>1. row \in rows
    BY <1>1, <1>2, <1>3, <1>4
  <2> QED
    BY <1>4, <2>1 DEF Names
<1> QED
  BY <1>1, <1>2, <1>3, <1>4

\* What a step makes of the calls: one is new, or one moves on, and only the commit of a
\* removal says what was removed.
LEMMA CallsMove ==
  ASSUME Inv, Traceable, Next
  PROVE  \/ \E call \in Call : Send(call) /\ Names(call, rows, births)
         \/ \E c \in DOMAIN calls, moved \in Call :
               /\ calls' = [calls EXCEPT ![c] = moved]
               /\ moved.kind = calls[c].kind /\ moved.id = calls[c].id
               /\ moved.clicked = calls[c].clicked
               /\ moved.removed = calls[c].removed \/ CommitRemove(c)
         \/ calls' = calls
<1>0. calls \in Seq(Call)
  BY DEF Inv, TypeOK
<1>1. CASE \E row \in Shown : ClickRemove(row)
  <2>1. PICK row \in Shown : ClickRemove(row)
    BY <1>1
  <2>2. row \in Faithful
    BY DEF Traceable, Shown, Query
  <2>3. NewCall("remove", None, row.id, FALSE, row.born) \in Call
    BY <2>2 DEF NewCall, Call, Faithful, Row
  <2>4. Names(NewCall("remove", None, row.id, FALSE, row.born), rows, births)
    BY <2>2 DEF NewCall, Names, Faithful
  <2> QED
    BY <2>1, <2>3, <2>4 DEF ClickRemove
<1>2. CASE (\E symbol \in Symbols : PickFound(symbol)) \/ AddFromDetail
  <2>1. \E symbol \in Symbols \cup {None}, shown \in BOOLEAN : Send(NewCall("add", symbol, 0, shown, 0))
    BY <1>2 DEF PickFound, AddFromDetail, Inv, TypeOK
  <2>2. PICK symbol \in Symbols \cup {None}, shown \in BOOLEAN : Send(NewCall("add", symbol, 0, shown, 0))
    BY <2>1
  <2>3. /\ NewCall("add", symbol, 0, shown, 0) \in Call
        /\ Names(NewCall("add", symbol, 0, shown, 0), rows, births)
    BY DEF NewCall, Call, Names
  <2> QED
    BY <2>2, <2>3
<1>3. CASE \E c \in DOMAIN calls : CallStep(c)
  BY <1>3, CallStepMoves
<1>4. CASE \E c \in DOMAIN calls : CommitAdd(c)
  <2>1. PICK c \in DOMAIN calls : CommitAdd(c)
    BY <1>4
  <2> DEFINE moved == [calls[c] EXCEPT !.stage = "committed"]
  <2>2. calls' = [calls EXCEPT ![c] = moved]
    BY <2>1 DEF CommitAdd
  <2>3. calls[c] \in Call
    BY <1>0
  <2>4. /\ moved.kind = calls[c].kind /\ moved.id = calls[c].id
        /\ moved.clicked = calls[c].clicked /\ moved.removed = calls[c].removed
    BY <2>3 DEF Call
  <2>5. moved \in Call
    BY <2>3 DEF Call
  <2> HIDE DEF moved
  <2> QED
    BY <2>2, <2>4, <2>5
<1>5. CASE \E c \in DOMAIN calls : CommitRemove(c)
  <2>1. PICK c \in DOMAIN calls : CommitRemove(c)
    BY <1>5
  <2>2. PICK moved \in Call :
           /\ calls' = [calls EXCEPT ![c] = moved] /\ moved.kind = "remove"
           /\ moved.id = calls[c].id /\ moved.clicked = calls[c].clicked
    BY <2>1, CommitRemoveMoves
  <2>3. calls[c].kind = "remove"
    BY <2>1 DEF CommitRemove
  <2> QED
    BY <2>1, <2>2, <2>3
<1>6. \/ \E row \in Shown : ClickRemove(row)
      \/ (\E symbol \in Symbols : PickFound(symbol)) \/ AddFromDetail
      \/ \E c \in DOMAIN calls : CallStep(c) \/ CommitAdd(c) \/ CommitRemove(c)
      \/ calls' = calls
  BY DEF Next, CallStep, Advance, Enter, Leave, Tick, Poll, Reconnect, ListWatchlist, ListArrives,
         ListFails, OpenSearch, CloseDetail, Escape, OrderFromDetail, OpenDetail, OthersAdd, OthersRemove
<1> QED
  BY <1>1, <1>2, <1>3, <1>4, <1>5, <1>6

LEMMA CallsTraceable ==
  ASSUME Inv, Traceable, Next
  PROVE  \A c \in DOMAIN calls' : Names(calls'[c], rows', births')
<1>0. calls \in Seq(Call) /\ \A c \in DOMAIN calls : calls[c] \in Call
  BY DEF Inv, TypeOK
<1>1. \A c \in DOMAIN calls : Names(calls[c], rows', births')
  BY <1>0, NamesStay DEF Traceable
<1>2. CASE \E call \in Call : Send(call) /\ Names(call, rows, births)
  <2>1. PICK call \in Call : Send(call) /\ Names(call, rows, births)
    BY <1>2
  <2>2. Names(call, rows', births')
    BY <2>1, NamesStay
  <2> QED
    BY <1>0, <1>1, <2>1, <2>2, SendFacts
<1>3. ASSUME NEW c \in DOMAIN calls, NEW moved \in Call, calls' = [calls EXCEPT ![c] = moved],
             moved.kind = calls[c].kind, moved.id = calls[c].id, moved.clicked = calls[c].clicked
      PROVE  \A d \in DOMAIN calls' : Names(calls'[d], rows', births')
  <2>1. Names(moved, rows', births')
    BY <1>1, <1>3 DEF Names
  <2> QED
    BY <1>0, <1>1, <1>3, <2>1
<1> QED
  BY <1>1, <1>2, <1>3, CallsMove

LEMMA StepTraceable == Inv /\ Traceable /\ [Next]_vars => Traceable'
<1> SUFFICES ASSUME Inv, Traceable, [Next]_vars
             PROVE  Traceable'
  OBVIOUS
<1>1. CASE Next
  BY <1>1, ServerTraceable, ListTraceable, CallsTraceable DEF Traceable
<1>2. CASE UNCHANGED vars
  <2>1. Faithful' = Faithful
    BY <1>2 DEF vars, server, Faithful
  <2> QED
    BY <1>2, <2>1 DEF vars, server, Traceable
<1> QED
  BY <1>1, <1>2

(* A click on the cross of a row takes no other row while the clicked one  *)
(* is there, however old the list is that the page shows, whatever others  *)
(* have added and removed since (Watchlist.tsx), and although SQLite gives *)
(* ids out again.                                                          *)
THEOREM DashboardSparesOthers == Spec => SparesOthers
<1> DEFINE Spared ==
      \A c \in DOMAIN calls :
          /\ calls'[c].removed # calls[c].removed
          /\ \E row \in rows : row.born = calls[c].clicked
          => calls'[c].removed = {calls[c].clicked}
<1>1. Inv /\ Traceable /\ [Next]_vars => [Spared]_vars
  <2> SUFFICES ASSUME Inv, Traceable, Next, NEW c \in DOMAIN calls,
                      calls'[c].removed # calls[c].removed,
                      NEW row \in rows, row.born = calls[c].clicked
               PROVE  calls'[c].removed = {calls[c].clicked}
    BY DEF vars
  <2>1. calls \in Seq(Call)
    BY DEF Inv, TypeOK
  <2>2. CommitRemove(c)
    <3>1. ~\E call \in Call : Send(call)
      BY <2>1, SendFacts
    <3>2. PICK d \in DOMAIN calls, moved \in Call :
             /\ calls' = [calls EXCEPT ![d] = moved]
             /\ moved.removed = calls[d].removed \/ CommitRemove(d)
      BY <3>1, CallsMove
    <3>3. d = c
      BY <2>1, <3>2
    <3> QED
      BY <2>1, <3>2, <3>3
  <2> DEFINE gone == {other \in rows : other.id = calls[c].id}
  <2>3. calls'[c].removed = {other.born : other \in gone}
    BY <2>1, <2>2, CommitRemoveMoves
  <2>4. row.id = calls[c].id
    BY <2>2 DEF Traceable, Names, CommitRemove
  <2>5. gone = {row}
    BY <2>4 DEF Traceable
  <2> QED
    BY <2>3, <2>5
<1>2. Inv /\ Traceable /\ [Next]_vars => Traceable'
  BY StepTraceable
<1> QED
  BY <1>1, <1>2, InvHolds, InitTraceable, PTL DEF Spec, SparesOthers
=============================================================================
