----------------------------- MODULE Dashboard -----------------------------
(***************************************************************************)
(* The watchlist card of the dashboard, with the dialog that searches for  *)
(* stocks to add and the stock's own dialog, which is there on every page; *)
(* the polling, which follows the market's hours; and other users of the   *)
(* same watchlist: the assistant, or a second window.                      *)
(*                                                                         *)
(* The service is Watchlist; of it this module has what a client sees: ids *)
(* that SQLite gives out again, refusals, and answers that are sent before *)
(* their transaction commits.  Rows whose price is missing are shown apart *)
(* but work as the others do; prices, names and the order of the rows are  *)
(* left out.                                                               *)
(***************************************************************************)
EXTENDS Integers, Sequences, FiniteSets, QueryCache

CONSTANTS
    Symbols,      \* what the search finds
    Domestic,     \* the ones of six digits, which may be added
    None,         \* no symbol
    SingleWriter, \* TRUE: SQLite; FALSE: PostgreSQL
    Tables,       \* the watchlists to start from
    Moments,      \* the times, each a day and a minute of UTC
    MaxCalls,     \* bound on the calls of this page
    MaxBirths,    \* bound on the rows that others add
    MaxVisits     \* bound on entering the page

ASSUME DashboardAssumption ==
    /\ Domestic \subseteq Symbols /\ None \notin Symbols
    /\ SingleWriter \in BOOLEAN
    /\ Tables \subseteq Seq(Domestic)
    /\ Moments # {} /\ Moments \subseteq [day : 0 .. 6, minute : 0 .. 1439]
    /\ MaxCalls \in Nat /\ MaxBirths \in Nat /\ MaxVisits \in Nat

VARIABLES
    now,      \* the time
    rows,     \* the committed watchlist
    births,   \* how many rows there have been
    calls,    \* the additions and removals of this page, in order
    visit, mounted,
    polling,  \* the card's refetchInterval is on
    listed,   \* the query ['watchlist']
    searching,\* the dialog that adds stocks is open
    active,   \* the symbol of the stock's dialog (None: closed)
    adding    \* the call that its button observes (0: none)

server == <<rows, births>>
card == <<visit, mounted, polling, searching>>
dialog == <<active, adding>>
vars == <<now, server, calls, card, listed, dialog>>

-----------------------------------------------------------------------------
Row == [id : Nat \ {0}, born : Nat \ {0}, symbol : Domestic]

\* clicked: history: the row that the user wanted to remove; removed: history: the rows
\* that were.
Call == [kind : {"add", "remove"}, symbol : Symbols \cup {None}, id : Nat,
         fromDialog : BOOLEAN, clicked : Nat, removed : SUBSET Nat,
         stage : {"sent", "answered", "committed", "lost", "refused"},
         heard : {"nothing", "refetching", "success", "failure"}]

TypeOK ==
    /\ now \in Moments
    /\ rows \subseteq Row /\ births \in Nat
    /\ calls \in Seq(Call)
    /\ visit \in Nat /\ {mounted, polling, searching} \subseteq BOOLEAN
    /\ listed \in Query(SUBSET Row)
    /\ active \in Symbols \cup {None}
    /\ adding \in 0 .. Len(calls)

Init ==
    /\ now \in Moments
    /\ \E table \in Tables :
          /\ rows = {[id |-> i, born |-> i, symbol |-> table[i]] : i \in DOMAIN table}
          /\ births = Len(table)
    /\ calls = <<>>
    /\ visit = 0 /\ mounted = FALSE /\ polling = FALSE /\ searching = FALSE
    /\ listed = Unasked
    /\ active = None /\ adding = 0

-----------------------------------------------------------------------------
\* 09:00 to 15:30 in Korea, from Monday to Friday.
IsMarketHours(time) ==
    LET total == time.minute + 9 * 60
        day == (time.day + total \div 1440) % 7
        minute == total % 1440
    IN  day \notin {0, 6} /\ minute >= 9 * 60 /\ minute < 15 * 60 + 30

Advance(time) ==
    /\ now' = time
    /\ UNCHANGED <<server, calls, card, listed, dialog>>

Enter(old) ==
    /\ ~mounted /\ visit < MaxVisits
    /\ mounted' = TRUE /\ visit' = visit + 1
    /\ polling' = IsMarketHours(now)
    /\ listed' = Mount(listed, old)
    /\ UNCHANGED <<now, server, calls, searching, dialog>>

Left ==
    /\ mounted' = FALSE /\ polling' = FALSE /\ searching' = FALSE
    /\ UNCHANGED visit

Leave ==
    /\ mounted /\ Left
    /\ UNCHANGED <<now, server, calls, listed, dialog>>

\* A variant of Tick that no specification uses: the hours are looked up on entry only.
TickNever == FALSE /\ UNCHANGED vars

\* Once a minute the card looks whether the market is open.
Tick ==
    /\ mounted
    /\ polling' = IsMarketHours(now)
    /\ UNCHANGED <<now, server, calls, visit, mounted, searching, listed, dialog>>

Poll ==
    /\ mounted /\ polling /\ ~listed.fetching
    /\ listed' = Fetch(listed)
    /\ UNCHANGED <<now, server, calls, card, dialog>>

\* A network that is back has the list asked for again, whatever the hour.
Reconnect ==
    /\ mounted
    /\ listed' = Fetch(listed)
    /\ UNCHANGED <<now, server, calls, card, dialog>>

ListWatchlist ==
    /\ listed.fetching /\ listed.answer = {}
    /\ listed' = Answered(listed, rows)
    /\ UNCHANGED <<now, server, calls, card, dialog>>

ListArrives ==
    /\ listed.fetching /\ listed.answer # {}
    /\ listed' = Succeed(listed)
    /\ UNCHANGED <<now, server, calls, card, dialog>>

ListFails ==
    /\ listed.fetching
    /\ listed' = Fail(listed)
    /\ UNCHANGED <<now, server, calls, card, dialog>>

-----------------------------------------------------------------------------
\* The rows of the card: cached data stay there when a fetch fails.
Shown == IF mounted THEN UNION listed.data ELSE {}

NewCall(kind, symbol, id, fromDialog, clicked) ==
    [kind |-> kind, symbol |-> symbol, id |-> id, fromDialog |-> fromDialog,
     clicked |-> clicked, removed |-> {}, stage |-> "sent", heard |-> "nothing"]

Send(call) == Len(calls) < MaxCalls /\ calls' = Append(calls, call)

\* A variant of ClickRemove that no specification uses: the index of the row in the list
\* is sent for its id.
ClickRemoveIndex(row) ==
    /\ Send(NewCall("remove", None, Cardinality({other \in Shown : other.id < row.id}), FALSE,
                    row.born))
    /\ UNCHANGED <<now, server, card, listed, dialog>>

\* The cross of a row.
ClickRemove(row) ==
    /\ Send(NewCall("remove", None, row.id, FALSE, row.born))
    /\ UNCHANGED <<now, server, card, listed, dialog>>

OpenSearch ==
    /\ mounted /\ ~searching
    /\ searching' = TRUE
    /\ UNCHANGED <<now, server, calls, visit, mounted, polling, listed, dialog>>

\* What the search has found is added, and the dialog closes.
PickFound(symbol) ==
    /\ searching
    /\ searching' = FALSE
    /\ Send(NewCall("add", symbol, 0, FALSE, 0))
    /\ UNCHANGED <<now, server, visit, mounted, polling, listed, dialog>>

-----------------------------------------------------------------------------
\* A variant of Show that no specification uses: the button is not reset.
ShowOnly(symbol) == active' = symbol /\ UNCHANGED adding

\* The stock's dialog shows another symbol, or closes: its button starts anew, and what
\* it observed goes on unseen.
Show(symbol) ==
    /\ active' = symbol
    /\ adding' = IF symbol = active THEN adding ELSE 0

\* A row of the card, or what the search has found, is clicked.
OpenDetail(symbol) ==
    /\ \/ searching
       \/ \E row \in Shown : row.symbol = symbol
    /\ Show(symbol)
    /\ UNCHANGED <<now, server, calls, card, listed>>

CloseDetail ==
    /\ active # None /\ Show(None)
    /\ UNCHANGED <<now, server, calls, card, listed>>

\* Escape closes the two dialogs.
Escape ==
    /\ searching \/ active # None
    /\ searching' = FALSE /\ Show(None)
    /\ UNCHANGED <<now, server, calls, visit, mounted, polling, listed>>

Observing(heard) == adding # 0 /\ calls[adding].heard \in heard

AddFromDetail ==
    /\ active \in Domestic /\ ~Observing({"nothing", "refetching", "success"})
    /\ Send(NewCall("add", active, 0, TRUE, 0))
    /\ adding' = Len(calls) + 1
    /\ UNCHANGED <<now, server, card, listed, active>>

\* To the order page, with the symbol.
OrderFromDetail ==
    /\ active \in Domestic
    /\ Show(None)
    /\ IF mounted THEN Left ELSE UNCHANGED card
    /\ UNCHANGED <<now, server, calls, listed>>

-----------------------------------------------------------------------------
\* A variant of Acceptable that no specification uses: any symbol may be added.
AcceptableAny(call) ==
    IF call.kind = "add" THEN \A row \in rows : row.symbol # call.symbol
    ELSE \E row \in rows : row.id = call.id

Acceptable(call) ==
    IF call.kind = "add"
      THEN call.symbol \in Domestic /\ \A row \in rows : row.symbol # call.symbol
      ELSE \E row \in rows : row.id = call.id

Answer(c) ==
    /\ calls[c].stage = "sent" /\ Acceptable(calls[c])
    /\ calls' = [calls EXCEPT ![c].stage = "answered"]
    /\ UNCHANGED <<now, server, card, listed, dialog>>

Refuse(c) ==
    /\ calls[c].stage \in {"sent", "answered"}
    /\ calls' = [calls EXCEPT ![c].stage = IF @ = "sent" THEN "refused" ELSE "lost"]
    /\ UNCHANGED <<now, server, card, listed, dialog>>

IsNextId(id) ==
    IF ~SingleWriter THEN id = births + 1
    ELSE /\ \A row \in rows : row.id < id
         /\ id = 1 \/ \E row \in rows : row.id = id - 1

Insert(symbol) ==
    /\ \A row \in rows : row.symbol # symbol
    /\ \E id \in 1 .. births + 1 :
          /\ IsNextId(id)
          /\ rows' = rows \cup {[id |-> id, born |-> births + 1, symbol |-> symbol]}
    /\ births' = births + 1

CommitAdd(c) ==
    /\ calls[c].kind = "add" /\ calls[c].stage = "answered"
    /\ Insert(calls[c].symbol)
    /\ calls' = [calls EXCEPT ![c].stage = "committed"]
    /\ UNCHANGED <<now, card, listed, dialog>>

CommitRemove(c) ==
    LET gone == {row \in rows : row.id = calls[c].id}
    IN  /\ calls[c].kind = "remove" /\ calls[c].stage = "answered"
        /\ rows' = rows \ gone
        /\ calls' = [calls EXCEPT ![c].stage = "committed",
                                  ![c].removed = {row.born : row \in gone}]
        /\ UNCHANGED <<now, births, card, listed, dialog>>

\* The assistant and other windows.
OthersAdd(symbol) ==
    /\ births < MaxBirths /\ Insert(symbol)
    /\ UNCHANGED <<now, calls, card, listed, dialog>>

OthersRemove(row) ==
    /\ rows' = rows \ {row}
    /\ UNCHANGED <<now, births, calls, card, listed, dialog>>

-----------------------------------------------------------------------------
\* The list is asked for again; the stock's dialog waits for it.
HearSuccess(c) ==
    /\ calls[c].heard = "nothing" /\ calls[c].stage \in {"answered", "committed", "lost"}
    /\ calls' = [calls EXCEPT
          ![c].heard = IF calls[c].fromDialog THEN "refetching" ELSE "success"]
    /\ listed' = Invalidate(listed, mounted)
    /\ UNCHANGED <<now, server, card, dialog>>

Refetched(c) ==
    /\ calls[c].heard = "refetching" /\ (listed.fetching => ~mounted)
    /\ calls' = [calls EXCEPT ![c].heard = "success"]
    /\ UNCHANGED <<now, server, card, listed, dialog>>

\* An error, or no answer.  The card says nothing.
HearFailure(c) ==
    /\ calls[c].heard = "nothing"
    /\ calls' = [calls EXCEPT ![c].heard = "failure"]
    /\ UNCHANGED <<now, server, card, listed, dialog>>

-----------------------------------------------------------------------------
Next ==
    \/ \E time \in Moments : Advance(time)
    \/ \E old \in BOOLEAN : Enter(old)
    \/ Leave \/ Tick \/ Poll \/ Reconnect \/ ListWatchlist \/ ListArrives \/ ListFails
    \/ \E row \in Shown : ClickRemove(row)
    \/ OpenSearch \/ CloseDetail \/ Escape \/ AddFromDetail \/ OrderFromDetail
    \/ \E symbol \in Symbols : PickFound(symbol) \/ OpenDetail(symbol)
    \/ \E c \in DOMAIN calls :
          \/ Answer(c) \/ Refuse(c) \/ CommitAdd(c) \/ CommitRemove(c)
          \/ HearSuccess(c) \/ Refetched(c) \/ HearFailure(c)
    \/ \E symbol \in Domestic : OthersAdd(symbol)
    \/ \E row \in rows : OthersRemove(row)

Spec == Init /\ [][Next]_vars

\* The timers of the page run, the service answers, and the answers do not fail for ever.
FairSpec ==
    /\ Spec
    /\ WF_vars(Tick) /\ WF_vars(Poll)
    /\ SF_vars(ListWatchlist) /\ SF_vars(ListArrives)

-----------------------------------------------------------------------------
\* A click on the cross of a row takes no other row while that one is there, however old
\* the list is, whatever the assistant has done since, and although ids are given out
\* again (Watchlist.tsx sends the id that it shows): only once the clicked row is gone, a
\* row that got its id may go in its place.
SparesOthers ==
    [][\A c \in DOMAIN calls :
          /\ calls'[c].removed # calls[c].removed
          /\ \E row \in rows : row.born = calls[c].clicked
          => calls'[c].removed = {calls[c].clicked}]_vars

\* "the button never shows a stale '추가됨' carried over from the previously viewed
\* stock" (StockDetailModal.tsx), also when the answer comes after another stock was opened.
AddedIsOwn == Observing({"refetching", "success"}) => calls[adding].symbol = active

\* While the market is open the card comes to show the watchlist as it is, whatever the
\* assistant does to it and although the list that is asked for after an addition may be
\* read before the addition commits.
ListHeals == <>[](mounted /\ IsMarketHours(now)) => <>[](listed.data = {rows})
=============================================================================
