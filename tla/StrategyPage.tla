---------------------------- MODULE StrategyPage ----------------------------
(***************************************************************************)
(* The strategy page and its server: the list on the left, and on the      *)
(* right the form that creates and edits strategies or, when it is shut,   *)
(* the detail of the selected one, which evaluates and deletes it.         *)
(*                                                                         *)
(* A call is one request to StrategyService.  As everywhere in the backend *)
(* its answer is sent before its transaction commits.  The database is     *)
(* SQLite, which lets one transaction write at a time, takes the largest   *)
(* id in use plus one for a new row and, as it is configured, checks no    *)
(* foreign key; or PostgreSQL, which locks rows, never gives an id out     *)
(* again and checks them.  mock.ts does what PostgreSQL does, at once.     *)
(***************************************************************************)
EXTENDS Integers, Sequences, FiniteSets, QueryCache

CONSTANTS
    Names, Blank,    \* what is typed as a name; the empty name
    Symbols, NoSymbol,
    Rules, NoRule,   \* the lists of indicators; a strategy made elsewhere may have none
    Sizings,
    DefaultRule, DefaultSizing,
    SingleWriter,    \* TRUE: SQLite; FALSE: PostgreSQL
    Tables,          \* the strategies to start from, in the order of their creation
    MaxCalls,        \* bound on the calls
    MaxMounts        \* bound on how often the form appears

Fields == [name : Names \cup {Blank}, symbol : Symbols \cup {NoSymbol}, rule : Rules,
           sizing : Sizings]
Content == [name : Names, symbol : Symbols, rule : Rules \cup {NoRule}, sizing : Sizings]

ASSUME StrategyAssumption ==
    /\ Blank \notin Names /\ NoSymbol \notin Symbols /\ NoRule \notin Rules
    /\ DefaultRule \in Rules /\ DefaultSizing \in Sizings
    /\ SingleWriter \in BOOLEAN
    /\ Tables \subseteq Seq(Content)
    /\ MaxCalls \in Nat /\ MaxMounts \in Nat

VARIABLES
    rows,       \* the committed strategies
    births,     \* how many strategies there have been
    signals,    \* the committed signals
    calls,      \* the calls, in order
    listed,     \* the query ['strategies']
    selected,   \* the id of the selected strategy (0: none)
    form,
    saving, evaluating, deleting
                \* the calls that the mutations of the form and of the detail that are
                \* on the screen observe (0: none)

server == <<rows, births, signals>>
observed == <<saving, evaluating, deleting>>
vars == <<server, calls, listed, selected, form, observed>>

-----------------------------------------------------------------------------
Ids == Nat \ {0}
Row == [id : Ids, content : Content]

\* A signal is of a strategy and was made by a call (0: an earlier one).
Signal == [id : Ids, by : Nat]

\* dropped: the signals that a delete has deleted.
Call == [kind : {"create", "update", "delete", "evaluate"}, id : Nat, fields : Fields,
         mount : Nat, dropped : SUBSET Signal,
         stage : {"sent", "loaded", "answered", "committed", "lost", "refused"},
         heard : {"nothing", "success", "failure"}]

\* edit: the strategy it edits (0: it creates one); prefilled: the last strategy that its
\* fields were filled from; shown: history: what the list showed of that one; touched:
\* history: the user has changed a field since.
Form == [open : BOOLEAN, mount : Nat, edit : Nat, fields : Fields, prefilled : Nat,
         shown : SUBSET Content, touched : BOOLEAN]

Defaults == [name |-> Blank, symbol |-> NoSymbol, rule |-> DefaultRule,
             sizing |-> DefaultSizing]
Shut(mount) == [open |-> FALSE, mount |-> mount, edit |-> 0, fields |-> Defaults,
                prefilled |-> 0, shown |-> {}, touched |-> FALSE]

TypeOK ==
    /\ rows \subseteq Row
    /\ births \in Nat
    /\ signals \subseteq Signal
    /\ calls \in Seq(Call)
    /\ listed \in Query(SUBSET Row)
    /\ selected \in Nat
    /\ form \in Form
    /\ {saving, evaluating, deleting} \subseteq 0 .. Len(calls)

\* Each strategy that is there has been evaluated, and the page has just appeared.
Init ==
    /\ \E table \in Tables :
          /\ rows = {[id |-> i, content |-> table[i]] : i \in DOMAIN table}
          /\ births = Len(table)
          /\ signals = {[id |-> i, by |-> 0] : i \in DOMAIN table}
    /\ calls = <<>>
    /\ listed = Mount(Unasked, FALSE)
    /\ selected = 0
    /\ form = Shut(0)
    /\ saving = 0 /\ evaluating = 0 /\ deleting = 0

-----------------------------------------------------------------------------
\* The rows of the list on the screen: cached data stay there when a fetch fails.
Shown == UNION listed.data
ShownOf(id) == {row \in Shown : row.id = id}

Pending(c) == c # 0 /\ calls[c].heard = "nothing"

\* A variant of Rendered that no specification uses: only the first target is applied.
RenderedOnce(f, data) ==
    LET target == {row \in UNION data : row.id = f.edit}
    IN  IF target = {} \/ f.prefilled # 0 THEN f
        ELSE LET row == CHOOSE row \in target : TRUE
             IN  [f EXCEPT !.prefilled = row.id, !.shown = {row.content}, !.touched = FALSE,
                           !.fields = [row.content EXCEPT
                               !.rule = IF @ = NoRule THEN f.fields.rule ELSE @]]

\* Another variant: the target is applied whenever the form is rendered.
RenderedAlways(f, data) ==
    LET target == {row \in UNION data : row.id = f.edit}
    IN  IF target = {} THEN f
        ELSE LET row == CHOOSE row \in target : TRUE
             IN  [f EXCEPT !.prefilled = row.id, !.shown = {row.content}, !.touched = FALSE,
                           !.fields = [row.content EXCEPT
                               !.rule = IF @ = NoRule THEN f.fields.rule ELSE @]]

\* The form as it is rendered with what the list holds: when that shows a target for the
\* first time, its content replaces the fields.  A target without a rule leaves the
\* indicators that are there.
Rendered(f, data) ==
    LET target == {row \in UNION data : row.id = f.edit}
    IN  IF target = {} \/ f.edit = f.prefilled THEN f
        ELSE LET row == CHOOSE row \in target : TRUE
             IN  [f EXCEPT !.prefilled = row.id, !.shown = {row.content}, !.touched = FALSE,
                           !.fields = [row.content EXCEPT
                               !.rule = IF @ = NoRule THEN f.fields.rule ELSE @]]

\* The form with another target: the one that is open keeps its fields, or a new one
\* appears, and the detail disappears.
Turned(edit) ==
    IF form.open THEN [form EXCEPT !.edit = edit]
    ELSE [Shut(form.mount + 1) EXCEPT !.open = TRUE, !.edit = edit]

\* The form needs the list once it edits; the detail needs it whenever it appears.
OpenForm(edit, old) ==
    /\ form.open \/ form.mount < MaxMounts
    /\ form' = Rendered(Turned(edit), listed.data)
    /\ listed' = IF edit # 0 /\ form.edit = 0 THEN Mount(listed, old) ELSE listed
    /\ saving' = IF form.open THEN saving ELSE 0
    /\ evaluating' = 0 /\ deleting' = 0
    /\ UNCHANGED <<server, calls, selected>>

OpenCreate == OpenForm(0, FALSE)
OpenEdit(row, old) == OpenForm(row.id, old)

CloseForm(old) ==
    /\ form.open
    /\ form' = Shut(form.mount) /\ saving' = 0
    /\ listed' = IF selected # 0 THEN Mount(listed, old) ELSE listed
    /\ UNCHANGED <<server, calls, selected, evaluating, deleting>>

\* A click on a row of the list.  When the detail is on the screen it stays there, with
\* its mutations, and is given another strategy.
Select(row, old) ==
    /\ selected' = row.id
    /\ form' = Shut(form.mount) /\ saving' = 0
    /\ listed' = IF form.open \/ selected = 0 THEN Mount(listed, old) ELSE listed
    /\ UNCHANGED <<server, calls, evaluating, deleting>>

-----------------------------------------------------------------------------
Change(fields) ==
    /\ form.open /\ form.fields # fields
    /\ form' = [form EXCEPT !.fields = fields, !.touched = TRUE]
    /\ UNCHANGED <<server, calls, listed, selected, observed>>

TypeName(name) == Change([form.fields EXCEPT !.name = name])
PickSymbol(symbol) ==
    form.fields.symbol = NoSymbol /\ Change([form.fields EXCEPT !.symbol = symbol])
DropSymbol == Change([form.fields EXCEPT !.symbol = NoSymbol])
EditIndicators(rule) == Change([form.fields EXCEPT !.rule = rule])
EditSizing(sizing) == Change([form.fields EXCEPT !.sizing = sizing])

NewCall(kind, id) ==
    [kind |-> kind, id |-> id, fields |-> form.fields, mount |-> form.mount, dropped |-> {},
     stage |-> "sent", heard |-> "nothing"]

\* A variant of Complete that no specification uses: the symbol may be missing.
Named(fields) == fields.name # Blank

Complete(fields) == fields.name # Blank /\ fields.symbol # NoSymbol

\* A variant of Save that no specification uses: the button stays enabled.
SaveAgain ==
    /\ form.open /\ Complete(form.fields)
    /\ Len(calls) < MaxCalls
    /\ calls' = Append(calls, NewCall(IF form.edit = 0 THEN "create" ELSE "update", form.edit))
    /\ saving' = Len(calls) + 1
    /\ UNCHANGED <<server, listed, selected, form, evaluating, deleting>>

\* An incomplete form is refused on the spot.
Save ==
    /\ form.open /\ ~Pending(saving) /\ Complete(form.fields)
    /\ Len(calls) < MaxCalls
    /\ calls' = Append(calls, NewCall(IF form.edit = 0 THEN "create" ELSE "update", form.edit))
    /\ saving' = Len(calls) + 1
    /\ UNCHANGED <<server, listed, selected, form, evaluating, deleting>>

\* The detail shows its strategy and its buttons unless the last fetch has failed.
HasDetail == ~form.open /\ ShownOf(selected) # {} /\ ~listed.failed

Evaluate ==
    /\ HasDetail /\ ~Pending(evaluating)
    /\ Len(calls) < MaxCalls
    /\ calls' = Append(calls, NewCall("evaluate", selected))
    /\ evaluating' = Len(calls) + 1
    /\ UNCHANGED <<server, listed, selected, form, saving, deleting>>

Delete ==
    /\ HasDetail /\ ~Pending(deleting)
    /\ Len(calls) < MaxCalls
    /\ calls' = Append(calls, NewCall("delete", selected))
    /\ deleting' = Len(calls) + 1
    /\ UNCHANGED <<server, listed, selected, form, saving, evaluating>>

-----------------------------------------------------------------------------
RowsOf(id) == {row \in rows : row.id = id}
SignalsOf(id) == {signal \in signals : signal.id = id}

IsNextId(id) ==
    IF ~SingleWriter THEN id = births + 1
    ELSE /\ \A row \in rows : row.id < id
         /\ id = 1 \/ \E row \in rows : row.id = id - 1

\* A variant of Checked that no specification uses: the table declares no foreign key.
Undeclared == FALSE

\* The database checks that the strategy of a signal exists.
Checked == ~SingleWriter

\* What the transaction of a call waits for: the writer, or one that has its row.
Waits(c) ==
    \E d \in DOMAIN calls \ {c} :
      /\ calls[d].stage = "answered"
      /\ \/ SingleWriter
         \/ /\ calls[c].id = calls[d].id
            /\ \/ calls[c].kind \in {"update", "delete"} /\ calls[d].kind = "update"
               \/ calls[c].kind = "delete" /\ calls[d].kind = "evaluate" /\ Checked

\* An evaluation loads the strategy, then awaits the candles from KIS.
Load(c) ==
    /\ calls[c].kind = "evaluate" /\ calls[c].stage = "sent"
    /\ RowsOf(calls[c].id) # {}
    /\ calls' = [calls EXCEPT ![c].stage = "loaded"]
    /\ UNCHANGED <<server, listed, selected, form, observed>>

\* The statements of a call have run and it is answered with success.  The signal of an
\* evaluation needs its strategy where foreign keys are checked.  PostgreSQL deletes the
\* row of a strategy only at the end, with the commit.
Answer(c) ==
    /\ calls[c].stage = IF calls[c].kind = "evaluate" THEN "loaded" ELSE "sent"
    /\ \/ calls[c].kind = "create"
       \/ RowsOf(calls[c].id) # {}
       \/ (calls[c].kind = "evaluate" /\ ~Checked)
    /\ Waits(c) => (calls[c].kind = "delete" /\ ~SingleWriter)
    /\ calls' = [calls EXCEPT
          ![c].stage = "answered",
          ![c].dropped = IF calls[c].kind = "delete" THEN SignalsOf(calls[c].id) ELSE {}]
    /\ UNCHANGED <<server, listed, selected, form, observed>>

Commit(c, kind) ==
    /\ calls[c].kind = kind /\ calls[c].stage = "answered"
    /\ calls' = [calls EXCEPT ![c].stage = "committed"]
    /\ UNCHANGED <<listed, selected, form, observed>>

CommitCreate(c) ==
    /\ Commit(c, "create")
    /\ \E id \in 1 .. births + 1 :
          /\ IsNextId(id)
          /\ rows' = rows \cup {[id |-> id, content |-> calls[c].fields]}
    /\ births' = births + 1
    /\ UNCHANGED signals

\* The symbol of a strategy stays: a PATCH does not carry it.
Patched(row, fields) == [row EXCEPT !.content = [fields EXCEPT !.symbol = row.content.symbol]]

CommitUpdate(c) ==
    /\ Commit(c, "update")
    /\ rows' = {IF row.id = calls[c].id THEN Patched(row, calls[c].fields) ELSE row :
                   row \in rows}
    /\ UNCHANGED <<births, signals>>

\* A signal that was added after the history was emptied keeps the strategy where foreign
\* keys are checked; SQLite let nobody write in between.
CommitDelete(c) ==
    /\ Commit(c, "delete") /\ ~Waits(c)
    /\ signals' = signals \ calls[c].dropped
    /\ Checked => SignalsOf(calls[c].id) \subseteq calls[c].dropped
    /\ rows' = rows \ RowsOf(calls[c].id)
    /\ UNCHANGED births

CommitEvaluate(c) ==
    /\ Commit(c, "evaluate")
    /\ signals' = signals \cup {[id |-> calls[c].id, by |-> c]}
    /\ UNCHANGED <<rows, births>>

\* The strategy is gone, KIS or the validation refuses, a lock is not granted in time; or
\* the commit fails after the answer.
Fall(c) ==
    /\ calls[c].stage \in {"sent", "loaded", "answered"}
    /\ calls' = [calls EXCEPT ![c].stage = IF @ = "answered" THEN "lost" ELSE "refused"]
    /\ UNCHANGED <<server, listed, selected, form, observed>>

-----------------------------------------------------------------------------
\* The callbacks of a call run whatever is on the screen by now.
HearSuccess(c) ==
    /\ calls[c].heard = "nothing" /\ calls[c].stage \in {"answered", "committed", "lost"}
    /\ calls' = [calls EXCEPT ![c].heard = "success"]
    /\ listed' = Invalidate(listed, TRUE)
    /\ UNCHANGED server

SaveSucceeds(c) ==
    /\ calls[c].kind \in {"create", "update"} /\ HearSuccess(c)
    /\ form' = Shut(form.mount) /\ saving' = 0
    /\ UNCHANGED <<selected, evaluating, deleting>>

EvaluateSucceeds(c) ==
    /\ calls[c].kind = "evaluate" /\ HearSuccess(c)
    /\ UNCHANGED <<selected, form, observed>>

DeleteSucceeds(c) ==
    /\ calls[c].kind = "delete" /\ HearSuccess(c)
    /\ selected' = 0
    /\ evaluating' = 0 /\ deleting' = 0
    /\ UNCHANGED <<form, saving>>

\* An error, or no answer: the server may still carry the call out.
HearFailure(c) ==
    /\ calls[c].heard = "nothing"
    /\ calls' = [calls EXCEPT ![c].heard = "failure"]
    /\ UNCHANGED <<server, listed, selected, form, observed>>

\* Nothing polls the list, but a network that is back has it asked for again.
Reconnect ==
    /\ listed' = Fetch(listed)
    /\ UNCHANGED <<server, calls, selected, form, observed>>

ListStrategies ==
    /\ listed.fetching /\ listed.answer = {}
    /\ listed' = Answered(listed, rows)
    /\ UNCHANGED <<server, calls, selected, form, observed>>

ListArrives ==
    /\ listed.fetching /\ listed.answer # {}
    /\ listed' = Succeed(listed)
    /\ form' = Rendered(form, listed.answer)
    /\ UNCHANGED <<server, calls, selected, observed>>

ListFails ==
    /\ listed.fetching
    /\ listed' = Fail(listed)
    /\ UNCHANGED <<server, calls, selected, form, observed>>

-----------------------------------------------------------------------------
Next ==
    \/ OpenCreate
    \/ \E old \in BOOLEAN :
          \/ CloseForm(old)
          \/ \E row \in Shown : OpenEdit(row, old) \/ Select(row, old)
    \/ \E name \in Names : TypeName(name)
    \/ \E symbol \in Symbols : PickSymbol(symbol)
    \/ DropSymbol
    \/ \E rule \in Rules : EditIndicators(rule)
    \/ \E sizing \in Sizings : EditSizing(sizing)
    \/ Save \/ Evaluate \/ Delete
    \/ \E c \in DOMAIN calls :
          \/ Load(c) \/ Answer(c) \/ Fall(c)
          \/ CommitCreate(c) \/ CommitUpdate(c) \/ CommitDelete(c) \/ CommitEvaluate(c)
          \/ SaveSucceeds(c) \/ EvaluateSucceeds(c) \/ DeleteSucceeds(c) \/ HearFailure(c)
    \/ Reconnect \/ ListStrategies \/ ListArrives \/ ListFails

Spec == Init /\ [][Next]_vars
-----------------------------------------------------------------------------
\* Every signal belongs to a strategy that is there: an evaluation that awaits its
\* candles while the strategy is deleted, and a deletion while a signal is added, leave
\* none behind, also between their answers and their commits
\* (services/strategy/service.py:128-157).  Without foreign keys this is not so.
NoOrphans == \A signal \in signals : RowsOf(signal.id) # {}

\* Under either database a strategy that is deleted takes its signals along ("Delete a
\* strategy and its signal history", STRATEGY.md:36), though it empties the history
\* before it is answered and the strategy goes only with its commit.
DeleteTakesHistory ==
    [][\A row \in rows, signal \in signals' :
          signal.id = row.id => \E kept \in rows' : kept.id = row.id]_vars

\* While the form stays on the screen, what it sends follows a failure: it never saves
\* twice at a time, also when it is turned to another strategy during a save.
OneSaveAtATime ==
    \A c, d \in DOMAIN calls :
      /\ c < d /\ calls[c].mount = calls[d].mount
      /\ {calls[c].kind, calls[d].kind} \subseteq {"create", "update"}
      => calls[c].heard # "nothing"

\* An edit that the user has not touched saves what the list showed of its target,
\* whichever strategies the form was turned to before; a target without a rule leaves
\* the indicators of another one in the form.
EditShowsItsTarget ==
    form.open /\ form.edit # 0 /\ ~form.touched =>
      /\ form.prefilled = form.edit
      /\ \A content \in form.shown :
            form.fields = [content EXCEPT !.rule = IF @ = NoRule THEN form.fields.rule ELSE @]

\* What the user has typed stays in the form until it is shut or turned to another
\* strategy, however often the list arrives.
TypingIsKept ==
    [][form.touched /\ form'.open /\ form'.mount = form.mount /\ form'.edit = form.edit
         => form'.touched]_vars

\* "On success, show the returned signal", in "the right pane for the selected strategy"
\* (STRATEGY.md): the signal in the pane is one of that strategy.
CardIsOwn ==
    HasDetail /\ evaluating # 0 /\ calls[evaluating].heard = "success" =>
      calls[evaluating].id = selected
=============================================================================
