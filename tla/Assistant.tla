----------------------------- MODULE Assistant -----------------------------
(***************************************************************************)
(* The assistant: the conversation that the browser keeps, the requests it *)
(* makes of the backend, and what the backend does for them.  A message    *)
(* goes to POST /chat/stream and, when that fails, once more to /chat;     *)
(* each of the two is a run of the model.  What a run wants to change is   *)
(* only proposed; a click on the prompt sends it back to /confirm.         *)
(*                                                                         *)
(* A text is known by the run it comes from (0: the user, a note, an error *)
(* message) and by its size: empty, ok for a message (1 to 4000            *)
(* characters), or too long for one.                                       *)
(***************************************************************************)
EXTENDS Integers, Sequences, FiniteSets

CONSTANTS
    MaxMessages,  \* how many messages a chat request may carry
    MaxRuns,      \* bound: no message is sent once so many runs have begun
    MaxProposals, \* bound on what one run proposes
    MaxClicks     \* bound on confirmations

ASSUME BoundsAssumption ==
    /\ MaxMessages \in Nat \ {0}
    /\ MaxRuns \in Nat /\ MaxProposals \in Nat /\ MaxClicks \in Nat

VARIABLES
    entries,       \* the conversation
    pendingAction, \* the live proposal, or NoAction
    isSending,     \* the composer and the prompts are disabled
    turns,         \* the chat turns under way
    confirms,      \* the confirmations under way, given up ones included
    runs,          \* how many runs have begun
    clicked,       \* history: the confirmed proposals, a click each
    executed,      \* history: the changes made, in order
    crossed        \* history: a recommendation was added while a request was under way

conversation == <<entries, pendingAction, isSending>>
ghosts == <<clicked, executed, crossed>>
vars == <<entries, pendingAction, isSending, turns, confirms, runs, ghosts>>

-----------------------------------------------------------------------------
Text == [run : Nat, size : {"empty", "ok", "long"}]
Blank == [run |-> 0, size |-> "empty"]
Prose == [run |-> 0, size |-> "ok"]
Written == {"ok", "long"}

\* The n-th proposal of a run; n is all that its id, "act_n", tells.
Action == [run : Nat, seq : Nat]
NoAction == [run |-> 0, seq |-> 0]

Entry == [role : {"user", "assistant"}, content : Text, action : Action,
          cards : BOOLEAN, isError : BOOLEAN]

Said(who, text) ==
    [role |-> who, content |-> text, action |-> NoAction, cards |-> FALSE, isError |-> FALSE]
Note == Said("assistant", Prose)
ErrorNote == [Note EXCEPT !.isError = TRUE]

Turn == [entry : Nat \ {0}, via : {"stream", "fallback"}, run : Nat, proposals : Nat,
         history : [length : Nat, texts : SUBSET Text]]
Confirmation == [click : Nat, action : Action, waiting : BOOLEAN, done : BOOLEAN]

TypeOK ==
    /\ entries \in Seq(Entry)
    /\ pendingAction \in Action
    /\ isSending \in BOOLEAN
    /\ turns \subseteq Turn
    /\ confirms \subseteq Confirmation
    /\ runs \in Nat
    /\ clicked \in Seq(Action)
    /\ executed \in Seq([click : Nat, action : Action])
    /\ crossed \in BOOLEAN

Init ==
    /\ entries = <<>>
    /\ pendingAction = NoAction
    /\ isSending = FALSE
    /\ turns = {}
    /\ confirms = {}
    /\ runs = 0
    /\ clicked = <<>>
    /\ executed = <<>>
    /\ crossed = FALSE

-----------------------------------------------------------------------------
Waiting == {c \in confirms : c.waiting}
UnderWay == turns # {} \/ Waiting # {}

\* The messages of a request: the conversation without its error messages, and the
\* new text.  Their order is of no concern here.
Shown == {i \in DOMAIN entries : ~entries[i].isError}
History(text) ==
    [length |-> Cardinality(Shown) + 1, texts |-> {entries[i].content : i \in Shown} \cup {text}]

\* What the backend takes; anything else it answers with 422.
Acceptable(history) ==
    /\ history.length <= MaxMessages
    /\ \A text \in history.texts : text.size = "ok"

NewTurn(entry, history) ==
    [entry |-> entry, via |-> "stream", run |-> runs + 1, proposals |-> 0, history |-> history]

\* A variant of TurnOf that no specification uses: the place of the entry is taken
\* before the message is added.
TurnMisplaced(text) == NewTurn(Len(entries), History(text))

\* The history is the one of the last rendering, with the message added.
TurnOf(text) == NewTurn(Len(entries) + 2, History(text))

\* The message and a blank entry for the reply are shown, and the stream is opened.
Send(text) ==
    /\ runs < MaxRuns
    /\ pendingAction' = NoAction
    /\ entries' = entries \o <<Said("user", text), Said("assistant", Blank)>>
    /\ isSending' = TRUE
    /\ turns' = turns \cup {TurnOf(text)}
    /\ runs' = runs + 1
    /\ UNCHANGED <<confirms, clicked, executed>>

\* A variant of Submit that no specification uses.
SubmitAnytime(text) == Send(text) /\ UNCHANGED crossed

\* The composer is disabled while something is being sent.
Submit(text) ==
    /\ ~isSending
    /\ Send(text)
    /\ UNCHANGED crossed

\* The button of a recommendation is not.
AskToAdd(i) ==
    /\ entries[i].cards
    /\ Send(Prose)
    /\ crossed' = (crossed \/ UnderWay)

-----------------------------------------------------------------------------
\* A variant of Propose that no specification uses: the gate lets the tool run.
ProposeAllowed(q) ==
    /\ Acceptable(q.history)
    /\ q.proposals < MaxProposals
    /\ turns' = (turns \ {q}) \cup {[q EXCEPT !.proposals = @ + 1]}
    /\ executed' = Append(executed, [click |-> 0, action |-> [run |-> q.run, seq |-> q.proposals + 1]])
    /\ UNCHANGED <<conversation, confirms, runs, clicked, crossed>>

\* A run wants to change the watchlist: can_use_tool refuses and takes it down.
Propose(q) ==
    /\ Acceptable(q.history)
    /\ q.proposals < MaxProposals
    /\ turns' = (turns \ {q}) \cup {[q EXCEPT !.proposals = @ + 1]}
    /\ UNCHANGED <<conversation, confirms, runs, ghosts>>

\* Some of a streamed reply arrives.
Delta(q, size) ==
    /\ q.via = "stream" /\ Acceptable(q.history)
    /\ entries[q.entry].content.size = "long" => size = "long"
    /\ entries' = [entries EXCEPT ![q.entry].content = [run |-> q.run, size |-> size]]
    /\ UNCHANGED <<pendingAction, isSending, turns, confirms, runs, ghosts>>

\* The stream is refused with a 5xx, breaks, or reports an error.
FallBack(q) ==
    /\ q.via = "stream"
    /\ turns' = (turns \ {q})
                  \cup {[q EXCEPT !.via = "fallback", !.run = runs + 1, !.proposals = 0]}
    /\ runs' = runs + 1
    /\ UNCHANGED <<conversation, confirms, ghosts>>

\* A variant of Finish that no specification uses.
FinishSending(q) == turns' = turns \ {q} /\ UNCHANGED isSending

Finish(q) == turns' = turns \ {q} /\ isSending' = FALSE

\* The client looks at the first proposal of a response only.
First(q) == IF q.proposals = 0 THEN NoAction ELSE [run |-> q.run, seq |-> 1]

\* A variant of Replied that no specification uses: what was streamed is kept.
RepliedStreamed(e, q, size, cards) ==
    [e EXCEPT !.content = IF @ = Blank THEN [run |-> q.run, size |-> size] ELSE @,
              !.cards = cards, !.action = First(q)]

Replied(e, q, size, cards) ==
    [e EXCEPT !.content = [run |-> q.run, size |-> size], !.cards = cards, !.action = First(q)]

\* The turn ends with a response, streamed or not.
Answer(q, size, cards) ==
    /\ Acceptable(q.history)
    /\ entries' = [entries EXCEPT ![q.entry] = Replied(@, q, size, cards)]
    /\ pendingAction' = First(q)
    /\ Finish(q)
    /\ UNCHANGED <<confirms, runs, ghosts>>

Failed(e) == [e EXCEPT !.content = Prose, !.isError = TRUE]

\* The turn ends with an error message: a 4xx of the stream, anything of the fallback.
TurnFails(q) ==
    /\ q.via = "fallback" \/ ~Acceptable(q.history)
    /\ entries' = [entries EXCEPT ![q.entry] = Failed(@)]
    /\ Finish(q)
    /\ UNCHANGED <<pendingAction, confirms, runs, ghosts>>

-----------------------------------------------------------------------------
\* MessageList shows the prompt of entry i: the live proposal has the same id.
Prompted(i) ==
    /\ entries[i].action # NoAction
    /\ pendingAction # NoAction /\ pendingAction.seq = entries[i].action.seq

Confirm(i) ==
    /\ ~isSending /\ Prompted(i)
    /\ Len(clicked) < MaxClicks
    /\ isSending' = TRUE
    /\ clicked' = Append(clicked, entries[i].action)
    /\ confirms' = confirms \cup {[click |-> Len(clicked) + 1, action |-> entries[i].action,
                                   waiting |-> TRUE, done |-> FALSE]}
    /\ UNCHANGED <<entries, pendingAction, turns, runs, executed, crossed>>

CancelPending(i) ==
    /\ ~isSending /\ Prompted(i)
    /\ pendingAction' = NoAction
    /\ entries' = Append(entries, Note)
    /\ UNCHANGED <<isSending, turns, confirms, runs, ghosts>>

\* The backend carries out a confirmation, whether or not the client still waits.
Execute(c) ==
    /\ ~c.done
    /\ executed' = Append(executed, [click |-> c.click, action |-> c.action])
    /\ confirms' = (confirms \ {c}) \cup {[c EXCEPT !.done = TRUE]}
    /\ UNCHANGED <<conversation, turns, runs, clicked, crossed>>

\* A variant of Settle that no specification uses: the proposal stays, for a retry.
SettleKeeping(note) ==
    /\ entries' = Append(entries, note)
    /\ isSending' = FALSE
    /\ UNCHANGED pendingAction

Settle(note) ==
    /\ entries' = Append(entries, note)
    /\ pendingAction' = NoAction
    /\ isSending' = FALSE

\* The client hears of it.
Confirmed(c) ==
    /\ c.waiting /\ c.done
    /\ Settle(Note)
    /\ confirms' = confirms \ {c}
    /\ UNCHANGED <<turns, runs, ghosts>>

\* The client gives up; the backend may have done it, or may do it later.
ConfirmFails(c) ==
    /\ c.waiting
    /\ Settle(ErrorNote)
    /\ confirms' = (confirms \ {c}) \cup {[c EXCEPT !.waiting = FALSE]}
    /\ UNCHANGED <<turns, runs, ghosts>>

-----------------------------------------------------------------------------
Next ==
    \/ \E size \in Written : Submit([run |-> 0, size |-> size])
    \/ \E i \in DOMAIN entries : AskToAdd(i) \/ Confirm(i) \/ CancelPending(i)
    \/ \E q \in turns :
          \/ Propose(q) \/ FallBack(q) \/ TurnFails(q)
          \/ \E size \in Written : Delta(q, size)
          \/ \E size \in Written, cards \in BOOLEAN : Answer(q, size, cards)
    \/ \E c \in confirms : Execute(c) \/ Confirmed(c) \/ ConfirmFails(c)

Spec == Init /\ [][Next]_vars

-----------------------------------------------------------------------------
\* The watchlist is changed by confirmed clicks only: every change was proposed in
\* the conversation, is the one that was clicked, and is made at most once for the
\* click, also when the client has given up on it (the gate in can_use_tool, and
\* /confirm, which runs what the client echoes).
ConfirmedBeforeExecuted ==
    /\ \A k \in DOMAIN executed :
          /\ executed[k].click \in DOMAIN clicked
          /\ clicked[executed[k].click] = executed[k].action
          /\ \E i \in DOMAIN entries : entries[i].action = executed[k].action
    /\ \A j, k \in DOMAIN executed : executed[j].click = executed[k].click => j = k

\* The spinner stands for a request: whenever it shows, one is under way, so the
\* composer is never disabled for good.
SpinnerIsReal == isSending => UnderWay

\* As long as no recommendation was added while something was under way, one
\* request at a time is, and the spinner shows it.
OneAtATime ==
    ~crossed =>
      /\ UnderWay => isSending
      /\ turns = {} \/ Waiting = {}
      /\ \A p, q \in turns : p = q
      /\ \A c, d \in Waiting : c = d

\* And then the live proposal is the one of the last entry: whatever is added to
\* the conversation later cancels it.
LiveIsNewest ==
    ~crossed /\ pendingAction # NoAction =>
      /\ entries # <<>>
      /\ entries[Len(entries)].action = pendingAction

\* An entry's proposal comes from the run that wrote its text, the fallback after a
\* stream that broke included.
ReplyOwnsProposal ==
    \A i \in DOMAIN entries :
      entries[i].action # NoAction => entries[i].action.run = entries[i].content.run

\* No turn ends without a word: an entry is blank only while its turn is under way.
BlankOnlyInFlight ==
    \A i \in DOMAIN entries : entries[i].content = Blank => \E q \in turns : q.entry = i

\* No request carries the blank entry of a turn under way, which the backend would
\* refuse, as long as no recommendation was added during one.
NoBlankSent ==
    ~crossed => \A q \in turns : Blank \notin q.history.texts

\* "Render the confirm prompt only while it is still the live action"
\* (MessageList.tsx).
PromptIsLive ==
    \A i \in DOMAIN entries : Prompted(i) => entries[i].action = pendingAction
=============================================================================
