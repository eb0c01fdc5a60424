-------------------------- MODULE AssistantProofs --------------------------
(***************************************************************************)
(* Proofs about Assistant, for any limit on messages and any bounds.       *)
(* TurnsKnown and ConfirmsKnown tie what is under way to the conversation; *)
(* LastIsTurn is what LiveIsNewest needs to survive an answer.             *)
(***************************************************************************)
EXTENDS Assistant, SequenceTheorems, FiniteSetTheorems, TLAPS

\* Every turn under way has an entry of its own, without a proposal so far, and a
\* run that has begun.
TurnsKnown ==
    /\ \A q \in turns :
          /\ q.entry \in DOMAIN entries
          /\ entries[q.entry].action = NoAction
          /\ q.run \in 1..runs
    /\ \A p, q \in turns : p.entry = q.entry => p = q

\* An action of the conversation.
Proposed(a) == a # NoAction /\ \E i \in DOMAIN entries : entries[i].action = a

\* Every confirmation stands for a click of its own, which has been carried out when
\* it says so and not otherwise.
ConfirmsKnown ==
    /\ \A c \in confirms :
          /\ c.click \in DOMAIN clicked /\ clicked[c.click] = c.action
          /\ Proposed(c.action)
          /\ ~c.done => \A k \in DOMAIN executed : executed[k].click # c.click
    /\ \A c, d \in confirms : c.click = d.click => c = d
    /\ \A k \in DOMAIN executed : Proposed(executed[k].action)

\* The turn under way, if it is the only one, writes the last entry.
LastIsTurn == ~crossed => \A q \in turns : q.entry = Len(entries)

Talk == TurnsKnown /\ ReplyOwnsProposal /\ BlankOnlyInFlight
Order == SpinnerIsReal /\ OneAtATime /\ LastIsTurn /\ LiveIsNewest /\ NoBlankSent
Consent == ConfirmsKnown /\ ConfirmedBeforeExecuted

Inv == TypeOK /\ Talk /\ Order /\ Consent

-----------------------------------------------------------------------------
(* The shapes of the conversation's entries.                               *)

LEMMA SaidShape ==
    ASSUME NEW who \in {"user", "assistant"}, NEW text \in Text
    PROVE  /\ Said(who, text) \in Entry
           /\ Said(who, text).content = text /\ Said(who, text).action = NoAction
BY DEF Said, Entry, NoAction, Action

LEMMA Constants ==
    /\ Blank \in Text /\ Prose \in Text /\ Prose # Blank
    /\ Prose.run = 0 /\ Prose.size = "ok"
    /\ NoAction \in Action
BY DEF Blank, Prose, Text, NoAction, Action

LEMMA NoteShape ==
    /\ Note \in Entry /\ Note.content = Prose /\ Note.action = NoAction
    /\ ErrorNote \in Entry /\ ErrorNote.content = Prose /\ ErrorNote.action = NoAction
<1>1. Note \in Entry /\ Note.content = Prose /\ Note.action = NoAction
  BY SaidShape, Constants DEF Note
<1>2. ErrorNote \in Entry /\ ErrorNote.content = Prose /\ ErrorNote.action = NoAction
  BY <1>1 DEF ErrorNote, Entry
<1> QED
  BY <1>1, <1>2

LEMMA FailedShape ==
    ASSUME NEW e \in Entry
    PROVE  /\ Failed(e) \in Entry
           /\ Failed(e).content = Prose /\ Failed(e).action = e.action
BY Constants DEF Failed, Entry

LEMMA RepliedShape ==
    ASSUME NEW e \in Entry, NEW q \in Turn, NEW size \in Written, NEW cards \in BOOLEAN
    PROVE  /\ First(q) \in Action
           /\ First(q) # NoAction => First(q).run = q.run
           /\ [run |-> q.run, size |-> size] \in Text
           /\ [run |-> q.run, size |-> size] # Blank
           /\ Replied(e, q, size, cards) \in Entry
           /\ Replied(e, q, size, cards).content = [run |-> q.run, size |-> size]
           /\ Replied(e, q, size, cards).action = First(q)
<1>1. /\ [run |-> q.run, size |-> size] \in Text
      /\ [run |-> q.run, size |-> size] # Blank
  BY DEF Turn, Text, Written, Blank
<1>2. First(q) \in Action /\ (First(q) # NoAction => First(q).run = q.run)
  BY DEF First, Action, NoAction, Turn
<1> QED
  BY <1>1, <1>2 DEF Replied, Entry

LEMMA WrittenShape ==
    ASSUME NEW e \in Entry, NEW text \in Text
    PROVE  /\ [e EXCEPT !.content = text] \in Entry
           /\ [e EXCEPT !.content = text].content = text
           /\ [e EXCEPT !.content = text].action = e.action
BY DEF Entry

-----------------------------------------------------------------------------
(* How the steps change the conversation.                                  *)

LEMMA ShownCounts ==
    ASSUME entries \in Seq(Entry)
    PROVE  Cardinality(Shown) \in Nat
<1>1. IsFiniteSet(1..Len(entries))
  BY FS_Interval
<1>2. Shown \subseteq 1..Len(entries)
  BY DEF Shown
<1> QED
  BY <1>1, <1>2, FS_Subset, FS_CardinalityType

LEMMA SendShape ==
    ASSUME TypeOK, NEW text \in Text, Send(text)
    PROVE  /\ entries' \in Seq(Entry)
           /\ Len(entries') = Len(entries) + 2
           /\ \A i \in DOMAIN entries : entries'[i] = entries[i]
           /\ entries'[Len(entries) + 1].content = text
           /\ entries'[Len(entries) + 1].action = NoAction
           /\ entries'[Len(entries) + 2].content = Blank
           /\ entries'[Len(entries) + 2].action = NoAction
<1> DEFINE a == Said("user", text)  b == Said("assistant", Blank)
<1>1. /\ a \in Entry /\ a.content = text /\ a.action = NoAction
      /\ b \in Entry /\ b.content = Blank /\ b.action = NoAction
  BY SaidShape, Constants
<1>2. entries' = entries \o <<a, b>> /\ entries \in Seq(Entry)
  BY DEF Send, TypeOK
<1> HIDE DEF a, b
<1>3. <<a, b>> \in Seq(Entry) /\ Len(<<a, b>>) = 2 /\ <<a, b>>[1] = a /\ <<a, b>>[2] = b
  BY <1>1
<1>4. /\ entries' \in Seq(Entry)
      /\ Len(entries') = Len(entries) + 2
      /\ \A i \in 1..(Len(entries) + 2) :
            entries'[i] = IF i <= Len(entries) THEN entries[i] ELSE <<a, b>>[i - Len(entries)]
  BY <1>2, <1>3, ConcatProperties
<1>5. Len(entries) \in Nat /\ DOMAIN entries = 1..Len(entries)
  BY <1>2
<1>6. entries'[Len(entries) + 1] = a /\ entries'[Len(entries) + 2] = b
  BY <1>3, <1>4, <1>5
<1> QED
  BY <1>1, <1>4, <1>5, <1>6

LEMMA TurnShape ==
    ASSUME TypeOK, NEW text \in Text
    PROVE  /\ TurnOf(text) \in Turn
           /\ TurnOf(text).entry = Len(entries) + 2
           /\ TurnOf(text).run = runs + 1
           /\ TurnOf(text).history.texts = {entries[i].content : i \in Shown} \cup {text}
<1> DEFINE texts == {entries[i].content : i \in Shown} \cup {text}
<1>1. texts \in SUBSET Text
  <2>1. \A i \in Shown : entries[i] \in Entry
    BY DEF Shown, TypeOK
  <2>2. \A i \in Shown : entries[i].content \in Text
    BY <2>1 DEF Entry
  <2> QED
    BY <2>2
<1>2. Cardinality(Shown) + 1 \in Nat
  BY ShownCounts DEF TypeOK
<1>3. History(text) = [length |-> Cardinality(Shown) + 1, texts |-> texts]
  BY DEF History
<1>4. Len(entries) + 2 \in Nat \ {0} /\ runs + 1 \in Nat
  BY DEF TypeOK
<1> HIDE DEF texts
<1>5. History(text) \in [length : Nat, texts : SUBSET Text]
  BY <1>1, <1>2, <1>3
<1>6. History(text).texts = texts
  BY <1>3
<1>7. TurnOf(text) = [entry |-> Len(entries) + 2, via |-> "stream", run |-> runs + 1,
                      proposals |-> 0, history |-> History(text)]
  BY DEF TurnOf, NewTurn
<1>8. TurnOf(text) \in Turn
  BY <1>4, <1>5, <1>7 DEF Turn
<1> QED
  BY <1>6, <1>7, <1>8 DEF texts

LEMMA AppendShape ==
    ASSUME TypeOK, NEW e \in Entry, entries' = Append(entries, e)
    PROVE  /\ entries' \in Seq(Entry)
           /\ Len(entries') = Len(entries) + 1
           /\ \A i \in DOMAIN entries : entries'[i] = entries[i]
           /\ entries'[Len(entries) + 1] = e
BY DEF TypeOK

LEMMA UpdateShape ==
    ASSUME TypeOK, NEW k \in DOMAIN entries, NEW e \in Entry,
           entries' = [entries EXCEPT ![k] = e]
    PROVE  /\ entries' \in Seq(Entry)
           /\ Len(entries') = Len(entries)
           /\ \A i \in DOMAIN entries : entries'[i] = IF i = k THEN e ELSE entries[i]
BY ExceptSeq DEF TypeOK

-----------------------------------------------------------------------------
(* What keeps a part of the invariant.                                     *)

\* A proposal of the conversation stays in it.
LEMMA ConsentStays ==
    ASSUME Consent, UNCHANGED <<confirms, clicked, executed>>,
           \A i \in DOMAIN entries :
              /\ i \in DOMAIN entries'
              /\ entries[i].action # NoAction => entries'[i].action = entries[i].action
    PROVE  Consent'
<1>1. ASSUME NEW a, Proposed(a)
      PROVE  Proposed(a)'
  BY <1>1 DEF Proposed
<1>2. ConfirmsKnown'
  BY <1>1 DEF Consent, ConfirmsKnown
<1>3. ConfirmedBeforeExecuted'
  BY <1>1 DEF Consent, ConfirmsKnown, ConfirmedBeforeExecuted, Proposed
<1> QED
  BY <1>2, <1>3 DEF Consent

\* A message sent, from the composer or from a recommendation.
LEMMA SendKeeps ==
    ASSUME Inv, NEW text \in Text, text.size \in Written, Send(text),
           crossed' \in BOOLEAN, ~crossed' => ~crossed /\ ~UnderWay
    PROVE  Inv'
<1> DEFINE new == TurnOf(text)
<1>1. TypeOK /\ Talk /\ Order /\ Consent
  BY DEF Inv
<1>2. /\ entries' \in Seq(Entry)
      /\ Len(entries') = Len(entries) + 2
      /\ \A i \in DOMAIN entries : entries'[i] = entries[i]
      /\ entries'[Len(entries) + 1].content = text
      /\ entries'[Len(entries) + 1].action = NoAction
      /\ entries'[Len(entries) + 2].content = Blank
      /\ entries'[Len(entries) + 2].action = NoAction
  BY <1>1, SendShape
<1>3. /\ new \in Turn /\ new.entry = Len(entries) + 2 /\ new.run = runs + 1
      /\ new.history.texts = {entries[i].content : i \in Shown} \cup {text}
  BY <1>1, TurnShape
<1>4. /\ turns' = turns \cup {new} /\ runs' = runs + 1 /\ isSending' = TRUE
      /\ pendingAction' = NoAction
      /\ UNCHANGED <<confirms, clicked, executed>>
  BY DEF Send
<1> HIDE DEF new
<1>5. /\ Len(entries) \in Nat /\ DOMAIN entries = 1..Len(entries)
      /\ DOMAIN entries' = 1..(Len(entries) + 2)
      /\ runs \in Nat
  BY <1>1, <1>2 DEF TypeOK
<1>6. \A i \in DOMAIN entries' : \/ i \in DOMAIN entries
                                 \/ i = Len(entries) + 1
                                 \/ i = Len(entries) + 2
  BY <1>5
<1>7. text # Blank
  BY DEF Blank, Written
<1>8. ~crossed' => /\ turns = {} /\ Waiting = {} /\ ~crossed
                   /\ turns' = {new}
  BY <1>4 DEF UnderWay
<1>10. TypeOK'
  BY <1>1, <1>2, <1>3, <1>4, Constants DEF TypeOK
<1>11. TurnsKnown'
  <2>1. ASSUME NEW q \in turns
        PROVE  /\ q.entry \in DOMAIN entries /\ q.entry \in DOMAIN entries'
               /\ entries'[q.entry].action = NoAction
               /\ q.run \in 1..runs'
    BY <1>1, <1>2, <1>4, <1>5 DEF Talk, TurnsKnown
  <2>2. /\ new.entry \in DOMAIN entries' /\ new.entry \notin DOMAIN entries
        /\ entries'[new.entry].action = NoAction
        /\ new.run \in 1..runs'
    BY <1>2, <1>3, <1>4, <1>5
  <2>3. \A p, q \in turns : p.entry = q.entry => p = q
    BY <1>1 DEF Talk, TurnsKnown
  <2> QED
    BY <1>4, <2>1, <2>2, <2>3 DEF TurnsKnown
<1>12. ReplyOwnsProposal'
  BY <1>1, <1>2, <1>6 DEF Talk, ReplyOwnsProposal
<1>13. BlankOnlyInFlight'
  BY <1>1, <1>2, <1>3, <1>4, <1>6, <1>7 DEF Talk, BlankOnlyInFlight
<1>14. SpinnerIsReal' /\ OneAtATime'
  <2>1. turns' # {}
    BY <1>4
  <2>2. Waiting' = Waiting
    BY <1>4 DEF Waiting
  <2> QED
    BY <1>4, <1>8, <2>1, <2>2 DEF SpinnerIsReal, OneAtATime, UnderWay
<1>15. LastIsTurn' /\ LiveIsNewest'
  BY <1>2, <1>3, <1>4, <1>8 DEF LastIsTurn, LiveIsNewest
<1>16. NoBlankSent'
  <2>1. ASSUME ~crossed', NEW q \in turns'
        PROVE  Blank \notin q.history.texts
    <3>1. q = new
      BY <1>8, <2>1
    <3>2. \A i \in Shown : entries[i].content # Blank
      BY <1>1, <1>8, <2>1 DEF Talk, BlankOnlyInFlight, Shown
    <3> QED
      BY <1>3, <1>7, <3>1, <3>2
  <2> QED
    BY <2>1 DEF NoBlankSent
<1>17. Consent'
  BY <1>1, <1>2, <1>4, <1>5, ConsentStays
<1> QED
  BY <1>10, <1>11, <1>12, <1>13, <1>14, <1>15, <1>16, <1>17 DEF Inv, Talk, Order

\* A turn that goes on: it proposes something, or it falls back.
LEMMA GoingOnKeeps ==
    ASSUME Inv, NEW q \in turns, NEW r \in Turn, turns' = (turns \ {q}) \cup {r},
           r.entry = q.entry, r.history = q.history,
           runs' \in Nat, runs <= runs', r.run \in 1..runs',
           UNCHANGED <<conversation, confirms, ghosts>>
    PROVE  Inv'
<1>1. TypeOK /\ Talk /\ Order /\ Consent
  BY DEF Inv
<1>2. UNCHANGED <<entries, pendingAction, isSending, confirms, clicked, executed, crossed>>
  BY DEF conversation, ghosts
<1>3. runs \in Nat
  BY <1>1 DEF TypeOK
<1>4. TypeOK'
  BY <1>1, <1>2 DEF TypeOK
<1>5. TurnsKnown'
  <2>1. \A p \in turns : /\ p.entry \in DOMAIN entries
                         /\ entries[p.entry].action = NoAction
                         /\ p.run \in 1..runs'
    BY <1>1, <1>3 DEF Talk, TurnsKnown
  <2>2. \A p, o \in turns : p.entry = o.entry => p = o
    BY <1>1 DEF Talk, TurnsKnown
  <2> QED
    BY <1>2, <2>1, <2>2 DEF TurnsKnown
<1>6. ReplyOwnsProposal'
  BY <1>1, <1>2 DEF Talk, ReplyOwnsProposal
<1>7. BlankOnlyInFlight'
  BY <1>1, <1>2 DEF Talk, BlankOnlyInFlight
<1>8. Waiting' = Waiting /\ turns # {} /\ turns' # {}
  BY <1>2 DEF Waiting
<1>9. SpinnerIsReal' /\ OneAtATime'
  BY <1>1, <1>2, <1>8 DEF Order, SpinnerIsReal, OneAtATime, UnderWay
<1>10. LastIsTurn' /\ LiveIsNewest'
  BY <1>1, <1>2 DEF Order, LastIsTurn, LiveIsNewest
<1>11. NoBlankSent'
  BY <1>1, <1>2 DEF Order, NoBlankSent
<1>12. Consent'
  BY <1>1, <1>2, ConsentStays
<1> QED
  BY <1>4, <1>5, <1>6, <1>7, <1>9, <1>10, <1>11, <1>12 DEF Inv, Talk, Order

\* A turn that ends, with a response or with an error message.
LEMMA EndingKeeps ==
    ASSUME Inv, NEW q \in turns, NEW e \in Entry, Finish(q),
           entries' = [entries EXCEPT ![q.entry] = e],
           e.content # Blank, e.action # NoAction => e.action.run = e.content.run,
           pendingAction' \in Action,
           \/ pendingAction' = e.action
           \/ e.action = NoAction /\ pendingAction' = pendingAction,
           UNCHANGED <<confirms, runs, ghosts>>
    PROVE  Inv'
<1>1. TypeOK /\ Talk /\ Order /\ Consent
  BY DEF Inv
<1>2. /\ turns' = turns \ {q} /\ isSending' = FALSE
      /\ UNCHANGED <<confirms, runs, clicked, executed, crossed>>
  BY DEF Finish, ghosts
<1>3. q.entry \in DOMAIN entries /\ entries[q.entry].action = NoAction
  BY <1>1 DEF Talk, TurnsKnown
<1>4. /\ entries' \in Seq(Entry)
      /\ Len(entries') = Len(entries)
      /\ \A i \in DOMAIN entries : entries'[i] = IF i = q.entry THEN e ELSE entries[i]
  BY <1>1, <1>3, UpdateShape
<1>5. Len(entries) \in Nat /\ DOMAIN entries = 1..Len(entries) /\ DOMAIN entries' = DOMAIN entries
  BY <1>1, <1>4 DEF TypeOK
<1>6. \A p \in turns' : p \in turns /\ p.entry # q.entry
  BY <1>1, <1>2 DEF Talk, TurnsKnown
<1>7. TypeOK'
  BY <1>1, <1>2, <1>4 DEF TypeOK
<1>8. TurnsKnown'
  BY <1>1, <1>2, <1>4, <1>5, <1>6 DEF Talk, TurnsKnown
<1>9. ReplyOwnsProposal'
  BY <1>1, <1>4, <1>5 DEF Talk, ReplyOwnsProposal
<1>10. BlankOnlyInFlight'
  BY <1>1, <1>2, <1>4, <1>5 DEF Talk, BlankOnlyInFlight
<1>11. Waiting' = Waiting
  BY <1>2 DEF Waiting
<1>12. SpinnerIsReal' /\ OneAtATime'
  BY <1>1, <1>2, <1>11 DEF Order, SpinnerIsReal, OneAtATime, UnderWay
<1>13. LastIsTurn'
  BY <1>1, <1>2, <1>4 DEF Order, LastIsTurn
<1>14. LiveIsNewest'
  <2>1. ASSUME ~crossed
        PROVE  /\ q.entry = Len(entries) /\ entries # <<>>
               /\ entries'[Len(entries')] = e /\ entries' # <<>>
    BY <1>1, <1>3, <1>4, <1>5, <2>1 DEF Order, LastIsTurn
  <2> QED
    BY <1>1, <1>2, <1>3, <2>1 DEF Order, LiveIsNewest
<1>15. NoBlankSent'
  BY <1>1, <1>2 DEF Order, NoBlankSent
<1>16. Consent'
  BY <1>1, <1>2, <1>3, <1>4, <1>5, ConsentStays
<1> QED
  BY <1>7, <1>8, <1>9, <1>10, <1>12, <1>13, <1>14, <1>15, <1>16 DEF Inv, Talk, Order

\* Words that arrive for the entry of a turn.
LEMMA DeltaKeeps ==
    ASSUME Inv, NEW q \in turns, NEW size \in Written, Delta(q, size)
    PROVE  Inv'
<1> DEFINE e == [entries[q.entry] EXCEPT !.content = [run |-> q.run, size |-> size]]
<1>1. TypeOK /\ Talk /\ Order /\ Consent
  BY DEF Inv
<1>2. UNCHANGED <<pendingAction, isSending, turns, confirms, runs, clicked, executed, crossed>>
  BY DEF Delta, ghosts
<1>3. q.entry \in DOMAIN entries /\ entries[q.entry].action = NoAction
  BY <1>1 DEF Talk, TurnsKnown
<1>4. entries[q.entry] \in Entry /\ q \in Turn
  BY <1>1, <1>3 DEF TypeOK
<1>5. e \in Entry /\ e.action = NoAction /\ e.content # Blank
  <2>1. [run |-> q.run, size |-> size] \in Text /\ [run |-> q.run, size |-> size] # Blank
    BY <1>4 DEF Turn, Text, Written, Blank
  <2> QED
    BY <1>3, <1>4, <2>1, WrittenShape
<1>6. entries' = [entries EXCEPT ![q.entry] = e]
  BY DEF Delta
<1> HIDE DEF e
<1>7. /\ entries' \in Seq(Entry)
      /\ Len(entries') = Len(entries)
      /\ \A i \in DOMAIN entries : entries'[i] = IF i = q.entry THEN e ELSE entries[i]
  BY <1>1, <1>3, <1>5, <1>6, UpdateShape
<1>8. /\ Len(entries) \in Nat /\ DOMAIN entries = 1..Len(entries) /\ DOMAIN entries' = DOMAIN entries
      /\ \A i \in DOMAIN entries : entries'[i].action = entries[i].action
  BY <1>1, <1>3, <1>5, <1>7 DEF TypeOK
<1>9. TypeOK'
  BY <1>1, <1>2, <1>7 DEF TypeOK
<1>10. TurnsKnown'
  BY <1>1, <1>2, <1>8 DEF Talk, TurnsKnown
<1>11. ReplyOwnsProposal'
  BY <1>1, <1>5, <1>7, <1>8 DEF Talk, ReplyOwnsProposal
<1>12. BlankOnlyInFlight'
  BY <1>1, <1>2, <1>5, <1>7, <1>8 DEF Talk, BlankOnlyInFlight
<1>13. Waiting' = Waiting
  BY <1>2 DEF Waiting
<1>14. SpinnerIsReal' /\ OneAtATime'
  BY <1>1, <1>2, <1>13 DEF Order, SpinnerIsReal, OneAtATime, UnderWay
<1>15. LastIsTurn'
  BY <1>1, <1>2, <1>7 DEF Order, LastIsTurn
<1>16. LiveIsNewest'
  <2>1. entries # <<>> => Len(entries) \in DOMAIN entries /\ entries' # <<>>
    BY <1>1, <1>7, <1>8 DEF TypeOK
  <2> QED
    BY <1>1, <1>2, <1>7, <1>8, <2>1 DEF Order, LiveIsNewest
<1>17. NoBlankSent'
  BY <1>1, <1>2 DEF Order, NoBlankSent
<1>18. Consent'
  BY <1>1, <1>2, <1>8, ConsentStays
<1> QED
  BY <1>9, <1>10, <1>11, <1>12, <1>14, <1>15, <1>16, <1>17, <1>18 DEF Inv, Talk, Order

\* A note at the end of the conversation, after which no proposal is live.
LEMMA NotingKeeps ==
    ASSUME Inv, NEW e \in Entry, entries' = Append(entries, e),
           e.content = Prose, e.action = NoAction,
           pendingAction' = NoAction, isSending' = FALSE,
           ~crossed => turns = {} /\ Waiting' = {},
           UNCHANGED <<turns, runs, ghosts>>,
           confirms' \subseteq Confirmation, Consent'
    PROVE  Inv'
<1>1. TypeOK /\ Talk /\ Order
  BY DEF Inv
<1>2. UNCHANGED <<turns, runs, clicked, executed, crossed>>
  BY DEF ghosts
<1>3. /\ entries' \in Seq(Entry)
      /\ Len(entries') = Len(entries) + 1
      /\ \A i \in DOMAIN entries : entries'[i] = entries[i]
      /\ entries'[Len(entries) + 1] = e
  BY <1>1, AppendShape
<1>4. \A i \in DOMAIN entries' : i \in DOMAIN entries \/ i = Len(entries) + 1
  BY <1>1, <1>3 DEF TypeOK
<1>5. \A i \in DOMAIN entries : i \in DOMAIN entries'
  BY <1>1, <1>3 DEF TypeOK
<1>6. TypeOK'
  BY <1>1, <1>2, <1>3, Constants DEF TypeOK
<1>7. TurnsKnown'
  BY <1>1, <1>2, <1>3, <1>5 DEF Talk, TurnsKnown
<1>8. ReplyOwnsProposal'
  BY <1>1, <1>3, <1>4 DEF Talk, ReplyOwnsProposal
<1>9. BlankOnlyInFlight'
  BY <1>1, <1>2, <1>3, <1>4, Constants DEF Talk, BlankOnlyInFlight
<1>10. SpinnerIsReal' /\ OneAtATime'
  BY <1>1, <1>2 DEF Order, SpinnerIsReal, OneAtATime, UnderWay
<1>11. LastIsTurn' /\ LiveIsNewest'
  BY <1>2 DEF LastIsTurn, LiveIsNewest
<1>12. NoBlankSent'
  BY <1>1, <1>2 DEF Order, NoBlankSent
<1> QED
  BY <1>6, <1>7, <1>8, <1>9, <1>10, <1>11, <1>12 DEF Inv, Talk, Order

\* A note keeps the proposals of the conversation.
LEMMA NoteKeepsProposed ==
    ASSUME TypeOK, NEW e \in Entry, entries' = Append(entries, e)
    PROVE  /\ \A i \in DOMAIN entries : i \in DOMAIN entries' /\ entries'[i] = entries[i]
           /\ \A a : Proposed(a) => Proposed(a)'
<1>1. \A i \in DOMAIN entries : i \in DOMAIN entries' /\ entries'[i] = entries[i]
  BY AppendShape DEF TypeOK
<1> QED
  BY <1>1 DEF Proposed

LEMMA CancelKeeps ==
    ASSUME Inv, NEW i \in DOMAIN entries, CancelPending(i)
    PROVE  Inv'
<1>1. TypeOK /\ Order /\ Consent
  BY DEF Inv
<1>2. entries' = Append(entries, Note) /\ pendingAction' = NoAction /\ ~isSending
      /\ UNCHANGED <<isSending, turns, confirms, runs, ghosts>>
  BY DEF CancelPending
<1>3. Consent'
  BY <1>1, <1>2, NoteShape, NoteKeepsProposed, ConsentStays DEF ghosts
<1>4. isSending' = FALSE /\ Waiting' = Waiting /\ confirms' \subseteq Confirmation
  BY <1>1, <1>2 DEF TypeOK, Waiting
<1>5. ~crossed => turns = {} /\ Waiting' = {}
  BY <1>1, <1>2, <1>4 DEF Order, OneAtATime, UnderWay
<1> QED
  BY <1>2, <1>3, <1>4, <1>5, NoteShape, NotingKeeps

\* Confirmations that are left, or given up, keep what is known of them.
LEMMA SettleKeeps ==
    ASSUME Inv, NEW c \in confirms, c.waiting, NEW e \in {Note, ErrorNote}, Settle(e),
           \/ confirms' = confirms \ {c}
           \/ confirms' = (confirms \ {c}) \cup {[c EXCEPT !.waiting = FALSE]},
           UNCHANGED <<turns, runs, ghosts>>
    PROVE  Inv'
<1> DEFINE d == [c EXCEPT !.waiting = FALSE]
<1>1. TypeOK /\ Order /\ Consent
  BY DEF Inv
<1>2. UNCHANGED <<clicked, executed, crossed>>
  BY DEF ghosts
<1>3. /\ e \in Entry /\ e.content = Prose /\ e.action = NoAction
      /\ entries' = Append(entries, e) /\ pendingAction' = NoAction /\ isSending' = FALSE
  BY NoteShape DEF Settle
<1>4. /\ d \in Confirmation /\ d.waiting = FALSE
      /\ d.click = c.click /\ d.action = c.action /\ d.done = c.done
  BY <1>1 DEF TypeOK, Confirmation
<1> HIDE DEF d
<1>5. \A x \in confirms' : (x \in confirms /\ x # c) \/ x = d
  BY DEF d
<1>6. confirms' \subseteq Confirmation
  BY <1>1, <1>4, <1>5 DEF TypeOK
<1>7. \A a : Proposed(a) => Proposed(a)'
  BY <1>1, <1>3, NoteKeepsProposed
<1>8. ConfirmsKnown'
  <2>1. \A x \in confirms' : \E y \in confirms :
           x.click = y.click /\ x.action = y.action /\ x.done = y.done
    <3>1. ASSUME NEW x \in confirms', x \in confirms
          PROVE  \E y \in confirms : x.click = y.click /\ x.action = y.action /\ x.done = y.done
      BY <3>1
    <3>2. \E y \in confirms : d.click = y.click /\ d.action = y.action /\ d.done = y.done
      BY <1>4
    <3> QED
      BY <1>5, <3>1, <3>2
  <2>2. ASSUME NEW x \in confirms'
        PROVE  /\ x.click \in DOMAIN clicked' /\ clicked'[x.click] = x.action
               /\ Proposed(x.action)'
               /\ ~x.done => \A k \in DOMAIN executed' : executed'[k].click # x.click
    BY <1>1, <1>2, <1>7, <2>1 DEF Consent, ConfirmsKnown
  <2>3. ASSUME NEW x \in confirms', NEW z \in confirms', x.click = z.click
        PROVE  x = z
    <3>1. \A a, b \in confirms : a.click = b.click => a = b
      BY <1>1 DEF Consent, ConfirmsKnown
    <3> QED
      BY <1>4, <1>5, <2>3, <3>1
  <2>4. (\A k \in DOMAIN executed : Proposed(executed[k].action))'
    <3>1. \A k \in DOMAIN executed : Proposed(executed[k].action)
      BY <1>1 DEF Consent, ConfirmsKnown
    <3> QED
      BY <1>2, <1>7, <3>1
  <2> QED
    BY <2>2, <2>3, <2>4 DEF ConfirmsKnown
<1>9. ConfirmedBeforeExecuted'
  BY <1>1, <1>2, <1>8 DEF Consent, ConfirmedBeforeExecuted, ConfirmsKnown, Proposed
<1>10. ~crossed => turns = {} /\ Waiting' = {}
  <2>1. c \in Waiting
    BY DEF Waiting
  <2>2. ~crossed => turns = {} /\ Waiting = {c}
    BY <1>1, <2>1 DEF Order, OneAtATime
  <2>3. Waiting' \subseteq Waiting \ {c}
    BY <1>4, <1>5 DEF Waiting
  <2> QED
    BY <2>2, <2>3
<1> QED
  BY <1>3, <1>6, <1>8, <1>9, <1>10, NotingKeeps DEF Consent

\* A click on a prompt.
LEMMA ConfirmKeeps ==
    ASSUME Inv, NEW i \in DOMAIN entries, Confirm(i)
    PROVE  Inv'
<1>0. PICK c : c = [click |-> Len(clicked) + 1, action |-> entries[i].action,
                    waiting |-> TRUE, done |-> FALSE]
  OBVIOUS
<1>1. TypeOK /\ Talk /\ Order /\ Consent
  BY DEF Inv
<1>2. /\ ~isSending /\ entries[i].action # NoAction /\ isSending' = TRUE
      /\ clicked' = Append(clicked, entries[i].action)
      /\ confirms' = confirms \cup {c}
      /\ UNCHANGED <<entries, pendingAction, turns, runs, executed, crossed>>
  BY <1>0 DEF Confirm, Prompted
<1>3. clicked \in Seq(Action) /\ entries[i].action \in Action
  <2>1. clicked \in Seq(Action) /\ entries[i] \in Entry
    BY <1>1 DEF TypeOK
  <2> QED
    BY <2>1 DEF Entry
<1>4. /\ clicked' \in Seq(Action) /\ Len(clicked) \in Nat
      /\ DOMAIN clicked = 1..Len(clicked) /\ DOMAIN clicked' = 1..(Len(clicked) + 1)
      /\ \A k \in DOMAIN clicked : clicked'[k] = clicked[k]
      /\ clicked'[Len(clicked) + 1] = entries[i].action
  BY <1>2, <1>3
<1>5. /\ c \in Confirmation /\ c.click = Len(clicked) + 1 /\ c.action = entries[i].action
      /\ c.waiting
  BY <1>0, <1>3, <1>4 DEF Confirmation
<1>6. TypeOK'
  BY <1>1, <1>2, <1>4, <1>5 DEF TypeOK
<1>7. Talk'
  BY <1>1, <1>2 DEF Talk, TurnsKnown, ReplyOwnsProposal, BlankOnlyInFlight
<1>8. Order'
  <2>1. Waiting' = Waiting \cup {c}
    BY <1>2, <1>5 DEF Waiting
  <2>2. ~crossed => turns = {} /\ Waiting = {}
    BY <1>1, <1>2 DEF Order, OneAtATime, UnderWay
  <2>3. SpinnerIsReal' /\ OneAtATime'
    BY <1>2, <2>1, <2>2 DEF SpinnerIsReal, OneAtATime, UnderWay
  <2>4. LastIsTurn' /\ LiveIsNewest' /\ NoBlankSent'
    BY <1>1, <1>2 DEF Order, LastIsTurn, LiveIsNewest, NoBlankSent
  <2> QED
    BY <2>3, <2>4 DEF Order
<1>9. ConfirmsKnown'
  <2>1. \A a : Proposed(a) => Proposed(a)'
    BY <1>2 DEF Proposed
  <2>2. \A k \in DOMAIN executed : executed[k].click \in DOMAIN clicked
    BY <1>1 DEF Consent, ConfirmedBeforeExecuted
  <2>3. Proposed(c.action)
    BY <1>2, <1>5 DEF Proposed
  <2>4. ASSUME NEW x \in confirms
        PROVE  /\ x.click \in DOMAIN clicked /\ clicked[x.click] = x.action
               /\ Proposed(x.action)'
               /\ ~x.done => \A k \in DOMAIN executed : executed[k].click # x.click
    BY <1>1, <2>1 DEF Consent, ConfirmsKnown
  <2>5. /\ c.click \in DOMAIN clicked' /\ clicked'[c.click] = c.action
        /\ Proposed(c.action)'
        /\ \A k \in DOMAIN executed' : executed'[k].click # c.click
    <3>1. c.click \in DOMAIN clicked' /\ clicked'[c.click] = c.action
      BY <1>4, <1>5
    <3>2. c.click \notin DOMAIN clicked
      BY <1>4, <1>5
    <3>3. \A k \in DOMAIN executed' : executed'[k].click # c.click
      BY <1>2, <2>2, <3>2
    <3>4. Proposed(c.action)'
      BY <2>1, <2>3
    <3> QED
      BY <3>1, <3>3, <3>4
  <2>6. \A x, y \in confirms' : x.click = y.click => x = y
    <3>1. \A x, y \in confirms : x.click = y.click => x = y
      BY <1>1 DEF Consent, ConfirmsKnown
    <3>2. \A x \in confirms : x.click # c.click
      BY <1>4, <1>5, <2>4
    <3> QED
      BY <1>2, <3>1, <3>2
  <2>7. (\A k \in DOMAIN executed : Proposed(executed[k].action))'
    <3>1. \A k \in DOMAIN executed : Proposed(executed[k].action)
      BY <1>1 DEF Consent, ConfirmsKnown
    <3> QED
      BY <1>2, <2>1, <3>1
  <2>8. ASSUME NEW x \in confirms'
        PROVE  /\ x.click \in DOMAIN clicked' /\ clicked'[x.click] = x.action
               /\ Proposed(x.action)'
               /\ ~x.done => \A k \in DOMAIN executed' : executed'[k].click # x.click
    <3>1. CASE x \in confirms
      BY <1>2, <1>4, <2>4, <3>1
    <3>2. CASE x = c
      BY <1>2, <2>5, <3>2
    <3> QED
      BY <1>2, <3>1, <3>2
  <2> QED
    BY <2>6, <2>7, <2>8 DEF ConfirmsKnown
<1>10. ConfirmedBeforeExecuted'
  <2>1. \A k \in DOMAIN executed : /\ executed[k].click \in DOMAIN clicked'
                                   /\ clicked'[executed[k].click] = executed[k].action
    BY <1>1, <1>4 DEF Consent, ConfirmedBeforeExecuted
  <2> QED
    BY <1>1, <1>2, <2>1 DEF Consent, ConfirmedBeforeExecuted
<1> QED
  BY <1>6, <1>7, <1>8, <1>9, <1>10 DEF Inv, Consent

\* The backend carries out a confirmation.
LEMMA ExecuteKeeps ==
    ASSUME Inv, NEW c \in confirms, Execute(c)
    PROVE  Inv'
<1> DEFINE d == [c EXCEPT !.done = TRUE]
           x == [click |-> c.click, action |-> c.action]
<1>1. TypeOK /\ Talk /\ Order /\ Consent
  BY DEF Inv
<1>2. /\ ~c.done
      /\ executed' = Append(executed, x)
      /\ confirms' = (confirms \ {c}) \cup {d}
      /\ UNCHANGED <<entries, pendingAction, isSending, turns, runs, clicked, crossed>>
  BY DEF Execute, conversation
<1>3. /\ d \in Confirmation /\ d.done /\ d.waiting = c.waiting
      /\ d.click = c.click /\ d.action = c.action
      /\ x \in [click : Nat, action : Action] /\ x.click = c.click /\ x.action = c.action
  BY <1>1 DEF TypeOK, Confirmation
<1> HIDE DEF d, x
<1>4. /\ executed' \in Seq([click : Nat, action : Action])
      /\ Len(executed) \in Nat /\ DOMAIN executed = 1..Len(executed)
      /\ DOMAIN executed' = 1..(Len(executed) + 1)
      /\ \A k \in DOMAIN executed : executed'[k] = executed[k]
      /\ executed'[Len(executed) + 1] = x
  BY <1>1, <1>2, <1>3 DEF TypeOK
<1>5. \A k \in DOMAIN executed' : k \in DOMAIN executed \/ k = Len(executed) + 1
  BY <1>4
<1>6. TypeOK'
  BY <1>1, <1>2, <1>3, <1>4 DEF TypeOK
<1>7. Talk'
  BY <1>1, <1>2 DEF Talk, TurnsKnown, ReplyOwnsProposal, BlankOnlyInFlight
<1>8. Order'
  <2>1. Waiting' = IF c.waiting THEN (Waiting \ {c}) \cup {d} ELSE Waiting
    BY <1>2, <1>3 DEF Waiting
  <2>2. c.waiting => c \in Waiting
    BY DEF Waiting
  <2>3. SpinnerIsReal' /\ OneAtATime'
    BY <1>1, <1>2, <2>1, <2>2 DEF Order, SpinnerIsReal, OneAtATime, UnderWay
  <2>4. LastIsTurn' /\ LiveIsNewest' /\ NoBlankSent'
    BY <1>1, <1>2 DEF Order, LastIsTurn, LiveIsNewest, NoBlankSent
  <2> QED
    BY <2>3, <2>4 DEF Order
<1>9. \A a : Proposed(a) => Proposed(a)'
  BY <1>2 DEF Proposed
<1>10. /\ c.click \in DOMAIN clicked /\ clicked[c.click] = c.action
       /\ Proposed(c.action)
       /\ \A k \in DOMAIN executed : executed[k].click # c.click
       /\ \A y \in confirms : y.click = c.click => y = c
  BY <1>1, <1>2 DEF Consent, ConfirmsKnown
<1>11. ConfirmsKnown'
  <2>1. ASSUME NEW y \in confirms, y # c
        PROVE  /\ y.click \in DOMAIN clicked' /\ clicked'[y.click] = y.action
               /\ Proposed(y.action)'
               /\ ~y.done => \A k \in DOMAIN executed' : executed'[k].click # y.click
    <3>1. /\ y.click \in DOMAIN clicked /\ clicked[y.click] = y.action
          /\ Proposed(y.action)
          /\ ~y.done => \A k \in DOMAIN executed : executed[k].click # y.click
      BY <1>1 DEF Consent, ConfirmsKnown
    <3>2. y.click # c.click
      BY <1>10, <2>1
    <3> QED
      BY <1>2, <1>3, <1>4, <1>5, <1>9, <3>1, <3>2
  <2>2. /\ d.click \in DOMAIN clicked' /\ clicked'[d.click] = d.action
        /\ Proposed(d.action)' /\ d.done
    BY <1>2, <1>3, <1>9, <1>10
  <2>3. ASSUME NEW y \in confirms', NEW z \in confirms', y.click = z.click
        PROVE  y = z
    <3>1. \A a, b \in confirms : a.click = b.click => a = b
      BY <1>1 DEF Consent, ConfirmsKnown
    <3> QED
      BY <1>2, <1>3, <2>3, <3>1
  <2>4. (\A k \in DOMAIN executed : Proposed(executed[k].action))'
    <3>1. \A k \in DOMAIN executed : Proposed(executed[k].action)
      BY <1>1 DEF Consent, ConfirmsKnown
    <3>2. \A k \in DOMAIN executed' : Proposed(executed'[k].action)
      BY <1>3, <1>4, <1>5, <1>10, <3>1
    <3> QED
      BY <1>2, <3>2 DEF Proposed
  <2>5. \A y \in confirms' : (y \in confirms /\ y # c) \/ y = d
    BY <1>2
  <2> QED
    BY <2>1, <2>2, <2>3, <2>4, <2>5 DEF ConfirmsKnown
<1>12. ConfirmedBeforeExecuted'
  <2>1. \A k \in DOMAIN executed' :
           /\ executed'[k].click \in DOMAIN clicked
           /\ clicked[executed'[k].click] = executed'[k].action
           /\ \E i \in DOMAIN entries : entries[i].action = executed'[k].action
    BY <1>1, <1>3, <1>4, <1>5, <1>10 DEF Consent, ConfirmedBeforeExecuted, Proposed
  <2>2. ASSUME NEW j \in DOMAIN executed', NEW k \in DOMAIN executed',
               executed'[j].click = executed'[k].click
        PROVE  j = k
    <3>1. \A m, n \in DOMAIN executed : executed[m].click = executed[n].click => m = n
      BY <1>1 DEF Consent, ConfirmedBeforeExecuted
    <3> QED
      BY <1>3, <1>4, <1>5, <1>10, <2>2, <3>1
  <2> QED
    BY <1>2, <2>1, <2>2 DEF ConfirmedBeforeExecuted
<1> QED
  BY <1>6, <1>7, <1>8, <1>11, <1>12 DEF Inv, Consent

-----------------------------------------------------------------------------
(* The invariant, and what it says.                                        *)

LEMMA InvInit == Init => Inv
<1> SUFFICES ASSUME Init PROVE Inv
  OBVIOUS
<1> USE DEF Init
<1>1. TypeOK
  <2>1. /\ entries \in Seq(Entry) /\ clicked \in Seq(Action)
        /\ executed \in Seq([click : Nat, action : Action])
    BY EmptySeq
  <2>2. /\ pendingAction \in Action /\ isSending \in BOOLEAN /\ crossed \in BOOLEAN
        /\ turns \subseteq Turn /\ confirms \subseteq Confirmation /\ runs \in Nat
    BY Constants
  <2> QED
    BY <2>1, <2>2 DEF TypeOK
<1>2. Talk
  BY DEF Talk, TurnsKnown, ReplyOwnsProposal, BlankOnlyInFlight
<1>3. Order
  BY DEF Order, SpinnerIsReal, OneAtATime, LastIsTurn, LiveIsNewest, NoBlankSent,
         UnderWay, Waiting
<1>4. Consent
  BY DEF Consent, ConfirmsKnown, ConfirmedBeforeExecuted
<1> QED
  BY <1>1, <1>2, <1>3, <1>4 DEF Inv

\* What a turn may do.
LEMMA TurnKeeps ==
    ASSUME Inv, NEW q \in turns,
           \/ Propose(q) \/ FallBack(q) \/ TurnFails(q)
           \/ \E size \in Written : Delta(q, size)
           \/ \E size \in Written, cards \in BOOLEAN : Answer(q, size, cards)
    PROVE  Inv'
<1>1. /\ q \in Turn /\ runs \in Nat /\ q.run \in 1..runs
      /\ q.entry \in DOMAIN entries /\ entries[q.entry] \in Entry
      /\ entries[q.entry].action = NoAction /\ pendingAction \in Action
  BY DEF Inv, TypeOK, Talk, TurnsKnown
<1>2. CASE Propose(q)
  <2> DEFINE r == [q EXCEPT !.proposals = @ + 1]
  <2>1. r \in Turn /\ r.entry = q.entry /\ r.history = q.history /\ r.run = q.run
    BY <1>1 DEF Turn
  <2>2. turns' = (turns \ {q}) \cup {r} /\ runs' = runs /\ UNCHANGED <<conversation, confirms, ghosts>>
    BY <1>2 DEF Propose, ghosts
  <2> HIDE DEF r
  <2> QED
    BY <1>1, <2>1, <2>2, GoingOnKeeps
<1>3. CASE FallBack(q)
  <2> DEFINE r == [q EXCEPT !.via = "fallback", !.run = runs + 1, !.proposals = 0]
  <2>1. r \in Turn /\ r.entry = q.entry /\ r.history = q.history /\ r.run = runs + 1
    <3> DEFINE history == [length : Nat, texts : SUBSET Text]
    <3>1. /\ q \in [entry : Nat \ {0}, via : {"stream", "fallback"}, run : Nat,
                    proposals : Nat, history : history]
          /\ runs + 1 \in Nat
      BY <1>1 DEF Turn
    <3> HIDE DEF history
    <3>2. r \in [entry : Nat \ {0}, via : {"stream", "fallback"}, run : Nat,
                 proposals : Nat, history : history]
      BY <3>1
    <3>3. r.entry = q.entry /\ r.history = q.history /\ r.run = runs + 1
      BY <3>1
    <3> QED
      BY <3>2, <3>3 DEF Turn, history
  <2>2. /\ turns' = (turns \ {q}) \cup {r} /\ runs' = runs + 1
        /\ UNCHANGED <<conversation, confirms, ghosts>>
    BY <1>3 DEF FallBack
  <2> HIDE DEF r
  <2>3. runs' \in Nat /\ runs <= runs' /\ r.run \in 1..runs'
    BY <1>1, <2>1, <2>2
  <2> QED
    BY <2>1, <2>2, <2>3, GoingOnKeeps
<1>4. CASE TurnFails(q)
  <2>1. /\ entries' = [entries EXCEPT ![q.entry] = Failed(entries[q.entry])] /\ Finish(q)
        /\ UNCHANGED <<pendingAction, confirms, runs, ghosts>>
    BY <1>4 DEF TurnFails
  <2> QED
    BY <1>1, <2>1, FailedShape, Constants, EndingKeeps
<1>5. CASE \E size \in Written : Delta(q, size)
  BY <1>5, DeltaKeeps
<1>6. CASE \E size \in Written, cards \in BOOLEAN : Answer(q, size, cards)
  <2>1. PICK size \in Written, cards \in BOOLEAN : Answer(q, size, cards)
    BY <1>6
  <2> DEFINE e == Replied(entries[q.entry], q, size, cards)
  <2>2. /\ entries' = [entries EXCEPT ![q.entry] = e] /\ pendingAction' = First(q)
        /\ Finish(q) /\ UNCHANGED <<confirms, runs, ghosts>>
    BY <2>1 DEF Answer
  <2>3. /\ e \in Entry /\ e.content # Blank /\ e.action = First(q) /\ First(q) \in Action
        /\ e.action # NoAction => e.action.run = e.content.run
    <3>1. /\ e \in Entry /\ e.action = First(q) /\ First(q) \in Action
          /\ e.content = [run |-> q.run, size |-> size] /\ e.content # Blank
          /\ First(q) # NoAction => First(q).run = q.run
      BY <1>1, RepliedShape
    <3> HIDE DEF e
    <3> QED
      BY <3>1
  <2> HIDE DEF e
  <2> QED
    BY <2>2, <2>3, EndingKeeps
<1> QED
  BY <1>2, <1>3, <1>4, <1>5, <1>6

LEMMA InvNext == Inv /\ [Next]_vars => Inv'
<1> SUFFICES ASSUME Inv, [Next]_vars PROVE Inv'
  OBVIOUS
<1>1. CASE \E size \in Written : Submit([run |-> 0, size |-> size])
  <2>1. PICK size \in Written : Submit([run |-> 0, size |-> size])
    BY <1>1
  <2> DEFINE text == [run |-> 0, size |-> size]
  <2>2. text \in Text /\ text.size \in Written
    BY DEF Text, Written
  <2>3. Send(text) /\ crossed' = crossed /\ ~isSending
    BY <2>1 DEF Submit
  <2> HIDE DEF text
  <2>4. crossed \in BOOLEAN /\ (~crossed => ~UnderWay)
    BY <2>3 DEF Inv, TypeOK, Order, OneAtATime
  <2> QED
    BY <2>2, <2>3, <2>4, SendKeeps
<1>2. CASE \E i \in DOMAIN entries : AskToAdd(i) \/ Confirm(i) \/ CancelPending(i)
  <2>1. PICK i \in DOMAIN entries : AskToAdd(i) \/ Confirm(i) \/ CancelPending(i)
    BY <1>2
  <2>2. CASE AskToAdd(i)
    <3>1. Send(Prose) /\ crossed' = (crossed \/ UnderWay)
      BY <2>2 DEF AskToAdd
    <3>2. Prose.size \in Written
      BY Constants DEF Written
    <3>3. crossed' \in BOOLEAN /\ (~crossed' => ~crossed /\ ~UnderWay)
      BY <3>1
    <3> QED
      BY <3>1, <3>2, <3>3, Constants, SendKeeps
  <2> QED
    BY <2>1, <2>2, ConfirmKeeps, CancelKeeps
<1>3. CASE \E q \in turns :
              \/ Propose(q) \/ FallBack(q) \/ TurnFails(q)
              \/ \E size \in Written : Delta(q, size)
              \/ \E size \in Written, cards \in BOOLEAN : Answer(q, size, cards)
  BY <1>3, TurnKeeps
<1>4. CASE \E c \in confirms : Execute(c) \/ Confirmed(c) \/ ConfirmFails(c)
  <2>1. PICK c \in confirms : Execute(c) \/ Confirmed(c) \/ ConfirmFails(c)
    BY <1>4
  <2>2. CASE Confirmed(c)
    BY <2>2, SettleKeeps DEF Confirmed
  <2>3. CASE ConfirmFails(c)
    BY <2>3, SettleKeeps DEF ConfirmFails
  <2> QED
    BY <2>1, <2>2, <2>3, ExecuteKeeps
<1>5. CASE UNCHANGED vars
  <2>1. UNCHANGED <<entries, pendingAction, isSending, turns, confirms, runs,
                    clicked, executed, crossed>>
    BY <1>5 DEF vars, ghosts
  <2>2. TypeOK' /\ Talk'
    BY <2>1 DEF Inv, TypeOK, Talk, TurnsKnown, ReplyOwnsProposal, BlankOnlyInFlight
  <2>3. Order'
    BY <2>1 DEF Inv, Order, SpinnerIsReal, OneAtATime, LastIsTurn, LiveIsNewest,
                NoBlankSent, UnderWay, Waiting
  <2>4. Consent'
    BY <2>1 DEF Inv, Consent, ConfirmsKnown, ConfirmedBeforeExecuted, Proposed
  <2> QED
    BY <2>2, <2>3, <2>4 DEF Inv
<1> QED
  BY <1>1, <1>2, <1>3, <1>4, <1>5 DEF Next

LEMMA InvAlways == Spec => []Inv
  BY InvInit, InvNext, PTL DEF Spec

\* The state has its types: an entry's text, a turn's history and a confirmation's
\* action are what the browser can hold (models/assistant.py, stores/assistant.ts).
THEOREM AssistantTyped == Spec => []TypeOK
  BY InvAlways, PTL DEF Inv

\* The watchlist is changed by confirmed clicks only, once for each, with the action
\* that was clicked (can_use_tool and /confirm).
THEOREM AssistantConfirmedBeforeExecuted == Spec => []ConfirmedBeforeExecuted
<1>1. Inv => ConfirmedBeforeExecuted
  BY DEF Inv, Consent
<1> QED
  BY <1>1, InvAlways, PTL

\* The composer is disabled only while a request is under way, whatever fails
\* (send and confirm of useAssistant.ts).
THEOREM AssistantSpinnerIsReal == Spec => []SpinnerIsReal
<1>1. Inv => SpinnerIsReal
  BY DEF Inv, Order
<1> QED
  BY <1>1, InvAlways, PTL

\* The disabled composer and prompts keep requests one at a time, as long as the
\* button of a recommendation is not used during one (Composer.tsx).
THEOREM AssistantOneAtATime == Spec => []OneAtATime
<1>1. Inv => OneAtATime
  BY DEF Inv, Order
<1> QED
  BY <1>1, InvAlways, PTL

\* And then the live proposal is the last entry's (applyResponse, cancelPending).
THEOREM AssistantLiveIsNewest == Spec => []LiveIsNewest
<1>1. Inv => LiveIsNewest
  BY DEF Inv, Order
<1> QED
  BY <1>1, InvAlways, PTL

\* The proposal under a reply comes from the run that wrote the reply, also after a
\* stream that broke and was run again (applyResponse of useAssistant.ts).
THEOREM AssistantReplyOwnsProposal == Spec => []ReplyOwnsProposal
<1>1. Inv => ReplyOwnsProposal
  BY DEF Inv, Talk
<1> QED
  BY <1>1, InvAlways, PTL

\* Every turn leaves a reply or an error message in its entry (send).
THEOREM AssistantBlankOnlyInFlight == Spec => []BlankOnlyInFlight
<1>1. Inv => BlankOnlyInFlight
  BY DEF Inv, Talk
<1> QED
  BY <1>1, InvAlways, PTL

\* The history that is sent holds no blank entry, as long as no recommendation was
\* added during a request (buildHistory).
THEOREM AssistantNoBlankSent == Spec => []NoBlankSent
<1>1. Inv => NoBlankSent
  BY DEF Inv, Order
<1> QED
  BY <1>1, InvAlways, PTL
=============================================================================
