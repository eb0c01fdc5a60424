------------------------ MODULE StrategyPageProofs ------------------------
(***************************************************************************)
(* The safety of the strategy page and its server, for any strategies and  *)
(* any number of calls and forms.                                          *)
(***************************************************************************)
EXTENDS StrategyPage, TLAPS

-----------------------------------------------------------------------------
(* The query of the list keeps its type. *)

LEMMA StartTyped == ASSUME NEW S, NEW q \in Query(S) PROVE Start(q) \in Query(S)
  BY DEF Start, Query

LEMMA UnaskedTyped == ASSUME NEW S PROVE Unasked \in Query(S)
  BY DEF Unasked, Query

LEMMA FetchTyped == ASSUME NEW S, NEW q \in Query(S) PROVE Fetch(q) \in Query(S)
  BY StartTyped DEF Fetch

LEMMA MountTyped ==
  ASSUME NEW S, NEW q \in Query(S), NEW old \in BOOLEAN PROVE Mount(q, old) \in Query(S)
  BY FetchTyped DEF Mount

LEMMA InvalidateTyped ==
  ASSUME NEW S, NEW q \in Query(S) PROVE Invalidate(q, TRUE) \in Query(S)
  <1>1. [q EXCEPT !.invalid = TRUE] \in Query(S)
    BY DEF Query
  <1> QED BY <1>1, StartTyped DEF Invalidate

LEMMA AnsweredTyped ==
  ASSUME NEW S, NEW q \in Query(S), NEW s \in S PROVE Answered(q, s) \in Query(S)
  BY DEF Answered, Query

LEMMA SucceedTyped == ASSUME NEW S, NEW q \in Query(S) PROVE Succeed(q) \in Query(S)
  BY DEF Succeed, Query

LEMMA FailTyped == ASSUME NEW S, NEW q \in Query(S) PROVE Fail(q) \in Query(S)
  BY DEF Fail, Query

-----------------------------------------------------------------------------
(* What holds besides the invariants that the run checks. *)

Saves(call) == call.kind \in {"create", "update"}

\* What is saved is complete, and what is changed has an id.
Asked ==
    \A c \in DOMAIN calls :
      /\ Saves(calls[c]) => Complete(calls[c].fields)
      /\ calls[c].kind # "create" => calls[c].id # 0

\* The form observes the one save of its own that is under way.
Observed ==
    \A c \in DOMAIN calls :
      /\ calls[c].mount <= form.mount
      /\ form.open /\ calls[c].mount = form.mount /\ Saves(calls[c])
           /\ calls[c].heard = "nothing" => c = saving

\* The fields come from the target, or from the target before the form was turned to
\* creating.
Filled ==
    /\ ~form.open => form.edit = 0
    /\ form.edit # 0 => form.prefilled = form.edit
    /\ ~form.touched /\ form.prefilled # 0 =>
         \A content \in form.shown :
            form.fields = [content EXCEPT !.rule = IF @ = NoRule THEN form.fields.rule ELSE @]

Inv == TypeOK /\ Asked /\ Observed /\ Filled /\ OneSaveAtATime

\* Where foreign keys are checked, a signal has its strategy also before it is committed.
Anchored ==
    \A c \in DOMAIN calls :
      calls[c].kind = "evaluate" /\ calls[c].stage = "answered" => RowsOf(calls[c].id) # {}

\* With one writer at a time, an answered delete has dropped the whole history of its
\* strategy, and nobody adds to it until the commit.
Emptied ==
    \A c, d \in DOMAIN calls :
      calls[c].stage = "answered" =>
        /\ calls[d].stage = "answered" => c = d
        /\ calls[c].kind = "delete" => SignalsOf(calls[c].id) \subseteq calls[c].dropped

Kept == IF SingleWriter THEN Emptied ELSE Anchored /\ NoOrphans

-----------------------------------------------------------------------------
(* The form. *)

LEMMA ShutTyped == ASSUME NEW m \in Nat PROVE Shut(m) \in Form
  BY StrategyAssumption DEF Shut, Form, Defaults, Fields

LEMMA RenderedKept ==
  ASSUME NEW f \in Form, NEW data \in SUBSET (SUBSET Row),
         f.edit = f.prefilled \/ f.edit = 0
  PROVE  Rendered(f, data) = f
  BY DEF Rendered, Row, Ids

LEMMA RenderedAnew ==
  ASSUME NEW f \in Form, NEW data \in SUBSET (SUBSET Row), f.edit # f.prefilled,
         NEW row \in UNION data, row.id = f.edit
  PROVE  LET g == Rendered(f, data)
         IN  /\ g \in Form
             /\ g.open = f.open /\ g.mount = f.mount /\ g.edit = f.edit
             /\ g.prefilled = f.edit /\ ~g.touched
             /\ \A content \in g.shown :
                  g.fields = [content EXCEPT !.rule = IF @ = NoRule THEN g.fields.rule ELSE @]
  <1> DEFINE target == {r \in UNION data : r.id = f.edit}
             r0 == CHOOSE r \in target : TRUE
             filled == [r0.content EXCEPT !.rule = IF @ = NoRule THEN f.fields.rule ELSE @]
  <1>1. r0 \in target
    BY DEF Row
  <1>2. r0 \in Row /\ r0.id = f.edit
    BY <1>1
  <1>3. filled \in Fields
    BY <1>2, StrategyAssumption DEF Row, Content, Fields, Form
  <1>4. Rendered(f, data) = [f EXCEPT !.prefilled = r0.id, !.shown = {r0.content},
                                      !.touched = FALSE, !.fields = filled]
    BY <1>1 DEF Rendered
  <1>5. r0.id \in Nat /\ {r0.content} \in SUBSET Content
    BY <1>2 DEF Row, Ids
  <1>6. Rendered(f, data) \in Form
    BY <1>3, <1>4, <1>5 DEF Form
  <1>7. filled = [r0.content EXCEPT !.rule = IF @ = NoRule THEN filled.rule ELSE @]
    BY <1>2, StrategyAssumption DEF Row, Content
  <1> HIDE DEF filled, r0
  <1>8. /\ Rendered(f, data).shown = {r0.content} /\ Rendered(f, data).fields = filled
        /\ ~Rendered(f, data).touched /\ Rendered(f, data).prefilled = r0.id
        /\ Rendered(f, data).open = f.open /\ Rendered(f, data).mount = f.mount
        /\ Rendered(f, data).edit = f.edit
    BY <1>4 DEF Form
  <1> QED BY <1>2, <1>6, <1>7, <1>8

-----------------------------------------------------------------------------
(* Each action keeps the invariant. *)

LEMMA ListedTyped == ASSUME TypeOK PROVE listed.data \in SUBSET (SUBSET Row)
  BY DEF TypeOK, Query

LEMMA TurnedTyped ==
  ASSUME Inv, NEW edit \in Nat
  PROVE  /\ Turned(edit) \in Form /\ Turned(edit).open /\ Turned(edit).edit = edit
         /\ Turned(edit).mount = (IF form.open THEN form.mount ELSE form.mount + 1)
         /\ Turned(edit).prefilled = (IF form.open THEN form.prefilled ELSE 0)
         /\ form.open => /\ Turned(edit).fields = form.fields
                         /\ Turned(edit).shown = form.shown
                         /\ Turned(edit).touched = form.touched
  <1>1. CASE form.open
    BY <1>1 DEF Turned, Inv, TypeOK, Form
  <1>2. CASE ~form.open
    <2>1. form.mount + 1 \in Nat
      BY DEF Inv, TypeOK, Form
    <2>2. Shut(form.mount + 1) \in Form
      BY <2>1, ShutTyped
    <2>3. Turned(edit) = [Shut(form.mount + 1) EXCEPT !.open = TRUE, !.edit = edit]
      BY <1>2 DEF Turned
    <2> QED BY <1>2, <2>1, <2>2, <2>3 DEF Form, Shut
  <1> QED BY <1>1, <1>2

\* The form turned to a target that the list shows, or to none, is filled from it.
LEMMA OpenFormFills ==
  ASSUME Inv, NEW edit \in Nat, edit = 0 \/ \E row \in Shown : row.id = edit,
         form' = Rendered(Turned(edit), listed.data)
  PROVE  /\ form' \in Form /\ form'.open /\ form'.edit = edit
         /\ form'.mount = (IF form.open THEN form.mount ELSE form.mount + 1)
         /\ Filled'
  <1>1. CASE edit = 0 \/ edit = Turned(edit).prefilled
    <2>1. form' = Turned(edit)
      BY <1>1, TurnedTyped, RenderedKept, ListedTyped DEF Inv
    <2>2. Filled'
      BY <1>1, <2>1, TurnedTyped DEF Filled, Inv
    <2> QED BY <2>1, <2>2, TurnedTyped
  <1>2. CASE edit # 0 /\ edit # Turned(edit).prefilled
    <2>1. PICK row \in UNION listed.data : row.id = edit
      BY <1>2 DEF Shown
    <2>2. /\ form' \in Form
          /\ form'.open = Turned(edit).open /\ form'.mount = Turned(edit).mount
          /\ form'.edit = Turned(edit).edit /\ form'.prefilled = Turned(edit).edit
          /\ ~form'.touched
          /\ \A content \in form'.shown :
               form'.fields = [content EXCEPT
                                 !.rule = IF @ = NoRule THEN form'.fields.rule ELSE @]
      BY <1>2, <2>1, TurnedTyped, RenderedAnew, ListedTyped DEF Inv
    <2>3. Filled'
      BY <2>2, TurnedTyped DEF Filled
    <2> QED BY <2>2, <2>3, TurnedTyped
  <1> QED BY <1>1, <1>2

LEMMA OpenFormKeeps ==
  ASSUME Inv, NEW edit \in Nat, edit = 0 \/ \E row \in Shown : row.id = edit,
         NEW old \in BOOLEAN, OpenForm(edit, old)
  PROVE  Inv'
  <1>0. /\ form' \in Form /\ form'.open /\ form'.edit = edit
        /\ form'.mount = (IF form.open THEN form.mount ELSE form.mount + 1)
        /\ Filled'
    BY OpenFormFills DEF OpenForm
  <1>1. TypeOK'
    BY <1>0, MountTyped DEF Inv, TypeOK, OpenForm, server
  <1>2. Asked'
    BY DEF Inv, Asked, OpenForm
  <1>3. Observed'
    <2>1. form.mount \in Nat /\ calls' = calls /\ \A c \in DOMAIN calls : calls[c].mount \in Nat
      <3>1. \A c \in DOMAIN calls : calls[c] \in Call
        BY DEF Inv, TypeOK
      <3>2. form.mount \in Nat /\ calls' = calls
        BY DEF Inv, TypeOK, Form, OpenForm
      <3> QED BY <3>1, <3>2 DEF Call
    <2>2. form.open => saving' = saving
      BY DEF OpenForm
    <2> QED BY <1>0, <2>1, <2>2 DEF Inv, Observed
  <1>4. OneSaveAtATime'
    BY DEF Inv, OneSaveAtATime, OpenForm
  <1> QED BY <1>0, <1>1, <1>2, <1>3, <1>4 DEF Inv

\* The form is shut, by the user or by a save that has succeeded.
LEMMA ShutKeeps ==
  ASSUME Inv, form' = Shut(form.mount), saving' = 0
  PROVE  form' \in Form /\ ~form'.open /\ form'.mount = form.mount /\ Filled'
  <1>1. form.mount \in Nat
    BY DEF Inv, TypeOK, Form
  <1> QED BY <1>1, ShutTyped DEF Filled, Shut

LEMMA CloseFormKeeps == ASSUME Inv, NEW old \in BOOLEAN, CloseForm(old) PROVE Inv'
  <1>0. form' \in Form /\ ~form'.open /\ form'.mount = form.mount /\ Filled'
    BY ShutKeeps DEF CloseForm
  <1>1. TypeOK'
    BY <1>0, MountTyped DEF Inv, TypeOK, CloseForm, server
  <1>2. Asked' /\ OneSaveAtATime'
    BY DEF Inv, Asked, OneSaveAtATime, CloseForm
  <1>3. Observed'
    BY <1>0 DEF Inv, Observed, CloseForm
  <1> QED BY <1>0, <1>1, <1>2, <1>3 DEF Inv

LEMMA SelectKeeps ==
  ASSUME Inv, NEW row \in Shown, NEW old \in BOOLEAN, Select(row, old) PROVE Inv'
  <1>0. form' \in Form /\ ~form'.open /\ form'.mount = form.mount /\ Filled'
    BY ShutKeeps DEF Select
  <1>1. row.id \in Nat
    BY ListedTyped DEF Inv, Shown, Row, Ids
  <1>2. TypeOK'
    BY <1>0, <1>1, MountTyped DEF Inv, TypeOK, Select, server
  <1>3. Asked' /\ OneSaveAtATime'
    BY DEF Inv, Asked, OneSaveAtATime, Select
  <1>4. Observed'
    BY <1>0 DEF Inv, Observed, Select
  <1> QED BY <1>0, <1>2, <1>3, <1>4 DEF Inv

LEMMA ChangeKeeps == ASSUME Inv, NEW fields \in Fields, Change(fields) PROVE Inv'
  <1>0. /\ form' \in Form /\ form'.open = form.open /\ form'.mount = form.mount
        /\ form'.edit = form.edit /\ form'.prefilled = form.prefilled /\ form'.touched
    BY DEF Inv, TypeOK, Form, Change
  <1>1. TypeOK'
    BY <1>0 DEF Inv, TypeOK, Change, server, observed
  <1>2. Asked' /\ OneSaveAtATime'
    BY DEF Inv, Asked, OneSaveAtATime, Change
  <1>3. Observed' /\ Filled'
    BY <1>0 DEF Inv, Observed, Filled, Change, observed
  <1> QED BY <1>1, <1>2, <1>3 DEF Inv

\* A new call of the form or of the detail.
LEMMA NewCallTyped ==
  ASSUME Inv, NEW kind \in {"create", "update", "delete", "evaluate"}, NEW id \in Nat,
         calls' = Append(calls, NewCall(kind, id))
  PROVE  /\ calls' \in Seq(Call) /\ Len(calls') = Len(calls) + 1
         /\ \A c \in DOMAIN calls : calls'[c] = calls[c]
         /\ DOMAIN calls' = DOMAIN calls \cup {Len(calls) + 1}
         /\ LET new == calls'[Len(calls) + 1]
            IN  /\ new.kind = kind /\ new.id = id /\ new.fields = form.fields
                /\ new.mount = form.mount /\ new.stage = "sent"
                /\ new.heard = "nothing"
  <1>1. NewCall(kind, id) \in Call
    BY DEF NewCall, Call, Inv, TypeOK, Form
  <1>2. calls \in Seq(Call)
    BY DEF Inv, TypeOK
  <1> QED BY <1>1, <1>2 DEF NewCall

LEMMA SaveKeeps == ASSUME Inv, Save PROVE Inv'
  <1> DEFINE kind == IF form.edit = 0 THEN "create" ELSE "update"
             new == Len(calls) + 1
  <1>0. form.edit \in Nat /\ form.mount \in Nat /\ calls \in Seq(Call)
    BY DEF Inv, TypeOK, Form
  <1>1. /\ calls' \in Seq(Call) /\ Len(calls') = Len(calls) + 1
        /\ \A c \in DOMAIN calls : calls'[c] = calls[c]
        /\ DOMAIN calls' = DOMAIN calls \cup {new}
        /\ calls'[new].kind = kind /\ calls'[new].id = form.edit
        /\ calls'[new].fields = form.fields /\ calls'[new].mount = form.mount
        /\ calls'[new].stage = "sent" /\ calls'[new].heard = "nothing"
    BY <1>0, NewCallTyped DEF Save
  <1>2. /\ form.open /\ Complete(form.fields) /\ form' = form /\ saving' = new
        /\ ~Pending(saving)
    BY DEF Save
  <1>3. TypeOK'
    BY <1>0, <1>1, <1>2 DEF Inv, TypeOK, Save, server
  <1>4. Asked'
    BY <1>1, <1>2 DEF Inv, Asked, Saves
  <1>5. \A c \in DOMAIN calls :
          Saves(calls[c]) /\ calls[c].mount = form.mount => calls[c].heard # "nothing"
    BY <1>0, <1>2 DEF Inv, Observed, Pending
  <1>6. Observed'
    BY <1>0, <1>1, <1>2, <1>5 DEF Inv, Observed
  <1>7. OneSaveAtATime'
    <2> SUFFICES ASSUME NEW c \in DOMAIN calls', NEW d \in DOMAIN calls', c < d,
                        calls'[c].mount = calls'[d].mount,
                        {calls'[c].kind, calls'[d].kind} \subseteq {"create", "update"}
                 PROVE  calls'[c].heard # "nothing"
      BY DEF OneSaveAtATime
    <2>1. c \in DOMAIN calls
      BY <1>0, <1>1
    <2>2. CASE d = new
      BY <1>1, <1>5, <2>1, <2>2 DEF Saves
    <2>3. CASE d # new
      BY <1>1, <2>1, <2>3 DEF Inv, OneSaveAtATime
    <2> QED BY <2>2, <2>3
  <1>8. Filled'
    BY <1>2 DEF Inv, Filled
  <1> QED BY <1>3, <1>4, <1>6, <1>7, <1>8 DEF Inv

LEMMA EvaluateKeeps == ASSUME Inv, Evaluate PROVE Inv'
  <1> DEFINE new == Len(calls) + 1
  <1>0. selected \in Nat \ {0} /\ form.mount \in Nat /\ calls \in Seq(Call)
    BY ListedTyped DEF Inv, TypeOK, Form, Evaluate, HasDetail, ShownOf, Shown, Row, Ids
  <1>1. /\ calls' \in Seq(Call) /\ Len(calls') = Len(calls) + 1
        /\ \A c \in DOMAIN calls : calls'[c] = calls[c]
        /\ DOMAIN calls' = DOMAIN calls \cup {new}
        /\ calls'[new].kind = "evaluate" /\ calls'[new].id = selected
        /\ calls'[new].mount = form.mount /\ calls'[new].stage = "sent"
    BY <1>0, NewCallTyped DEF Evaluate
  <1>2. form' = form /\ saving' = saving
    BY DEF Evaluate
  <1>3. TypeOK'
    BY <1>0, <1>1, <1>2 DEF Inv, TypeOK, Evaluate, server
  <1>4. Asked'
    BY <1>0, <1>1 DEF Inv, Asked, Saves
  <1>5. Observed' /\ Filled'
    BY <1>0, <1>1, <1>2 DEF Inv, Observed, Filled, Saves
  <1>6. OneSaveAtATime'
    BY <1>0, <1>1 DEF Inv, OneSaveAtATime
  <1> QED BY <1>3, <1>4, <1>5, <1>6 DEF Inv

LEMMA DeleteKeeps == ASSUME Inv, Delete PROVE Inv'
  <1> DEFINE new == Len(calls) + 1
  <1>0. selected \in Nat \ {0} /\ form.mount \in Nat /\ calls \in Seq(Call)
    BY ListedTyped DEF Inv, TypeOK, Form, Delete, HasDetail, ShownOf, Shown, Row, Ids
  <1>1. /\ calls' \in Seq(Call) /\ Len(calls') = Len(calls) + 1
        /\ \A c \in DOMAIN calls : calls'[c] = calls[c]
        /\ DOMAIN calls' = DOMAIN calls \cup {new}
        /\ calls'[new].kind = "delete" /\ calls'[new].id = selected
        /\ calls'[new].mount = form.mount /\ calls'[new].stage = "sent"
    BY <1>0, NewCallTyped DEF Delete
  <1>2. form' = form /\ saving' = saving
    BY DEF Delete
  <1>3. TypeOK'
    BY <1>0, <1>1, <1>2 DEF Inv, TypeOK, Delete, server
  <1>4. Asked'
    BY <1>0, <1>1 DEF Inv, Asked, Saves
  <1>5. Observed' /\ Filled'
    BY <1>0, <1>1, <1>2 DEF Inv, Observed, Filled, Saves
  <1>6. OneSaveAtATime'
    BY <1>0, <1>1 DEF Inv, OneSaveAtATime
  <1> QED BY <1>3, <1>4, <1>5, <1>6 DEF Inv

\* A call moves on: what it asks stays, and what was heard of it is not forgotten.
Moved(c) ==
    /\ calls' \in Seq(Call) /\ DOMAIN calls' = DOMAIN calls /\ Len(calls') = Len(calls)
    /\ \A d \in DOMAIN calls \ {c} : calls'[d] = calls[d]
    /\ calls'[c].kind = calls[c].kind /\ calls'[c].id = calls[c].id
    /\ calls'[c].fields = calls[c].fields /\ calls'[c].mount = calls[c].mount
    /\ calls'[c].heard = "nothing" => calls[c].heard = "nothing"

LEMMA MovedKeeps ==
  ASSUME Inv, NEW c \in DOMAIN calls, Moved(c), form' = form, saving' = saving
  PROVE  Asked' /\ Observed' /\ Filled' /\ OneSaveAtATime'
  <1>1. Asked'
    BY DEF Inv, Asked, Moved, Saves
  <1>2. Observed'
    BY DEF Inv, Observed, Moved, Saves
  <1>3. Filled'
    BY DEF Inv, Filled
  <1>4. OneSaveAtATime'
    BY DEF Inv, OneSaveAtATime, Moved
  <1> QED BY <1>1, <1>2, <1>3, <1>4

LEMMA CallTyped ==
  ASSUME Inv, NEW c \in DOMAIN calls
  PROVE  calls \in Seq(Call) /\ calls[c] \in Call /\ DOMAIN calls = 1 .. Len(calls)
         /\ Len(calls) \in Nat
  BY DEF Inv, TypeOK

LEMMA MovesTo ==
  ASSUME Inv, NEW c \in DOMAIN calls, NEW new \in Call, calls' = [calls EXCEPT ![c] = new],
         new.kind = calls[c].kind, new.id = calls[c].id, new.fields = calls[c].fields,
         new.mount = calls[c].mount, new.heard = "nothing" => calls[c].heard = "nothing"
  PROVE  Moved(c)
  BY CallTyped DEF Moved

LEMMA LoadKeeps == ASSUME Inv, NEW c \in DOMAIN calls, Load(c) PROVE Inv'
  <1>1. Moved(c)
    <2> DEFINE new == [calls[c] EXCEPT !.stage = "loaded"]
    <2>1. calls' = [calls EXCEPT ![c] = new]
      BY DEF Load
    <2>2. /\ new \in Call /\ new.kind = calls[c].kind /\ new.id = calls[c].id
          /\ new.fields = calls[c].fields /\ new.mount = calls[c].mount
          /\ new.heard = calls[c].heard
      BY CallTyped DEF Call
    <2> HIDE DEF new
    <2> QED BY <2>1, <2>2, MovesTo
  <1>2. TypeOK'
    BY <1>1 DEF Inv, TypeOK, Moved, Load, server, observed
  <1> QED BY <1>1, <1>2, MovedKeeps DEF Inv, Load, observed

LEMMA AnswerKeeps == ASSUME Inv, NEW c \in DOMAIN calls, Answer(c) PROVE Inv'
  <1>1. Moved(c)
    <2> DEFINE dropped == IF calls[c].kind = "delete" THEN SignalsOf(calls[c].id) ELSE {}
    <2>3. dropped \in SUBSET Signal
      BY DEF Inv, TypeOK, SignalsOf
    <2>4. calls' = [calls EXCEPT ![c].stage = "answered", ![c].dropped = dropped]
      BY DEF Answer
    <2> HIDE DEF dropped
    <2> DEFINE new == [calls[c] EXCEPT !.stage = "answered", !.dropped = dropped]
    <2>5. calls' = [calls EXCEPT ![c] = new]
      BY <2>4
    <2>6. /\ new \in Call /\ new.kind = calls[c].kind /\ new.id = calls[c].id
          /\ new.fields = calls[c].fields /\ new.mount = calls[c].mount
          /\ new.heard = calls[c].heard
      BY <2>3, CallTyped DEF Call
    <2> HIDE DEF new
    <2> QED BY <2>5, <2>6, MovesTo
  <1>2. TypeOK'
    BY <1>1 DEF Inv, TypeOK, Moved, Answer, server, observed
  <1> QED BY <1>1, <1>2, MovedKeeps DEF Inv, Answer, observed

LEMMA FallKeeps == ASSUME Inv, NEW c \in DOMAIN calls, Fall(c) PROVE Inv'
  <1>1. Moved(c)
    <2> DEFINE new == [calls[c] EXCEPT !.stage = IF @ = "answered" THEN "lost" ELSE "refused"]
    <2>1. calls' = [calls EXCEPT ![c] = new]
      BY DEF Fall
    <2>2. /\ new \in Call /\ new.kind = calls[c].kind /\ new.id = calls[c].id
          /\ new.fields = calls[c].fields /\ new.mount = calls[c].mount
          /\ new.heard = "nothing" => calls[c].heard = "nothing"
      BY CallTyped DEF Call
    <2> HIDE DEF new
    <2> QED BY <2>1, <2>2, MovesTo
  <1>2. TypeOK'
    BY <1>1 DEF Inv, TypeOK, Moved, Fall, server, observed
  <1> QED BY <1>1, <1>2, MovedKeeps DEF Inv, Fall, observed

LEMMA HearFailureKeeps == ASSUME Inv, NEW c \in DOMAIN calls, HearFailure(c) PROVE Inv'
  <1>1. Moved(c)
    <2> DEFINE new == [calls[c] EXCEPT !.heard = "failure"]
    <2>1. calls' = [calls EXCEPT ![c] = new]
      BY DEF HearFailure
    <2>2. /\ new \in Call /\ new.kind = calls[c].kind /\ new.id = calls[c].id
          /\ new.fields = calls[c].fields /\ new.mount = calls[c].mount
          /\ new.heard = "nothing" => calls[c].heard = "nothing"
      BY CallTyped DEF Call
    <2> HIDE DEF new
    <2> QED BY <2>1, <2>2, MovesTo
  <1>2. TypeOK'
    BY <1>1 DEF Inv, TypeOK, Moved, HearFailure, server, observed
  <1> QED BY <1>1, <1>2, MovedKeeps DEF Inv, HearFailure, observed

LEMMA CommitMoves ==
  ASSUME Inv, NEW c \in DOMAIN calls, NEW kind, Commit(c, kind) PROVE Moved(c)
  <1> DEFINE new == [calls[c] EXCEPT !.stage = "committed"]
  <1>1. calls' = [calls EXCEPT ![c] = new]
    BY DEF Commit
  <1>2. /\ new \in Call /\ new.kind = calls[c].kind /\ new.id = calls[c].id
        /\ new.fields = calls[c].fields /\ new.mount = calls[c].mount
        /\ new.heard = "nothing" => calls[c].heard = "nothing"
    BY CallTyped DEF Call
  <1> HIDE DEF new
  <1> QED BY <1>1, <1>2, MovesTo

LEMMA CommitCreateKeeps == ASSUME Inv, NEW c \in DOMAIN calls, CommitCreate(c) PROVE Inv'
  <1>1. Moved(c)
    BY CommitMoves DEF CommitCreate
  <1>2. TypeOK'
    <2>1. PICK id \in 1 .. births + 1 :
            rows' = rows \cup {[id |-> id, content |-> calls[c].fields]}
      BY DEF CommitCreate
    <2>2. Complete(calls[c].fields) /\ calls[c].fields \in Fields
      BY CallTyped DEF Inv, Asked, Saves, CommitCreate, Commit, Call
    <2>3. calls[c].fields \in Content
      BY <2>2 DEF Complete, Fields, Content
    <2>4. births \in Nat
      BY DEF Inv, TypeOK
    <2>5. [id |-> id, content |-> calls[c].fields] \in Row
      BY <2>3, <2>4 DEF Row, Ids
    <2> QED BY <1>1, <2>1, <2>4, <2>5 DEF Inv, TypeOK, Moved, CommitCreate, Commit, observed
  <1> QED BY <1>1, <1>2, MovedKeeps DEF Inv, CommitCreate, Commit, observed

LEMMA CommitUpdateKeeps == ASSUME Inv, NEW c \in DOMAIN calls, CommitUpdate(c) PROVE Inv'
  <1>1. Moved(c)
    BY CommitMoves DEF CommitUpdate
  <1>2. TypeOK'
    <2>1. Complete(calls[c].fields) /\ calls[c].fields \in Fields
      BY CallTyped DEF Inv, Asked, Saves, CommitUpdate, Commit, Call
    <2>2. \A row \in Row : Patched(row, calls[c].fields) \in Row
      BY <2>1 DEF Complete, Fields, Content, Row, Patched
    <2>3. rows' \subseteq Row
      BY <2>2 DEF Inv, TypeOK, CommitUpdate
    <2> QED BY <1>1, <2>3 DEF Inv, TypeOK, Moved, CommitUpdate, Commit, observed
  <1> QED BY <1>1, <1>2, MovedKeeps DEF Inv, CommitUpdate, Commit, observed

LEMMA CommitDeleteKeeps == ASSUME Inv, NEW c \in DOMAIN calls, CommitDelete(c) PROVE Inv'
  <1>1. Moved(c)
    BY CommitMoves DEF CommitDelete
  <1>2. TypeOK'
    BY <1>1 DEF Inv, TypeOK, Moved, CommitDelete, Commit, observed
  <1> QED BY <1>1, <1>2, MovedKeeps DEF Inv, CommitDelete, Commit, observed

LEMMA CommitEvaluateKeeps == ASSUME Inv, NEW c \in DOMAIN calls, CommitEvaluate(c) PROVE Inv'
  <1>1. Moved(c)
    BY CommitMoves DEF CommitEvaluate
  <1>2. TypeOK'
    <2>1. calls[c].id \in Ids /\ c \in Nat
      BY CallTyped DEF Inv, Asked, CommitEvaluate, Commit, Call, Ids
    <2>2. [id |-> calls[c].id, by |-> c] \in Signal
      BY <2>1 DEF Signal
    <2> QED BY <1>1, <2>2 DEF Inv, TypeOK, Moved, CommitEvaluate, Commit, observed
  <1> QED BY <1>1, <1>2, MovedKeeps DEF Inv, CommitEvaluate, Commit, observed

LEMMA HearSuccessMoves ==
  ASSUME Inv, NEW c \in DOMAIN calls, HearSuccess(c)
  PROVE  Moved(c) /\ listed' \in Query(SUBSET Row)
  <1>1. listed' \in Query(SUBSET Row)
    BY InvalidateTyped DEF Inv, TypeOK, HearSuccess
  <1>2. Moved(c)
    <2> DEFINE new == [calls[c] EXCEPT !.heard = "success"]
    <2>1. calls' = [calls EXCEPT ![c] = new]
      BY DEF HearSuccess
    <2>2. /\ new \in Call /\ new.kind = calls[c].kind /\ new.id = calls[c].id
          /\ new.fields = calls[c].fields /\ new.mount = calls[c].mount
          /\ new.heard = "nothing" => calls[c].heard = "nothing"
      BY CallTyped DEF Call
    <2> HIDE DEF new
    <2> QED BY <2>1, <2>2, MovesTo
  <1> QED BY <1>1, <1>2

LEMMA SaveSucceedsKeeps == ASSUME Inv, NEW c \in DOMAIN calls, SaveSucceeds(c) PROVE Inv'
  <1>0. form' \in Form /\ ~form'.open /\ form'.mount = form.mount /\ Filled'
    BY ShutKeeps DEF SaveSucceeds
  <1>1. Moved(c) /\ listed' \in Query(SUBSET Row)
    BY HearSuccessMoves DEF SaveSucceeds
  <1>2. TypeOK'
    <2>1. /\ calls' \in Seq(Call) /\ Len(calls') = Len(calls) /\ Len(calls) \in Nat
          /\ UNCHANGED <<rows, births, signals, selected, evaluating, deleting>> /\ saving' = 0
      BY <1>1, CallTyped DEF Moved, SaveSucceeds, HearSuccess, server
    <2> QED BY <1>0, <1>1, <2>1 DEF Inv, TypeOK
  <1>3. Asked'
    BY <1>1 DEF Inv, Asked, Moved, Saves
  <1>4. Observed'
    BY <1>0, <1>1 DEF Inv, Observed, Moved
  <1>5. OneSaveAtATime'
    BY <1>1 DEF Inv, OneSaveAtATime, Moved
  <1> QED BY <1>0, <1>2, <1>3, <1>4, <1>5 DEF Inv

LEMMA EvaluateSucceedsKeeps ==
  ASSUME Inv, NEW c \in DOMAIN calls, EvaluateSucceeds(c) PROVE Inv'
  <1>1. Moved(c) /\ listed' \in Query(SUBSET Row)
    BY HearSuccessMoves DEF EvaluateSucceeds
  <1>2. TypeOK'
    BY <1>1 DEF Inv, TypeOK, Moved, EvaluateSucceeds, HearSuccess, server, observed
  <1> QED BY <1>1, <1>2, MovedKeeps DEF Inv, EvaluateSucceeds, observed

LEMMA DeleteSucceedsKeeps == ASSUME Inv, NEW c \in DOMAIN calls, DeleteSucceeds(c) PROVE Inv'
  <1>1. Moved(c) /\ listed' \in Query(SUBSET Row)
    BY HearSuccessMoves DEF DeleteSucceeds
  <1>2. TypeOK'
    <2>1. /\ calls' \in Seq(Call) /\ Len(calls') = Len(calls) /\ Len(calls) \in Nat
          /\ UNCHANGED <<rows, births, signals, form, saving>>
          /\ selected' = 0 /\ evaluating' = 0 /\ deleting' = 0
      BY <1>1, CallTyped DEF Moved, DeleteSucceeds, HearSuccess, server
    <2> QED BY <1>1, <2>1 DEF Inv, TypeOK
  <1> QED BY <1>1, <1>2, MovedKeeps DEF Inv, DeleteSucceeds

LEMMA ReconnectKeeps == ASSUME Inv, Reconnect PROVE Inv'
  <1>1. TypeOK'
    BY FetchTyped DEF Inv, TypeOK, Reconnect, server, observed
  <1>2. Asked' /\ OneSaveAtATime'
    BY DEF Inv, Asked, OneSaveAtATime, Reconnect
  <1>3. Observed' /\ Filled'
    BY DEF Inv, Observed, Filled, Reconnect, observed
  <1> QED BY <1>1, <1>2, <1>3 DEF Inv

LEMMA ListStrategiesKeeps == ASSUME Inv, ListStrategies PROVE Inv'
  <1>1. rows \in SUBSET Row
    BY DEF Inv, TypeOK
  <1>2. listed' \in Query(SUBSET Row)
    BY <1>1, AnsweredTyped DEF Inv, TypeOK, ListStrategies
  <1>3. TypeOK'
    BY <1>2 DEF Inv, TypeOK, ListStrategies, server, observed
  <1>4. Asked' /\ OneSaveAtATime'
    BY DEF Inv, Asked, OneSaveAtATime, ListStrategies
  <1>5. Observed' /\ Filled'
    BY DEF Inv, Observed, Filled, ListStrategies, observed
  <1> QED BY <1>3, <1>4, <1>5 DEF Inv

\* The list that arrives leaves the form alone: it has its target already.
LEMMA ArrivalLeavesForm == ASSUME Inv, ListArrives PROVE form' = form
  <1>1. listed.answer \in SUBSET (SUBSET Row) /\ form \in Form
    BY DEF Inv, TypeOK, Query
  <1>2. form.edit = form.prefilled \/ form.edit = 0
    BY DEF Inv, Filled
  <1> QED BY <1>1, <1>2, RenderedKept DEF ListArrives

LEMMA ListArrivesKeeps == ASSUME Inv, ListArrives PROVE Inv'
  <1>1. form' = form
    BY ArrivalLeavesForm
  <1>2. listed' \in Query(SUBSET Row)
    BY SucceedTyped DEF Inv, TypeOK, ListArrives
  <1>3. TypeOK'
    BY <1>1, <1>2 DEF Inv, TypeOK, ListArrives, server, observed
  <1>4. Asked' /\ OneSaveAtATime'
    BY DEF Inv, Asked, OneSaveAtATime, ListArrives
  <1>5. Observed' /\ Filled'
    BY <1>1 DEF Inv, Observed, Filled, ListArrives, observed
  <1> QED BY <1>3, <1>4, <1>5 DEF Inv

LEMMA ListFailsKeeps == ASSUME Inv, ListFails PROVE Inv'
  <1>1. listed' \in Query(SUBSET Row)
    BY FailTyped DEF Inv, TypeOK, ListFails
  <1>2. TypeOK'
    BY <1>1 DEF Inv, TypeOK, ListFails, server, observed
  <1>3. Asked' /\ OneSaveAtATime'
    BY DEF Inv, Asked, OneSaveAtATime, ListFails
  <1>4. Observed' /\ Filled'
    BY DEF Inv, Observed, Filled, ListFails, observed
  <1> QED BY <1>2, <1>3, <1>4 DEF Inv

-----------------------------------------------------------------------------
\* The field that the user changes.
LEMMA TypingKeeps ==
  ASSUME Inv,
         \/ \E name \in Names : TypeName(name)
         \/ \E symbol \in Symbols : PickSymbol(symbol)
         \/ DropSymbol
         \/ \E rule \in Rules : EditIndicators(rule)
         \/ \E sizing \in Sizings : EditSizing(sizing)
  PROVE  Inv'
  <1>1. form.fields \in Fields
    BY DEF Inv, TypeOK, Form
  <1>2. ASSUME NEW name \in Names, TypeName(name) PROVE Inv'
    <2>1. [form.fields EXCEPT !.name = name] \in Fields
      BY <1>1 DEF Fields
    <2> QED BY <1>2, <2>1, ChangeKeeps DEF TypeName
  <1>3. ASSUME NEW symbol \in Symbols \cup {NoSymbol},
               Change([form.fields EXCEPT !.symbol = symbol]) PROVE Inv'
    <2>1. [form.fields EXCEPT !.symbol = symbol] \in Fields
      BY <1>1 DEF Fields
    <2> QED BY <1>3, <2>1, ChangeKeeps
  <1>4. ASSUME NEW rule \in Rules, EditIndicators(rule) PROVE Inv'
    <2>1. [form.fields EXCEPT !.rule = rule] \in Fields
      BY <1>1 DEF Fields
    <2> QED BY <1>4, <2>1, ChangeKeeps DEF EditIndicators
  <1>5. ASSUME NEW sizing \in Sizings, EditSizing(sizing) PROVE Inv'
    <2>1. [form.fields EXCEPT !.sizing = sizing] \in Fields
      BY <1>1 DEF Fields
    <2> QED BY <1>5, <2>1, ChangeKeeps DEF EditSizing
  <1> QED BY <1>2, <1>3, <1>4, <1>5 DEF PickSymbol, DropSymbol

\* The invariant holds when the page appears.
THEOREM InitInv == Init => Inv
  <1> SUFFICES ASSUME Init PROVE Inv
    OBVIOUS
  <1>1. PICK table \in Tables :
          /\ rows = {[id |-> i, content |-> table[i]] : i \in DOMAIN table}
          /\ births = Len(table)
          /\ signals = {[id |-> i, by |-> 0] : i \in DOMAIN table}
    BY DEF Init
  <1>2. table \in Seq(Content)
    BY StrategyAssumption
  <1>3. rows \subseteq Row
    BY <1>1, <1>2 DEF Row, Ids
  <1>4. signals \subseteq Signal
    BY <1>1, <1>2 DEF Signal, Ids
  <1>5. births \in Nat
    BY <1>1, <1>2
  <1>6. listed \in Query(SUBSET Row)
    BY MountTyped, UnaskedTyped DEF Init
  <1>7. form \in Form /\ form = Shut(0)
    BY ShutTyped DEF Init
  <1>8. calls \in Seq(Call) /\ calls = <<>>
    BY DEF Init
  <1>9. TypeOK
    <2>1. saving = 0 /\ evaluating = 0 /\ deleting = 0 /\ selected = 0 /\ Len(calls) = 0
      BY <1>8 DEF Init
    <2> QED BY <1>3, <1>4, <1>5, <1>6, <1>7, <1>8, <2>1 DEF TypeOK
  <1>10. Asked /\ Observed /\ OneSaveAtATime
    BY <1>8 DEF Asked, Observed, OneSaveAtATime
  <1>11. Filled
    BY <1>7 DEF Filled, Shut
  <1> QED BY <1>9, <1>10, <1>11 DEF Inv

\* Every step of the page and of its server keeps it.
THEOREM StepInv == Inv /\ [Next]_vars => Inv'
  <1> SUFFICES ASSUME Inv, [Next]_vars PROVE Inv'
    OBVIOUS
  <1>1. CASE OpenCreate
    BY <1>1, OpenFormKeeps DEF OpenCreate
  <1>2. CASE \E old \in BOOLEAN : CloseForm(old)
    BY <1>2, CloseFormKeeps
  <1>3. CASE \E old \in BOOLEAN, row \in Shown : OpenEdit(row, old) \/ Select(row, old)
    <2>1. PICK old \in BOOLEAN, row \in Shown : OpenEdit(row, old) \/ Select(row, old)
      BY <1>3
    <2>2. row.id \in Nat
      BY ListedTyped DEF Inv, Shown, Row, Ids
    <2> QED BY <2>1, <2>2, OpenFormKeeps, SelectKeeps DEF OpenEdit
  <1>4. CASE \/ \E name \in Names : TypeName(name)
             \/ \E symbol \in Symbols : PickSymbol(symbol)
             \/ DropSymbol
             \/ \E rule \in Rules : EditIndicators(rule)
             \/ \E sizing \in Sizings : EditSizing(sizing)
    BY <1>4, TypingKeeps
  <1>5. CASE Save \/ Evaluate \/ Delete
    BY <1>5, SaveKeeps, EvaluateKeeps, DeleteKeeps
  <1>6. ASSUME NEW c \in DOMAIN calls, Load(c) \/ Answer(c) \/ Fall(c) \/ HearFailure(c)
        PROVE  Inv'
    BY <1>6, LoadKeeps, AnswerKeeps, FallKeeps, HearFailureKeeps
  <1>7. ASSUME NEW c \in DOMAIN calls,
               CommitCreate(c) \/ CommitUpdate(c) \/ CommitDelete(c) \/ CommitEvaluate(c)
        PROVE  Inv'
    BY <1>7, CommitCreateKeeps, CommitUpdateKeeps, CommitDeleteKeeps, CommitEvaluateKeeps
  <1>8. ASSUME NEW c \in DOMAIN calls,
               SaveSucceeds(c) \/ EvaluateSucceeds(c) \/ DeleteSucceeds(c)
        PROVE  Inv'
    BY <1>8, SaveSucceedsKeeps, EvaluateSucceedsKeeps, DeleteSucceedsKeeps
  <1>9. CASE Reconnect \/ ListStrategies \/ ListArrives \/ ListFails
    BY <1>9, ReconnectKeeps, ListStrategiesKeeps, ListArrivesKeeps, ListFailsKeeps
  <1>10. CASE UNCHANGED vars
    BY <1>10 DEF vars, server, observed, Inv, TypeOK, Asked, Observed, Filled, OneSaveAtATime
  <1> QED BY <1>1, <1>2, <1>3, <1>4, <1>5, <1>6, <1>7, <1>8, <1>9, <1>10 DEF Next

\* So it always holds.
THEOREM StrategyInv == Spec => []Inv
  BY InitInv, StepInv, PTL DEF Spec

\* The state of the page and of its server keeps its type (StrategyPage.TypeOK).
THEOREM StrategyTyped == Spec => []TypeOK
  BY StrategyInv, PTL DEF Inv

\* One form never has two saves under way (StrategyForm's saveMutation).
THEOREM StrategyOneSaveAtATime == Spec => []OneSaveAtATime
  BY StrategyInv, PTL DEF Inv

\* An untouched edit shows its target, for any strategies and any way to get there
\* (StrategyForm's prefilling).
THEOREM StrategyEditShowsItsTarget == Spec => []EditShowsItsTarget
  <1>1. Inv => EditShowsItsTarget
    BY DEF Inv, Filled, EditShowsItsTarget
  <1> QED BY <1>1, StrategyInv, PTL

-----------------------------------------------------------------------------
(* The history of a strategy that is evaluated and deleted. *)

\* A step that changes neither the database nor which calls have been answered.
Quiet ==
    /\ UNCHANGED server
    /\ \A c \in DOMAIN calls' :
         calls'[c].stage = "answered" => c \in DOMAIN calls /\ calls'[c] = calls[c]

\* What has been answered stays as it is, but for what is heard of it.
Heard(c) ==
    /\ UNCHANGED server /\ DOMAIN calls' = DOMAIN calls
    /\ \A d \in DOMAIN calls \ {c} : calls'[d] = calls[d]
    /\ calls'[c].stage = calls[c].stage /\ calls'[c].kind = calls[c].kind
    /\ calls'[c].id = calls[c].id /\ calls'[c].dropped = calls[c].dropped

LEMMA QuietStep ==
  ASSUME Inv, [Next]_vars,
         \A c \in DOMAIN calls : ~(\/ Answer(c) \/ CommitCreate(c) \/ CommitUpdate(c)
                                   \/ CommitDelete(c) \/ CommitEvaluate(c))
  PROVE  Quiet \/ \E c \in DOMAIN calls : Heard(c)
  <1>1. CASE UNCHANGED server /\ UNCHANGED calls
    BY <1>1 DEF Quiet
  <1>2. ASSUME NEW kind \in {"create", "update", "delete", "evaluate"}, NEW id \in Nat,
               UNCHANGED server, calls' = Append(calls, NewCall(kind, id))
        PROVE  Quiet
    BY <1>2, NewCallTyped DEF Quiet
  <1>3. ASSUME NEW c \in DOMAIN calls, Load(c) \/ Fall(c) PROVE Quiet
    <2>1. PICK new : /\ calls' = [calls EXCEPT ![c] = new] /\ new.stage # "answered"
                     /\ UNCHANGED server
      <3>1. CASE Load(c)
        <4> DEFINE new == [calls[c] EXCEPT !.stage = "loaded"]
        <4>1. calls' = [calls EXCEPT ![c] = new] /\ new.stage # "answered" /\ UNCHANGED server
          BY <3>1, CallTyped DEF Load, Call
        <4> QED BY <4>1
      <3>2. CASE Fall(c)
        <4> DEFINE new == [calls[c] EXCEPT !.stage = IF @ = "answered" THEN "lost" ELSE "refused"]
        <4>1. calls' = [calls EXCEPT ![c] = new] /\ new.stage # "answered" /\ UNCHANGED server
          BY <3>2, CallTyped DEF Fall, Call
        <4> QED BY <4>1
      <3> QED BY <1>3, <3>1, <3>2
    <2> QED BY <2>1, CallTyped DEF Quiet
  <1>4. ASSUME NEW c \in DOMAIN calls, HearFailure(c) \/ HearSuccess(c) PROVE Heard(c)
    <2>1. PICK heard \in {"success", "failure"} :
            calls' = [calls EXCEPT ![c] = [calls[c] EXCEPT !.heard = heard]] /\ UNCHANGED server
      BY <1>4 DEF HearFailure, HearSuccess
    <2> DEFINE new == [calls[c] EXCEPT !.heard = heard]
    <2>2. /\ new.stage = calls[c].stage /\ new.kind = calls[c].kind
          /\ new.id = calls[c].id /\ new.dropped = calls[c].dropped
      BY CallTyped DEF Call
    <2>3. calls' = [calls EXCEPT ![c] = new]
      BY <2>1
    <2> HIDE DEF new
    <2> QED BY <2>1, <2>2, <2>3, CallTyped DEF Heard
  <1>5. CASE Save \/ Evaluate \/ Delete
    <2>1. form.edit \in Nat /\ selected \in Nat
      BY DEF Inv, TypeOK, Form
    <2> QED BY <1>2, <1>5, <2>1 DEF Save, Evaluate, Delete
  <1>6. ASSUME NEW c \in DOMAIN calls,
               SaveSucceeds(c) \/ EvaluateSucceeds(c) \/ DeleteSucceeds(c)
        PROVE  Heard(c)
    BY <1>4, <1>6 DEF SaveSucceeds, EvaluateSucceeds, DeleteSucceeds
  <1>7. (\/ OpenCreate
         \/ \E old \in BOOLEAN :
               \/ CloseForm(old)
               \/ \E row \in Shown : OpenEdit(row, old) \/ Select(row, old)
         \/ \E name \in Names : TypeName(name)
         \/ \E symbol \in Symbols : PickSymbol(symbol)
         \/ DropSymbol
         \/ \E rule \in Rules : EditIndicators(rule)
         \/ \E sizing \in Sizings : EditSizing(sizing)
         \/ Reconnect \/ ListStrategies \/ ListArrives \/ ListFails
         \/ UNCHANGED vars) => UNCHANGED server /\ UNCHANGED calls
    BY DEF OpenCreate, OpenEdit, OpenForm, CloseForm, Select, TypeName, PickSymbol, DropSymbol,
           EditIndicators, EditSizing, Change, Reconnect, ListStrategies, ListArrives, ListFails, vars
  <1> QED BY <1>1, <1>3, <1>4, <1>5, <1>6, <1>7 DEF Next

\* What the call that is answered or committed is then.
LEMMA AnswerMoves ==
  ASSUME Inv, NEW c \in DOMAIN calls, Answer(c)
  PROVE  /\ DOMAIN calls' = DOMAIN calls /\ \A d \in DOMAIN calls \ {c} : calls'[d] = calls[d]
         /\ calls'[c].kind = calls[c].kind /\ calls'[c].id = calls[c].id
         /\ calls[c].kind = "delete" => calls'[c].dropped = SignalsOf(calls[c].id)
         /\ UNCHANGED server
  <1> DEFINE dropped == IF calls[c].kind = "delete" THEN SignalsOf(calls[c].id) ELSE {}
  <1>1. calls' = [calls EXCEPT ![c].stage = "answered", ![c].dropped = dropped] /\ UNCHANGED server
    BY DEF Answer
  <1>2. calls[c].kind = "delete" => dropped = SignalsOf(calls[c].id)
    OBVIOUS
  <1> HIDE DEF dropped
  <1> QED BY <1>1, <1>2, CallTyped DEF Call

LEMMA CommitsOnly ==
  ASSUME Inv, NEW c \in DOMAIN calls, NEW kind, Commit(c, kind)
  PROVE  /\ DOMAIN calls' = DOMAIN calls /\ \A d \in DOMAIN calls \ {c} : calls'[d] = calls[d]
         /\ calls'[c].stage = "committed"
  BY CallTyped DEF Commit, Call

LEMMA PatchedId ==
  ASSUME Inv, NEW c \in DOMAIN calls, CommitUpdate(c), NEW row \in rows
  PROVE  \E new \in rows' : new.id = row.id
  <1> DEFINE new == IF row.id = calls[c].id THEN Patched(row, calls[c].fields) ELSE row
  <1>1. new \in rows'
    BY DEF CommitUpdate
  <1>2. new.id = row.id
    BY DEF Patched, Inv, TypeOK, Row
  <1> HIDE DEF new
  <1> QED BY <1>1, <1>2

LEMMA QuietKeeps ==
  ASSUME Inv, Kept, Quiet \/ \E c \in DOMAIN calls : Heard(c) PROVE Kept'
  <1>1. CASE Quiet
    <2>1. Anchored => Anchored'
      BY <1>1 DEF Quiet, Anchored, RowsOf, server
    <2>2. Emptied => Emptied'
      BY <1>1 DEF Quiet, Emptied, SignalsOf, server
    <2> QED BY <1>1, <2>1, <2>2 DEF Kept, Quiet, NoOrphans, RowsOf, server
  <1>2. ASSUME NEW c \in DOMAIN calls, Heard(c) PROVE Kept'
    <2>1. \A d \in DOMAIN calls : /\ calls'[d].stage = calls[d].stage
                                  /\ calls'[d].kind = calls[d].kind
                                  /\ calls'[d].id = calls[d].id
                                  /\ calls'[d].dropped = calls[d].dropped
      BY <1>2 DEF Heard
    <2>2. Anchored => Anchored'
      BY <1>2, <2>1 DEF Heard, Anchored, RowsOf, server
    <2>3. Emptied => Emptied'
      BY <1>2, <2>1 DEF Heard, Emptied, SignalsOf, server
    <2> QED BY <1>2, <2>2, <2>3 DEF Kept, Heard, NoOrphans, RowsOf, server
  <1> QED BY <1>1, <1>2

LEMMA AnchoredStep ==
  ASSUME ~SingleWriter, Inv, Anchored, NoOrphans, NEW c \in DOMAIN calls,
         \/ Answer(c) \/ CommitCreate(c) \/ CommitUpdate(c)
         \/ CommitDelete(c) \/ CommitEvaluate(c)
  PROVE  Anchored' /\ NoOrphans'
  <1>1. CASE Answer(c)
    <2>1. calls[c].kind = "evaluate" => RowsOf(calls[c].id) # {}
      BY <1>1 DEF Answer, Checked
    <2> QED BY <1>1, <2>1, AnswerMoves DEF Anchored, NoOrphans, RowsOf, server
  <1>2. ASSUME \A row \in rows : \E new \in rows' : new.id = row.id,
               NEW kind, Commit(c, kind), UNCHANGED signals
        PROVE  Anchored' /\ NoOrphans'
    <2>1. \A id : RowsOf(id) # {} => RowsOf(id)' # {}
      BY <1>2 DEF RowsOf
    <2> QED BY <1>2, <2>1, CommitsOnly DEF Anchored, NoOrphans
  <1>3. CASE CommitCreate(c)
    BY <1>2, <1>3 DEF CommitCreate
  <1>4. CASE CommitUpdate(c)
    BY <1>2, <1>4, PatchedId DEF CommitUpdate
  <1>5. CASE CommitDelete(c)
    <2>1. /\ signals' = signals \ calls[c].dropped /\ SignalsOf(calls[c].id) \subseteq calls[c].dropped
          /\ rows' = rows \ RowsOf(calls[c].id)
      BY <1>5 DEF CommitDelete, Checked
    <2>2. \A id : id # calls[c].id /\ RowsOf(id) # {} => RowsOf(id)' # {}
      BY <2>1 DEF RowsOf
    <2>3. \A signal \in signals' : signal \in signals /\ signal.id # calls[c].id
      BY <2>1 DEF SignalsOf
    <2>4. ASSUME NEW d \in DOMAIN calls \ {c}, calls[d].kind = "evaluate", calls[d].stage = "answered"
          PROVE  calls[d].id # calls[c].id
      BY <1>5, <2>4 DEF CommitDelete, Commit, Waits, Checked
    <2>5. Anchored'
      BY <1>5, <2>2, <2>4, CommitsOnly DEF Anchored, CommitDelete
    <2>6. NoOrphans'
      BY <2>2, <2>3 DEF NoOrphans
    <2> QED BY <2>5, <2>6
  <1>6. CASE CommitEvaluate(c)
    <2>1. /\ signals' = signals \cup {[id |-> calls[c].id, by |-> c]} /\ UNCHANGED rows
          /\ calls[c].kind = "evaluate" /\ calls[c].stage = "answered"
      BY <1>6 DEF CommitEvaluate, Commit
    <2>2. Anchored'
      BY <1>6, <2>1, CommitsOnly DEF Anchored, RowsOf, CommitEvaluate
    <2>3. NoOrphans'
      BY <2>1 DEF Anchored, NoOrphans, RowsOf
    <2> QED BY <2>2, <2>3
  <1> QED BY <1>1, <1>3, <1>4, <1>5, <1>6

LEMMA EmptiedStep ==
  ASSUME SingleWriter, Inv, Emptied, NEW c \in DOMAIN calls,
         \/ Answer(c) \/ CommitCreate(c) \/ CommitUpdate(c)
         \/ CommitDelete(c) \/ CommitEvaluate(c)
  PROVE  Emptied'
  <1>1. CASE Answer(c)
    <2>1. \A d \in DOMAIN calls \ {c} : calls[d].stage # "answered"
      BY <1>1 DEF Answer, Waits
    <2> QED BY <1>1, <2>1, AnswerMoves DEF Emptied, SignalsOf, server
  <1>2. ASSUME NEW kind, Commit(c, kind) PROVE Emptied'
    <2>1. \A d \in DOMAIN calls' : calls'[d].stage # "answered"
      BY <1>2, CommitsOnly DEF Emptied, Commit
    <2> QED BY <2>1 DEF Emptied
  <1> QED BY <1>1, <1>2 DEF CommitCreate, CommitUpdate, CommitDelete, CommitEvaluate

LEMMA KeptHolds == Spec => []Kept
  <1>1. Init => Kept
    <2> SUFFICES ASSUME Init PROVE Kept
      OBVIOUS
    <2>1. Anchored /\ Emptied
      BY DEF Init, Anchored, Emptied
    <2>2. NoOrphans
      <3>1. PICK table \in Tables :
              /\ rows = {[id |-> i, content |-> table[i]] : i \in DOMAIN table}
              /\ signals = {[id |-> i, by |-> 0] : i \in DOMAIN table}
        BY DEF Init
      <3>2. ASSUME NEW i \in DOMAIN table PROVE RowsOf(i) # {}
        <4>1. [id |-> i, content |-> table[i]] \in rows
          BY <3>1
        <4> QED BY <4>1 DEF RowsOf
      <3> QED BY <3>1, <3>2 DEF NoOrphans
    <2> QED BY <2>1, <2>2 DEF Kept
  <1>2. Inv /\ Kept /\ [Next]_vars => Kept'
    BY QuietStep, QuietKeeps, AnchoredStep, EmptiedStep DEF Kept
  <1> QED BY <1>1, <1>2, StrategyInv, PTL DEF Spec

\* Where foreign keys are checked (PostgreSQL) no signal is left without its strategy, for
\* any number of evaluations and deletions in any order (StrategyService.delete_strategy
\* and evaluate).
THEOREM StrategyNoOrphans == ~SingleWriter => (Spec => []NoOrphans)
  <1> SUFFICES ASSUME ~SingleWriter PROVE Spec => []NoOrphans
    OBVIOUS
  <1>1. Kept => NoOrphans
    BY DEF Kept
  <1> QED BY <1>1, KeptHolds, PTL

\* A strategy that is deleted takes along its whole history, under either database: what
\* was added before the delete, and what could have been added between its answer and its
\* commit (StrategyService.delete_strategy).
THEOREM StrategyDeleteTakesHistory == Spec => DeleteTakesHistory
  <1> DEFINE Gone == \A row \in rows, signal \in signals' :
                       signal.id = row.id => \E kept \in rows' : kept.id = row.id
  <1>1. Inv /\ Kept /\ Kept' /\ [Next]_vars => [Gone]_vars
    <2> SUFFICES ASSUME Inv, Kept, Kept', Next, NEW row \in rows, NEW signal \in signals',
                        signal.id = row.id
                 PROVE  \E kept \in rows' : kept.id = row.id
      BY DEF vars
    <2>1. CASE ~SingleWriter
      BY <2>1 DEF Kept, NoOrphans, RowsOf
    <2>2. CASE SingleWriter
      <3>1. CASE UNCHANGED rows
        BY <3>1
      <3>2. ASSUME NEW c \in DOMAIN calls, CommitCreate(c)
            PROVE  \E kept \in rows' : kept.id = row.id
        BY <3>2 DEF CommitCreate
      <3>3. ASSUME NEW c \in DOMAIN calls, CommitUpdate(c)
            PROVE  \E kept \in rows' : kept.id = row.id
        BY <3>3, PatchedId
      <3>4. ASSUME NEW c \in DOMAIN calls, CommitDelete(c)
            PROVE  \E kept \in rows' : kept.id = row.id
        <4>1. /\ signals' = signals \ calls[c].dropped /\ rows' = rows \ RowsOf(calls[c].id)
              /\ calls[c].kind = "delete" /\ calls[c].stage = "answered"
          BY <3>4 DEF CommitDelete, Commit
        <4>2. SignalsOf(calls[c].id) \subseteq calls[c].dropped
          BY <2>2, <4>1 DEF Kept, Emptied
        <4>3. row.id # calls[c].id
          BY <4>1, <4>2 DEF SignalsOf
        <4> QED BY <4>1, <4>3 DEF RowsOf
      <3>5. ASSUME NEW c \in DOMAIN calls,
                   Answer(c) \/ CommitEvaluate(c) \/ Heard(c)
            PROVE  UNCHANGED rows
        BY <3>5 DEF Answer, CommitEvaluate, Heard, server
      <3>6. Quiet => UNCHANGED rows
        BY DEF Quiet, server
      <3> QED BY <3>1, <3>2, <3>3, <3>4, <3>5, <3>6, QuietStep
    <2> QED BY <2>1, <2>2
  <1> QED BY <1>1, KeptHolds, StrategyInv, PTL DEF Spec, DeleteTakesHistory

-----------------------------------------------------------------------------
(* What the user has typed. *)

LEMMA TypingStep ==
  ASSUME Inv, [Next]_vars, form.touched, form'.open, form'.mount = form.mount,
         form'.edit = form.edit
  PROVE  form'.touched
  <1>0. form.mount \in Nat /\ form \in Form
    BY DEF Inv, TypeOK, Form
  <1>1. ASSUME NEW edit \in Nat, edit = 0 \/ \E row \in Shown : row.id = edit,
               NEW old \in BOOLEAN, OpenForm(edit, old)
        PROVE  form'.touched
    <2>1. form'.edit = edit /\ form'.mount = IF form.open THEN form.mount ELSE form.mount + 1
      BY <1>1, OpenFormFills DEF OpenForm
    <2>2. form.open /\ edit = form.edit
      BY <1>0, <2>1
    <2>3. Turned(edit) = form
      BY <1>0, <2>2 DEF Turned, Form
    <2>4. form' = form
      BY <1>0, <1>1, <2>2, <2>3, RenderedKept, ListedTyped DEF OpenForm, Inv, Filled
    <2> QED BY <2>4
  <1>2. CASE OpenCreate
    BY <1>1, <1>2 DEF OpenCreate
  <1>3. CASE \E old \in BOOLEAN, row \in Shown : OpenEdit(row, old)
    <2>1. PICK old \in BOOLEAN, row \in Shown : OpenEdit(row, old)
      BY <1>3
    <2>2. row.id \in Nat
      BY ListedTyped DEF Inv, Shown, Row, Ids
    <2> QED BY <1>1, <2>1, <2>2 DEF OpenEdit
  <1>4. CASE \/ \E old \in BOOLEAN : CloseForm(old) \/ (\E row \in Shown : Select(row, old))
             \/ \E c \in DOMAIN calls : SaveSucceeds(c)
    BY <1>4 DEF CloseForm, Select, SaveSucceeds, Shut
  <1>5. CASE \/ \E name \in Names : TypeName(name)
             \/ \E symbol \in Symbols : PickSymbol(symbol)
             \/ DropSymbol
             \/ \E rule \in Rules : EditIndicators(rule)
             \/ \E sizing \in Sizings : EditSizing(sizing)
    BY <1>0, <1>5 DEF TypeName, PickSymbol, DropSymbol, EditIndicators, EditSizing, Change, Form
  <1>6. CASE ListArrives
    BY <1>6, ArrivalLeavesForm
  <1>7. CASE UNCHANGED form
    BY <1>7
  <1>8. (\/ Save \/ Evaluate \/ Delete \/ Reconnect \/ ListStrategies \/ ListFails
         \/ UNCHANGED vars
         \/ \E c \in DOMAIN calls :
               \/ Load(c) \/ Answer(c) \/ Fall(c) \/ HearFailure(c)
               \/ CommitCreate(c) \/ CommitUpdate(c) \/ CommitDelete(c) \/ CommitEvaluate(c)
               \/ EvaluateSucceeds(c) \/ DeleteSucceeds(c)) => UNCHANGED form
    BY DEF Save, Evaluate, Delete, Reconnect, ListStrategies, ListFails, Load, Answer, Fall, HearFailure,
           CommitCreate, CommitUpdate, CommitDelete, CommitEvaluate, Commit, EvaluateSucceeds,
           DeleteSucceeds, vars
  <1> QED BY <1>2, <1>3, <1>4, <1>5, <1>6, <1>7, <1>8 DEF Next

\* What is typed is kept until the form is shut or turned to another strategy, for any
\* number of lists that arrive meanwhile (StrategyForm).
THEOREM StrategyTypingIsKept == Spec => TypingIsKept
  <1>1. Inv /\ [Next]_vars =>
          [form.touched /\ form'.open /\ form'.mount = form.mount /\ form'.edit = form.edit
             => form'.touched]_vars
    BY TypingStep
  <1> QED BY <1>1, StrategyInv, PTL DEF Spec, TypingIsKept
=============================================================================
