------------------------- MODULE TradingPageProofs -------------------------
(***************************************************************************)
(* The safety of the trading page, for any number of visits, dialogs and   *)
(* placements and any order in which their answers arrive.                 *)
(***************************************************************************)
EXTENDS TradingPage, TLAPS

-----------------------------------------------------------------------------
(* The query of the order list keeps its type. *)

LEMMA UnaskedTyped == ASSUME NEW S PROVE Unasked \in Query(S)
  BY DEF Unasked, Query

LEMMA StartTyped == ASSUME NEW S, NEW q \in Query(S) PROVE Start(q) \in Query(S)
  BY DEF Start, Query

LEMMA FetchTyped == ASSUME NEW S, NEW q \in Query(S) PROVE Fetch(q) \in Query(S)
  BY StartTyped DEF Fetch

LEMMA InvalidateTyped ==
  ASSUME NEW S, NEW q \in Query(S), NEW active \in BOOLEAN
  PROVE  Invalidate(q, active) \in Query(S)
  <1>1. [q EXCEPT !.invalid = TRUE] \in Query(S)
    BY DEF Query
  <1> QED BY <1>1, StartTyped DEF Invalidate

LEMMA MountTyped ==
  ASSUME NEW S, NEW q \in Query(S), NEW old \in BOOLEAN PROVE Mount(q, old) \in Query(S)
  BY FetchTyped DEF Mount

LEMMA AnsweredTyped ==
  ASSUME NEW S, NEW q \in Query(S), NEW s \in S PROVE Answered(q, s) \in Query(S)
  BY DEF Answered, Query

LEMMA SucceedTyped == ASSUME NEW S, NEW q \in Query(S) PROVE Succeed(q) \in Query(S)
  BY DEF Succeed, Query

LEMMA FailTyped ==
  ASSUME NEW S, NEW q \in Query(S) PROVE Fail(q) \in Query(S)
  BY DEF Fail, Query
-----------------------------------------------------------------------------
(* What holds besides the invariants that the run checks. *)

\* The server's orders are those of the posts that it placed, and the page hears of a
\* success only when there is one.
Server ==
    /\ Len(posts) <= MaxPosts
    /\ DOMAIN orders = {p \in DOMAIN posts : posts[p].fate = "placed"}
    /\ \A p \in DOMAIN posts : posts[p].heard = "success" => posts[p].fate = "placed"

\* The mock build answers at once; the backend has no order that a row lets cancel.
Builds ==
    /\ mock => \A p \in DOMAIN posts : posts[p].heard = "success"
    /\ ~mock => \A snapshot \in {orders} \cup listed.data \cup listed.answer :
                        \A id \in DOMAIN snapshot : snapshot[id] = "submitted"

\* Outside the page nothing of it is left.
Gone == ~mounted => dialog.opening = 0 /\ newest = 0 /\ toast = NoToast

Reviewed ==
    /\ reviewed \subseteq DOMAIN openings
    /\ dialog.opening # 0 /\ dialog.step = 2 => dialog.opening \in reviewed

\* The page observes its latest placement, and no other of this visit is under way.
Observed ==
    /\ newest # 0 => posts[newest].visit = visit
    /\ \A p \in DOMAIN posts :
          /\ posts[p].visit <= visit
          /\ mounted /\ posts[p].visit = visit /\ posts[p].heard = "nothing" => p = newest

\* What the dialog shows was not placed yet, as far as the page knows.
OnShow ==
    dialog.opening # 0 =>
      /\ \A p \in DOMAIN posts : posts[p].opening = dialog.opening =>
            posts[p].visit = visit /\ posts[p].heard # "success"
      /\ ~mock => toast # "success"

\* An answer under way, and data that nothing contradicts, show all that they must.
List ==
    /\ ~listed.fetching => listed.answer = {}
    /\ \A fact \in told : Shows(orders, fact)
    /\ \A snapshot \in listed.answer, fact \in told : Shows(snapshot, fact)
    /\ ListCatchesUp

Inv ==
    /\ TypeOK /\ Server /\ Builds /\ Gone /\ Reviewed /\ Observed /\ OnShow /\ List
    /\ ReviewedBeforeSent /\ NoDoubleSubmit /\ SuccessBannerIsCurrent

-----------------------------------------------------------------------------
THEOREM InitInv == Init => Inv
  <1> SUFFICES ASSUME Init PROVE Inv
    OBVIOUS
  <1>1. orders \in Snapshot
    BY DEF Init, Snapshot
  <1>2. <<>> \in Seq(OrderRequest) /\ <<>> \in Seq(Post)
    OBVIOUS
  <1>3. TypeOK
    <2>1. Len(openings) = 0 /\ Len(posts) = 0 /\ 0 \in 0 .. 0
      BY DEF Init
    <2> QED BY <1>1, <1>2, <2>1, UnaskedTyped DEF Init, TypeOK, Closed, NoToast
  <1>4. Server /\ Builds /\ Gone /\ Reviewed /\ Observed /\ OnShow
    BY TradingAssumption
       DEF Init, Server, Builds, Gone, Reviewed, Observed, OnShow, Closed, NoToast, Unasked
  <1>5. List
    BY DEF Init, List, ListCatchesUp, Settled, Unasked
  <1>6. ReviewedBeforeSent /\ NoDoubleSubmit /\ SuccessBannerIsCurrent
    BY DEF Init, ReviewedBeforeSent, NoDoubleSubmit, SuccessBannerIsCurrent, NoToast
  <1> QED BY <1>3, <1>4, <1>5, <1>6 DEF Inv

LEMMA Lengths ==
  ASSUME TypeOK
  PROVE  /\ Len(openings) \in Nat /\ DOMAIN openings = 1 .. Len(openings)
         /\ Len(posts) \in Nat /\ DOMAIN posts = 1 .. Len(posts)
         /\ dialog.opening \in 0 .. Len(openings) /\ dialog.step \in {1, 2}
         /\ Closed \in [opening : 0 .. Len(openings), step : {1, 2}]
  BY DEF TypeOK, Closed

\* A placement that is told something keeps its other fields.
LEMMA PostTold ==
  ASSUME TypeOK, NEW p \in DOMAIN posts,
         NEW fate \in {"sent", "placed", "refused"},
         NEW heard \in {"nothing", "success", "failure"}
  PROVE  /\ [posts EXCEPT ![p].fate = fate] \in Seq(Post)
         /\ [posts EXCEPT ![p].heard = heard] \in Seq(Post)
         /\ Len([posts EXCEPT ![p].fate = fate]) = Len(posts)
         /\ Len([posts EXCEPT ![p].heard = heard]) = Len(posts)
         /\ DOMAIN [posts EXCEPT ![p].fate = fate] = DOMAIN posts
         /\ DOMAIN [posts EXCEPT ![p].heard = heard] = DOMAIN posts
  <1>1. /\ [posts[p] EXCEPT !.fate = fate] \in Post
        /\ [posts[p] EXCEPT !.heard = heard] \in Post
    <2>1. posts[p] \in Post
      BY DEF TypeOK
    <2> QED BY <2>1 DEF Post
  <1> QED BY <1>1 DEF TypeOK

\* An order more, or another status, leaves a snapshot of orders.
LEMMA WithOrderTyped ==
  ASSUME orders \in Snapshot, NEW id \in 1 .. MaxPosts, NEW status \in OrderStatus
  PROVE  WithOrder(id, status) \in Snapshot
  <1>1. PICK ids \in SUBSET (1 .. MaxPosts) : orders \in [ids -> OrderStatus]
    BY DEF Snapshot
  <1>2. WithOrder(id, status) \in [ids \cup {id} -> OrderStatus]
    BY <1>1 DEF WithOrder
  <1> QED BY <1>2 DEF Snapshot

LEMMA RefreshTyped == ASSUME TypeOK, Refresh PROVE listed' \in Query(Snapshot)
  BY InvalidateTyped DEF TypeOK, Refresh

\* An invalidation throws an answer away or leaves it, and the list is unsettled after.
LEMMA RefreshLeaves ==
  ASSUME TypeOK, Refresh
  PROVE  /\ listed'.data = listed.data
         /\ listed'.answer = {} \/ listed'.answer = listed.answer
         /\ listed'.invalid
         /\ listed.fetching => listed'.fetching
         /\ mounted /\ ~Joined(listed) => listed'.answer = {} /\ listed'.fetching
  <1>1. listed \in Query(Snapshot)
    BY DEF TypeOK
  <1> QED BY <1>1 DEF Refresh, Invalidate, Start, Joined, Query

\* What the page is told of is in the list's next answer, if it is owed at all.
LEMMA RefreshKeepsList ==
  ASSUME TypeOK, List, Refresh, NEW id, NEW status,
         told' = told \cup Owed(id, status),
         \A fact \in told' : Shows(orders', fact)
  PROVE  List'
  <1>1. ~Settled(listed')
    BY RefreshLeaves DEF Settled
  <1>2. ~listed'.fetching => listed'.answer = {}
    BY RefreshLeaves DEF List
  <1>3. \A snapshot \in listed'.answer, fact \in told' : Shows(snapshot, fact)
    <2>1. CASE listed.fetching /\ (listed.data = {} \/ ~mounted)
      BY <2>1, RefreshLeaves DEF Owed, List
    <2>2. CASE ~(listed.fetching /\ (listed.data = {} \/ ~mounted))
      BY <2>2, RefreshLeaves DEF Joined, List
    <2> QED BY <2>1, <2>2
  <1> QED BY <1>1, <1>2, <1>3 DEF List, ListCatchesUp

LEMMA PostFields ==
  ASSUME TypeOK
  PROVE  \A p \in DOMAIN posts :
           /\ posts[p] \in Post
           /\ posts[p].opening \in Nat /\ posts[p].visit \in Nat
  <1>1. \A p \in DOMAIN posts : posts[p] \in Post
    BY DEF TypeOK
  <1> QED BY <1>1 DEF Post

\* A placement carries the order on show, which was reviewed.
LEMMA Posted ==
  ASSUME TypeOK, Reviewed, dialog.opening # 0, dialog.step = 2,
         NEW fate \in {"sent", "placed", "refused"},
         NEW heard \in {"nothing", "success", "failure"},
         posts' = Append(posts, NewPost(fate, heard))
  PROVE  /\ posts' \in Seq(Post)
         /\ Len(posts') = Len(posts) + 1
         /\ DOMAIN posts' = DOMAIN posts \cup {Len(posts) + 1}
         /\ Len(posts) + 1 \notin DOMAIN posts
         /\ \A p \in DOMAIN posts : posts'[p] = posts[p] /\ p < Len(posts) + 1
         /\ posts'[Len(posts) + 1] =
              [opening |-> dialog.opening, request |-> openings[dialog.opening],
               visit |-> visit, fate |-> fate, heard |-> heard]
         /\ dialog.opening \in reviewed
  <1>1. dialog.opening \in 1 .. Len(openings)
    BY Lengths
  <1>2. openings[dialog.opening] \in OrderRequest
    BY <1>1 DEF TypeOK
  <1>3. NewPost(fate, heard) \in Post
    BY <1>1, <1>2, Lengths DEF NewPost, Post, TypeOK
  <1> QED BY <1>3, Lengths DEF TypeOK, Reviewed, NewPost

LEMMA OwedTyped ==
  ASSUME NEW id \in Nat, NEW status \in {"placed", "cancelled"}
  PROVE  Owed(id, status) \subseteq Fact
  BY DEF Owed, Fact

\* Steps that touch nothing but the choice of a symbol and the rows' first clicks.
LEMMA SmallKeeps ==
  ASSUME Inv,
         UNCHANGED <<mock, page, openings, dialog, posts, newest, toast, orders, listed,
                     reviewed, told>>,
         selected' \in Symbols \cup {NoSymbol}, appliedUrl' \in Symbols \cup {NoSymbol},
         armed' \subseteq 1 .. MaxPosts
  PROVE  Inv'
  <1>1. TypeOK'
    BY DEF Inv, TypeOK, page
  <1>2. Server'
    BY DEF Inv, Server, page
  <1>3. Builds'
    BY DEF Inv, Builds, page
  <1>4. Gone'
    BY DEF Inv, Gone, page
  <1>5. Reviewed'
    BY DEF Inv, Reviewed, page
  <1>6. Observed'
    BY DEF Inv, Observed, page
  <1>7. OnShow'
    BY DEF Inv, OnShow, page
  <1>8. List'
    BY DEF Inv, List, ListCatchesUp, Settled, page
  <1>9. ReviewedBeforeSent'
    BY DEF Inv, ReviewedBeforeSent, page
  <1>10. NoDoubleSubmit'
    BY DEF Inv, NoDoubleSubmit, page
  <1>11. SuccessBannerIsCurrent'
    BY DEF Inv, SuccessBannerIsCurrent, page
  <1> QED BY <1>1, <1>2, <1>3, <1>4, <1>5, <1>6, <1>7, <1>8, <1>9, <1>10, <1>11 DEF Inv

LEMMA EnterKeeps == ASSUME Inv, NEW old \in BOOLEAN, Enter(old) PROVE Inv'
  <1>1. TypeOK'
    BY MountTyped DEF Inv, TypeOK, Enter, page, choice
  <1>2. Server'
    BY DEF Inv, TypeOK, Server, Enter, Mount, Fetch, Start, Query, page, choice
  <1>3. Builds'
    BY DEF Inv, TypeOK, Builds, Enter, Mount, Fetch, Start, Query, page, choice
  <1>4. Gone'
    BY DEF Inv, TypeOK, Gone, Enter, Mount, Fetch, Start, Query, page, choice
  <1>5. Reviewed'
    BY DEF Inv, TypeOK, Reviewed, Enter, Mount, Fetch, Start, Query, page, choice
  <1>6. Observed'
    <2>1. newest = 0 /\ visit \in Nat
      BY DEF Inv, TypeOK, Gone, Enter
    <2>2. \A p \in DOMAIN posts : posts[p].visit \in Nat
      BY PostFields DEF Inv
    <2> QED BY <2>1, <2>2 DEF Inv, Observed, Enter
  <1>7. OnShow'
    BY DEF Inv, OnShow, Gone, Enter, page
  <1>8. List'
    BY DEF Inv, TypeOK, List, ListCatchesUp, Settled, Enter, Mount, Fetch, Start, Query, page, choice
  <1>9. ReviewedBeforeSent'
    BY DEF Inv, TypeOK, ReviewedBeforeSent, Enter, Mount, Fetch, Start, Query, page, choice
  <1>10. NoDoubleSubmit'
    BY DEF Inv, TypeOK, NoDoubleSubmit, Enter, Mount, Fetch, Start, Query, page, choice
  <1>11. SuccessBannerIsCurrent'
    BY DEF Inv, TypeOK, SuccessBannerIsCurrent, Enter, Mount, Fetch, Start, Query, page, choice
  <1> QED BY <1>1, <1>2, <1>3, <1>4, <1>5, <1>6, <1>7, <1>8, <1>9, <1>10, <1>11 DEF Inv

LEMMA LeaveKeeps == ASSUME Inv, Leave PROVE Inv'
  <1>1. TypeOK'
    <2>1. dialog' \in [opening : 0 .. Len(openings'), step : {1, 2}]
      BY Lengths DEF Inv, Leave
    <2>2. newest' \in 0 .. Len(posts')
      BY Lengths DEF Inv, Leave
    <2> QED BY <2>1, <2>2 DEF Inv, TypeOK, Leave, NoToast
  <1>2. Server'
    BY DEF Inv, TypeOK, Server, Leave, Closed, NoToast, page, choice
  <1>3. Builds'
    BY DEF Inv, TypeOK, Builds, Leave, Closed, NoToast, page, choice
  <1>4. Gone'
    BY DEF Inv, TypeOK, Gone, Leave, Closed, NoToast, page, choice
  <1>5. Reviewed'
    BY DEF Inv, TypeOK, Reviewed, Leave, Closed, NoToast, page, choice
  <1>6. Observed'
    BY DEF Inv, TypeOK, Observed, Leave, Closed, NoToast, page, choice
  <1>7. OnShow'
    BY DEF Inv, TypeOK, OnShow, Leave, Closed, NoToast, page, choice
  <1>8. List'
    BY DEF Inv, TypeOK, List, ListCatchesUp, Settled, Leave, Closed, NoToast, page, choice
  <1>9. ReviewedBeforeSent'
    BY DEF Inv, TypeOK, ReviewedBeforeSent, Leave, Closed, NoToast, page, choice
  <1>10. NoDoubleSubmit'
    BY DEF Inv, TypeOK, NoDoubleSubmit, Leave, Closed, NoToast, page, choice
  <1>11. SuccessBannerIsCurrent'
    BY DEF Inv, TypeOK, SuccessBannerIsCurrent, Leave, Closed, NoToast, page, choice
  <1> QED BY <1>1, <1>2, <1>3, <1>4, <1>5, <1>6, <1>7, <1>8, <1>9, <1>10, <1>11 DEF Inv

LEMMA OpenDialogKeeps == ASSUME Inv, NEW form \in Form, OpenDialog(form) PROVE Inv'
  <1>1. TypeOK'
    <2>1. ToRequest(form) \in OrderRequest
      <3>1. /\ form.symbol \in Symbols /\ form.quantity \in 1 .. MaxQuantity
            /\ form.orderType \in {"limit", "market"} /\ form.price \in Nat
        <4>1. /\ form.symbol \in Symbols \cup {NoSymbol} /\ form.symbol # NoSymbol
              /\ form.quantity \in Quantities /\ form.price \in Prices
              /\ form.orderType \in {"limit", "market"}
              /\ form.quantity > 0 /\ form.quantity <= MaxQuantity
          BY DEF OpenDialog, CanSubmit, Form
        <4>2. form.quantity \in Nat /\ form.price \in Nat /\ MaxQuantity \in Nat
          BY <4>1, TradingAssumption
        <4> QED BY <4>1, <4>2
      <3>2. ToRequest(form) = [symbol |-> form.symbol, orderType |-> form.orderType,
              quantity |-> form.quantity,
              price |-> IF form.orderType = "market" THEN 0 ELSE form.price]
        BY DEF ToRequest, Form
      <3> QED BY <3>1, <3>2 DEF OrderRequest
    <2>2. openings' \in Seq(OrderRequest) /\ Len(openings') = Len(openings) + 1
      BY <2>1 DEF Inv, TypeOK, OpenDialog
    <2>3. dialog' \in [opening : 0 .. Len(openings'), step : {1, 2}]
      BY <2>2, Lengths DEF Inv, OpenDialog
    <2> QED BY <2>2, <2>3 DEF Inv, TypeOK, OpenDialog, NoToast, page, choice
  <1>2. Server'
    BY DEF Inv, TypeOK, Server, OpenDialog, NoToast, page, choice
  <1>3. Builds'
    BY DEF Inv, TypeOK, Builds, OpenDialog, NoToast, page, choice
  <1>4. Gone'
    BY DEF Inv, TypeOK, Gone, OpenDialog, NoToast, page, choice
  <1>5. Reviewed'
    BY DEF Inv, TypeOK, Reviewed, OpenDialog, NoToast, page, choice
  <1>6. Observed'
    BY DEF Inv, TypeOK, Observed, OpenDialog, NoToast, page, choice
  <1>7. OnShow'
    <2>1. \A p \in DOMAIN posts : posts[p].opening # Len(openings) + 1
      BY Lengths DEF Inv, ReviewedBeforeSent, Reviewed
    <2> QED BY <2>1 DEF Inv, OnShow, OpenDialog, NoToast
  <1>8. List'
    BY DEF Inv, TypeOK, List, ListCatchesUp, Settled, OpenDialog, NoToast, page, choice
  <1>9. ReviewedBeforeSent'
    <2>1. \A p \in DOMAIN posts : posts[p].opening \in 1 .. Len(openings)
      BY Lengths DEF Inv, ReviewedBeforeSent, Reviewed
    <2>2. \A i \in 1 .. Len(openings) : openings'[i] = openings[i]
      BY DEF Inv, TypeOK, OpenDialog
    <2> QED BY <2>1, <2>2 DEF Inv, ReviewedBeforeSent, OpenDialog
  <1>10. NoDoubleSubmit'
    BY DEF Inv, TypeOK, NoDoubleSubmit, OpenDialog, NoToast, page, choice
  <1>11. SuccessBannerIsCurrent'
    BY DEF Inv, TypeOK, SuccessBannerIsCurrent, OpenDialog, NoToast, page, choice
  <1> QED BY <1>1, <1>2, <1>3, <1>4, <1>5, <1>6, <1>7, <1>8, <1>9, <1>10, <1>11 DEF Inv

LEMMA DismissKeeps == ASSUME Inv, Dismiss PROVE Inv'
  <1>1. TypeOK'
    BY DEF Inv, TypeOK, Dismiss, Closed, page, choice
  <1>2. Server'
    BY DEF Inv, TypeOK, Server, Dismiss, Closed, page, choice
  <1>3. Builds'
    BY DEF Inv, TypeOK, Builds, Dismiss, Closed, page, choice
  <1>4. Gone'
    BY DEF Inv, TypeOK, Gone, Dismiss, Closed, page, choice
  <1>5. Reviewed'
    BY DEF Inv, TypeOK, Reviewed, Dismiss, Closed, page, choice
  <1>6. Observed'
    BY DEF Inv, TypeOK, Observed, Dismiss, Closed, page, choice
  <1>7. OnShow'
    BY DEF Inv, TypeOK, OnShow, Dismiss, Closed, page, choice
  <1>8. List'
    BY DEF Inv, TypeOK, List, ListCatchesUp, Settled, Dismiss, Closed, page, choice
  <1>9. ReviewedBeforeSent'
    BY DEF Inv, TypeOK, ReviewedBeforeSent, Dismiss, Closed, page, choice
  <1>10. NoDoubleSubmit'
    BY DEF Inv, TypeOK, NoDoubleSubmit, Dismiss, Closed, page, choice
  <1>11. SuccessBannerIsCurrent'
    BY DEF Inv, TypeOK, SuccessBannerIsCurrent, Dismiss, Closed, page, choice
  <1> QED BY <1>1, <1>2, <1>3, <1>4, <1>5, <1>6, <1>7, <1>8, <1>9, <1>10, <1>11 DEF Inv

LEMMA ReviewKeeps == ASSUME Inv, Review PROVE Inv'
  <1>1. TypeOK'
    BY DEF Inv, TypeOK, Review, page, choice
  <1>2. Server'
    BY DEF Inv, TypeOK, Server, Review, page, choice
  <1>3. Builds'
    BY DEF Inv, TypeOK, Builds, Review, page, choice
  <1>4. Gone'
    BY DEF Inv, TypeOK, Gone, Review, page, choice
  <1>5. Reviewed'
    BY DEF Inv, TypeOK, Reviewed, Review, page, choice
  <1>6. Observed'
    BY DEF Inv, TypeOK, Observed, Review, page, choice
  <1>7. OnShow'
    BY DEF Inv, TypeOK, OnShow, Review, page, choice
  <1>8. List'
    BY DEF Inv, TypeOK, List, ListCatchesUp, Settled, Review, page, choice
  <1>9. ReviewedBeforeSent'
    BY DEF Inv, TypeOK, ReviewedBeforeSent, Review, page, choice
  <1>10. NoDoubleSubmit'
    BY DEF Inv, TypeOK, NoDoubleSubmit, Review, page, choice
  <1>11. SuccessBannerIsCurrent'
    BY DEF Inv, TypeOK, SuccessBannerIsCurrent, Review, page, choice
  <1> QED BY <1>1, <1>2, <1>3, <1>4, <1>5, <1>6, <1>7, <1>8, <1>9, <1>10, <1>11 DEF Inv

LEMMA SubmitKeeps == ASSUME Inv, Submit PROVE Inv'
  <1>1. TypeOK'
    BY DEF Inv, TypeOK, Submit, NewPost, Post, page, choice
  <1>2. Server'
    <2>1. posts' = Append(posts, NewPost("sent", "nothing")) /\ orders' = orders
      BY DEF Submit
    <2>2. Len(posts') = Len(posts) + 1 /\ DOMAIN posts' = 1 .. Len(posts) + 1
      BY <2>1, Lengths DEF Inv, TypeOK
    <2>3. /\ \A p \in DOMAIN posts : posts'[p] = posts[p]
          /\ posts'[Len(posts) + 1] = NewPost("sent", "nothing")
      BY <2>1, Lengths DEF Inv, TypeOK
    <2>4. Len(posts') <= MaxPosts
      BY <2>2, Lengths, TradingAssumption DEF Inv, Submit
    <2> QED BY <2>1, <2>2, <2>3, <2>4, Lengths DEF Inv, Server, NewPost
  <1>3. Builds'
    BY DEF Inv, TypeOK, Builds, Submit, NewPost, Submitting, page, choice
  <1>4. Gone'
    BY DEF Inv, TypeOK, Gone, Submit, NewPost, Submitting, page, choice
  <1>5. Reviewed'
    BY DEF Inv, TypeOK, Reviewed, Submit, NewPost, Submitting, page, choice
  <1>6. Observed'
    BY DEF Inv, TypeOK, Observed, Submit, NewPost, Submitting, page, choice
  <1>7. OnShow'
    BY DEF Inv, TypeOK, OnShow, Submit, NewPost, Submitting, page, choice
  <1>8. List'
    BY DEF Inv, TypeOK, List, ListCatchesUp, Settled, Submit, NewPost, Submitting, page, choice
  <1>9. ReviewedBeforeSent'
    <2>1. posts' = Append(posts, NewPost("sent", "nothing")) /\ dialog.opening # 0 /\ dialog.step = 2
      BY DEF Submit
    <2> QED BY <2>1, Posted DEF Inv, ReviewedBeforeSent, Submit
  <1>10. NoDoubleSubmit'
    <2>1. posts' = Append(posts, NewPost("sent", "nothing")) /\ dialog.opening # 0 /\ dialog.step = 2
      BY DEF Submit
    <2>2. mounted
      BY <2>1 DEF Inv, Gone
    <2>3. \A p \in DOMAIN posts : posts[p].visit = visit => posts[p].heard # "nothing"
      BY <2>2 DEF Inv, Observed, Submit, Submitting
    <2>4. \A p \in DOMAIN posts : posts[p].opening = dialog.opening => posts[p].heard = "failure"
      BY <2>1, <2>3, PostFields DEF Inv, OnShow, Post
    <2>5. \A p, q \in DOMAIN posts' : p < q => p \in DOMAIN posts
      BY <2>1, Posted, Lengths DEF Inv
    <2> QED BY <2>1, <2>3, <2>4, <2>5, Posted DEF Inv, NoDoubleSubmit
  <1>11. SuccessBannerIsCurrent'
    BY DEF Inv, OnShow, SuccessBannerIsCurrent, Submit
  <1> QED BY <1>1, <1>2, <1>3, <1>4, <1>5, <1>6, <1>7, <1>8, <1>9, <1>10, <1>11 DEF Inv

LEMMA SubmitMockKeeps == ASSUME Inv, SubmitMock PROVE Inv'
  <1>1. TypeOK'
    <2>1. posts' = Append(posts, NewPost("placed", "success")) /\ dialog.opening # 0 /\ dialog.step = 2
      BY DEF SubmitMock
    <2>2. Len(posts) + 1 \in 1 .. MaxPosts
      BY Lengths, TradingAssumption DEF Inv, SubmitMock
    <2>3. orders' \in Snapshot
      BY <2>2, WithOrderTyped DEF Inv, TypeOK, SubmitMock, OrderStatus
    <2>4. listed' \in Query(Snapshot) /\ told' \subseteq Fact
      BY <2>2, RefreshTyped, OwedTyped DEF Inv, TypeOK, SubmitMock
    <2>5. /\ posts' \in Seq(Post) /\ newest' \in 0 .. Len(posts')
          /\ dialog' \in [opening : 0 .. Len(openings'), step : {1, 2}]
      BY <2>1, Posted, Lengths DEF Inv, SubmitMock
    <2> QED BY <2>3, <2>4, <2>5 DEF Inv, TypeOK, SubmitMock, page, choice
  <1>2. Server'
    <2>1. posts' = Append(posts, NewPost("placed", "success")) /\ dialog.opening # 0 /\ dialog.step = 2
      BY DEF SubmitMock
    <2>2. DOMAIN orders' = DOMAIN orders \cup {Len(posts) + 1}
      BY DEF SubmitMock, WithOrder
    <2>3. Len(posts') <= MaxPosts
      BY <2>1, Posted, Lengths, TradingAssumption DEF Inv, SubmitMock
    <2> QED BY <2>1, <2>2, <2>3, Posted DEF Inv, Server
  <1>3. Builds'
    <2>1. posts' = Append(posts, NewPost("placed", "success")) /\ dialog.opening # 0 /\ dialog.step = 2
      BY DEF SubmitMock
    <2> QED BY <2>1, Posted DEF Inv, Builds, SubmitMock
  <1>4. Gone'
    BY DEF Inv, Gone, SubmitMock, Closed, page
  <1>5. Reviewed'
    BY DEF Inv, Reviewed, SubmitMock, Closed
  <1>6. Observed'
    <2>1. posts' = Append(posts, NewPost("placed", "success")) /\ dialog.opening # 0 /\ dialog.step = 2
      BY DEF SubmitMock
    <2>2. visit \in Nat
      BY DEF Inv, TypeOK
    <2> QED BY <2>1, <2>2, Posted, PostFields DEF Inv, Observed, SubmitMock, Builds, page
  <1>7. OnShow'
    BY DEF Inv, OnShow, SubmitMock, Closed
  <1>8. List'
    <2>1. posts' = Append(posts, NewPost("placed", "success")) /\ dialog.opening # 0 /\ dialog.step = 2
      BY DEF SubmitMock
    <2>2. \A fact \in told' : Shows(orders', fact)
      <3>1. Len(posts) + 1 \notin DOMAIN orders
        BY <2>1, Posted DEF Inv, Server
      <3> QED BY <3>1 DEF Inv, List, Shows, WithOrder, SubmitMock, Owed
    <2> QED BY <2>2, RefreshKeepsList DEF Inv, SubmitMock
  <1>9. ReviewedBeforeSent'
    <2>1. posts' = Append(posts, NewPost("placed", "success")) /\ dialog.opening # 0 /\ dialog.step = 2
      BY DEF SubmitMock
    <2> QED BY <2>1, Posted DEF Inv, ReviewedBeforeSent, SubmitMock
  <1>10. NoDoubleSubmit'
    <2>1. posts' = Append(posts, NewPost("placed", "success")) /\ dialog.opening # 0 /\ dialog.step = 2
      BY DEF SubmitMock
    <2>2. \A p \in DOMAIN posts : posts[p].heard = "success"
      BY DEF Inv, Builds, SubmitMock
    <2>3. \A p \in DOMAIN posts : posts[p].opening # dialog.opening
      BY <2>1, <2>2 DEF Inv, OnShow
    <2>5. \A p, q \in DOMAIN posts' : p < q => p \in DOMAIN posts
      BY <2>1, Posted, Lengths DEF Inv
    <2> QED BY <2>1, <2>2, <2>3, <2>5, Posted DEF Inv, NoDoubleSubmit
  <1>11. SuccessBannerIsCurrent'
    <2>1. posts' = Append(posts, NewPost("placed", "success")) /\ dialog.opening # 0 /\ dialog.step = 2
      BY DEF SubmitMock
    <2> QED BY <2>1, Posted DEF Inv, SuccessBannerIsCurrent, SubmitMock, WithOrder
  <1> QED BY <1>1, <1>2, <1>3, <1>4, <1>5, <1>6, <1>7, <1>8, <1>9, <1>10, <1>11 DEF Inv

LEMMA DismissToastKeeps == ASSUME Inv, DismissToast PROVE Inv'
  <1>1. TypeOK'
    BY DEF Inv, TypeOK, DismissToast, NoToast, page, choice
  <1>2. Server'
    BY DEF Inv, TypeOK, Server, DismissToast, NoToast, page, choice
  <1>3. Builds'
    BY DEF Inv, TypeOK, Builds, DismissToast, NoToast, page, choice
  <1>4. Gone'
    BY DEF Inv, TypeOK, Gone, DismissToast, NoToast, page, choice
  <1>5. Reviewed'
    BY DEF Inv, TypeOK, Reviewed, DismissToast, NoToast, page, choice
  <1>6. Observed'
    BY DEF Inv, TypeOK, Observed, DismissToast, NoToast, page, choice
  <1>7. OnShow'
    BY DEF Inv, TypeOK, OnShow, DismissToast, NoToast, page, choice
  <1>8. List'
    BY DEF Inv, TypeOK, List, ListCatchesUp, Settled, DismissToast, NoToast, page, choice
  <1>9. ReviewedBeforeSent'
    BY DEF Inv, TypeOK, ReviewedBeforeSent, DismissToast, NoToast, page, choice
  <1>10. NoDoubleSubmit'
    BY DEF Inv, TypeOK, NoDoubleSubmit, DismissToast, NoToast, page, choice
  <1>11. SuccessBannerIsCurrent'
    BY DEF Inv, TypeOK, SuccessBannerIsCurrent, DismissToast, NoToast, page, choice
  <1> QED BY <1>1, <1>2, <1>3, <1>4, <1>5, <1>6, <1>7, <1>8, <1>9, <1>10, <1>11 DEF Inv

LEMMA PlaceKeeps == ASSUME Inv, NEW p \in DOMAIN posts, Place(p) PROVE Inv'
  <1>1. TypeOK'
    <2>0. posts' = [posts EXCEPT ![p].fate = "placed"]
      BY DEF Place
    <2>1. p \in 1 .. MaxPosts
      BY Lengths, TradingAssumption DEF Inv, Server
    <2>2. orders' \in Snapshot
      BY <2>1, WithOrderTyped DEF Inv, TypeOK, Place, OrderStatus
    <2>3. posts' \in Seq(Post) /\ Len(posts') = Len(posts)
      BY <2>0, PostTold DEF Inv
    <2> QED BY <2>3, <2>2 DEF Inv, TypeOK, Place, page, choice
  <1>2. Server'
    <2>0. posts' = [posts EXCEPT ![p].fate = "placed"]
      BY DEF Place
    <2>1. \A q \in DOMAIN posts : posts'[q] = IF q = p THEN [posts[p] EXCEPT !.fate = "placed"] ELSE posts[q]
      BY <2>0
    <2>2. DOMAIN posts' = DOMAIN posts /\ Len(posts') = Len(posts)
      BY <2>0, PostTold DEF Inv
    <2>3. DOMAIN orders' = DOMAIN orders \cup {p}
      BY DEF Place, WithOrder
    <2>4. \A q \in DOMAIN posts' :
            /\ posts'[q].fate = "placed" <=> q = p \/ posts[q].fate = "placed"
            /\ posts'[q].heard = posts[q].heard
      BY <2>1, <2>2, PostFields DEF Inv, Post
    <2> QED BY <2>2, <2>3, <2>4 DEF Inv, Server
  <1>3. Builds'
    <2>0. posts' = [posts EXCEPT ![p].fate = "placed"]
      BY DEF Place
    <2>1. \A q \in DOMAIN posts : posts'[q] = IF q = p THEN [posts[p] EXCEPT !.fate = "placed"] ELSE posts[q]
      BY <2>0
    <2>2. DOMAIN posts' = DOMAIN posts /\ Len(posts') = Len(posts)
      BY <2>0, PostTold DEF Inv
    <2>3. p \notin DOMAIN orders /\ ~mock
      BY DEF Inv, Server, Builds, Place
    <2> QED BY <2>3 DEF Inv, Builds, Place, WithOrder
  <1>4. Gone'
    BY DEF Inv, TypeOK, Gone, Place, page, choice
  <1>5. Reviewed'
    BY DEF Inv, TypeOK, Reviewed, Place, page, choice
  <1>6. Observed'
    BY DEF Inv, TypeOK, Observed, Place, page, choice
  <1>7. OnShow'
    BY DEF Inv, TypeOK, OnShow, Place, page, choice
  <1>8. List'
    <2>1. p \notin DOMAIN orders
      BY DEF Inv, Server, Place
    <2> QED BY <2>1 DEF Inv, List, ListCatchesUp, Settled, Shows, WithOrder, Place
  <1>9. ReviewedBeforeSent'
    BY DEF Inv, TypeOK, ReviewedBeforeSent, Place, page, choice
  <1>10. NoDoubleSubmit'
    BY DEF Inv, TypeOK, NoDoubleSubmit, Place, page, choice
  <1>11. SuccessBannerIsCurrent'
    <2>0. posts' = [posts EXCEPT ![p].fate = "placed"]
      BY DEF Place
    <2>1. \A q \in DOMAIN posts : posts'[q] = IF q = p THEN [posts[p] EXCEPT !.fate = "placed"] ELSE posts[q]
      BY <2>0
    <2>2. DOMAIN posts' = DOMAIN posts /\ Len(posts') = Len(posts)
      BY <2>0, PostTold DEF Inv
    <2>3. newest # 0 => newest \in DOMAIN posts
      BY Lengths DEF Inv, TypeOK
    <2>4. DOMAIN orders \subseteq DOMAIN orders'
      BY DEF Place, WithOrder
    <2> QED BY <2>1, <2>3, <2>4, PostFields DEF Inv, Post, SuccessBannerIsCurrent, Place
  <1> QED BY <1>1, <1>2, <1>3, <1>4, <1>5, <1>6, <1>7, <1>8, <1>9, <1>10, <1>11 DEF Inv

LEMMA RefuseKeeps == ASSUME Inv, NEW p \in DOMAIN posts, Refuse(p) PROVE Inv'
  <1>1. TypeOK'
    <2>0. posts' = [posts EXCEPT ![p].fate = "refused"]
      BY DEF Refuse
    <2>3. posts' \in Seq(Post) /\ Len(posts') = Len(posts)
      BY <2>0, PostTold DEF Inv
    <2> QED BY <2>3 DEF Inv, TypeOK, Refuse, page, choice
  <1>2. Server'
    BY DEF Inv, TypeOK, Server, Refuse, page, choice
  <1>3. Builds'
    BY DEF Inv, TypeOK, Builds, Refuse, page, choice
  <1>4. Gone'
    BY DEF Inv, TypeOK, Gone, Refuse, page, choice
  <1>5. Reviewed'
    BY DEF Inv, TypeOK, Reviewed, Refuse, page, choice
  <1>6. Observed'
    BY DEF Inv, TypeOK, Observed, Refuse, page, choice
  <1>7. OnShow'
    BY DEF Inv, TypeOK, OnShow, Refuse, page, choice
  <1>8. List'
    BY DEF Inv, TypeOK, List, ListCatchesUp, Settled, Refuse, page, choice
  <1>9. ReviewedBeforeSent'
    BY DEF Inv, TypeOK, ReviewedBeforeSent, Refuse, page, choice
  <1>10. NoDoubleSubmit'
    BY DEF Inv, TypeOK, NoDoubleSubmit, Refuse, page, choice
  <1>11. SuccessBannerIsCurrent'
    BY DEF Inv, TypeOK, SuccessBannerIsCurrent, Refuse, page, choice
  <1> QED BY <1>1, <1>2, <1>3, <1>4, <1>5, <1>6, <1>7, <1>8, <1>9, <1>10, <1>11 DEF Inv

LEMMA HearSuccessKeeps == ASSUME Inv, NEW p \in DOMAIN posts, HearSuccess(p) PROVE Inv'
  <1>1. TypeOK'
    <2>0. posts' = [posts EXCEPT ![p].heard = "success"]
      BY DEF HearSuccess
    <2>1. listed' \in Query(Snapshot)
      BY RefreshTyped DEF Inv, HearSuccess
    <2>2. told' \subseteq Fact
      <3>1. p \in Nat
        BY Lengths DEF Inv
      <3>2. told' = told \cup Owed(p, "placed") /\ told \subseteq Fact
        BY DEF Inv, TypeOK, HearSuccess
      <3> QED BY <3>1, <3>2, OwedTyped
    <2>3. dialog' \in [opening : 0 .. Len(openings'), step : {1, 2}]
      BY Lengths DEF Inv, TypeOK, HearSuccess
    <2>4. posts' \in Seq(Post) /\ newest' \in 0 .. Len(posts')
      BY <2>0, PostTold DEF Inv, TypeOK, HearSuccess
    <2>5. toast' \in {NoToast, "success", "error"}
      BY DEF Inv, TypeOK, HearSuccess
    <2> QED BY <2>1, <2>2, <2>3, <2>4, <2>5 DEF Inv, TypeOK, HearSuccess, page, choice
  <1>2. Server'
    BY DEF Inv, TypeOK, Server, HearSuccess, Here, Closed, page, choice
  <1>3. Builds'
    <2>0. posts' = [posts EXCEPT ![p].heard = "success"]
      BY DEF HearSuccess
    <2>1. \A q \in DOMAIN posts : posts'[q] = IF q = p THEN [posts[p] EXCEPT !.heard = "success"] ELSE posts[q]
      BY <2>0
    <2>2. DOMAIN posts' = DOMAIN posts /\ Len(posts') = Len(posts)
      BY <2>0, PostTold DEF Inv
    <2>3. listed'.data = listed.data /\ listed'.answer \subseteq listed.answer
      BY RefreshLeaves DEF Inv, HearSuccess
    <2>4. \A q \in DOMAIN posts : posts[q].heard = "success" => posts'[q].heard = "success"
      BY <2>1, PostFields DEF Inv, Post
    <2> QED BY <2>2, <2>3, <2>4 DEF Inv, Builds, HearSuccess
  <1>4. Gone'
    BY DEF Inv, TypeOK, Gone, HearSuccess, Here, Closed, page, choice
  <1>5. Reviewed'
    BY DEF Inv, TypeOK, Reviewed, HearSuccess, Here, Closed, page, choice
  <1>6. Observed'
    BY DEF Inv, TypeOK, Observed, HearSuccess, Here, Closed, page, choice
  <1>7. OnShow'
    <2>0. posts' = [posts EXCEPT ![p].heard = "success"]
      BY DEF HearSuccess
    <2>1. \A q \in DOMAIN posts : posts'[q] = IF q = p THEN [posts[p] EXCEPT !.heard = "success"] ELSE posts[q]
      BY <2>0
    <2>2. DOMAIN posts' = DOMAIN posts /\ Len(posts') = Len(posts)
      BY <2>0, PostTold DEF Inv
    <2>3. CASE Here(p)
      BY <2>3 DEF HearSuccess, OnShow, Closed
    <2>4. CASE ~Here(p)
      <3>1. UNCHANGED <<dialog, toast, mock, visit>>
        BY <2>4 DEF HearSuccess, page
      <3>2. dialog.opening # 0 => posts[p].visit # visit
        BY <2>4 DEF Here, Inv, Gone
      <3>3. \A q \in DOMAIN posts : posts'[q].opening = posts[q].opening /\ posts'[q].visit = posts[q].visit
        BY <2>1, PostFields DEF Inv, Post
      <3>4. \A q \in DOMAIN posts : q # p => posts'[q] = posts[q]
        BY <2>1
      <3> QED BY <2>2, <3>1, <3>2, <3>3, <3>4 DEF Inv, OnShow
    <2> QED BY <2>3, <2>4
  <1>8. List'
    <2>1. \A fact \in told' : Shows(orders', fact)
      BY DEF Inv, List, Server, HearSuccess, Owed, Shows
    <2> QED BY <2>1, RefreshKeepsList DEF Inv, HearSuccess
  <1>9. ReviewedBeforeSent'
    BY DEF Inv, TypeOK, ReviewedBeforeSent, HearSuccess, Here, Closed, page, choice
  <1>10. NoDoubleSubmit'
    BY DEF Inv, TypeOK, NoDoubleSubmit, HearSuccess, Here, Closed, page, choice
  <1>11. SuccessBannerIsCurrent'
    <2>0. posts' = [posts EXCEPT ![p].heard = "success"]
      BY DEF HearSuccess
    <2>1. \A q \in DOMAIN posts : posts'[q] = IF q = p THEN [posts[p] EXCEPT !.heard = "success"] ELSE posts[q]
      BY <2>0
    <2>2. DOMAIN posts' = DOMAIN posts /\ Len(posts') = Len(posts)
      BY <2>0, PostTold DEF Inv
    <2>3. newest # 0 => newest \in DOMAIN posts
      BY Lengths DEF Inv, TypeOK
    <2>4. CASE Here(p)
      <3>1. newest = p
        BY <2>4 DEF Here, Inv, Observed, HearSuccess
      <3> QED BY <2>1, <3>1, PostFields DEF Inv, Post, Server, SuccessBannerIsCurrent, HearSuccess
    <2>5. CASE ~Here(p)
      BY <2>1, <2>3, <2>5, PostFields DEF Inv, Post, SuccessBannerIsCurrent, HearSuccess
    <2> QED BY <2>4, <2>5
  <1> QED BY <1>1, <1>2, <1>3, <1>4, <1>5, <1>6, <1>7, <1>8, <1>9, <1>10, <1>11 DEF Inv

LEMMA HearFailureKeeps == ASSUME Inv, NEW p \in DOMAIN posts, HearFailure(p) PROVE Inv'
  <1>1. TypeOK'
    <2>0. posts' = [posts EXCEPT ![p].heard = "failure"]
      BY DEF HearFailure
    <2>3. posts' \in Seq(Post) /\ Len(posts') = Len(posts)
      BY <2>0, PostTold DEF Inv
    <2> QED BY <2>3 DEF Inv, TypeOK, HearFailure, page, choice
  <1>2. Server'
    BY DEF Inv, TypeOK, Server, HearFailure, Here, page, choice
  <1>3. Builds'
    BY DEF Inv, TypeOK, Builds, HearFailure, Here, page, choice
  <1>4. Gone'
    BY DEF Inv, TypeOK, Gone, HearFailure, Here, page, choice
  <1>5. Reviewed'
    BY DEF Inv, TypeOK, Reviewed, HearFailure, Here, page, choice
  <1>6. Observed'
    BY DEF Inv, TypeOK, Observed, HearFailure, Here, page, choice
  <1>7. OnShow'
    BY DEF Inv, TypeOK, OnShow, HearFailure, Here, page, choice
  <1>8. List'
    BY DEF Inv, TypeOK, List, ListCatchesUp, Settled, HearFailure, Here, page, choice
  <1>9. ReviewedBeforeSent'
    BY DEF Inv, TypeOK, ReviewedBeforeSent, HearFailure, Here, page, choice
  <1>10. NoDoubleSubmit'
    BY DEF Inv, TypeOK, NoDoubleSubmit, HearFailure, Here, page, choice
  <1>11. SuccessBannerIsCurrent'
    BY DEF Inv, TypeOK, SuccessBannerIsCurrent, HearFailure, Here, page, choice
  <1> QED BY <1>1, <1>2, <1>3, <1>4, <1>5, <1>6, <1>7, <1>8, <1>9, <1>10, <1>11 DEF Inv

LEMMA CancelOrderKeeps == ASSUME Inv, NEW p \in DOMAIN posts, CancelOrder(p) PROVE Inv'
  <1>1. TypeOK'
    <2>1. [orders EXCEPT ![p] = "cancelled"] \in Snapshot
      <3>1. PICK ids \in SUBSET (1 .. MaxPosts) : orders \in [ids -> OrderStatus]
        BY DEF Inv, TypeOK, Snapshot
      <3>2. [orders EXCEPT ![p] = "cancelled"] \in [ids -> OrderStatus]
        BY <3>1 DEF OrderStatus
      <3> QED BY <3>2 DEF Snapshot
    <2>2. listed' \in Query(Snapshot) /\ told' \subseteq Fact
      BY RefreshTyped, OwedTyped, Lengths DEF Inv, TypeOK, CancelOrder
    <2> QED BY <2>1, <2>2 DEF Inv, TypeOK, CancelOrder, page, choice
  <1>2. Server'
    BY DEF Inv, TypeOK, Server, CancelOrder, page, choice
  <1>3. Builds'
    <2>1. mock
      BY DEF Inv, Builds, CancelOrder, HasCancelButton, Cancellable
    <2> QED BY <2>1 DEF Inv, Builds, CancelOrder
  <1>4. Gone'
    BY DEF Inv, TypeOK, Gone, CancelOrder, page, choice
  <1>5. Reviewed'
    BY DEF Inv, TypeOK, Reviewed, CancelOrder, page, choice
  <1>6. Observed'
    BY DEF Inv, TypeOK, Observed, CancelOrder, page, choice
  <1>7. OnShow'
    <2>1. mock
      BY DEF Inv, Builds, CancelOrder, HasCancelButton, Cancellable
    <2> QED BY <2>1 DEF Inv, OnShow, CancelOrder, page
  <1>8. List'
    <2>1. mock
      BY DEF Inv, Builds, CancelOrder, HasCancelButton, Cancellable
    <2>2. p \in DOMAIN orders
      BY <2>1 DEF Inv, Builds, Server
    <2>3. \A fact \in told' : Shows(orders', fact)
      BY <2>2 DEF Inv, List, Shows, CancelOrder, Owed
    <2> QED BY <2>3, RefreshKeepsList DEF Inv, CancelOrder
  <1>9. ReviewedBeforeSent'
    BY DEF Inv, TypeOK, ReviewedBeforeSent, CancelOrder, page, choice
  <1>10. NoDoubleSubmit'
    BY DEF Inv, TypeOK, NoDoubleSubmit, CancelOrder, page, choice
  <1>11. SuccessBannerIsCurrent'
    <2>1. mock
      BY DEF Inv, Builds, CancelOrder, HasCancelButton, Cancellable
    <2>2. newest # 0 => newest \in DOMAIN posts
      BY Lengths DEF Inv, TypeOK
    <2> QED BY <2>1, <2>2 DEF Inv, Builds, Server, SuccessBannerIsCurrent, CancelOrder
  <1> QED BY <1>1, <1>2, <1>3, <1>4, <1>5, <1>6, <1>7, <1>8, <1>9, <1>10, <1>11 DEF Inv

\* A step of the list alone keeps the invariant if it keeps what the list owes.
LEMMA OnlyListMoves ==
  ASSUME Inv,
         UNCHANGED <<mock, page, choice, openings, dialog, posts, newest, toast, armed,
                     orders, reviewed, told>>,
         listed' \in Query(Snapshot),
         listed'.data \cup listed'.answer \subseteq {orders} \cup listed.data \cup listed.answer,
         List'
  PROVE  Inv'
  <1>1. TypeOK'
    BY DEF Inv, TypeOK, page, choice
  <1>2. Server' /\ Gone' /\ Reviewed'
    BY DEF Inv, Server, Gone, Reviewed, page
  <1>3. Builds'
    BY DEF Inv, Builds
  <1>4. Observed' /\ OnShow'
    BY DEF Inv, Observed, OnShow, page
  <1>5. ReviewedBeforeSent' /\ NoDoubleSubmit' /\ SuccessBannerIsCurrent'
    BY DEF Inv, ReviewedBeforeSent, NoDoubleSubmit, SuccessBannerIsCurrent
  <1> QED BY <1>1, <1>2, <1>3, <1>4, <1>5 DEF Inv

LEMMA ListStepKeeps ==
  ASSUME Inv, Poll \/ ListOrders \/ ListArrives \/ ListFails PROVE Inv'
  <1>1. listed \in Query(Snapshot) /\ orders \in Snapshot
    BY DEF Inv, TypeOK
  <1>2. CASE Poll
    <2>1. listed' \in Query(Snapshot)
      BY <1>1, <1>2, FetchTyped DEF Poll
    <2>2. List'
      BY <1>1, <1>2 DEF Inv, List, ListCatchesUp, Settled, Poll, Fetch, Start, Query
    <2>3. listed'.data \cup listed'.answer \subseteq listed.data \cup listed.answer
      BY <1>1, <1>2 DEF Poll, Fetch, Start, Query
    <2> QED BY <1>2, <2>1, <2>2, <2>3, OnlyListMoves DEF Poll
  <1>3. CASE ListOrders
    <2>1. listed' \in Query(Snapshot)
      BY <1>1, <1>3, AnsweredTyped DEF ListOrders
    <2>2. List'
      BY <1>1, <1>3 DEF Inv, List, ListCatchesUp, Settled, ListOrders, Answered, Query
    <2>3. listed'.data \cup listed'.answer \subseteq {orders} \cup listed.data
      BY <1>1, <1>3 DEF ListOrders, Answered, Query
    <2> QED BY <1>3, <2>1, <2>2, <2>3, OnlyListMoves DEF ListOrders
  <1>4. CASE ListArrives
    <2>1. listed' \in Query(Snapshot)
      BY <1>1, <1>4, SucceedTyped DEF ListArrives
    <2>2. List'
      BY <1>1, <1>4 DEF Inv, List, ListCatchesUp, Settled, ListArrives, Succeed, Query
    <2>3. listed'.data \cup listed'.answer \subseteq listed.answer
      BY <1>1, <1>4 DEF ListArrives, Succeed, Query
    <2> QED BY <1>4, <2>1, <2>2, <2>3, OnlyListMoves DEF ListArrives
  <1>5. CASE ListFails
    <2>1. listed' \in Query(Snapshot)
      BY <1>1, <1>5, FailTyped DEF ListFails
    <2>2. List'
      BY <1>1, <1>5 DEF Inv, List, ListCatchesUp, Settled, ListFails, Fail, Query
    <2>3. listed'.data \cup listed'.answer \subseteq listed.data
      BY <1>1, <1>5 DEF ListFails, Fail, Query
    <2> QED BY <1>5, <2>1, <2>2, <2>3, OnlyListMoves DEF ListFails
  <1> QED BY <1>2, <1>3, <1>4, <1>5

-----------------------------------------------------------------------------
THEOREM StepInv == Inv /\ [Next]_vars => Inv'
  <1> SUFFICES ASSUME Inv, [Next]_vars PROVE Inv'
    OBVIOUS
  <1>1. ASSUME UNCHANGED vars PROVE Inv'
    BY <1>1, SmallKeeps DEF vars, page, choice, Inv, TypeOK
  <1>2. ASSUME NEW old \in BOOLEAN, Enter(old) PROVE Inv'
    BY <1>2, EnterKeeps
  <1>3. ASSUME NEW t \in Symbols, Navigate(t) \/ ChooseFound(t) \/ ChooseWatched(t) PROVE Inv'
    BY <1>3, SmallKeeps
       DEF Navigate, ChooseFound, ChooseWatched, Choose, page, choice, Inv, TypeOK
  <1>4. ASSUME NEW p \in DOMAIN posts, Arm(p) \/ Disarm(p) PROVE Inv'
    <2>1. p \in 1 .. MaxPosts
      BY Lengths, TradingAssumption DEF Inv, Server
    <2>2. armed' \subseteq 1 .. MaxPosts
      BY <1>4, <2>1 DEF Arm, Disarm, Inv, TypeOK
    <2> QED BY <1>4, <2>2, SmallKeeps DEF Arm, Disarm, page, choice, Inv, TypeOK
  <1>5. ASSUME NEW form \in Form, OpenDialog(form) PROVE Inv'
    BY <1>5, OpenDialogKeeps
  <1>6. ASSUME NEW p \in DOMAIN posts,
               Place(p) \/ Refuse(p) \/ HearSuccess(p) \/ HearFailure(p) \/ CancelOrder(p)
        PROVE  Inv'
    BY <1>6, PlaceKeeps, RefuseKeeps, HearSuccessKeeps, HearFailureKeeps, CancelOrderKeeps
  <1> QED
    BY <1>1, <1>2, <1>3, <1>4, <1>5, <1>6, LeaveKeeps, DismissKeeps, ReviewKeeps,
       SubmitKeeps, SubmitMockKeeps, DismissToastKeeps, ListStepKeeps
    DEF Next

\* The invariant that the theorems below are parts of.
THEOREM TradingInv == Spec => []Inv
  BY InitInv, StepInv, PTL DEF Spec

\* Whatever is sent, answered and left, the page's state keeps its type.
THEOREM TradingTyped == Spec => []TypeOK
  <1>1. Inv => TypeOK
    BY DEF Inv
  <1> QED BY <1>1, TradingInv, PTL

\* No order is sent whose review step was not confirmed in the dialog that showed it.
THEOREM TradingReviewedBeforeSent == Spec => []ReviewedBeforeSent
  <1>1. Inv => ReviewedBeforeSent
    BY DEF Inv
  <1> QED BY <1>1, TradingInv, PTL

\* No order is sent twice unless the page was told that the first one failed.
THEOREM TradingNoDoubleSubmit == Spec => []NoDoubleSubmit
  <1>1. Inv => NoDoubleSubmit
    BY DEF Inv
  <1> QED BY <1>1, TradingInv, PTL

\* A success banner is about the last order submitted.
THEOREM TradingSuccessBannerIsCurrent == Spec => []SuccessBannerIsCurrent
  <1>1. Inv => SuccessBannerIsCurrent
    BY DEF Inv
  <1> QED BY <1>1, TradingInv, PTL

\* A settled list shows what the page was told of.
THEOREM TradingListCatchesUp == Spec => []ListCatchesUp
  <1>1. Inv => ListCatchesUp
    BY DEF Inv, List
  <1> QED BY <1>1, TradingInv, PTL

-----------------------------------------------------------------------------
(***************************************************************************)
(* A placement over the real backend is a call of CallOnce.  The rest of   *)
(* the page, the list of orders included, is not seen by it.               *)
(***************************************************************************)

LEMMA StatusIs ==
  /\ StatusOf("nothing") = "pending" /\ StatusOf("success") = "ok"
  /\ StatusOf("failure") = "failed"
  BY DEF StatusOf

LEMMA OutcomeIs ==
  /\ OutcomeOf("sent") = "open" /\ OutcomeOf("placed") = "done"
  /\ OutcomeOf("refused") = "refused"
  BY DEF OutcomeOf

LEMMA OthersAreHidden ==
  ASSUME posts' = posts PROVE UNCHANGED <<placementStatus, placementOutcome>>
  BY DEF placementStatus, placementOutcome

LEMMA SubmitBegins ==
  ASSUME Inv, Submit PROVE Placement!Begin(Len(posts) + 1)
  <1> DEFINE n == Len(posts) + 1
  <1>1. n \in Placements /\ n \notin DOMAIN posts
    BY Lengths, TradingAssumption DEF Inv, Submit, Placements
  <1>2. posts \in Seq(Post) /\ posts' = Append(posts, NewPost("sent", "nothing"))
    BY DEF Inv, TypeOK, Submit
  <1>3. /\ DOMAIN posts' = DOMAIN posts \cup {n}
        /\ \A q \in DOMAIN posts : posts'[q] = posts[q]
        /\ posts'[n].fate = "sent" /\ posts'[n].heard = "nothing"
    BY <1>2 DEF NewPost
  <1> HIDE DEF n
  <1>4. placementStatus[n] = "new"
    BY <1>1 DEF placementStatus
  <1>5. placementStatus' = [placementStatus EXCEPT ![n] = "pending"]
    BY <1>1, <1>3, StatusIs DEF placementStatus
  <1>6. UNCHANGED placementOutcome
    BY <1>1, <1>3, OutcomeIs DEF placementOutcome
  <1> QED BY <1>4, <1>5, <1>6 DEF Placement!Begin, n

\* The server places the order or refuses it: that decides the call.
LEMMA ServerDecides ==
  ASSUME Inv, NEW p \in DOMAIN posts, p \in Placements, Place(p) \/ Refuse(p)
  PROVE  Placement!Decide(p)
  <1>0. PICK fate \in {"placed", "refused"} : posts' = [posts EXCEPT ![p].fate = fate]
    BY DEF Place, Refuse
  <1>1. posts[p].fate = "sent" /\ posts[p].heard \in {"nothing", "failure"}
    <2>1. posts[p] \in Post /\ posts[p].fate = "sent" /\ posts[p].heard # "success"
      BY DEF Inv, TypeOK, Server, Place, Refuse
    <2> QED BY <2>1 DEF Post
  <1>2. /\ DOMAIN posts' = DOMAIN posts
        /\ \A q \in DOMAIN posts : posts'[q] = IF q = p THEN [posts[q] EXCEPT !.fate = fate]
                                                        ELSE posts[q]
        /\ posts[p] \in Post
    BY <1>0 DEF Inv, TypeOK
  <1>3. /\ posts'[p].fate = fate
        /\ \A q \in DOMAIN posts : q # p => posts'[q].fate = posts[q].fate
        /\ \A q \in DOMAIN posts : posts'[q].heard = posts[q].heard
    BY <1>2 DEF Post
  <1>4. placementStatus[p] \in {"pending", "failed"} /\ placementOutcome[p] = "open"
    BY <1>1, StatusIs, OutcomeIs DEF placementStatus, placementOutcome
  <1>5. UNCHANGED placementStatus
    BY <1>2, <1>3 DEF placementStatus
  <1>6. placementOutcome' = [placementOutcome EXCEPT ![p] = OutcomeOf(fate)]
    BY <1>2, <1>3 DEF placementOutcome
  <1>7. OutcomeOf(fate) \in {"done", "refused"}
    BY OutcomeIs
  <1> QED BY <1>4, <1>5, <1>6, <1>7 DEF Placement!Decide

\* The page is told: the call ends for it, and nothing happens at the server.
LEMMA HearEnds ==
  ASSUME Inv, NEW p \in DOMAIN posts, p \in Placements, HearSuccess(p) \/ HearFailure(p)
  PROVE  Placement!Succeed(p) \/ Placement!GiveUp(p)
  <1> DEFINE word == IF HearSuccess(p) THEN "success" ELSE "failure"
  <1>1. posts[p].heard = "nothing" /\ posts' = [posts EXCEPT ![p].heard = word]
    <2>1. HearSuccess(p) => posts' = [posts EXCEPT ![p].heard = "success"]
      BY DEF HearSuccess
    <2>2. HearFailure(p) => posts' = [posts EXCEPT ![p].heard = "failure"]
      BY DEF HearFailure
    <2> QED BY <2>1, <2>2 DEF HearSuccess, HearFailure
  <1>2. word \in {"success", "failure"} /\ (word = "success" => posts[p].fate = "placed")
    BY DEF HearSuccess
  <1> HIDE DEF word
  <1>3. /\ DOMAIN posts' = DOMAIN posts
        /\ \A q \in DOMAIN posts : posts'[q] = IF q = p THEN [posts[q] EXCEPT !.heard = word]
                                                        ELSE posts[q]
        /\ posts[p] \in Post
    BY <1>1 DEF Inv, TypeOK
  <1>4. /\ posts'[p].heard = word
        /\ \A q \in DOMAIN posts : posts'[q].fate = posts[q].fate
        /\ \A q \in DOMAIN posts : q # p => posts'[q].heard = posts[q].heard
    BY <1>3 DEF Post
  <1>5. placementStatus[p] = "pending" /\ (word = "success" => placementOutcome[p] = "done")
    BY <1>1, <1>2, StatusIs, OutcomeIs DEF placementStatus, placementOutcome
  <1>6. UNCHANGED placementOutcome
    BY <1>3, <1>4 DEF placementOutcome
  <1>7. CASE word = "success"
    <2>1. placementStatus' = [placementStatus EXCEPT ![p] = "ok"]
      BY <1>3, <1>4, <1>7, StatusIs DEF placementStatus
    <2> QED BY <1>5, <1>6, <1>7, <2>1 DEF Placement!Succeed
  <1>8. CASE word = "failure"
    <2>1. placementStatus' = [placementStatus EXCEPT ![p] = "failed"]
      BY <1>3, <1>4, <1>8, StatusIs DEF placementStatus
    <2> QED BY <1>5, <1>6, <2>1 DEF Placement!GiveUp
  <1> QED BY <1>2, <1>7, <1>8

LEMMA StepRefines ==
  ASSUME Inv, ~mock, [Next]_vars
  PROVE  [Placement!CallNext]_<<placementStatus, placementOutcome>>
  <1>1. ASSUME NEW p \in DOMAIN posts PROVE p \in Placements
    BY Lengths, TradingAssumption DEF Inv, Server, Placements
  <1>2. CASE Submit
    <2>1. Len(posts) + 1 \in Placements
      BY <1>2, Lengths, TradingAssumption DEF Inv, Submit, Placements
    <2> QED BY <1>2, <2>1, SubmitBegins DEF Placement!CallNext
  <1>3. ASSUME NEW p \in DOMAIN posts, Place(p) \/ Refuse(p)
        PROVE  Placement!CallNext
    BY <1>1, <1>3, ServerDecides DEF Placement!CallNext
  <1>4. ASSUME NEW p \in DOMAIN posts, HearSuccess(p) \/ HearFailure(p)
        PROVE  Placement!CallNext
    BY <1>1, <1>4, HearEnds DEF Placement!CallNext
  <1>5. ~SubmitMock
    BY DEF SubmitMock
  <1>6. CASE posts' = posts
    BY <1>6, OthersAreHidden
  <1> QED
    BY <1>2, <1>3, <1>4, <1>5, <1>6
    DEF Next, Enter, Leave, Navigate, ChooseFound, ChooseWatched, Choose, OpenDialog, Dismiss,
        Review, DismissToast, Arm, Disarm, CancelOrder, Poll, ListOrders, ListArrives,
        ListFails, vars

\* Where orders are real, a placement is what CallOnce says of a call: it is decided at most
\* once, a success shown means that the order exists, and after a failure it may still come
\* to exist, whatever dialogs, visits, polls and banners there are meanwhile.
THEOREM TradingImplementsCallOnce == ~mock /\ Spec => PlacementIsCallOnce
  <1>1. Init => Placement!CallInit
    <2>1. posts = <<>> => \A p \in Placements : p \notin DOMAIN posts
      OBVIOUS
    <2> QED BY <2>1 DEF Init, Placement!CallInit, placementStatus, placementOutcome
  <1>2. [Next]_vars => (~mock => ~mock')
    BY DEF Next, vars, Enter, Leave, Navigate, ChooseFound, ChooseWatched, Choose, OpenDialog,
           Dismiss, Review, Submit, SubmitMock, Place, Refuse, HearSuccess, HearFailure,
           DismissToast, Arm, Disarm, CancelOrder, Poll, ListOrders, ListArrives, ListFails
  <1> QED
    BY <1>1, <1>2, StepRefines, TradingInv, PTL
    DEF Spec, PlacementIsCallOnce, Placement!CallSpec
=============================================================================
