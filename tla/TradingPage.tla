---------------------------- MODULE TradingPage ----------------------------
(***************************************************************************)
(* The trading page: the order form, the confirmation dialog in two steps, *)
(* the placement of an order, the order history with its two-click cancel, *)
(* and the page being left and entered again while requests are under way. *)
(*                                                                         *)
(* A post is a POST /api/v1/orders.  The server may carry it out before or *)
(* after the page has given up on it.  In the mock build the server is     *)
(* mock.ts: its calls take effect at once and do not fail.                 *)
(***************************************************************************)
EXTENDS Integers, Sequences, FiniteSets, QueryCache

CONSTANTS
    Symbols,     \* the symbols a user trades
    NoSymbol,    \* nothing is selected
    MaxQuantity, \* MAX_QUANTITY of the form
    Quantities,  \* what is typed into the form, as parsed
    Prices,
    MaxOpenings, \* bound on how often the dialog opens
    MaxPosts,    \* bound on placements
    MaxVisits    \* bound on entering the page

ASSUME TradingAssumption ==
    /\ NoSymbol \notin Symbols
    /\ Quantities \subseteq Nat /\ Prices \subseteq Nat
    /\ MaxQuantity \in Nat
    /\ MaxOpenings \in Nat /\ MaxPosts \in Nat /\ MaxVisits \in Nat

VARIABLES
    mock,       \* the build is the one with mock.ts; it never changes
    visit,      \* how many times the page was entered
    mounted,    \* it is on the screen
    selected, appliedUrl,
    openings,   \* the requests the dialog was opened for, in order
    dialog,     \* which of them it shows (0: closed), and its step
    posts,      \* the placements, in order
    newest,     \* the placement that the page's mutation observes (0: none)
    toast,
    armed,      \* the rows whose cancel button was clicked once
    orders,     \* at the server: the status of the order of a post
    listed,     \* the query ['orders']
    reviewed,   \* history: the openings whose first step was confirmed
    told        \* history: what the list must show once it has settled

page == <<visit, mounted>>
choice == <<selected, appliedUrl>>
vars == <<mock, page, choice, openings, dialog, posts, newest, toast, armed,
          orders, listed, reviewed, told>>

-----------------------------------------------------------------------------
\* The form's fields, of which only the side is left out: nothing depends on it.
Form == [symbol : Symbols \cup {NoSymbol}, orderType : {"limit", "market"},
         quantity : Quantities, price : Prices]
OrderRequest == [symbol : Symbols, orderType : {"limit", "market"},
                 quantity : 1 .. MaxQuantity, price : Nat]

\* heard: what the page was told of the placement; fate: what the server did.
Post == [opening : Nat \ {0}, request : OrderRequest, visit : Nat,
         fate : {"sent", "placed", "refused"}, heard : {"nothing", "success", "failure"}]

\* The backend's word for an outstanding order is "submitted", mock.ts's "pending".
\* What becomes of it in the market is left out.
OrderStatus == {"pending", "submitted", "cancelled"}
Snapshot == UNION {[ids -> OrderStatus] : ids \in SUBSET (1 .. MaxPosts)}

Fact == [id : Nat, status : {"placed", "cancelled"}]
Shows(snapshot, fact) ==
    /\ fact.id \in DOMAIN snapshot
    /\ fact.status = "cancelled" => snapshot[fact.id] = "cancelled"

Closed == [opening |-> 0, step |-> 1]
NoToast == "none"

TypeOK ==
    /\ mock \in BOOLEAN
    /\ visit \in Nat /\ mounted \in BOOLEAN
    /\ selected \in Symbols \cup {NoSymbol} /\ appliedUrl \in Symbols \cup {NoSymbol}
    /\ openings \in Seq(OrderRequest)
    /\ dialog \in [opening : 0 .. Len(openings), step : {1, 2}]
    /\ posts \in Seq(Post)
    /\ newest \in 0 .. Len(posts)
    /\ toast \in {NoToast, "success", "error"}
    /\ armed \subseteq 1 .. MaxPosts
    /\ orders \in Snapshot
    /\ listed \in Query(Snapshot)
    /\ reviewed \subseteq Nat
    /\ told \subseteq Fact

Init ==
    /\ mock \in BOOLEAN
    /\ visit = 0 /\ mounted = FALSE
    /\ selected = NoSymbol /\ appliedUrl = NoSymbol
    /\ openings = <<>> /\ dialog = Closed
    /\ posts = <<>> /\ newest = 0
    /\ toast = NoToast /\ armed = {}
    /\ orders = <<>>
    /\ listed = Unasked
    /\ reviewed = {} /\ told = {}

-----------------------------------------------------------------------------
\* The page is a component: whatever it keeps is new each time it is entered, and a
\* call that it made before goes on.  The query outlives it.
Enter(old) ==
    /\ ~mounted /\ visit < MaxVisits
    /\ mounted' = TRUE /\ visit' = visit + 1
    /\ listed' = Mount(listed, old)
    /\ UNCHANGED <<mock, choice, openings, dialog, posts, newest, toast, armed,
                   orders, reviewed, told>>

Leave ==
    /\ mounted
    /\ mounted' = FALSE
    /\ selected' = NoSymbol /\ appliedUrl' = NoSymbol
    /\ dialog' = Closed /\ newest' = 0 /\ toast' = NoToast /\ armed' = {}
    /\ UNCHANGED <<mock, visit, openings, posts, orders, listed, reviewed, told>>

\* The address of the page names a symbol: an order button, or the assistant.  It is
\* applied once, so that it does not undo a choice made under the same address.
Navigate(s) ==
    /\ mounted /\ s # appliedUrl
    /\ appliedUrl' = s /\ selected' = s
    /\ UNCHANGED <<mock, page, openings, dialog, posts, newest, toast, armed,
                   orders, listed, reviewed, told>>

Choose(s) ==
    /\ mounted
    /\ selected' = s
    /\ UNCHANGED <<mock, page, appliedUrl, openings, dialog, posts, newest, toast,
                   armed, orders, listed, reviewed, told>>

\* From what the search found, or from the watchlist beside the chart.
ChooseFound(s) == Choose(s)
ChooseWatched(s) == Choose(s)

-----------------------------------------------------------------------------
\* A variant of CanSubmit that no specification uses: the upper limit is left out.
CanSubmitAny(form) ==
    /\ form.symbol = selected /\ selected # NoSymbol
    /\ form.quantity > 0
    /\ form.orderType = "market" \/ form.price > 0

CanSubmit(form) ==
    /\ form.symbol = selected /\ selected # NoSymbol
    /\ form.quantity > 0 /\ form.quantity <= MaxQuantity
    /\ form.orderType = "market" \/ form.price > 0

ToRequest(form) == [form EXCEPT !.price = IF form.orderType = "market" THEN 0 ELSE @]

\* A variant of OpenDialog that no specification uses: the banner stays.
OpenDialogQuietly(form) ==
    /\ mounted /\ CanSubmit(form)
    /\ Len(openings) < MaxOpenings
    /\ openings' = Append(openings, ToRequest(form))
    /\ dialog' = [opening |-> Len(openings) + 1, step |-> 1]
    /\ UNCHANGED <<mock, page, choice, posts, newest, toast, armed, orders, listed,
                   reviewed, told>>

\* A variant of the same: the dialog does not go back to its first step.
OpenDialogAsItWas(form) ==
    /\ mounted /\ CanSubmit(form)
    /\ Len(openings) < MaxOpenings
    /\ openings' = Append(openings, ToRequest(form))
    /\ dialog' = [dialog EXCEPT !.opening = Len(openings) + 1]
    /\ toast' = NoToast
    /\ UNCHANGED <<mock, page, choice, posts, newest, armed, orders, listed,
                   reviewed, told>>

\* The form hands its order to the dialog.  The keyboard reaches the form behind an
\* open dialog, so this may replace one.
OpenDialog(form) ==
    /\ mounted /\ CanSubmit(form)
    /\ Len(openings) < MaxOpenings
    /\ openings' = Append(openings, ToRequest(form))
    /\ dialog' = [opening |-> Len(openings) + 1, step |-> 1]
    /\ toast' = NoToast
    /\ UNCHANGED <<mock, page, choice, posts, newest, armed, orders, listed,
                   reviewed, told>>

Submitting == newest # 0 /\ posts[newest].heard = "nothing"

\* The two buttons of the dialog are disabled while an order is being submitted;
\* Escape and the backdrop are not.
Dismiss ==
    /\ dialog.opening # 0
    /\ dialog' = Closed
    /\ UNCHANGED <<mock, page, choice, openings, posts, newest, toast, armed,
                   orders, listed, reviewed, told>>

Review ==
    /\ dialog.opening # 0 /\ dialog.step = 1
    /\ ~Submitting
    /\ dialog' = [dialog EXCEPT !.step = 2]
    /\ reviewed' = reviewed \cup {dialog.opening}
    /\ UNCHANGED <<mock, page, choice, openings, posts, newest, toast, armed,
                   orders, listed, told>>

NewPost(fate, heard) ==
    [opening |-> dialog.opening, request |-> openings[dialog.opening], visit |-> visit,
     fate |-> fate, heard |-> heard]

WithOrder(id, status) ==
    [i \in DOMAIN orders \cup {id} |-> IF i = id THEN status ELSE orders[i]]

\* What the list of orders owes to a success that the page is told of: it asks again,
\* unless it joins a fetch that may have read the orders before.
Owed(id, status) ==
    IF listed.fetching /\ (listed.data = {} \/ ~mounted) THEN {}
    ELSE {[id |-> id, status |-> status]}

\* A variant of Refresh that no specification uses: the invalidation joins.
RefreshJoining == listed' = IF mounted THEN Fetch([listed EXCEPT !.invalid = TRUE])
                                       ELSE [listed EXCEPT !.invalid = TRUE]

Refresh == listed' = Invalidate(listed, mounted)

\* A variant of Submit that no specification uses: the button stays enabled.
SubmitAgain ==
    /\ dialog.opening # 0 /\ dialog.step = 2
    /\ Len(posts) < MaxPosts
    /\ ~mock
    /\ newest' = Len(posts) + 1
    /\ posts' = Append(posts, NewPost("sent", "nothing"))
    /\ UNCHANGED <<mock, page, choice, openings, dialog, toast, armed, orders,
                   listed, reviewed, told>>

\* handleConfirm: the order is sent.
Submit ==
    /\ dialog.opening # 0 /\ dialog.step = 2
    /\ ~Submitting
    /\ Len(posts) < MaxPosts
    /\ ~mock
    /\ newest' = Len(posts) + 1
    /\ posts' = Append(posts, NewPost("sent", "nothing"))
    /\ UNCHANGED <<mock, page, choice, openings, dialog, toast, armed, orders,
                   listed, reviewed, told>>

\* The same in the mock build, with the success that follows at once.
SubmitMock ==
    /\ dialog.opening # 0 /\ dialog.step = 2
    /\ Len(posts) < MaxPosts
    /\ mock
    /\ newest' = Len(posts) + 1
    /\ posts' = Append(posts, NewPost("placed", "success"))
    /\ orders' = WithOrder(Len(posts) + 1, "pending")
    /\ dialog' = Closed /\ toast' = "success"
    /\ Refresh /\ told' = told \cup Owed(Len(posts) + 1, "placed")
    /\ UNCHANGED <<mock, page, choice, openings, armed, reviewed>>

-----------------------------------------------------------------------------
\* CreateOrderRequest refuses a price of 0, and that is what the form sends for a
\* market order.
Acceptable(request) == request.price > 0

Place(p) ==
    /\ posts[p].fate = "sent" /\ Acceptable(posts[p].request)
    /\ posts' = [posts EXCEPT ![p].fate = "placed"]
    /\ orders' = WithOrder(p, "submitted")
    /\ UNCHANGED <<mock, page, choice, openings, dialog, newest, toast, armed,
                   listed, reviewed, told>>

\* A gate of the service or KIS refuses it.
Refuse(p) ==
    /\ posts[p].fate = "sent"
    /\ posts' = [posts EXCEPT ![p].fate = "refused"]
    /\ UNCHANGED <<mock, page, choice, openings, dialog, newest, toast, armed,
                   orders, listed, reviewed, told>>

\* The callbacks of a placement run also when the page was left, but then they reach
\* the query cache only.
Here(p) == mounted /\ posts[p].visit = visit

HearSuccess(p) ==
    /\ posts[p].heard = "nothing" /\ posts[p].fate = "placed"
    /\ posts' = [posts EXCEPT ![p].heard = "success"]
    /\ Refresh /\ told' = told \cup Owed(p, "placed")
    /\ toast' = IF Here(p) THEN "success" ELSE toast
    /\ dialog' = IF Here(p) THEN Closed ELSE dialog
    /\ UNCHANGED <<mock, page, choice, openings, newest, armed, orders, reviewed>>

\* An error answer, or no answer at all: then the server may have placed the order, or
\* may do so later.
HearFailure(p) ==
    /\ posts[p].heard = "nothing"
    /\ posts' = [posts EXCEPT ![p].heard = "failure"]
    /\ toast' = IF Here(p) THEN "error" ELSE toast
    /\ UNCHANGED <<mock, page, choice, openings, dialog, newest, armed, orders,
                   listed, reviewed, told>>

\* The cross, or the timer.
DismissToast ==
    /\ toast # NoToast
    /\ toast' = NoToast
    /\ UNCHANGED <<mock, page, choice, openings, dialog, posts, newest, armed,
                   orders, listed, reviewed, told>>

-----------------------------------------------------------------------------
\* A row has a cancel button while the list shows its order as cancellable.
Cancellable == {"pending", "accepted"}
HasCancelButton(id) ==
    \E shown \in listed.data : id \in DOMAIN shown /\ shown[id] \in Cancellable

Arm(id) ==
    /\ mounted /\ HasCancelButton(id) /\ id \notin armed
    /\ armed' = armed \cup {id}
    /\ UNCHANGED <<mock, page, choice, openings, dialog, posts, newest, toast,
                   orders, listed, reviewed, told>>

\* After four seconds.
Disarm(id) ==
    /\ id \in armed
    /\ armed' = armed \ {id}
    /\ UNCHANGED <<mock, page, choice, openings, dialog, posts, newest, toast,
                   orders, listed, reviewed, told>>

\* The second click.  Only the mock build shows the button.
CancelOrder(id) ==
    /\ mounted /\ HasCancelButton(id) /\ id \in armed
    /\ armed' = armed \ {id}
    /\ orders' = [orders EXCEPT ![id] = "cancelled"]
    /\ toast' = "success"
    /\ Refresh /\ told' = told \cup Owed(id, "cancelled")
    /\ UNCHANGED <<mock, page, choice, openings, dialog, posts, newest, reviewed>>

\* Every 15 s, and when the window gets the focus.
Poll ==
    /\ mounted
    /\ listed' = Fetch(listed)
    /\ UNCHANGED <<mock, page, choice, openings, dialog, posts, newest, toast,
                   armed, orders, reviewed, told>>

ListOrders ==
    /\ listed.fetching /\ listed.answer = {}
    /\ listed' = Answered(listed, orders)
    /\ UNCHANGED <<mock, page, choice, openings, dialog, posts, newest, toast,
                   armed, orders, reviewed, told>>

ListArrives ==
    /\ listed.fetching /\ listed.answer # {}
    /\ listed' = Succeed(listed)
    /\ UNCHANGED <<mock, page, choice, openings, dialog, posts, newest, toast,
                   armed, orders, reviewed, told>>

ListFails ==
    /\ ~mock /\ listed.fetching
    /\ listed' = Fail(listed)
    /\ UNCHANGED <<mock, page, choice, openings, dialog, posts, newest, toast,
                   armed, orders, reviewed, told>>

-----------------------------------------------------------------------------
Next ==
    \/ \E old \in BOOLEAN : Enter(old)
    \/ Leave
    \/ \E s \in Symbols : Navigate(s) \/ ChooseFound(s) \/ ChooseWatched(s)
    \/ \E form \in Form : OpenDialog(form)
    \/ Dismiss \/ Review \/ Submit \/ SubmitMock \/ DismissToast
    \/ \E p \in DOMAIN posts :
          \/ Place(p) \/ Refuse(p) \/ HearSuccess(p) \/ HearFailure(p)
          \/ Arm(p) \/ Disarm(p) \/ CancelOrder(p)
    \/ Poll \/ ListOrders \/ ListArrives \/ ListFails

Spec == Init /\ [][Next]_vars

-----------------------------------------------------------------------------
\* Nothing is sent unseen: a placement carries the order of an opening of the dialog
\* whose review step was confirmed, so that two clicks on the same button never place
\* the order that has just taken another one's place (OrderConfirmDialog.tsx).
ReviewedBeforeSent ==
    \A p \in DOMAIN posts :
      /\ posts[p].opening \in reviewed
      /\ posts[p].request = openings[posts[p].opening]

\* An order is sent again only after the page was told that it failed, and during a
\* visit one placement at a time is under way, also when the dialog is closed and
\* opened during one.
NoDoubleSubmit ==
    \A p, q \in DOMAIN posts : p < q =>
      /\ posts[p].visit = posts[q].visit => posts[p].heard # "nothing"
      /\ posts[p].opening = posts[q].opening => posts[p].heard = "failure"

\* "stale success banners can't mislead a user" (TradingWorkspace.tsx): a success is
\* shown only while the last order submitted in this visit is one that succeeded.
SuccessBannerIsCurrent ==
    toast = "success" /\ newest # 0 =>
      posts[newest].heard = "success" /\ newest \in DOMAIN orders

\* Once the list has settled it shows every order whose placement or cancellation the
\* page was told of and the list was asked for again, whatever polls and retries were
\* under way at that time.
ListCatchesUp ==
    Settled(listed) => \A snapshot \in listed.data, fact \in told : Shows(snapshot, fact)

\* A placement over the real backend is to the page what a call of KIS is to the backend,
\* a call of CallOnce: it is decided at most once, a success means that the order exists,
\* and after a failure it may still come to exist, unless it was refused
\* (TradingWorkspace.tsx, trading/service.py).  A refusal reaches the page as a failure,
\* also one that KIS has put into a 200.
Placements == 1 .. MaxPosts

StatusOf(heard) ==
    CASE heard = "nothing" -> "pending" [] heard = "success" -> "ok" [] heard = "failure" -> "failed"

placementStatus ==
    [p \in Placements |-> IF p \in DOMAIN posts THEN StatusOf(posts[p].heard) ELSE "new"]

OutcomeOf(fate) ==
    CASE fate = "sent" -> "open" [] fate = "placed" -> "done" [] fate = "refused" -> "refused"

placementOutcome ==
    [p \in Placements |-> IF p \in DOMAIN posts THEN OutcomeOf(posts[p].fate) ELSE "open"]

Placement == INSTANCE CallOnce WITH
    Calls <- Placements, status <- placementStatus, outcome <- placementOutcome

PlacementIsCallOnce == Placement!CallSpec
=============================================================================
