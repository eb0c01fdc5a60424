# A verification project for Stockquare

Stockquare is a FastAPI backend (one asyncio process, a SQL database) between a
Next.js front end and the Korea Investment & Securities (KIS) Open API. This
directory holds TLA+ models of its stateful parts, TLC configurations that check
them on small instances, and proofs, checked by TLAPS, of what matters most for
every instance. Paths below are relative to `src/`.

## 1. The system

| Component | State it keeps | Operations | What makes it correct |
|---|---|---|---|
| Token manager, `backend/app/kis/token.py` | the cached OAuth token, a lock | `get_token`, `refresh`, `revoke`; three attempts with backoff | operations atomic to their callers; no needless issue; a revoked token is gone; the lock is always released |
| Rate limiter, `backend/app/kis/client.py` | the next free slot, a lock | `acquire` | slots an interval apart |
| KIS client, `backend/app/kis/client.py` | none of its own | `_request`: slot, token, HTTP, one refresh and retry after a 401 | a request has its effect at KIS at most once; the retry uses a newer token |
| Auth router, `backend/app/api/v1/auth.py` | none | forced refresh, revoke, status | |
| Watchlist, `backend/app/services/watchlist/` | table `watchlist` | list, add, delete by id or symbol, reorder | at most 20 items; unique symbols; a request happens as a whole or not at all |
| Database sessions, `backend/app/db/`, `api/deps.py` | one session per request | commit after the response, rollback on an exception | |
| Trading, `backend/app/services/trading/` | none (orders live at KIS) | create, list, get, cancel, modify | no order past the gates |
| Portfolio, market, stocks, `backend/app/services/` | none | fan-out reads of KIS | a failed part is reported, the rest is served |
| Stock master index, `backend/app/services/stock_index/` | rows in memory, a cache file per market | refresh at start, search | within a day a restart needs no download; an old listing expires; one market fails alone |
| Strategy, `backend/app/services/strategy/` | tables `strategy`, `strategy_signal` | create, update, delete, evaluate, list signals | signals belong to a strategy that exists |
| Assistant, `backend/app/services/assistant/` | per turn: a collector | chat, chat stream, confirm | a mutation happens only after its confirmation |
| Assistant client, `frontend/src/components/common/assistant/` | conversation, live pending action | send, confirm, cancel | what is carried out is what was clicked, once; no turn ends without a word |
| API client and query cache, `frontend/src/lib/api/`, TanStack Query | one cached answer per query | fetch, invalidate, poll; the mock build answers from `mock.ts` | what is shown catches up with what was done |
| Trading page, `frontend/src/app/trading/` | symbol, form, dialog with its step, toast, query `['orders']` | order entry, two-step confirmation, placement, list, two-click cancel | what is sent was reviewed; nothing is sent twice; a success shown is the last order's |
| Strategy page, `frontend/src/app/strategy/` | selection, form, three mutations, query `['strategies']` | create, edit, evaluate, delete | an edit shows its target; typing is kept; one save at a time |
| Dashboard watchlist and stock dialog, `frontend/src/app/dashboard/`, `components/common/` | query `['watchlist']`, polling, two dialogs | add, remove, poll by market hours | a removal takes what was clicked; the card comes to show the watchlist |
| Account summary, market index, portfolio page | queries only | show | |

How they interact: the routers build one service per request around the shared
`KISClient`; every service reads KIS through `KISClient._request`, which calls the
limiter and the token manager. The watchlist and strategy services also write the
database through the request's session. The assistant calls the other services
from its tools, in the session of its own request. The pages call the routers over
HTTP and keep what they hear in one query cache; a mutation invalidates the lists it
touches, and polls, a returning network and remounts fetch them again.

What is hard: every `await` is a point where other requests run; locks are held
across awaits; an HTTP timeout says nothing about what KIS did; the database
session commits after the response has left; the client of the assistant keeps
state between answers that arrive late or twice; a page can be left, entered again or
turned to another object while its requests are under way, and their callbacks run all
the same; the process can end in the middle of a cache file. `PROJECT.json` lists the hazards, each at its line, with the properties that
cover it.

## 2. The modules

`AsyncTasks` says what the backend modules share: the tasks of the event loop, and
an `asyncio.Lock` as an owner and a queue of waiters in arrival order. One action
is one stretch of code between two awaits. Taking a free lock is a step of its own
(join the queue, then be let in), which adds interleavings and removes none.

`RateLimiter` is `RateLimiter.acquire`. `Acquire` joins the lock's queue,
`GrantAtOnce` books a slot that is due, `Sleep` sleeps with the lock, `Wake` books
after the sleep. `nextAvailable` is `_next_available`; `grants` is a history of the
times at which `acquire` returned. `Tick` is the clock; a sleeper that is ready may
wake late.

`TokenManager` is `TokenManager`. A task's `op` is the method it is in, `stage`
where it awaits: `queued` for the lock, `issuing` (POST /oauth2/tokenP), `backoff`
(the sleep between attempts), `revoking`. Tokens are numbered in the order KIS
issues them, so that "newer" is `<`. `revoked` is a history. `Start(t)` are the
calls, `Proceed(t)` the continuations.

| Code | Actions |
|---|---|
| `get_token`, cached | `GetCached` |
| `get_token`, lock, second look | `GetQueued`, then `TurnFresh`, `TurnIssue` or `TurnUnconfigured` |
| `refresh` | `Refresh`, then `TurnIssue` or `TurnUnconfigured` |
| `_refresh_locked`, `_issue_token` | `IssueOk`, `IssueFailed`, `BackoffOver`, `IssueExhausted`, `IssueMalformed` |
| `revoke` | `Revoke`, then `TurnRevoke` and `RevokeDone`, or `TurnRevokeNothing` |
| the clock passes `expires_at - 5 min` | `Age` |

`TokenCell` is the abstract specification of the three operations: each is atomic, at the
moment it returns; a get fills the cell only where nothing usable is in it and fails only
then. `TokenManager` implements it, with `op` as what is pending.

`KISClient` extends both and adds `_request` and `_do_request`. The tasks in
`Requests` call `_request` once each; the other tasks are calls of the auth router.
`phase` is where `_request` stands, `try` which `_do_request` runs. `net[r][n]` is
what became of the n-th send of r at KIS and `sentWith[r][n]` the token it carried.
KIS is the environment: `Serve` executes, refuses or (for a token it does not
accept) rejects a message, before or after the client has given up on it;
`Invalidate` withdraws a token at any time; a token that is issued may or may not
replace the older ones. What is assumed of KIS: a 401 means that it did nothing.

`CallOnce` is the abstract specification of a call: it begins, KIS decides it at most
once, to carry it out or to refuse it, and it ends with an answer that tells the decision
(`ok`, `declined`) or fails (it may have been decided, or may be later). `_request` returns
normally for every HTTP 200, also for one whose `rt_cd` is a refusal (`AnswerRefused`), and
its caller reads the `rt_cd` (`trading/service.py:126`); so the normal return of `KISClient`
maps to `ok` or to `declined` by what KIS decided (`callStatus`, `callOutcome`). A placement
of the trading page implements it too, with `placementStatus` and `placementOutcome`.

`Watchlist` is `WatchlistService` with the database session it runs in, and the
confirmed batches of the assistant that call it symbol by symbol. A request is one
transaction and is used once; `pc` is the next statement of its handler. `rows` is
the committed table, `tx[t]` what t has written and deleted and not committed,
`doomed[t]` the row passed to `session.delete`, which goes only with the next lookup
(autoflush) or the commit. `counted[t]` keeps the count an add has read while it
waits for KIS. `report[t]` is what t says it did or saw.

| Code | Actions |
|---|---|
| `add_watchlist` | `Count`, `Duplicate`, `PriceOk`, `PriceRefused`, `PriceRaises`, `Insert`, `InsertRefused` |
| the batch loops of `tools.py` | the same per symbol: `Refuse` and `Advance` go on to the next one; `Broken` |
| `delete_watchlist`, `delete_watchlist_by_symbol` | `Find`, `FindNothing` |
| `reorder_watchlist` | `Check`, then `Update` per place |
| `list_watchlist` | `Read` |
| `get_db_session` | `Answer`, then `Commit`, or `Lose` when the commit raises; `Fail` |

FastAPI sends the answer and then runs the part of `get_db_session` after its
`yield`, so `Answer` and `Commit` are two steps. A unique-index violation surfaces at
the flush, which has by then rolled the transaction back: `InsertRefused` leaves the
session `broken`, and the next statement or the commit raises. The commit can fail for what
the requests did (`CommitLost`: a broken session, a lock that is not had), and a statement
or a commit because the database fails by itself (`DatabaseFails`).

`SingleWriter` chooses the database. SQLite (the default of `config.py`) admits one
writer, from its first write to its end, and gives a freed largest id out again. In
PostgreSQL (the compose file) writers wait for each other over a row or a symbol only
(`WaitsFor`), a cycle of waits ends with an error (`InDeadlock`), and ids are serial.
Left out: the length of the busy timeout (a blocked SQLite write may give up at any
time), the numbers that PostgreSQL's sequence skips, prices and names in a listing,
and the end of the server process (nothing but the committed rows would outlive it).

`Assistant` is the conversation that the browser keeps (`stores/assistant.ts`,
`useAssistant.ts`), its requests, and what the backend does for them. `entries`,
`pendingAction` and `isSending` are the store. A member of `turns` is a call of `send`
that has not ended: the entry it writes, the endpoint it waits for (`via`), the run of
the agent behind it, what that run has proposed, and the history it sent. A member of
`confirms` is a call of `confirm`; it stays after the client has given it up
(`waiting`), because the backend may still carry it out (`done`). A text is its run and
its size: empty, acceptable, or too long for a message. `clicked`, `executed` and
`crossed` are histories; `crossed` says that a recommendation's button, which nothing
disables, was used while a request was under way. What the agent SDK does (any text,
any proposals, any failure) is the environment's choice.

| Code | Actions |
|---|---|
| `Composer`, the button of `RecommendationCard` | `Submit`, `AskToAdd`, both by `Send` |
| `can_use_tool`, `add_pending_action` | `Propose` |
| `streamChat`, `run_agent_stream` | `Delta` per fragment |
| `send`: answered; its fallback; its errors | `Answer` (`applyResponse`); `FallBack`; `TurnFails` |
| `confirm`: click, `execute_mutate_action`, answer, error | `Confirm`, `Execute`, `Confirmed`, `ConfirmFails` |
| `cancelPending` | `CancelPending` |

A confirmed batch is one step there and goes symbol by symbol in `Watchlist`. Left out:
opening and closing the panel, view actions, the read tools, and wording. `fetch` has
no timeout, so nothing is claimed about a turn ending.

### The stock index

`StockIndex` is `refresh_stock_master_index`, which `lifespan` awaits before it serves,
over the starts and ends of the process. `disk` outlives the process, everything else
but the histories `saved` and `cut` is lost with it. Of rows only the number is kept:
`rows` of the `of` that KIS listed at time `listing`. A file that was cut has fewer rows,
or is `torn` in the middle of a line. The cached markets are read, and the others asked
for, before the first answer can arrive, so that is one step; a file is written without
an await, so a refresh is seen from outside only between files or after a crash in one.

| Code | Actions |
|---|---|
| `_fetch_market` up to its await, `_load_cached_rows` | `Start`, with `Readable` and `Cached` |
| `_download_kr`, `_download_us` | `Download`, `DownloadFails` |
| `_write_cached_rows`, market by market | `WriteWhole`, `WriteFails` |
| `StockMasterIndex.replace`, or an early return without rows | `Replace` |
| the process ends | `Stop`, `CrashInFile` |
| `time()` | `Tick` |

Assumed: a refresh ends within a unit of the clock, which is hours long, and a crash is
one of the process: what it has handed to the operating system reaches the disk. Left
out: searching, a read that changes nothing, and the parsing of the archives.

### The pages

`QueryCache` is one query of TanStack Query as the pages use it: the data (`data`, none
or one snapshot), what the fetch under way will bring (`answer`, read by the server
between the request and its arrival), and three flags. It has operators only: `Fetch`
joins a fetch under way, `Invalidate` replaces it unless there is no data yet, `Mount`
asks when the data are missing, marked or past `staleTime`. The library is external; the
operators are what its defaults and `createQueryClient` make of it. A fetch that fails is
tried again by the library; the attempts are not told apart.

In all three pages a call is a member of a sequence, with what the server has done
(`fate`, or `stage`) apart from what the page was told (`heard`). "Failure" is an error
answer or none at all, so the server may act before or after it. A mutation of a
component is the number of the call it observes: a component that is mounted anew
observes nothing, while the callbacks of its earlier calls still run.

`TradingPage`: `openings` are the orders that the dialog was opened for, `posts` the
placements. `mock` is the build: in the mock one the calls take effect at once. The
form's fields are chosen when it is submitted; only its gate and what it sends matter.
`reviewed` and `told` are histories.

| Code | Actions |
|---|---|
| `TradingWorkspace`: mount, unmount, `?symbol=` | `Enter`, `Leave`, `Navigate` |
| `SymbolPicker`, `TradingWatchlist` | `ChooseFound`, `ChooseWatched` |
| `OrderEntry.handleSubmit`, `handleOpenConfirm` | `OpenDialog` |
| `OrderConfirmDialog`: cancel, Escape, backdrop; next; confirm | `Dismiss`; `Review`; `Submit`, `SubmitMock` |
| `TradingService.create_order` | `Place`, `Refuse` |
| `placeOrderMutation`: `onSuccess`, `onError` | `HearSuccess`, `HearFailure` |
| the toast and its timer | `DismissToast` |
| `OrderHistory`: arming, its timer, cancelling | `Arm`, `Disarm`, `CancelOrder` |
| the query `['orders']` | `Poll`, `ListOrders`, `ListArrives`, `ListFails` |

`StrategyPage` is the page together with `StrategyService`: a call is loaded, answered
and committed in separate steps, with the locks of the database between them (`Waits`).
`rows` and `signals` are the tables; a signal names the id of its strategy and the call
that made it. `Checked` is the foreign key between them, which PostgreSQL checks and SQLite
does not (no `PRAGMA foreign_keys` is set). `form.mount` counts the appearances of the form, `shown` and `touched` are
histories. A strategy's content is a name, a symbol, a rule and a sizing.

| Code | Actions |
|---|---|
| `StrategyWorkspace`: new, edit, cancel, select | `OpenCreate`, `OpenEdit`, `CloseForm`, `Select` |
| `StrategyForm`: its fields; the effect that prefills | `TypeName`, `PickSymbol`, `DropSymbol`, `EditIndicators`, `EditSizing`; `Rendered` in every action that brings a target |
| `saveMutation` | `Save`, `SaveSucceeds`, `HearFailure` |
| `StrategyDetail`: evaluate, delete | `Evaluate`, `EvaluateSucceeds`, `Delete`, `DeleteSucceeds`, `HearFailure` |
| `StrategyService` and `get_db_session` | `Load`, `Answer`, `CommitCreate`, `CommitUpdate`, `CommitDelete`, `CommitEvaluate`, `Fall` |
| the query `['strategies']` | `ListStrategies`, `ListArrives`, `ListFails`, `Reconnect` |

`Dashboard` is the watchlist card with its search dialog and the stock's dialog, which
outlives the page. Of the service it has what a client can see; `born` is a history that
tells apart two rows that were given one id. `OthersAdd` and
`OthersRemove` are the assistant and other windows. `now` is a day and a minute of UTC.

| Code | Actions |
|---|---|
| `Watchlist`: mount, unmount, the cross of a row | `Enter`, `Leave`, `ClickRemove` |
| `AddStockModal`, `stores/dashboard-ui.ts` | `OpenSearch`, `PickFound`, `Escape` |
| `StockDetailModal`, `stores/stock-detail.ts` | `OpenDetail`, `CloseDetail`, `AddFromDetail`, `OrderFromDetail`, `Escape` |
| `useMarketPolling`, `isMarketHours` | `Tick`, `Poll`, `IsMarketHours` |
| `WatchlistService` through its router | `Answer`, `Refuse`, `CommitAdd`, `CommitRemove` |
| the mutations' callbacks | `HearSuccess`, `Refetched`, `HearFailure` |
| the query `['watchlist']` | `ListWatchlist`, `ListArrives`, `ListFails`, `Reconnect` |

Left out of the pages: layout, sorting, charts, the mode banner and the account badge,
the search query behind the pickers (any symbol may be found), the query of a strategy's
signal history, and the fields of an order or a row that no property tells apart.

### Variants

Operators described as variants are what-if forms of the definition that follows
them. No specification uses them; each run finds the property it is paired with in
`PROJECT.json` violated when the variant takes the definition's place.

## 3. What the runs check

| Run | Instance | Shows |
|---|---|---|
| `calls` | 2 requests, 1 admin call, 2 attempts, 2 tokens, fair | types, `NoNeedlessIssue`, `ImplementsTokenCell`, `ExecutedAtMostOnce`, `RetryOnlyAfterRejection`, `RetryCarriesNewerToken`, `RevokedNeverSent`, `ImplementsCallOnce`, `EveryRequestEnds`, `EveryOperationReturns` |
| `paced` | 2 requests, interval 1, clock 0..3 | `GrantsSpaced`, `PaceKept` |
| `watchlist_sqlite` | 3 requests, 5 symbols, cap 2, tables of 1 or 2 rows, SQLite | `OvershootBounded`, `AddedReachesCommit` |
| `watchlist_postgres` | 3 requests, 3 symbols: removals, batches and reorders in opposite orders, PostgreSQL, fair | `SymbolsUnique`, `AllOrNothing`, `RemovesOnlyReported`, `EveryTransactionEnds` |
| `watchlist_skipped` | PostgreSQL | `AddedReachesCommit` is violated |
| `assistant` | 4 runs, 2 proposals each, 2 clicks, 4 messages a request | `ConfirmedBeforeExecuted`, `SpinnerIsReal`, `OneAtATime`, `LiveIsNewest`, `ReplyOwnsProposal` |
| `assistant_prompt` | the same | `PromptIsLive` is violated |
| `trading` | 2 symbols, quantities around the limit, with and without a price, 2 openings, 2 placements, 2 visits, both builds | `ReviewedBeforeSent`, `NoDoubleSubmit`, `SuccessBannerIsCurrent`, `ListCatchesUp` |
| `strategy` | 1 strategy without a rule, others can be created, 2 rules and 2 sizings (`Limited`), 2 calls, 1 appearance of the form, PostgreSQL | types, `NoOrphans`, `OneSaveAtATime`, `EditShowsItsTarget`, `TypingIsKept` |
| `strategy_card` | the same | `CardIsOwn` is violated |
| `dashboard` | 3 symbols, two domestic, 1 row to start with, 2 more to be added, 1 call of the page, 1 visit, the market's close, SQLite, fair | types, `SparesOthers`, `AddedIsOwn`, `ListHeals`; every minute of a week for `IsMarketHours` |
| `stock_index` | 2 markets, up to 2 rows, a day of 2 units, clock 0..3, 3 starts | types, `ListingIsRecent`, `FailsAlone`, `RestartSkipsDownload` |

Bounds. `MaxClock` lets every task take at least one slot and one task sleep behind
a sleeper. `MaxIssued` lets a token be issued, rejected, replaced and revoked within a run;
two attempts are the fewest with a backoff and an exhaustion. Three tasks are the fewest
with an owner of the lock and two waiters. Requests are interchangeable and
symmetric in the safety runs; the runs with a liveness property use no symmetry. The
theorems cover any number of attempts (the code's is 3), tokens and tasks.

The watchlist runs have three requests: two that race and one that frees an id or a
symbol, or the fewest in a cycle of waits that is not a pair. The cap is within reach
of one add. Requests ask for single adds, batches of two that overlap in both orders,
removals by id and by symbol, reorders in both orders, and a listing.

`calls` sets the interval and the clock to 0: time does not matter to its
properties, and a limiter slot is then always due. `paced` looks at time.

The assistant's four runs let a stream break and run again beside another turn, or
follow one another with a proposal each; with four messages a request, histories pass
the limit within a run. A second proposal of one run is there because the client must
ignore it. After two clicks one confirmation can be late while the next is new.

Two openings and two placements are the fewest in which one order takes another's place,
a late answer meets a newer order, and a placement is repeated; two visits let an answer
of the first arrive in the second. Two calls let any two of a creation, a save, an
evaluation and a delete meet; the one strategy and the created one let a form be turned to
another target; `Limited` keeps the form to one change of its indicators or of its sizing,
which the models copy alike. One appearance of the form is enough for its properties, which look at one
appearance at a time; the theorems cover any number. One call of the dashboard, with rows that others add and remove before and after
it, covers what its properties compare: with two rows added after the first, the
clicked row can go and its id come back, and another row can be beside it. With two calls or
two visits the liveness check is too large; the theorems cover any number.

Three starts and a clock of 3 let a file be written, kept by a restart, expire, be
written again and be cut by a crash; two markets let one fail while the other is
written before it or after it; with two rows a cut file can keep some of them.

Fairness. The `FairSpec` of `KISClient` and of `Watchlist` assumes weak fairness of what a task does
once it was called: the event loop runs every ready task, and the HTTP client has a
timeout (`client.py:72`), so an await on KIS ends in an answer or in an error. Failures
of the database are possible and never required. The clock advances up to its bound. Nothing is assumed of KIS, of token expiry or of
the callers: requests may fail for ever, but they end. The dashboard's `FairSpec`
assumes that the browser's timers run (weakly fair `Tick` and `Poll`), that the service
answers the list, and that its answers do not fail for ever (strongly fair
`ListWatchlist` and `ListArrives`): a fetch that fails starts anew, so weak fairness
would let every single one fail. Nothing is assumed of users.

Deadlock is not checked where a run may really stop: every request has ended, the
clock has reached its bound and no call is left; a watchlist request runs once; on the
pages the bounds on calls, openings and visits are used up, and in the index those on the
clock and on starts. It is checked in `dashboard`, which never stops.

Findings. `watchlist_skipped`: a batch that skips a symbol over a concurrent duplicate
loses, with the rollback of that flush, the symbols it reports added. `assistant_prompt`:
every response numbers its proposals from `act_1` and the client compares these ids, so an
old prompt comes back with a new proposal and can be confirmed; what is carried out is
still what was clicked (`ConfirmedBeforeExecuted`). `strategy_card`: the detail pane is
not remounted for another strategy, so the signal of the one that was evaluated stands
under the name of the one that is selected.

### Remarks

Behaviour that the models show and that no run is spent on, because no property of the
project contradicts it or none could say it sharply.

Backend:

- The limiter spaces its grants, not the requests: a request takes its slot before it
  waits for a token (`client.py:131`), so requests that waited together leave together.
  `PaceKept` says what is left.
- The clause of `_request` that handles KIS's 401 also catches the token manager's own
  `TokenExpiredError`, so exhausted retries start over once.
- The count is read before the await on KIS (`watchlist/service.py:134`), so concurrent
  adds pass the cap together; `OvershootBounded` says how far they get.
- A refusal that KIS sends in an HTTP 200 is a normal return of `_request`, and of
  `order_cash`, which does not look at its `rt_cd` either; `trading/service.py:126` does.
- A commit that fails follows a success already sent (`api/deps.py:51`). A full disk or a
  lost connection is enough, over either database, so no property says that what is
  reported is stored; `AddedReachesCommit` says that nothing before that takes it back.
- SQLite gives the id of a deleted row to the next one, and a delete by id that is pending
  then, or a click on an old list, takes that one. `RemovesOnlyReported` is therefore
  claimed for PostgreSQL only, and `SparesOthers` only while the clicked row is there.
- SQLite does not check the foreign key of a signal: an evaluation that a deletion
  overtakes while it awaits its candles leaves a signal without its strategy, and a later
  strategy that gets the id shows it as its own. `NoOrphans` is claimed for PostgreSQL only.
- A cache file that a crash or a full disk cut exactly at the end of a line is taken for a
  complete listing until it expires (`CutFile`); `FailsAlone` excepts that market.
- A listing without rows is cached like any other. A file that has expired is not used
  when the download fails: the market is then missing until the next start, for nothing
  else refreshes the index.

Assistant:

- A recommendation added during a request breaks what `OneAtATime`, `LiveIsNewest` and
  `NoBlankSent` say; they are stated for conversations in which that did not happen.

Trading page:

- A market order is sent with price 0 (`OrderEntry.tsx:56`) and the backend accepts a
  price of at least 1 or none (`models/trading.py`), although its document calls the
  price "ignored" then: every market order is refused with 422 (`Acceptable`).
- The backend's word for an outstanding order is "submitted"; `OrderHistory` offers to
  cancel "pending" and "accepted" ones, so outside the mock build no row has the button.
- The first success closes whichever dialog is open, also one for another order.
- Escape dismisses the dialog during a submission; the order goes on.
- A lost answer shows an error although the order may stand; only the list tells.

Strategy page:

- The symbol of a strategy is offered for change in an edit and dropped by the PATCH.
- Turning the form from A to "new" and back to A does not fill it again.
- A save that succeeds late shuts whichever form is open by then.
- The list is asked for when the answer comes, which may be before the commit, and nothing
  polls it: it can stay old until the next reason to fetch.

Dashboard:

- A removal or an addition from the search that fails says nothing.
- Outside market hours nothing polls; `ListHeals` is about market hours.
- One Escape closes the search and the stock's dialog together.
- `mock.ts` adds a symbol that is there already; the service does not.

## 4. What is proved

`TokenManagerProofs`, `KISClientProofs` (which begins with the limiter), `WatchlistProofs`,
`AssistantProofs`, `TradingPageProofs`, `StrategyPageProofs`, `DashboardProofs` and
`StockIndexProofs` prove safety for every set of tasks, requests, symbols, strategies and markets, every interval, and every bound on retries,
tokens, messages, calls and visits, from the constants' assumptions (`NoTask` is no task,
the bounds are naturals, at least one attempt, requests are tasks, the empty name is no
name, a day is not empty, a market is listed once). `OneTaskInside`, `QueueExact`, `RevokedNotCached`, `SleeperOwnsSlot`, `BlankOnlyInFlight`,
`NoBlankSent`, `AddsOnlyReported`, `DeleteTakesHistory` and `PlacementIsCallOnce` are proved and in no run: the theorems say more than the runs would.

- Limiter: `GrantsSpaced` is not inductive. `LimiterInv` adds that every grant lies
  an interval before `nextAvailable` and that a sleeper sleeps until it.
- Token manager: `OneTaskInside`, `QueueExact`, `NoNeedlessIssue` and
  `RevokedNotCached` need each other. `TokenInv` adds that a task's stage fits its
  operation and that tokens are numbered as they are issued. From it follows that the
  manager implements `TokenCell` (`TokenImplementsCell`): the steps inside an operation
  are not seen by the cell, and the one that leaves it is the abstract operation.
- Client: each of its steps is a step of the token manager and of the limiter or
  leaves them (`StepIsTokenStep`, `StepIsLimiterStep`), so their invariants hold in
  it. `RequestInv` ties the program point of a request to the fates of its sends
  (`Coherent`); `ExecutedAtMostOnce` and `RetryOnlyAfterRejection` follow.
  `RetryCarriesNewerToken` needs `OrderInv`, which orders the tokens a request
  sends and the cached one. `PaceKept` is about the order in which requests leave, which
  is not the order of their slots. `Pace` counts instead: the slots granted are the sends
  and the requests that still wait for a token with a slot in hand (`Awaiting`), and the
  slots granted fit before `nextAvailable`, an interval each.
- The client implements `CallOnce` (`ClientImplementsCallOnce`): its steps map to steps of
  the abstract call or leave it. A retry follows only a rejection, so the one decision of
  KIS is that of the send which the answer belongs to.
- Watchlist: `SymbolsUnique` needs more than the rows: the view of every open
  transaction is free of duplicates and stays so when another one commits. The
  invariant `Database` says that a request deletes and replaces only rows it saw
  committed (`OwnWork`, `Replaces`), that open transactions touch disjoint symbols and
  ids (`Apart`), and that ids were given out (`GivenOut`). `AllOrNothing` adds what a transaction of each kind
  may have done to its view. `AddedReachesCommit` is proved for SQLite, where `OneWriter`
  keeps the commits of others away from an open transaction, so that no flush is refused after
  an addition (`Reported`); `RemovesOnlyReported` for
  PostgreSQL, where an id names one row for ever. `watchlist_skipped` shows
  that the first fails over PostgreSQL. `OvershootBounded`, for SQLite, needs `Capped`:
  the table is within the cap and one row for each adding request that has ended (`Spent`)
  but the first, and an open transaction, which nobody can overtake, counts what it will
  commit. It is proved for finite, nonempty sets of requests that start from a table within
  the cap. `AddsOnlyReported` mirrors `RemovesOnlyReported` and holds over either database.
- Assistant: `Inv` is all the invariants of the run together with what ties requests
  to the conversation: every turn has an entry of its own without a proposal and a run
  that has begun (`TurnsKnown`), every confirmation stands for a click of its own on a
  proposal of the conversation and has not been carried out before it is done
  (`ConfirmsKnown`), and the only turn writes the last entry (`LastIsTurn`), without
  which `LiveIsNewest` would not survive an answer.
- Trading page: `Inv` adds to the invariants of the run that the server's orders are those
  of the placements it carried out (`Server`), what each build can have heard (`Builds`),
  that nothing of the page outlives it (`Gone`), that a dialog at its second step was
  reviewed (`Reviewed`), that whatever is under way in this visit is what the mutation
  observes (`Observed`), that the order in the dialog was not placed as far as the page
  knows (`OnShow`), and that an answer under way shows every fact that the list owes
  (`List`): a poll that read the orders earlier was replaced by the invalidation. A
  placement over the real backend implements `CallOnce` (`TradingImplementsCallOnce`), so
  that the page relies on the same promise that the client keeps at the other end. The
  mock build answers in the step that places, which is two steps of `CallOnce`, and the
  calls of the strategy page and of the dashboard do not implement it: their success is
  answered before the commit.
- Strategy page: `Inv` says what a call was made of (`Asked`), which call each mutation
  observes (`Observed`) and where the form's fields come from (`Filled`); from them
  follow `OneSaveAtATime`, `EditShowsItsTarget` and `TypingIsKept`. `NoOrphans` needs
  `Anchored`: from its answer to its commit a signal has its strategy, for a deletion that
  waits for it finds it in the end and fails. It is proved where foreign keys are checked
  (PostgreSQL). `DeleteTakesHistory`, over either database, is that with `Emptied`: over SQLite
  an answered delete has dropped the whole history, and nobody adds to it before the commit.
- Dashboard: `Inv` says that what the service has agreed to add is domestic (`Vetted`),
  without which the types are not inductive, and that what the dialog's mutation observes is
  an addition of the stock it shows (`ButtonIsOwn`). `SparesOthers` needs that every
  snapshot of the list, on the server, under way and in the cache, gives a row that is still
  there the id that it has (`Faithful`), and so does every removal that was asked for
  (`Traceable`); it is proved for either way of giving out ids.
- Stock index: none of its properties is inductive, for a start relies on what earlier ones
  left on the disk. `Inv` says that a file is as old as its listing and was cut if it is
  not whole (`Files`), what a start can hold (`Results`), and that a file which was written
  to its end within a day is still there and is not written again (`Kept`).

Only model-checked: `EveryOperationReturns`, `EveryRequestEnds`, `EveryTransactionEnds`
and `ListHeals`, for liveness under fairness is out of the prover's reach. Every other
property of a run that passes is a theorem. The type
invariants of the watchlist, the assistant and the trading page are proved and in no run. `ENABLED`, induction
over data and recursive operators are out of reach too, so nothing here rests on them.

## 5. Not modelled

- Endpoint wrappers and wire models (`backend/app/kis/`): parameters in, one `_request`,
  fields out; the state they touch is the client's.
- Portfolio, market and stocks services, and the pages that show them (account summary,
  market index, portfolio): reads that keep nothing. What they degrade to when one part
  fails, minute paging and search ranking are about data.
- Indicators: floating-point formulas over candles, out of TLC's reach.
- Cancelling and modifying real orders (`trading/service.py`): no page reaches them with
  the ids and statuses that the backend sends (remarks).
- The rest of the front end is layout, charts and formatting.

## 6. Plan

1. Token manager, rate limiter, KIS client: done.
2. Watchlist and the request's database session: done.
3. Assistant: done, but for the panel and the read tools.
4. Trading page with the placement of orders, strategy page with its service, dashboard
   watchlist with its dialogs, over one model of the query cache: done.
5. Stock index with its cache files, crash and restart: done.
6. Cancel and modify of the trading service.
7. Pure parts: minute paging, search ranking, the partial failures of portfolio and
   market.
