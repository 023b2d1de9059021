# Senex Trader in TLA+

Senex Trader suggests option spreads, opens them at TastyTrade, places profit
targets for them and closes them before they expire.  A position is one row of
the table `Position`, its orders are rows of `Trade`, and what happens to them
at the broker reaches the database on many paths at once: an order stream in
every container, Celery tasks that poll, a position sync, a reconciliation run,
and the user's own requests.  None of these paths waits for the others, most of
them read a row, talk to the broker for seconds and then save what they read.

The modules here describe those paths statement by statement, and the
calculations that feed them as functions.  TLC checks them on small instances
and TLAPS proves the main safety properties for any number of processes.  All
paths below are relative to `src/`.

1. [The system](#1-the-system)
2. [The modules](#2-the-modules)
3. [The runs](#3-the-runs)
4. [Fairness](#4-fairness)
5. [The proofs](#5-the-proofs)
6. [Where code and comments disagree](#6-where-code-and-comments-disagree)
7. [What TLC refutes](#7-what-tlc-refutes)
8. [What is not modelled](#8-what-is-not-modelled)
9. [The plan](#9-the-plan)

`PROJECT.json` lists the components, the runs, the mutants that show that each
property can be broken, the source lines of every definition, the hazards and
the theorems.


## 1. The system

### State that is shared

| state | where | who writes it |
|---|---|---|
| `Position.lifecycle_state`, `quantity`, `total_realized_pnl` | `trading/models.py:143` | request, event stream, monitor, sync, reconciliation, closure service, DTE task, cancellation |
| `Position.profit_target_details`, `profit_targets_created` | same | event stream, `create_profit_targets_sync`, sync, reconciliation, DTE task |
| `Position.metadata` (`legs`, `original_quantity`, `profit_targets_creating`, `dte_automation`) | same | event stream, sync, DTE task |
| `Trade.status`, `broker_order_id`, `child_order_ids` | `trading/models.py` | request, event stream, monitor, sync, reconciliation, DTE task, cancellation |
| `TradingSuggestion.status` | `trading/models.py:428` | automated cycle, requests, execution |
| `TastyTradeOrderHistory`, `TastyTradeTransaction` | `trading/models.py:740` | order history, transaction import and linking |
| `TradingAccount` (token, primary flag) | `accounts/models.py:132` | OAuth views, every failed session |
| `HistoricalPrice` | `trading/models.py:627` | readers of prices, nightly task, watchlist, commands |
| buying power, quotes, option chains | Redis | whoever asks first |
| the stream managers of a user | memory of a container | consumers, automation, clean-up |
| orders and holdings | the broker | placements, cancellations, the market |

A Django `save()` writes every field of the object in memory, however old; a
`save(update_fields=[...])` writes the named ones.  Both occur, and much of what
follows hangs on which.  `metadata` and `profit_target_details` are JSON fields:
even a save with `update_fields` replaces all of what is in them.

### Components

**Order execution** (`services/execution/order_service.py`).
`execute_suggestion_async` refuses a suggestion whose contracts conflict with
open positions, creates a pending position and trade, places the order, then
stores its id in three more saves; on an exception it deletes both rows, the
trade first.  `create_profit_targets_sync` places targets one by one and saves
position and trade as its caller read them.  *Correct when* no working or filled
order is without a trade that knows its id, and no spread ever has two targets.

**Order event processing** (`streaming/services/order_event_processor.py`).
Each container that streams for a user calls `handle_order_event` for every
change of an order.  On the fill of an opening order it opens the position, runs
a position sync inside the handler, saves the trade, and creates the targets
under a mark in `metadata` that a row lock guards and that is void after five
minutes.  *Correct when* any number of deliveries, in any order, have the effect
of one.

**Order monitoring** (`trading/tasks.py`, `monitor_open_orders`, every five
minutes).  Asks the broker about every trade that is still open, stores the
answer, deletes the position of an expired order and creates targets after a
fill.  *Correct when* it completes what the stream missed and repeats nothing
that the stream did.

**Position sync** (`services/positions/sync.py`).  Fetches the order history and
the holdings, opens or closes positions that wait for an order, matches legs,
books the fills of profit targets, saves metadata, imports what it cannot match,
and closes positions that the account does not hold.  It runs every ten minutes,
after every fill, and on request.  *Correct when* each fill is booked once and
no position is closed that the account still holds.

**Trade reconciliation**
(`services/positions/lifecycle/trade_reconciliation_service.py`).
`reconcile_trades` and `fix_stuck_positions` repair trades and positions whose
order filled unnoticed; `fix_incomplete_profit_targets` asks the broker about
each target, books fills under a row lock, and places missing targets again.
*Correct when* running it at any time, next to anything, leaves the database no
worse.

**Reconciliation orchestrator** (`services/reconciliation/orchestrator.py`) with
**transactions**, **discovery** and **closure**.  Runs order history,
transactions, linking, discovery, sync, closures, `reconcile_trades`,
`fix_stuck_positions` and the target repair in this order; a failed phase does
not stop the later ones.  Nothing keeps two runs apart.  *Correct when* every
opening ends up as one row with its own transactions, and no row outlives what
the account holds.

**Order cancellation** (`services/orders/cancellation.py`).  Checks the order,
asks the broker to cancel, polls for the result, saves the whole trade and
archives a position that never opened.  *Correct when* an order that fills
during its cancellation counts as filled.

**DTE manager** (`services/positions/lifecycle/dte_manager.py`).  Once an hour,
for positions a few days before expiration: cancel open trades and targets,
place a closing order, retry the next day at a worse price.  *Correct when*
closing orders and targets never both take the same contracts, and no position
is forgotten.

**Automated trading** (`trading/services/automated_trading_service.py`) and the
**suggestions API** (`trading/api_views.py`), with the **risk manager**
(`services/risk/`).  Cycles and requests approve and execute suggestions against
one budget.  *Correct when* what is approved by both together fits the buying
power, no suggestion stays approved without anybody at work on it, and an
account opens at most one position a day.

**Strategies** (`services/strategies/`) and **market data**
(`services/market_data/`).  A report on the market is scored by each strategy;
the best one looks for strikes, prices its legs from the quote cache and writes
a suggestion with its risk.  *Correct when* stops stop, bull and bear are mirror
images, the order is the spread the strategy documents, and the risk is the most
it can lose.  Prices of the past are fetched from Stooq when stored ones are too
few or old.  *Correct when* what is stored suffices its readers and is corrected.

**Streaming** (`streaming/services/stream_manager.py`, `streaming/consumers.py`).
Per user one manager with its quote and order listeners, started, stopped and
restarted by consumers and automation.  **Quotes**
(`stream_subscription_manager.py`): a suggestion request subscribes its legs and
waits until all have fresh quotes.  *Correct when* nobody stops the stream of a
connected viewer, nobody waits for ever on a start that failed, what counts as
subscribed is sent and keeps within the limit, and nothing is priced from an old
quote (section 7 has what becomes of the last).

**Broker sessions and accounts** (`services/brokers/tastytrade/session.py`,
`services/core/data_access.py`, `accounts/`).  A session is created for each
task from the token of the primary row; a refused token marks every row of the
user.  *Correct when* a connected row is complete, one row is primary and only
refused tokens are marked (of these three only the first holds, section 7).

**Daily suggestion mail** (`trading/tasks.py`).  The symbols of a watchlist go
through one selector at once.  *Correct when* each is reported with its own
scores, which it is not (section 6).

**Notifications**, **pages**, **commands**, **lifecycle algorithms**,
**deployment**: see the components of `PROJECT.json`, each with why it is or is
not modelled.

### How they interact on one entry

```
 cycle or user ──approve──▶ execute_suggestion_async ──place──▶ broker
                                  │ saves id                    ▲   │
                                  ▼                             │   │ events, polls
 Position, Trade ◀── handle_order_event (each container), ──────┤   │
       │             monitor_open_orders, sync_all_positions, ◀─┼───┘
       │             reconcile_trades, fix_stuck_positions      │
       ├─ targets, created by whoever sees the fill first ──────┤
       │      their fills booked by sync or reconciliation      │
       └─ closing order of the DTE task ────────────────────────┘
              cancels the targets first
```

### What is hard about it

* *Stale rows.*  Full saves of rows that were read before seconds of network
  calls; JSON fields that are replaced as a whole; a list of holdings compared
  with positions that opened after it was fetched.
* *Several detectors of one fact.*  A fill is acted upon by up to five paths,
  each with its own test of whether it has been acted upon already.
* *Partial failure.*  A placement whose response is lost, a database error
  between placement and record, some targets accepted and others refused, a
  process that dies with its mark set, a phase that fails in the middle.
* *Ordering.*  The event of a fill may come before the order's id is stored; it
  does not come again.
* *Cancellation of coroutines.*  A start of a stream is cancelled between two of
  its assignments; a stopped task's `finally` runs when another one has started.
* *Limits.*  A budget computed from a cached buying power; subscriptions that
  make room for each other; prices that must stay within a width.
* *Liveness.*  Every path has early returns that leave the work to the others.
  Does somebody do it in the end?

Every such point has its line in the hazards of `PROJECT.json`.


## 2. The modules

| module | subject |
|---|---|
| `EntryFill` | one filled opening order, three kinds of detectors, the creation of the profit targets |
| `TargetFills` | the targets at work: fills, cancellations, booking, placing again |
| `FillLedger` | what every path that books fills promises: the abstract specification of `TargetFills` |
| `EntryOrder` | one opening order from the request to its end, and everything that moves position and trade along |
| `EntryAdmission` | which suggestions become orders: cycles and requests against one budget |
| `DteClose` | the hourly closing near expiration, next to fills, syncs and re-created targets |
| `ClosePrice` | the limit of that closing order, as functions |
| `AccountBook` | the reconciliation run: transactions, discovery, sync and closure against what the account holds |
| `UserStream` | start, stop, failure and clean-up of a user's stream |
| `QuoteFeed` | subscriptions, and the wait of suggestion requests for fresh quotes |
| `StrategyScores` | the market report, the score of every strategy, the selector's modes |
| `SpreadOrders` | from strikes to suggestion, order and targets |
| `PriceHistory` | the daily bars of a symbol, their readers and their writers |
| `BrokerLink` | account rows, tokens and sessions, with any number of requests for each view |
| `DailyMail` | one selector for several symbols at once |
| `SideBySide` | `StrategyScores`, `SpreadOrders` with `ClosePrice`, `PriceHistory` and `BrokerLink` side by side, one of them at work in a behaviour |
| `EntryFill_proofs`, `TargetFills_proofs`, `EntryOrder_proofs`, `EntryAdmission_proofs`, `DteClose_proofs`, `AccountBook_proofs`, `SideBySide_proofs`, `Streaming_proofs` | the theorems |
| `MCEntryFill`, `MCTargetFills`, `MCEntryOrder`, `MCEntryAdmission`, `MCDteClose`, `MCAccountBook`, `MCUserStream`, `MCQuoteFeed` | symmetry sets and set-valued constants for TLC |
| `MCSideBySide` | the markets, requests and quotes of `SideBySide` for TLC |

The modules of processes follow one scheme.  A process is a call of a handler or
task; `pc` says before which statement it stands.  Each database statement and
each broker call is one action, because between any two of them other processes
run; what happens between them in memory belongs to the action before or after.
On one event loop an action is what happens between two awaits.  What a process
read is kept per process, so that a full save can write it back.  The constant
`Failures` says which failures may happen, so that a run can tell what a property
depends on.  One position is enough in most: no statement of these paths reads or
writes the row of another position.  `EntryAdmission` and `AccountBook`, where
positions compete or are confused, have several.

### EntryFill

The opening order has filled.  `position` has the lifecycle, the created field,
the mark and, for each target, the recorded order id; `trade` its status and
`child_order_ids`; `placed` is what the broker accepted.  The processes:

* *Workers*, deliveries of the fill event.  `ReadTrade` to `SaveTrade` are
  `handle_order_event`, the sync it calls reduced to its load and its metadata
  save (`sync.py:1387`), which is what touches the mark.  `Acquire` is
  `acquire_lock_and_mark_in_progress` with its three checks under
  `select_for_update`; `Accepted` and `Refused` submit the specs;
  `SaveChildren`, `SaveDetails` and `ClearMark` are the three saves at the end.
  `LeaveEarly` stands for the early returns that leave the mark, `Abandon` for
  those that clear it, `MarkExpires` for five minutes passing.
* *Monitors*, passes of `monitor_open_orders` that reach the trade:
  `MonitorList` (the query), `MonitorPoll` (status and save), `MonitorFetch` (the
  position), `MonitorFind` (the trade, which `create_profit_targets_sync` reads
  anew) and later `MonitorOpen` (`_handle_order_fill`).
* *Fixers*, passes of `fix_stuck_positions`: `FixerList`, `FixerTrade`,
  `FixerOpen`.
* Both of these continue with `SavePosition`, `SaveWholeTrade` and
  `RecordChildren`: the end of `create_profit_targets_sync` and what its callers
  do after it.

`markLost` is a history variable: a mark expired, or a stale row overwrote it.

### TargetFills and FillLedger

A Senex Trident (two put spreads on the same legs and a call spread) with its
targets at work.  `orders` are the broker's; `history` is what the local order
history shows as filled; `position` has quantity, lifecycle, details, P&L count,
legs and original quantity; `counted` counts, for every order, how often its fill
took a contract off.  The broker fills an order only while the account holds a
spread of that kind.

* *Syncs* run `sync_all_positions`: `SyncOrders`, `SyncHoldings`, `SyncLoad`,
  `SyncQuery` (leg matching, and the query for fills not booked yet),
  `SyncRefresh` and `SyncBook` (the two halves of `_update_position_atomic`: a
  transaction, but no lock), `SyncMeta`, `SyncList` and `SyncClose`.
* *Fixers* run `fix_incomplete_profit_targets`: `FixList`, `FixFresh` (its
  guards), `FixKeep`, `FixDrop`, `FixSeesFill` for each target by what
  `get_order` says, `FixBook` (`_process_filled_profit_target`, one atomic step
  because it locks the row), `FixDecide` (which spreads are missing),
  `FixPlaces` and `FixRefused`, `FixSave` (the full save of the row listed at
  the start, with the details replaced).
* Processes in `Alone` run while no other is at work, as the phases of one
  orchestrator run do; the others overlap freely.

`FillLedger` has three variables: the booked spreads, the quantity, the
lifecycle.  A step books a non-empty set of spreads not booked before, or closes
the position.  The instance `Ledger` in `TargetFills` maps `booked` to the
spreads whose entry is marked filled; `BooksLedger` is the property that every
behaviour of the services, seen through that mapping, is one of the ledger.

`_find_existing_live_order_for_spread` should keep a spread from getting a second
order.  It uses `sync_to_async`, which is not in its scope; the `NameError` is
caught (`trade_reconciliation_service.py:1412`) and the function returns nothing
every time, which is what `ExistingOrder` says.

### EntryOrder

One opening order.  `request` is where `execute_suggestion_async` stands;
`order`, `listed` and `history` are the order at the broker, whether it is still
in the list of live orders, and its row in the order history; `position` is the
lifecycle (`"none"` without a row) and `trade` the trade's id and status.

* The request: `CreateRecords`, `PlaceOrder`, `FinalizePosition`,
  `FinalizeTrade`, `MarkExecuted`; `NotPlaced`, `SaveFails` and a lost response
  lead to `DeleteTrade` and `DeletePosition`; `Dies` may happen anywhere.
* *Handlers*: one listener for each container.  `Hear` takes the next change of
  the order, once each and in order, ignoring orders no trade knows; `HearFill`,
  the sync actions, `HearEnd`, `HearSave` are the handler.  `Miss` is a change
  while the stream is down.
* *Workers*: Celery workers, each of which takes up one task at a time:
  `Monitor*`, `Sync*`, `Reconcile*`, `Stuck*`, `Cancel*`.

Saves with `update_fields` of a row that is gone raise; a full save of a position
that is gone writes it anew, a full save of a trade whose position is gone
violates its foreign key.  The creation of targets is `EntryFill`'s subject; here
a process that gets there either saves what it read, or finds nothing to do.

### EntryAdmission

*Cycles* and *requests*, each of which places at most one order, over
suggestions with a risk and a set of contracts.  `cached` is the buying power in
the cache or a recent snapshot; `working` the orders the local history lists;
`local` what an actor read and has not used yet.

* A cycle: `CycleStart` (stale positions found), `CycleCancel`, `CycleCheck`
  (a position of today), `CycleSuggest`, `CycleApprove`.
* A request: `RequestRead`, `RequestApprove`, `RejectSave`.
* Both go on with `ExecCheck` (conflicting contracts, automation's budget),
  `ExecSubmit`, `ExecFinish`; an error is `GiveBack`, which makes the suggestion
  pending again.
* The budget of both is read in three steps with awaits between them:
  `ReadCapital` (buying power, cached or fetched), `ReadManagedRisk` (the risk that
  is added to it) and `CheckBudget` (the used risk, and the verdict).
* `GetRiskBudget` and `ValidateTradeRisk` are those who only look, and leave
  the buying power in the cache; `Forget` ends a cache entry; `Order` is what
  becomes of an order.

`blind` is a history variable: an order was placed on a budget that was out of
date, or whose parts were read at different moments.

### DteClose and ClosePrice

One position from a few days before expiration on.  `row` is the position with
its DTE state and its targets, `trade` the closing orders' rows, `order` every
order at the broker.  The task is `Load`, `Skip`, `GiveUp`, `Proceed`,
`CancelTrade`, `TradesCancelled`, `CancelTarget`, `UpdateTarget`, `CreateTrade`,
`Place`, `PlaceFails`, `SaveTrade`, `SavePosition`, `CountRefusal`; `Crash` ends
it anywhere.  Beside it: fills and their recording, a sync that writes back the
metadata it read (`SyncRead`, `SyncSave`), and the reconciliation that lists the
row, finds a target missing, places it again and saves the whole row as it was
listed (`FixRead`, `FixPlace`; the placement and the save are one step).  What the
task or a fill wrote in between is lost.  `stray` and `left` are history: closing orders and targets that a lost answer, a failed cancel or a
re-creation explains.

`ClosePrice` is `_determine_close_parameters`: the share of the loss that is
accepted each day, the floor above the cancelled targets, and the rounding.
Prices are hundredths of a cent until they are rounded, so percentages are exact.

### AccountBook

What the broker booked (`tape`), the imported transactions with the row each is
linked to (`ledger`), the rows (`row`, in the order in which they were `made`),
and what the account holds, derived from the openings and closings.  `todo` and
`hold` are what a worker has listed, and what it has read of one item and will
save: between a read and its save everybody else may run.  *Runs* are
`batch_sync_data_task` with its phases in order:

* `SyncOrderHistory`;
* `ImportFetches`, then for each transaction `ImportReads` and `ImportSaves`, which
  writes the whole transaction back with the link that it had when it was read;
* `LinkLists`, then for each unlinked transaction `LinkFinds` and `LinkSaves`, then
  `LinkEnds`;
* `Discover`;
* `SyncFetch`, `SyncApply`;
* `CloseFetch` (the symbols held), `CloseLists` (the rows without any of them), then
  for each row `CloseReads` and `CloseSaves`, which saves the whole row as listed.

Phases that fail are `ImportFails`, `SyncFails`, `CloseFails`.  *Syncs* run
`sync_all_positions` by themselves.  `Trading` is the market and the user:
orders of the application and at the broker, fills, closings by hand, by targets
and by the DTE task, expirations, assignments.  Whether a row still names the
target or the closing order that a transaction belongs to is left open (`Named`,
`Reasons`): rows saved whole and details replaced as a whole forget ids.

### UserStream and QuoteFeed

`UserStream`: the managers of one user in one container, the streaming tasks
each created, who holds the two locks, and where each *viewer* (a WebSocket
connection), *starter* (`ensure_streaming_for_automation`), *remover*
(`remove_user_manager`) and *cleanup* (`_delayed_cleanup`) is.  `Start*` are
`start_streaming`, `Stop*` `stop_streaming` with its three closings after the
lock is given back, `Stream*` the body of `_run_streaming` up to its `finally`.

`QuoteFeed`: one connection after another, what the broker sends on it
(`feeds`), what the manager believes is subscribed (`subscribed`, `lapsed`), the
events that are registered (`pending`) or set (`rung`), and the quote cache.
`Asks`, `Subscribes`, `SubscribeFails`, `Looks`, `WaitEnds`, `WaitTimesOut` are a
suggestion request until its legs are answered; `Prices` comes some awaits later
and reads the cache again; `QuoteArrives` and `Signal` the two halves of
`_handle_quote_event`.

### StrategyScores, SpreadOrders, PriceHistory, BrokerLink, DailyMail

* `StrategyScores`: `Report` is the market analysis with its stress level,
  regime and hard stops; one operator for the score of each strategy; `Auto`,
  `Top`, `Forced` and `AskTrident` are the selector's modes.  A pick is a set of
  strategies, the `n` best of those with 30 points or more (`Best`).  Technical
  indicators are inputs: what their values decide is modelled, not how they are
  averaged.  The last daily close and the live quote are two inputs: signals are
  those of closes, some scores add the price of the moment, and the two may lie
  on different sides of the average.
* `SpreadOrders`: `Prepare` searches the chains for strikes and an expiration,
  `Suggest` prices the legs and computes the risk, `Execute` builds the opening
  order, `PlaceTargets` the three targets of a Trident.
* `PriceHistory`: three readers, the evening task, the watchlist's first load
  and two commands, on days that begin, close and are skipped.
* `BrokerLink`: any number of requests for the OAuth callback, the selection of a
  primary account and the disconnection, each as read, work and two-statement
  save, next to sessions and tokens that the broker ends.  Two requests for the
  same view overlap as well.
* `DailyMail`: the symbols in one selector, of which so many at once.

The first four share no state in the code.  `SideBySide` extends `BrokerLink`, has
an instance of each other one and of `ClosePrice`, and lets one of them run in each
behaviour, so that one run of TLC checks them all and one module holds the proofs
about them; `MCSideBySide` gives it its markets, requests and quotes.  `DailyMail`
has a run of its own.


## 3. The runs

Each property of a run without error has a mutant in `PROJECT.json`: a plausible
slip in a definition that makes TLC find it violated under the same configuration.

| run | instance | distinct states | properties |
|---|---|---|---|
| `EntryStream` | 2 deliveries, 3 targets, every failure | 211,458 | `TypeOK` `OneCreator` `CreatedMeansComplete` `CreatedEndsPlacing` |
| `EntryAll` | a delivery, a monitor, a fixer, 2 targets, no failures | 154,672 | `TargetsAligned` `EntrySettles` |
| `FillsAlone` | a sync and a reconciliation in turn; cancellations, lost answers, refusals; 4 orders | 581,276 | `TypeOK` `BookedIsFilled` `ClosedIffEmpty` `ClosedMeansFlat` `CountedOnce` |
| `FillsLive` | a sync alone, two overlapping reconciliations, partial creation | 573,865 | `BooksLedger` `EventuallyClosed` |
| `OrderLife` | a listener, a worker; every failure but `early` | 198,177 | `OpenMeansFilled` `PlacedIsKnown` `EntryResolved` `FillRecorded` |
| `UserStream` | 2 viewers, a starter, a remover, a cleanup; 2 managers, 2 tasks | 3,945,439 | `ConnectingIsOwned` `CleanupSparesViewers` |
| `QuoteFeed` | 3 symbols, 2 requests, a limit of 2, one connection | 5,249,623 | `FirstStreamFeeds` `WithinSubscriptionLimit` |
| `Admission` | 2 overlapping cycles, a request, 2 suggestions, 2 accounts | 7,783,948 | `NeverOvercommitted` `StaleOrdersGone` `ApprovedIsInHand` |
| `DteClose` | 1 target, 3 closing orders, 2 days, a fault, a sync | 4,331,371 | `OneClosingOrder` `TargetsStayReplaced` `NotForgotten` |
| `BookLive` | 2 orders, 1 contract, a run whose calls fail | 368,233 | `OpeningsAreFound` `GoneIsClosed` `HeldIsShown` |
| `SideBySide` | four parts, see below | 3,048,405 | `PicksFit` `WithinRisk` `TargetsUndoTheOrder` `ClosingRises` `ReadyForReaders` `ConnectedIsComplete` `HolesAreOutages` `LastBarSettles` |
| `MailScores` | 3 symbols, 2 at once | stops at the violation | `ScoresAreOwn`, violated (section 6) |

What they show:

* `EntryStream`: the mark does its work.  Unless it expires or is wiped, one
  delivery at a time creates targets; a position that says its targets are
  created has an own order under each spread; and nobody places another target
  once it says so.
* `EntryAll`: with all three detectors on one fill, recorded ids stay with their
  spreads and the entry settles, although `create_profit_targets_sync` may put
  `pending_entry` back after somebody opened the position.
* `FillsAlone`: services that take turns book only real fills, none twice,
  whatever is cancelled, unanswered or refused, and a closed row means that the
  account holds nothing of the position.
* `FillsLive`: overlapping reconciliations with syncs between them implement the
  ledger (this is what the row lock and the second look under it are for), and a
  position whose targets all filled is closed.
* `OrderLife`: no position is open whose order did not fill, and no stored id of
  an order that works or filled is lost.  When the request fails anywhere, events
  are lost and queries fail now and then, the periodic tasks still resolve every
  entry and record every fill.
* `UserStream`: "connecting" is never left standing without somebody who will
  replace it, unless automation's time-out cancelled a start; a cleanup never
  stops the stream under a connected viewer.
* `QuoteFeed`: on the first connection nobody counts a symbol as subscribed that
  is not; through evictions, expiry, failures and drops no more symbols count as
  subscribed than the limit allows.
* `Admission`: unless an order was placed on an outdated budget, what is held
  against an account never exceeds its capital; a cycle goes on only after the
  stale orders it saw are gone; an approved suggestion is in somebody's hands.
* `DteClose`: two closing orders work at once, or a closing order beside a
  target, only where an answer was lost, a cancel failed or a target was placed
  again; and again and again the position is flat, a closing order works or is
  refused, or the retries of the day are used up.  Refusals may go on without a
  limit, because the reconciliation may take their count back each time.
* `BookLive`: the transactions of every opening find the row of its order, no row
  stays open when nothing is held, and what is held is among the legs of an open
  row, unless the application has a row in that underlying.
* `SideBySide`: stops stop, picks fit the rank of volatility and the regime (in a
  bull regime one of the three best may need a fall, but only while the live quote
  is not above the average), bull and bear credit spreads are mirror images; strikes keep their order, the risk is the most a
  position can lose, targets undo the order and its closing limit rises from day
  to day; readers are answered from good rows, and holes and uncorrected bars
  come only from outages; a row with a token names an account and is active,
  although overlapping requests save whole rows over one another.
* `MailScores`: a symbol whose suggestion took longer is reported with the scores of
  another.

### Bounds, and why they are enough

* *Processes.*  The races here are between a process with an old row and one
  that changed the row since; two of a kind, or one of each, show them.  Where
  it matters most the number is not a bound any more, because the property is
  proved (section 5).
* *Targets.*  Three is what a Trident has; where two kinds of processes meet, two
  are enough to tell a set from its prefix and one spread from the next.
* *`MaxOrders`*, the orders ever placed for one position: three without
  replacement; four let one target be replaced while two others are at work.
* *`DteClose`*: three closing orders on two days, with a retry limit of two, so
  that the limit is reached and a new day begins with an order that still works.
* *`MaxManagers`, `MaxStreams`, `MaxEvents`*: a second manager after a removal, a
  second task after a stop, a second event for a symbol.  `MaxConnections` is 1,
  since what is fed holds of the first connection only.
* *Markets and requests*: values on both sides of the thresholds where they
  change what is picked, more values of the rank of volatility in trends, and calm
  markets for the stops (the theorem of section 5 is about every market); chains from every strike to none; quotes
  that are narrow, wide, missing, and where the long leg costs more.
* *`BrokerLink`*: two rows and two accounts, two callbacks that may overlap, one
  selection, one disconnection, one session at a time; two grants, of which one may end.
* *Days*: five weeks with a holiday, absences of 3 and 25 days, shorter and
  longer than each reader's window.
* *No bound on repetition*: syncs, reconciliations and tasks of a worker run
  again and again; a handler hears an order's two changes once each.

Alike processes are declared symmetric in runs that check only safety.
`CHECK_DEADLOCK FALSE` everywhere: these systems really stop, when all
deliveries are done, the position is closed, or a bound above is reached.

Every module has a `TypeOK` that may be added to any of its configurations
(`TypesOK` in `SideBySide`).  `OrderRace.cfg` is a larger instance of
`OrderLife`'s safety properties: two workers, 3,167,616 states, no error.  To
run one: `tlc -config OrderRace.cfg MCEntryOrder`.


## 4. Fairness

The specifications with fairness assume of the code only what asyncio and Celery
provide.

* *What has started runs on*: weak fairness of each process's next step
  (`ProcStep` in `EntryFill`, `SyncStep` and `FixStep` in `TargetFills`,
  `Continue` and `Request` in `EntryOrder`, `Task` in `DteClose`, `Work` in
  `AccountBook`).  A coroutine or a task that can go on does so; crashes are
  actions without fairness.
* *Beat queues tasks again and again* (`senextrader/settings/base.py:150`:
  `monitor_open_orders` every five minutes, `batch_sync_data_task` every ten,
  the DTE task every hour).  A worker is busy with one task at a time, so being
  free for a given one is not continuous: `EntryOrder` therefore assumes strong
  fairness of taking up the sync and the two repairs, over all workers and for
  none in particular.
* *A query that is made again and again is answered in the end*: strong fairness
  of the answered queries of the sync in `EntryOrder`, and of the import and both
  fetches of holdings in `AccountBook` (`ImportFetches`, `SyncFetch`, `CloseFetch`).  Without it, nothing that depends on the
  broker need ever happen.
* *Days pass* (`WF_vars(DayPasses)`), so that an order that is over leaves the
  broker's list.  Fills of `DteClose` are recorded in the end (`Recording`): the
  monitor does this every five minutes.
* *Nothing else.*  No fairness for fills, cancellations, the delivery of an
  event, or what a user does.


## 5. The proofs

| theorem | says | provided that |
|---|---|---|
| `EntryFill_proofs!TypeCorrect` | `Spec => []TypeOK` | |
| `EntryFill_proofs!MutualExclusion` | `Spec => []OneCreator` | |
| `EntryFill_proofs!AlignmentWithoutRefusal` | `Spec => []TargetsAligned` | no failure `reject` |
| `EntryFill_proofs!CreationEndsPlacing` | `Spec => CreatedEndsPlacing` | no pollers |
| `EntryFill_proofs!CreatedIsComplete` | `Spec => []CreatedMeansComplete` | no pollers |
| `EntryFill_proofs!OneOrderPerSpread` | while no mark is lost, `OneSetOfTargets` | no pollers, no failure `reject` or `raise` |
| `TargetFills_proofs!TypeCorrect` | `Spec => []TypeOK` | |
| `TargetFills_proofs!ClosedExactlyWhenEmpty` | `Spec => []ClosedIffEmpty` | |
| `TargetFills_proofs!OnlyFillsAreBooked` | `Spec => []BookedIsFilled` | |
| `TargetFills_proofs!ServicesKeepTheLedger` | `Spec => BooksLedger`, the refinement | syncs alone, no failure but `partial` |
| `TargetFills_proofs!LedgerAddsUp` | in `FillLedger` the quantity is what the booked fills leave, and a row is closed exactly when empty | finitely many contracts |
| `TargetFills_proofs!LedgerKeeps` | `FillLedger` never takes a fill back | |
| `EntryOrder_proofs!TypeCorrect` | `Spec => []TypeOK` | |
| `EntryOrder_proofs!OnlyFilledOpens` | `Spec => []OpenMeansFilled` | |
| `EntryOrder_proofs!PlacedStaysKnown` | `Spec => []PlacedIsKnown` | no failure `early` |
| `EntryAdmission_proofs!TypeCorrect` | `Spec => []TypeOK` | |
| `EntryAdmission_proofs!NoOvercommitment` | `Spec => []NeverOvercommitted` | |
| `EntryAdmission_proofs!StaleOrdersAreGone` | `Spec => []StaleOrdersGone` | |
| `EntryAdmission_proofs!ApprovedOnlyInHand` | `Spec => []ApprovedIsInHand` | |
| `DteClose_proofs!TypeCorrect` | `Spec => []TypeOK` | |
| `DteClose_proofs!NeverTwoClosingOrders` | `Spec => []OneClosingOrder` | |
| `DteClose_proofs!ClosingReplacesTargets` | `Spec => []TargetsStayReplaced` | |
| `AccountBook_proofs!TypeCorrect` | `Spec => []TypeOK` | |
| `AccountBook_proofs!OpeningsStayHome` | the transactions of an opening are linked to the row of their own order or to none | |
| `Streaming_proofs!ConnectingHasAnOwner` | `Spec => []ConnectingIsOwned` | |
| `Streaming_proofs!CleanupLeavesViewers` | `Spec => CleanupSparesViewers` | no failure `slow` |
| `Streaming_proofs!FeedTypeCorrect` | `FeedSpec => []FeedTypeOK`, where `FeedSpec` is the `Spec` of `QuoteFeed` | |
| `Streaming_proofs!LimitIsKept` | `FeedSpec => []WithinSubscriptionLimit` | |
| `Streaming_proofs!FirstConnectionFeeds` | `FeedSpec => []FirstStreamFeeds` | finitely many symbols |
| `SideBySide_proofs!ConnectedRowsAreComplete` | `SpecOfOne => []ConnectedIsComplete` | |
| `SideBySide_proofs!PicksFitEveryMarket` | `SpecOfOne => []PicksFit` | |
| `SideBySide_proofs!RiskIsEnough` | `SpecOfOne => []WithinRisk` | |
| `SideBySide_proofs!RiskAtAnyPrice` | the same at every price of the underlying, not only where the position's value turns | |
| `SideBySide_proofs!TargetsUndo` | `SpecOfOne => []TargetsUndoTheOrder` | |
| `SideBySide_proofs!ClosingOffersMore` | `SpecOfOne => []ClosingRises` | |
| `SideBySide_proofs!CreditLimitRises` | a credit spread's limit rises day by day, up to its width | the entry credit is at most the width; no targets |
| `SideBySide_proofs!DebitLimitFalls` | a debit spread's limit falls day by day, and is never negative | no targets |
| `SideBySide_proofs!ReadersAreServed` | `SpecOfOne => []ReadyForReaders` | |
| `SideBySide_proofs!HolesComeFromOutages` | `SpecOfOne => HolesAreOutages` | |
| `SideBySide_proofs!LastBarIsSettled` | `SpecOfOne => LastBarSettles` | |

They hold for every set of processes, every subset of the failures, any number
of targets, orders, rows, symbols or contracts, and whatever the bounds of the
runs are.  Together they cover every safety property of the runs without error but
`CountedOnce` and `ClosedMeansFlat`, which are about services that take turns
(`CountedOnce` is refuted of others, section 7).  What a theorem needs beyond the assumptions is in the last column, and
section 7 has the counterexamples that show why.  The assumptions are the named
ones of the modules:

* kinds of processes are disjoint, `Failures` is a subset of `FailureKinds`,
  there is at least one target, `MaxOrders` admits the first orders;
* `BookAssumption`: there are finitely many orders and underlyings;
* `LinkAssumption`: ids of account rows are positive, begin with 1 and are
  finitely many, a request is for one view, and `None` is neither a row nor a number;
* `MarketAssumption`: a market is one of `Fetchable`, whose indicators range over
  all numbers; at most three suggestions are asked for (the mails ask for one or
  two, and three is the selector's default); prices, strikes and quotes are whole cents that are not
  negative, and nobody bids more than is asked;
* `CalendarAssumption`: holidays are weekdays, at most five in 47 days and six in
  ninety.  From Thanksgiving to Presidents' Day there are five; the closures of
  September 2001 reach both numbers.

TLC evaluates all of them on the instances of the runs.

The arguments, module by module.

**EntryFill.**
* *Types.*  `TypeOK` is inductive because it also says that a process that has
  tried every target is past its submissions; otherwise `next` could leave its
  range.
* *Mutual exclusion.*  That two workers never create together is not inductive:
  nothing in it says why a third could not come in.  `MarkOwned` does: while no
  mark is lost, none has expired and the mark is that of every worker between its
  acquisition and its clean-up.  Two such workers would both be the one in the
  mark.  Every save of a position is a `WritePosition`, and one that changes the
  mark sets `markLost`; this is where stale saves are dealt with.
* *Alignment.*  `AllAligned` extends the property to the rows in memory and to
  the ids gathered by pollers; `GatheredInOrder` says that, with nothing refused,
  the i-th id a worker gathered is of an order for the i-th target.  The second
  is exactly what a refusal breaks.
* *Completeness.*  Each worker's ids are of orders for the targets before its
  `next`; if it counts none as missing they are in order and one for each; and
  once the row says created, no creator is left who could write anything else.
* *One order per spread.*  `OneCreation`: while no mark is lost, whatever was placed
  either counts as created in the row, or is the work of the worker in the mark, who
  has only the targets from its `next` on left to place.  A refused order or a
  creation that raises leaves orders at the broker and neither mark nor flag, and
  the next delivery places again.

**TargetFills.**
* *Closed when empty.*  Rows in memory are saved later, so the invariant
  `RowsAgree` says the same of each of them.
* *Only fills are booked.*  `FillsAreReal`: the row, the row in every process's
  memory, the local history and the fills a sync has seen are all about orders
  that filled, and a fixer about to book stands at a target whose order filled.
  `FilledStays` makes it stable: what is filled stays so.
* *Counting.*  `Apart`: every sync runs alone, and so does every reconciliation
  unless nothing can be cancelled, refused or left unanswered.  `Exclusive`: who
  runs alone has nobody beside him.  `PlacesAlone`: where services overlap no
  target is ever missing (`NothingMissing`), so none is placed anew.  `RowCounts`,
  of the row and of every copy that will be written: no order counted twice, only
  filled ones counted, the booked entries are those counted, the quantity and the
  counted together cover all contracts, closed means that all filled.
  `SyncKnows` and `FixKnows` say what a service between a read and the write that
  rests on it knows.  All of this serves the refinement.
* *The refinement.*  `Exact`: the quantity is exactly what the booked entries
  leave while the row is open.  With it, `SyncBook` and `FixBook` book spreads
  not booked before, the closing by the sync is the ledger's closing, and every
  other step changes none of the ledger's three variables, although many of them
  write the whole row.  A fixer's full save of old details is harmless because
  the only fixer that comes to it runs where no one else has booked since.
* *The ledger.*  `LedgerInv` with the arithmetic of one booking in
  `BookingAddsUp`, on the library's facts about cardinality.

**EntryOrder.**
* *Open means filled.*  `OpenIInv`: types; if the row says open or the history
  says filled, the order has filled (`RowsSound`); and for each process (`Sound`)
  the same of the rows it holds, of the answer it acts on, and of its place when
  that is a statement that opens positions.  A filled order stays filled, so what
  a process knew when it decided is still true when it writes.  Lemmas on
  `MoveWith` and its short forms carry this from step to step.
* *Placed is known.*  `KnownIInv`: once the request has stored the id, every
  copy of the trade that somebody may still save in full was read with it
  (`Informed`), and who may still delete the trade does so knowing that the order
  is over.  A cancellation before the id is stored has a copy without it; hence
  "no `early`".

**EntryAdmission.**  The types are inductive together with where each actor can be.
`Sent`: an actor has an order only once it has left its
submission, so no order that is over comes to life again. `Handled` says that a
cycle past its cancellations has dealt with each stale order it saw; `InHand`
says who works on an approved suggestion: somebody who has come to its
execution, and there nobody takes up another one.

`Money` is why nothing is overcommitted.  An actor between its check and its
order is `Covered`: unless `blind` or a change of risk between its two reads
explains it, its suggestion risks no more than the buying power that it read.  The
broker's buying power at the submission is what the orders of the account leave,
so an order on a budget that is not outdated fits beside them.  `RiskOf`, the sum
of the risks of a set of actors, is the number of their dollars, a set of pairs;
`SumAdds` and `SumOfFewer` then follow from the cardinality of a union, and no
induction over a fold is needed.

**DteClose.**
* `OneAtATime`: a working closing order of which no answer was lost is
  "submitted" in its row, or just placed with its row about to say so.  The task
  cancels what its rows call submitted before it places the next; if it dies
  between placing and saving, the order counts among those of lost answers.
* `NotYetReplaced`: a target that works beside no explanation is in the row and
  in the running task's copy of it, still before the loop that cancels it, and no
  closing order works.
* `Undecided`: a row that the reconciliation listed had no DTE state, so what it
  writes back over the task's work is among the targets that this explains.

**AccountBook.**  Links may be lost: of two runs that overlap, one saves the whole
transaction that it read before the other linked it.  What holds nonetheless is where
an opening can be linked: the search by order comes before any by symbol (`Homes`),
rows are never lost, and a link that is written back was once the link of the same
transaction.  `LinkedHome` says it of the ledger, `Items` of everything that a
worker has listed or read and will save: in the import a link as it was read, in the
linking the row that was found, in the closure a copy of a row.

The types rest on the list of the rows in the order in which they were made
(`Listed`): it has no name twice, so it is no longer than there are names, and it
never loses one; a closed row is a row.

**UserStream and QuoteFeed.**
* *Connecting is owned.*  `Shape` is the typing with who can be where.  The owner
  of a state "connecting" is the holder of the session lock between two of its
  assignments, or a task in its early steps.  `OwnersStay` is a frame lemma: a
  step that takes no owner away keeps the property; only steps of owners
  themselves then need an argument, and each of them replaces the state or hands
  it on.
* *Cleanup spares viewers.*  `OneSweep`: of the delayed cleanups at most one is
  not cancelled.  `NobodyWatches`: a cleanup that has come to its stop has no
  channels before it and nobody connecting, since an arrival cancels it.  Only
  who connects for longer than the grace period escapes this (`slow`).
* *Types and limit.*  `WithinLimit`: nothing is on the list twice, and a request makes
  room in the order of the code, the expired first, then the oldest, before it adds
  symbols of which none is still there.
* *Subscribed is fed.*  `FeedShape`: the connection in use is the last one, there
  is nothing subscribed before the first, and who subscribes does so on a
  connection that exists.  With it, each step
  on the first connection keeps what is fed or asked for: what makes room for
  others leaves the list of subscriptions and goes on being sent, and a request
  subscribes all that it put on the list.

**BrokerLink.**  `LinkInv`: every row is complete, and so is the copy of every request
that has come past the list of its accounts (`Whole`); what an unconfigured row is
saved with before the exchange has no token.  A save in two statements, the flag that
others lose and the mark of a refused token change none of the three fields
(`FlagsFit`), and a request that fails half-way saves nothing more (`RequestFits`).
That others saved the row meanwhile does no harm: the copy replaces all three
fields together, and this is the point of the property.

**StrategyScores.**  Markets are not enumerated: every indicator ranges over all
its values.  `ScoresInv` says that the report is that of the market and that a pick
is among the best.  The argument is about the seventeen scores.
* Tables of thresholds are evaluated row by row (`OneRow` and the lemmas named
  `...Rows`); `Reads` collects what a report that lets trade says: how signal,
  price, trend, band, regime and stress go together (`ReportIsTraded`).
* A strategy that does not fit is outdone (`Loses`): case by case on the signal,
  there is another one that scores more, whatever the remaining indicators are.
  `OutdoneInBull` and `OutdoneInBear` are about the regime, `SecuredPutOutdone`,
  `CalendarOutdone` and their neighbours about single strategies.
* `NotTheBest` and `NotAmongThree` turn this into what is picked: who is outdone by
  one is not the best, who is outdone by three is not among three.  This is where
  the limit of three suggestions is used, and why the pick is a set of the best and
  not one of them: `Best` breaks ties by priority.

**SpreadOrders.**  Of the search, that what is found exists and keeps the order of
the targets (`FoundInOrder`); a nearest strike exists because a set of naturals has
a least element, by the library's well-founded induction.  `Fits` says per strategy
what its strikes are, `Offered` what the suggestion makes of them, and `SpreadsInv`
that order and targets are those of the suggestion.
* *Risk.*  `LossIsBounded` bounds the worth of each position at any price of the
  underlying from below.  Its proof fails where a chain has no strike at the width and
  the next one is farther out; `AsNarrow` names that condition.  What the bound
  leaves is the risk (`RiskIsGreatestLoss`).
* *Targets.*  `TargetsOfTrident` counts the legs of the three targets against those
  of the order, leg by leg, and bounds each target's price by what was paid.

**ClosePrice.**  The limits are monotone because every step of the formula is: the
share by day, the percentage, the two roundings, the bounds.  With cancelled targets
there is a floor of 110 % of each of their prices; `TargetsAreCheaper` says that for a
Trident it is below the entry price and so decides nothing.  This needs a call spread
that was not quoted for less than nothing, as an attempt without that condition
showed.

**PriceHistory.**  `Elapsed` counts sessions by arithmetic on weeks;
`ElapsedCounts` shows that it counts those of any stretch, by the shortest stretch
on which it would not.  `Stretch` bounds the sessions of a stretch from both sides.
* *Readers.*  85 rows reach back beyond ninety days, rows without holes contain all
  sessions of a reader's window, and the windows of 33, 47 and 89 days have 18, 28
  and 57: exactly what the readers accept with six holidays.
* *Holes and last bars.*  Every step is one of six kinds (`StepKinds`), most of them
  `StoredFrom` some day on.  Such a step can leave a hole only between the newest row
  and that day, and `Needed` counts the sessions there are after any day before it.
  Nineteen for holes and eighteen for last bars are what the count gives.

### What stays with TLC

* *Liveness*: `EntrySettles`, `EventuallyClosed`, `EntryResolved`, `FillRecorded`,
  `NotForgotten`, `OpeningsAreFound`, `GoneIsClosed`, `HeldIsShown`.  The prover does not reason
  about fairness and `ENABLED`.
* *Services that take turns*: `CountedOnce` and `ClosedMeansFlat`.
* *Types*: `TypeOK` of `UserStream` and of the parts of `SideBySide`; the invariants
  above contain what they need of them.

No module declares a `RECURSIVE` operator.


## 6. Where code and comments disagree

* "We use select_for_update() and a metadata flag to ensure only one process can
  create profit targets for a given trade" (`order_event_processor.py:536`).  The
  poller checks `profit_targets_created` without a lock (`tasks.py:334`) and then
  uses a function that knows neither flag nor lock: each spread gets two orders
  (`EntryTwoPaths.cfg`).
* "using actual order_ids where we have them" (`order_event_processor.py:764`).
  The list of accepted ids is indexed by the position of the spec; after one
  refusal later ids go to the wrong spreads, and their fills are booked against
  the wrong credit.
* "Replace all since we validated" (`trade_reconciliation_service.py:769`).
  Placing one cancelled target again saves the row as listed before this run
  booked its fills, and takes the booking back.
* "Close local positions that don't exist at broker" (`sync.py:816`).  The
  holdings were fetched at the start of the sync; a position that the stream opens
  meanwhile is not among them and is closed.  Nothing reopens it
  (`OrderWrittenOff.cfg`).
* "if order succeeded, AlertStreamer will detect it" (`order_service.py:456`).
  Events of orders that no trade knows are ignored
  (`order_event_processor.py:205`), and the trade has just been deleted.
* "Only opens ONE position per day" (`senextrader/settings/base.py:206`).  A
  pending entry is not a position of today, and not yet stale either: the next
  cycle opens another (`AdmissionPerDay.cfg`).
* "For each symbol, evaluates all strategies and returns the BEST strategy with its
  score" (`trading/tasks.py:852`).  The selector is one for all symbols and keeps the
  scores of the last one in an attribute (`selector.py:615`), which a symbol reads
  after it has waited for its suggestions (`selector.py:751`): it is ranked and
  mailed with the scores of another (run `MailScores`).
* "2 spreads open (1 filled) → Cancel 2 remaining targets, close 2 spreads"
  (`DTE_MANAGEMENT_PATTERN.md:91`).  The closing order has the quantity that was
  opened, for the puts and again for the calls, also when targets have taken a part
  or the previous closing order has just filled (`DteOverclose.cfg`).  The same
  document speaks of three retries for each level (`:163`) and
  of one pass for each level (`:159`); a success resets the count and a failure
  passes again.  Its prices "progressively escalating" (`:5`) fall for a Trident,
  whose entry price, the credit of three spreads, exceeds the width; and the floor
  of 110 % of a cancelled target can make the first limit higher than the next
  day's.  The comments on debit positions, 70, 50, 20 %, belong to a code that
  says 30, 20, 10.
* Every closed position is to have its profit calculated for its reason
  (`PNL_CALCULATION_ARCHITECTURE.md:15`).  The sync's phase comes first and closes
  by underlying, with neither; the closure then no longer finds the row open.  It
  closes a row without legs while its spread is held (`BookCloses.cfg`).
* "Neutral to bullish outlook" (`cash_secured_put_strategy.py:6`): the cash-secured
  put, which needs the price not to fall, may be suggested in a bear regime
  (`ScoresTrend.cfg`).  A long straddle may be picked where the rank of volatility
  says "VERY EXPENSIVE, avoid buying options" (`straddle_strategy.py:143`): the
  penalty is one of several terms.
* A put backspread is "Ratio: 2:1 (buy 2, sell 1)" in its strategy
  (`put_backspread_strategy.py:11`) and two bull put spreads in its order
  (`order_service.py:646`, `SpreadsOrder.cfg`).
* "Fills gaps automatically" (docstring in `tasks.py`): a hole that an outage
  longer than a reader's window left is never filled; nor is the partial bar at
  the window's edge corrected.  "Returning insufficient DB data as fallback"
  (`service.py:99`) never happens.
* Scores are documented as 0 to 100 and go above; dividends and earnings of
  today are not "upcoming" (`earnings.py:41`); the cash-secured put's "HARD STOP"
  costs 30 points.
* An invalid token is to mean that the user must connect again
  (`models.py:161`).  A session attempted with the token of before marks the row
  that was just reconnected (`session.py:451`, `LinkInvalid.cfg`), and the tasks
  skip it from then on.

Met on the way, without a document that says otherwise: the profit targets of
strategies other than the Trident are computed and never placed; a double click
executes a suggestion twice; an opening order at limit of a Trident has its
`max_profit` three times too large; `round_option_price` quantizes to cents, not
nickels; option
chains are cached for an hour where comments say a day.  Dead code:
`_handle_profit_target_fill`, `build_opening_legs`, `link_closing_transactions_to_position`,
`recalculate_pnl`, `get_session_for_account`, `authenticate_with_retry`.


## 7. What TLC refutes

Properties stated in the modules that hold only under the limits of the runs
above, and some that the code never keeps.  None is a run of its own; those with a configuration can be repeated with
`tlc -config X.cfg MCModule`.

| property | refuted with | because |
|---|---|---|
| `OneSetOfTargets` | `EntryFill`, two deliveries, no failures; `EntryTwoPaths.cfg` | the sync inside one handler saves metadata it loaded before the other's mark; a monitor knows no mark; `OneOrderPerSpread` says when it holds |
| `MarkReleased` | `EntryFill`, one delivery, `leave` | early returns between marking and clearing (`order_event_processor.py:660`) leave the mark to its five minutes |
| `TargetsAligned` | `EntryFill`, one delivery, `reject` | the ids are those of the accepted orders, indexed as if all were |
| `CountedOnce` | `TargetFills`, one sync and one fixer that overlap, no failures | the sync decides what to book, the fixer books, the sync books again: it looks only for the order's id, not whether it is booked |
| `BookedForGood` | same; or one fixer, `cancel` | the sync saves details that it read, without a lock, before the fixer's booking; the fixer replaces details by those listed at its start |
| `OneWorkingOrder` | `TargetFills`, one fixer, `cancel`, `MaxOrders = 6` | replaced details forget working orders, which are then placed again |
| `RealizedPnl` | `TargetFills`, one sync | a credit that is filled in in memory is saved only along with a booking, and the bookings go on without it |
| `MissingRetried` | `TargetFills`, one fixer, `partial`, `FairSpec` | an entry without order id counts as valid (`trade_reconciliation_service.py:607`) |
| `PlacedIsKnown` | `EntryOrder`, `early` | cancelling a trade before its id is stored: the broker's 404 for the temporary id is taken for a fill (`cancellation.py:102`), and the full save takes the new id back |
| `FilledIsKept` | `OrderWrittenOff.cfg` | the list of holdings is older than the opening |
| `EntryResolved` | `EntryOrder`, `OtherHoldings = FALSE` | with no holdings the sync returns before it looks at pending positions (`sync.py:97`) |
| `OnePositionPerDay` | `AdmissionPerDay.cfg` | a pending entry is invisible to the next cycle |
| `NotForgotten` without its disjunct about a refusal | `DteClose.cfg`'s constants | the reconciliation saves the row as it was listed and takes the retry count back, so refusals go on for ever |
| `ClosesOnlyWhatIsOpen` | `DteOverclose.cfg` | the closing order has `number_of_spreads` of each kind, which for a Trident counts puts and calls together: three of each, against two and one held; with one kind it is refuted once a target, or the order that this run was to cancel, has filled |
| `LinksStay` | `BookTwice.cfg` | of two runs that overlap one saves the whole transaction with the related position it had when it was read (`transactions.py:178`, `214`), and a later linking may choose another row |
| `ClosesOnlyTheGone` | `BookCloses.cfg` | a row that no sync has matched yet has no legs and is looked up by its underlying, which no option held has for its symbol |
| `ClosedIsBooked` | the same with a second underlying (`Underlyings = {u1, "u2"}`, `Stock = {"u2"}`) | the sync closes by underlying, without transactions |
| `PricedIsFresh` | `QuotesStale.cfg` | the wait wants every leg fresh; the pricing comes some awaits later, reads the cache again and wants only the newest leg fresh |
| `SubscribedIsFed` | `QuoteFeed`, `MaxConnections = 2`, `drop` | what a connection subscribed counts as subscribed on the next |
| `WaiterIsWoken` | `QuoteFeed.cfg`'s constants | a request that comes after the connection subscribes anew and registers its own event in place of that of one who waits |
| `OneListener` | `UserStream.cfg`'s constants | a stop takes the task and gives the lock back before it cancels it (`stream_manager.py:187`); a start in between creates a second one.  Without any stop: after `connect` the failed task's `finally` resets the "connecting" of the next start; after `timeout` the start that gave up clears `is_streaming` of a stream that another start created (`stream_manager.py:315`).  |
| `NoRiseInBearRegime` | `ScoresTrend.cfg` | volatility that pays for a cash-secured put outweighs the regime |
| `WithTheTrend` without its exception for the live quote | `SideBySide.cfg`'s constants, mode `"top"` | signals come from closes, some scores add the live quote; in a bull regime with a quote at or below the average a falling strategy may be among the three best |
| `AutoPickCanBeGenerated` | `ScoresPick.cfg` | the best score may be that of a strategy that builds nothing |
| `OrderIsTheStrategy` | `SpreadsOrder.cfg` | the backspread above |
| `AtMostOnePrimary` | `LinkRace.cfg` | two callbacks that both find no row, or no primary one, each save their own as the primary (`views.py:301`, `models.py:183`) |
| `InvalidMeansRefused` | `LinkInvalid.cfg` | the session above; a view that saves an older copy brings the mark back as well |
| `PrimaryStays` | `LinkRace.cfg`'s constants | a view saves a row that it read before another view's selection; and between the two statements of a save no row is primary |


## 8. What is not modelled

* *Quantities and money.*  One contract for each spread, P&L as a count of the
  fills that entered it.  Quantities above one multiply every term alike.
* *Database and broker failures other than the listed ones.*  Statements are
  atomic, and a broker's answer is true when it is given.
* *Steps that are one where the code has several.*  In `AccountBook`: the row of an
  order names it from its placement on, while the code stores the id in later saves
  (`order_service.py:457-520`); a sync matches, imports and closes in one step, and so
  does a discovery; a single transaction whose import or linking fails is left out.  In
  `DteClose` the reconciliation's placement and its save.
* *Saves of fields that are not modelled.*  What `handle_order_event` writes after
  `HearSave` in `EntryOrder` names its fields (`update_fields`), and none of them is in
  that module; the creation of the targets itself is `EntryFill`'s.
* *Configuration that nothing sets.*  The shares 40, 60 and 40 % of a Trident's targets
  are parameters of the strategy's configuration (`senex_trident_strategy.py:705`,
  `trading/models.py:56`), constants in `SpreadOrders`: no view writes them.
* *Quotes without a time* count as fresh in the code (`analysis.py:631`); in
  `StrategyScores` they are those of age 0.
* *Technical indicators, Greeks, implied volatility* are inputs of the models.
  Quotes of underlyings and the broadcasts to browsers have no reader that
  decides anything.
* *The event of a target's own fill.*  `_handle_profit_target_fill` needs a trade
  that carries a target's order id, and none does.
* *Dry runs* in detail, the reports of the orchestrator, transaction amounts and
  assignments.
* *Exit strategies*: evaluators without state that no task calls.  *Lifecycle
  algorithms*: arithmetic on amounts and strikes; what leg matching results in is
  in `TargetFills` and `AccountBook`, how it computes it is not.
* *Notifications, pages, registration, deployment and settings* keep no state
  that another component reads back; commands and scripts are started by hand.


## 9. The plan

Every component with a protocol has its module and its run, and all but `DailyMail`
have theorems; section 5 names the properties that have none.  To come:

1. `TypeOK` of `UserStream` and of the parts of `SideBySide` as theorems.
2. The assignments and amounts of `AccountBook`, and quantities above one in
   `TargetFills`, once something in the code decides by them.
3. `OnePositionPerDay` and `ClosesOnlyWhatIsOpen` become invariants to prove as soon
   as the code has a guard for them.
