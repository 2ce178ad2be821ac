# Verification of the trading game

TLA+ models of this repository: the order, matching and settlement core, the
event log and cold start, the background writers, market data, broadcasts, users
and their portfolios. TLC checks them on small instances, and TLAPS checks
theorems about them.
Line numbers refer to the files under `src/src/` unless another path is given;
documents are under `src/docs/`.

Contents: 1 the system, 2 the modules, 3 what is abstracted, 4 the runs,
5 findings, 6 the proofs, 7 what is not covered, 8 plan.


## 1. The system

A FastAPI process serves a stock-trading game. `AppContext` (`app.py`) owns every
service and wires them together.

| component | state | operations | talks to |
|---|---|---|---|
| OMS (`oms/`) | orders by id, status, filled quantity; event-id dedup set | `place_order`, `cancel_order`, `on_trade_executed`, `on_market_fill` | locks and unlocks funds in the accounts; emits OMS events |
| Matching engine, "Engine B" (`matching_engine/`) | one book per symbol: two sorted lists of entries; `_seen_order_ids` | `submit_order` (insert + matching loop), `cancel_order`, `replay_order` | returns `TradeExecuted` events to `AppContext` |
| Accounts (`account/account.py`) | per account: cash available/locked, position available/locked, lock record per order | `deposit`, `withdraw`, `lock_funds`, `unlock_funds`, `settle_trade`, `settle_market_trade`, `delete_account` | called by OMS and `AppContext` |
| Engine A and routing (`app.py`) | engine mode flag | `_route_to_me`, `process_oms_events`, `on_market_data`, `_try_engine_a_fill` | market data in; OMS, accounts, broadcast out |
| Event log, cold start (`storage/event_*.py`, `app.py:461-690`, `account_projection.py`) | buffer, JSONL files | `push`, background flush, load, rebuild of OMS, books, accounts | written by every publication; read once at start |
| Circuit breaker, market data service (`common/circuit_breaker.py`, `market_data/`) | breaker state, failure count, open time; last quote per symbol | `call`, `async_call`, `reset`; polling loop | external quote sources; feeds `on_market_data` |
| WebSocket (`api/websocket.py`) | set of clients and their subscriptions | connect, subscribe, `broadcast_event` | receives every event |
| Users (`auth/`) | users by id and an index by name, JSON file | register, log in, update, delete | REST handlers; deletes the account too |
| Record and report writers (`storage/`) | job queue, two background threads, the Google client | `queue_*`, background rounds, `stop` | files, spreadsheets; the report reads the event log's files |
| Trading analysis, leaderboard (`account/trading_analysis.py`, `account.py:455`) | none | FIFO profit over the trade history; ranking by assets and deposits | reads accounts |

**Scheduling.** One asyncio thread. None of the trading handlers awaits between
its first read and its last write, so a handler runs to completion before another
starts. What is concurrent: the breaker and the pollers (they await HTTP), the
broadcasts (they await sends), and the background threads of the event writer and
of the record writers.

**What is hard here.** An order's truth is spread over four structures (OMS
entity, book entry, lock record, balances) updated one after the other, and an
exception between two updates leaves the first ones in place. Two engines with
different rules act on the same orders, with an operator switching between them.
Deleting a user removes one of the four structures only. The matching loop looks
only at the head of sorted lists. `PROJECT.json` lists every such hazard with its
line and the properties that watch it.

**What makes each component correct.**

- Engine B: entries stay in price-time order; no crossing pair is left behind; a
  trade is between the best bid and the best ask, at the price of the one that was
  there first.
- OMS: no order is filled beyond its quantity; a closed order never changes again.
- Accounts: locked balances equal the sum of lock records; nothing negative; cash
  and shares are conserved.
- Composition: an open order is funded; book and repository agree; the price-time
  promise holds between *orders*; in mode A no order waits that the quote would fill.
- Event log: what was acknowledged survives a crash; cold start restores the state.
- Breaker: a service that is down is asked a bounded number of times, and noticed if the
  adapter says so; one that is well again is used again, whatever answers are still to come.
- Broadcast: a client that is there all the time gets every event addressed to it, once,
  as long as no connection disturbs the walk.
- Users: whoever was saved is there after a restart; a name leads to its bearer.
- Portfolio: what an account tells its owner adds up, whichever way it is computed.
- Writers: a file is never replaced by an older one; shutdown leaves nothing behind.


## 2. The modules

```
Common ──┬─ OrderBook ── MatchingEngine ──┬─ Matcher ───────────────────────┐
         │                                │     └ implements PriceTimeMarket│
         ├─ OMS ──────────────────────────┤                                 │
         └─ AccountService ───────────────┴─ Trading ── TradingProperties ──┼─ MCTrading
                                                                            │
              EventLog ──┬──────────────────────────────────────────────────┴─ Recovery
               │         └─ RecordWriter ── Writers ── MCWriters                  │
               └ implemented by EventWriter               MCRecovery ── RecoveryProperties

UserDirectory ──┬─ Players ── MCPlayers
Portfolio ──────┘

CircuitBreaker ── MarketDataService          Broadcast ── MCBroadcast

EngineProofs (about MatchingEngine and Matcher) ── TradingProofs (about Trading)
                                                └─ RecoveryProofs (about Recovery)
MarketDataProofs (about MarketDataService)   EventWriterProofs (about EventWriter)
BroadcastProofs  (about Broadcast)           PlayersProofs     (about Players)
WritersProofs    (about Writers)
```

| module | models | state | steps |
|---|---|---|---|
| `Common` | vocabulary, dictionaries | | |
| `OrderBook` | `price_time_priority.py` | none: operators on one side of a book | `Insert` = `bisect.insort`, `RemoveOrder` = `remove`, `FillTop` = `pop_top`/`reduce_top`, `Crossable` |
| `MatchingEngine` | `matcher.py`, `order_book.py` | `bids`, `asks`, `seen`, the running `submission`, its `trades` not yet walked through | `SubmitOrder`, `Match` (one loop iteration), `EndMatch`, `NextTrade`, `CancelInBook` |
| `Matcher` | the engine alone, called with any arguments in any order | the same | `MENext` |
| `PriceTimeMarket` | what a price-time market promises | a *set* of offers per symbol, which of them is `arriving` | `Offer`, `Withdraw`, `Trade`, `Clear`, `HandOver` |
| `OMS` | `oms/` | `orders`, `clock` | `RejectOrder`, `AcceptAndRoute`, `CancelOrder`, `FillBoth`, `FillBothRaising`, `FillFromMarket` |
| `AccountService` | `account/account.py` | balances, `locks` | `DepositCash`, `WithdrawCash`, `LockFunds`, `UnlockFunds`, `SettleTrade`, `SettleMarketTrade`, `DeleteAccount` |
| `Trading` | handlers of `rest.py`, routing and Engine A of `app.py` | all of the above, `engineMode`, `quotes`, the scan `toFill`, `deleted` | one action per handler, and the steps a handler that has started continues with |
| `TradingProperties` | | | the properties of the composition |
| `EventLog` | what an append-only log with a write-behind buffer promises | `journal`, how much of it is `durable` | `Push`, `Persist`, `Cut` |
| `EventWriter` | `event_writer.py`: two threads, one lock | `buffer`, the `lines` being written, the `file`, where each thread is | `PushBegins`, `PushAppends`, the pump's loop, `WriteLine`, `WriteFails`, `stop` in its steps, `Crash`, `Restart` |
| `Recovery` | which handler pushes what, the end of a process, `cold_start` and the projection | `Trading` and `EventLog`, the OMS `outbox`, the `phase` of the process | `LoggedHandlers`, `LoggedContinue`, `FlushFails`, `Crash`, `Shutdown`, `Replay`, `RebuildBooks`, `StartAgain` |
| `RecoveryProperties` | | | what cold start promises |
| `CircuitBreaker` | `circuit_breaker.py` | state, failure count, time since the last failure | the critical sections of its lock |
| `MarketDataService` | `market_data_service.py` with `async_call` | the calls awaited, which of them may fail, the watch list, whether the source is up | `FetchHistory`, `PollOnce`, `AnswerArrives`, `EmptyAnswer`, `CallFails`, `ReadState`, `Start`, `Stop`, ... |
| `Broadcast` | `websocket.py`, `topics.py` | the client set as a hash table with its `size` and `fill`, subscriptions, the tasks and where each is in its walk | `Connect`, `ConnectRebuilding`, `Subscribe`, `Unsubscribe`, `HangUp`, `Disconnect`, `Publish`, `Begin`, `SendReturns`, `SendRaises` |
| `RecordWriter` | `user_record_writer.py`, `report_writer.py`, `google_sheets_adapter.py` | the job `queue`, the round each thread is in and the write it is in the middle of, what each target shows, the Google `client` | `QueueRecords`, `WakeUp`, `OpenTarget`, `CloseTarget`, `GiveUp`, `FallAsleep`, `ExportRaises` |
| `Writers` | the writers behind the handlers of one process, `shutdown()` | `RecordWriter` and `EventLog`, how far `shutdown()` has got | `Handler`, `PumpWrites`, `ThreadStep`, `EventWriterStops`, `ReporterStops`, `ReporterRaises`, `RecorderStops`, ... |
| `UserDirectory` | `user_model.py`, `auth_service.py` | `users`, the name `index`, `users.json` | `Add`, `Rename`, `ChangeProfile`, `Delete`, `Start`, `Die`, each with every way a save may end |
| `Portfolio` | cost basis, histories and profits: `account.py`, `trading_analysis.py` | per account: cash, shares held, cost, trade lots, deposits and withdrawals; last prices | `CashMoves`, `SettleTrade`, `SettleMarketTrade`, `DeleteAccount`; `RealizedProfit`, `Profit` |
| `Players` | handlers on users and their money | both | one action per handler |

**Handlers as several steps.** A handler is atomic for other handlers but not for
exceptions: `SettleRaises` is the exception of `on_trade_executed` leaving
`for trade in trades` (`app.py:228`) after the book was changed. The model
therefore has one step per loop iteration, starts a handler only in an `Idle`
state, and lets a started handler do nothing but `Continue`. In `Recovery` the
same steps are where the process may be killed.

**From `EventWriter` to `Recovery`.** `EventWriter` has the threads and shows that
together they behave like `EventLog`: a sequence that grows at its end, of which a
first part is in the files, and which loses its end with a crash or an I/O error.
`Recovery` takes `EventLog` and adds what the events say; `Writers` takes it as the
log whose files the trade report reads.

**Definitions called "Mutant of ...".** Operators next to the real ones that
change them the way a plausible bug would (an append instead of `bisect.insort`,
a forgotten refund). Nothing uses them; replacing the real operator by one of
them makes TLC refute the property they are paired with in `PROJECT.json`, which
shows that the property says something about that code.


## 3. What is abstracted

Trading

- Amounts are integers. The code uses `Decimal` and the modelled operations only
  add, subtract, compare and multiply, without rounding. Cost basis and histories
  are in `Portfolio`: no guard of the trading handlers reads them.
- An account that does not exist is one with zero everywhere: every operation
  starts with `get_or_create`. `DeleteAccount` therefore resets to zero.
- A new account has nothing. `InitialCash` and `InitialShares` stand for what it
  got before the behaviour starts: deposits, purchases from the market, and
  `AccountUpdated` events replayed into it (`account_projection.py:68-81`). In
  `Recovery` they are durable.
- `clock` is `created_at`. `Ticks` says how far the clock moves between two
  orders; the runs use `{1}`, always forward. `PriceTimeMarket` prices a trade by
  which of the two orders was there first, the code by comparing their time stamps
  (`matcher.py:201`): they agree when time stamps follow the arrival
  (`StampsFollowArrival`), which `ImplementsMarket` is stated for. That the lists stay
  sorted and uncrossed is proved for any time stamps.
- Event-id dedup is left out: each caller makes an event with a fresh id. So are
  the `order.remain` events, which change nothing.
- `_try_engine_a_fill` scans the repository in insertion order, which is the
  order of `created`.
- `MarketBuyPrice` is the sentinel 999999999 of `app.py:211`, here any price above
  all others.
- MARKET orders without a price: `lock_funds` rejects a BUY (`account.py:263`),
  and `EffectivePrice` follows the code's substitution by 0 for a SELL.
- The breaker's refusal of MARKET orders (`rest.py:347`) is not in `Trading`: it
  refuses before anything is done. `MarketDataService!ReadState` is that read.

Event log and cold start

- An event is a record with the fields cold start reads. Market data and
  `order.remain` events are not in the journal: nothing replays them.
- Flushing has no action in `Recovery`; `Crash` cuts the journal at any place
  behind what was in the files when the process started. At most one flush fails.
- Engine mode is "B" after a start (`app.py:65`). Quotes are gone.
- `occurred_at`, from which cold start takes an order's time, is the `created` of
  the order.
- A line is written as a whole. When a kill tears one, the next process appends to it,
  and the loader skips what has become one malformed line (`event_loader.py`): that the
  first event of the next process is lost with it is left out.
- Snapshots are left out, because nothing saves one; so is the dead-letter queue,
  because neither `push` nor `broadcast_event_sync` raises.

Market data

- Time is counted in ticks since the last failure and stops at the cool-down,
  beyond which no comparison tells two times apart.
- `OutageAnswers` is how the adapter answers a call that meets an outage: it raises
  (`"error"`), as `async_call` expects, or it returns nothing (`"empty"`), as
  `TWSEAdapter` does (`twse_adapter.py:210`; only a malformed answer makes it raise).
  `SimulatedAdapter` has no outage. The run `market_data` has both, `outage_unnoticed`
  what `TWSEAdapter` does.
- `reset()` and `fetch_now` are not called by the application.

Broadcast

- The client set is CPython's: a table of slots, an iterator that walks over them
  and raises when the number of elements has changed. A client keeps its slot until an
  add finds three fifths of the slots used, those of clients that have left included
  (`Crowded`: the fifth connection of a process). Then the table is built anew
  (`ConnectRebuilding`): every client may come to be in any slot, and the index of a walk
  under way may lie anywhere among them. `Earlier` says how many connections came and
  went before the behaviour begins.
- Slots are numbered by their order only: there are as many as clients, not 8 or more,
  because unused slots and those of clients that have left make no difference to a walk.
- Whom an event is addressed to is part of the event. Payloads, latency numbers
  and the answer to a heartbeat are left out.

Writers

- A job carries the whole history of a user, so histories are numbered by the last
  event they contain, and a file shows a number. File formats do not matter to
  that. The file of a record is the one of its day.
- A write is two steps, the truncation and the completion, because two threads may
  write the same file. When another thread has truncated it in between, it shows
  the later completion or a mixture, which counts as nothing (0).
- `export_now` makes its directory before it tries anything (`report_writer.py:61`): when
  that raises, the report thread ends (`ExportRaises`), or `shutdown()` does
  (`ReporterRaises`).
- `gaveUp` remembers which histories were not written because a write raised or the
  Google client was off: the properties say that nothing else is missing.
- The life of one process, up to the end of `shutdown()`. What a kill does to the
  log is `Recovery`'s subject, and the other files are written anew anyway.

Users and portfolios

- `profile` stands for everything stored of a user besides the name: status, role,
  password, display name. Hashes, tokens and their expiry are left out, and who may
  call which handler; a disabled user cannot act on the account (`MayAct`).
- A save ends in one of four ways: done, the file not opened, half written, or the
  process killed. A failed save changes the memory all the same, as in the code.
- An account that does not exist is a new one. The cost basis is an exact fraction;
  `Decimal` rounds at 28 digits. Locks are left out: total balances decide.
- A settlement has the cash it takes. (With a MARKET BUY it may not: finding 1.)
- How an account comes back with a restart is `Recovery`'s subject; `Players` lets it
  stay as it is.


## 4. The runs

Two accounts, one symbol (a symbol's book and positions never refer to another's,
so a second symbol adds only products of the same behaviours), two prices and two
quantities unless stated. Three orders are what partial fills need: an order
filled by two counterparties, a trade list of length two, a second settlement
that raises. Order ids are uuids and accounts start alike, so both are symmetric;
runs with a liveness property use no symmetry, unless they are expected to fail.

| run | question | bounds beyond the usual |
|---|---|---|
| `engines_apart` | Engine B without quotes: do OMS, accounts and books agree, is price-time priority kept between orders, do the sorted lists stay sorted and uncrossed and implement the set-based market? Engine A against any quotes: does no order wait that a quote would fill, and does a closed order stay closed? | 3 orders in mode B, one deposit amount; 2 orders in mode A, all quotes from {0, 1, 2}²; no mode switch |
| `engines` | do money and locks survive mode switches, fills the OMS refuses and deleted users, and does every handler end? | 3 orders, one price, one quote, one of the accounts deletable, SELL for 2 and BUY for 1 |
| `event_writer` | is every event at one place, is everything written after `stop`, is it eventually written without, is it an event log? | 5 events, I/O errors and crashes anywhere |
| `writers` | does a file ever fall behind what it should show, does `shutdown()` leave anything behind, is every queued record written? | 2 events, one record with workbook and sheet, errors anywhere |
| `restarts` | what holds of a state restored from any first part of the log, with both engines; does an orderly restart restore orders, accounts and books? | one price, or none in a SELL; 2 orders with crashes, deletions and a failed flush; 3 orders with partial fills in orderly lives of mode B; three processes, the second with 2 orders in mode B |
| `broadcast` | does a broadcast that ends skip nobody and send nothing twice? | 3 clients of one user, 2 events (one of market data, one for the user), 1 or 2 connections before, so that the last connection rebuilds the table or not |
| `market_data` | is the breaker's probing bounded, is the end of an outage noticed? | threshold 3, cool-down 2 ticks, the poller and 2 requests, both kinds of answer in an outage |
| `players` | do users survive restarts, do names lead to their bearers, do cost basis, realized profit and ranking agree? | 3 uuids, 2 names; 2 symbols, trade prices and quantities {1, 2}, 3 trade lots, 2 deposits or withdrawals |

`MaxCash` bounds deposits, the only unbounded counter of `Trading`; the clock is
bounded by the number of order ids, as each order id is used once. `MaxJournal`
allows deposits and withdrawals only while the log is shorter. `MaxLives` is the
number of processes. Two would not be enough: a second process goes on from what a
crash has torn, and only the third start shows what that leaves in the log (a canceled
PENDING order, section 5). `restarts` follows the second process while it is `Brief`
and the third up to its start (`FollowLives`). The bounds keep deposits and deletions
apart from crashes: a crash after one of them, in a log without a hole, does not occur,
nor a start that a withdrawal blocks. The theorem `OnlyTornTradesBlock` covers such a
start in general; `RestoredAccountsAreSound` and `RebuiltBooksAreFunded` are not checked
there. Two broadcasts and three
clients are enough for one task to remove a client another still has to reach, for a
new client to take a slot ahead of a walk or behind it, and for the table to be rebuilt
during a send with as many clients as before, which both walks then miss. With threshold 3 and three callers a failure that
comes late can meet each state of the breaker. The two counters of
`MarketDataService` need no bound: `MarketDataProofs` proves theirs. In `writers` two
events are a record queued while the previous one is still on its way, by another
thread if `stop` has overtaken it. In `players` three lots are a position bought at
two prices and sold in part, across two symbols or between two users, and three
uuids a user added, renamed and replaced by another of the same name.

**Why some properties are not in every run.** `FillsWithinQuantity` and
`ClosedOrdersStayClosed` fail under mode switches, `NoNegativeBalances` with
MARKET BUY orders in mode B, and `OutageNoticed` with an adapter that answers an
outage with nothing: these are findings below. In mode A the books stay
empty, so the book properties are asked in mode B. `Conservation` is a mode B
property: Engine A trades with the market, outside the system. `AccountsRestored`
is about mode B too: Engine A's fills are not settled in the log.

**Runs that explore parts apart.** Five runs take a specification of their MC module
that adds conjuncts to `Next`, so that two dimensions of the state space are not
multiplied. `ApartSpec` of `MCTrading` switches no engines and gives mode A two orders:
`engines` has the switches. `RestartsSpec` gives the third order to orderly lives; in
these a SELL is for two shares (`MixedTickets`), in the others one for a single share is
placed only after a BUY for two (`SmallSells`).
`OneThreadSpec` wakes the report thread before a shutdown only where no record is
queued, because the two threads share neither a file nor a queue. `EarlySpec` of
`MCBroadcast` changes subscriptions until the second event is published, because a
subscription concerns each walk by itself, and walks meet in the table only. `ApartSpec` of
`MCPlayers` moves users while nobody has traded, and money while two users stay as
they are, because neither half reads more of the other than who is active.

**Fairness.**

- `Trading`, `Recovery`: `WF(Continue)`, resp. `WF(LoggedContinue)` and
  `WF(ColdStart)`. A handler, or a start, that has begun keeps running, because
  nothing in it waits.
- `EventWriter`: the pump thread wakes up (it waits with `time.sleep` only), whoever
  holds the lock goes on writing, and a thread that waits for the lock gets it.
- `MarketDataService`: the poller sleeps for a fixed time, HTTP requests have a
  timeout, so each awaited call ends, and time passes.
- `Writers`: the record writer's thread keeps working, because it waits with
  `time.sleep` and for writes that end or raise; `shutdown()`, once begun, goes on,
  because its joins time out. Nobody waits for the report thread.
- Nothing is assumed of users, operators, browsers, the market or the disk.

Deadlock checking is on in every run but three: in `broadcast` every client may have
gone and every event been sent, in `writers` the process ends, and in `players` the
uuids of the instance run out.


## 5. Findings and known limits

Four runs are expected to violate one property; `PROJECT.json` quotes the text
each contradicts.

1. `market_buy_overdraws`: a MARKET BUY locks `price * qty` with the form's
   reference price and is then matched at 999999999. It pays the ask it meets,
   `settle_trade` subtracts that from locked cash without a check, and the balance
   goes negative (`design-spec.md:405`).
2. `matched_twice`: place in mode B, switch to A, a quote fills the order, switch
   back: the entry is still on the book and is matched again (`design-spec.md:91`).
3. `cannot_start`: Engine A logs a trade but no settlement. When the proceeds of
   such a sale are withdrawn, the replay of the withdrawal raises, and no start
   succeeds any more (`design-spec.md:245`).
4. `outage_unnoticed`: `TWSEAdapter` answers an outage with an empty list
   (`twse_adapter.py:210`). For the breaker that is a success: it stays CLOSED, and MARKET
   orders are accepted for as long as there is no market data (`design-spec.md:218`,
   `:205`). The application uses `SimulatedAdapter` at present (`app.py:94`), which has no
   outage; with an adapter that raises the property holds.

What else the modelling showed. The models contain these behaviours, and the
properties are stated around them:

- An order accepted in mode A never reaches the book; after a switch to B it is
  open and is not matched (`app.py:187`).
- With equal time stamps the buyer counts as the maker even when the seller was on
  the book first (`matcher.py:201`): a SELL resting at 1 and a BUY at 2 then trade at 2,
  against `matcher.py:9`, `readme.md:122` and `design-spec.md:227`. It takes two orders
  in one microsecond; `ImplementsMarket` is stated for time stamps that follow the
  arrival, and holds there.
- The orders of a deleted user keep trading and settle into a re-created account,
  whose locked balances go negative (`rest.py:216`).
- An order is answered before its events are durable (`rest.py:364`;
  `design-spec.md:80` wants them logged first). `push` waits for the lock that the
  pump holds while it writes (`event_writer.py:60`), and a write error ends the
  pump thread for good and loses its batch (`event_writer.py:115`).
- A crash in the middle of a placement leaves a PENDING order: it can be canceled
  by its flag but not by the state machine (`oms_service.py:153`). The funds are
  unlocked, the request fails, and nothing is logged: the next start locks them again,
  so `AccountsRestored` and `RebuiltBooksAreFunded` are about lives before which no
  placement was torn.
- Rejected orders come back on the rebuilt book (`app.py:504`), and with it they trade.
  A fill of the whole quantity is refused after it was added, and no event tells of it;
  a partial fill needs no transition of the state machine (`oms_service.py:168`), is
  settled with funds nobody locked, and is logged.
- The order of a torn placement, canceled, gives its funds back without an event: what
  the user spends them on is locked a second time by the next start. So
  `RestoredAccountsAreSound` is about logs in which no placement was torn and no order
  that was rejected settled.
- A LIMIT SELL may be sent without a price (`schemas.py:69`), is accepted, because only a
  BUY is funded by its price, and rests on the book at 0. The rebuild leaves it out
  (`app.py:522`), and if no other order of its symbol is on the rebuilt book, the
  pre-flight check refuses to start: `OnlyTornTradesBlockStart` and `BooksRestored` name
  such orders (`Unpriced`).
- A log that ends between a trade and its fills blocks the next start: the rebuilt
  books and the rebuilt orders disagree (`app.py:777`).
- A broadcast dies when a connection opens or closes during one of its sends
  (`websocket.py:255`): clients it has not come to never get the event, while
  `design-spec.md:328` says at least once. When one leaves and another arrives, and the
  arrival rebuilds the table (`websocket.py:201`; the fifth connection of a process is
  the first that does), the walk goes on over clients that have moved: it may pass one by
  or send it the event again. `NoOneSkipped` and `SentAtMostOnce` except such walks.
- In HALF_OPEN every caller is let through, not one probe (`circuit_breaker.py:8`).
- The shares Engine A moves are logged as trades but not as settlements
  (`app.py:358-393`): after a restart the order is FILLED, and what it bought is gone and
  what it sold is back. `AccountsRestored` and `SharesSurvive` except such logs.
- What Engine A pays out is spent with Engine B, but after a restart it is not there
  (Engine A logs no settlement): the restored account has negative locked cash.
- Orders accepted in mode A are stranded until the next start, which puts them on the
  rebuilt book. An order that was matched twice (finding 2) also blocks the next start.
- Engine A's fills are in no user's record file until a later deposit, withdrawal or
  Engine B trade queues the history again (`app.py:358-393` queues nothing).
- `stop` of the record writer waits five seconds for its thread and then writes by
  itself: of two rounds that overlap the older history may be the one that stays
  (`user_record_writer.py:103`). `RecordsCurrent` leaves this case out.
- When the last flush of the event writer raises, `shutdown()` ends there: no last
  report, and the queued records are gone (`app.py:936`). So are the records when the
  directory of the last reports cannot be made (`report_writer.py:61`); when that
  happens to the report thread, no report is written any more before the shutdown.
  `ShutdownLeavesNothing` is about a shutdown that comes to its end;
  `RecordsEventuallyWritten` excuses a shutdown that did not, a write of the record that
  was given up, and a join of the record thread that timed out.
- The Google client is asked for once. If that fails, nothing is synchronised until
  the process is started again (`google_sheets_adapter.py:98`); the properties count its
  records as given up.
- A rename leaves the name index as it was, because `update` compares the stored user
  with itself (`user_model.py:69`): the old name still logs in, the new one does not
  before a restart, and nothing refuses a name that is taken. After a restart the
  last user with the name is found; deleting a renamed user may remove the entry of
  another, who is locked out until then. `NamesResolve` says what the index promises
  all the same.
- A failed or interrupted save leaves a file that cannot be parsed. The next start
  knows no users and makes the default administrator with its default password
  (`user_model.py:105`); `UsersSurvive` is about the other saves. `ensure_admin_exists` looks for the name only: a renamed
  administrator gets a second one beside it, a disabled one none.
- Withdrawals count as losses in the ranking and the portfolio (`account.py:494`);
  a trade with oneself changes the average cost of the position.


## 6. The proofs

All theorems hold for every value of the constants that satisfies the assumptions
of the modules (`CommonAssumption`, `MatcherAssumption`, `OMSAssumption`,
`AccountAssumption`, `TradingAssumption`, `RecoveryAssumption`; `BreakerAssumption`,
`ServiceAssumption`; `EventWriterAssumption`; `BroadcastAssumption`;
`DirectoryAssumption`, `PlayersAssumption`; `RecordAssumption`,
`WritersAssumption`). They give the constants their types; of
the service also that the threshold is positive, that the requests are finitely many
and that the poller is none of them, of the broadcast that the clients are finitely
many, that at most four connections came before, and that `Free` and `NoUser` are none of
the clients and users, of the directory that
`admin` is a name. A theorem is about the specification of its component, not about
the run that checks the same property on a small instance, which may start or move
less (section 4).

**`EngineProofs`** begins with the facts about lists. `InsertPoint` shows that the point
`bisect.insort` looks for exists in a sorted list. It needs an induction over the
list, done by minimal counterexample: `NatMinimum` (every non-empty set of naturals
has a least element) follows from the library's well-founded-ordering theorems
without instantiating an operator parameter. From it: insertion, removal and the
fill of the top keep a list `Sorted`, keep its entries typed and its order ids
distinct; the `...Qty` lemmas say what each does to `RestingQty`.

Then the inductive invariant of the engine:

    EngineOK  == METypeOK /\ BooksSorted /\ BooksSeen /\ TradesSeen
    EngineInv == EngineOK /\ OnlyCurrentCrossed /\ BooksDistinct

`EngineOK` is kept whatever books the engine starts from, also those that cold start
rebuilds without matching them; `EngineInv` is about an engine that starts empty.

`BooksUncrossed` is not inductive. While the loop runs the current book may be
crossed, so `OnlyCurrentCrossed` says that no *other* book is; the loop's exit
condition then gives `BooksUncrossed`. A cancel exposes the entry behind the head,
which is no better than the head only because the list is sorted. `BooksDistinct`
is needed because `cancel_order` looks for the order on the sell side only when
the buy side did not have it.

For the engine alone (`Matcher`): `EngineInvariant`, and from it `METypeCorrect`,
`BooksStaySorted`, `BooksStayUncrossed` for the engine alone, and the refinement
`ImplementsPriceTimeMarket`, one lemma per action. Up to the loop `submit_order` is an
`Offer` of the abstract market and `cancel_order` a `Withdraw` of the one offer that has
the id (`BooksDistinct`); one iteration is a `Trade` of the offers at the heads, which
nobody outranks because the lists are sorted; leaving the loop is the market's `Clear`,
since sorted lists whose heads do not meet have no pair that does; handing a trade to
the application takes it off the market's list as well. The market prices a trade by the
order that was there first. That this is the one with the smaller time stamp takes two
things: the hypothesis `[]StampsFollowArrival` (whoever is submitted has a later time
than whoever rests), and that the order being matched takes part in every trade
(`OnlyArrivingMeets`), because the resting ones were not crossed before it came
(`UncrossedApart`).

**`TradingProofs`** is about the composition, in five parts.

*Types.* `TradingInvariant`, one lemma per action, and from it `TypeCorrect` and
`TradingBooksUncrossed`. The invariant adds that only orders in the repository were
ever submitted (so the settlement of a trade finds both orders) and that an Engine A
scan runs only on a symbol that has a quote. It is `TradingOK`, which the handlers keep
whatever books the engine started from, and `EngineInv`.

*Books, trades and locks against the repository.* `FundingInvariant`:

    FundingInv == TradingInv /\ BookOfOrders /\ OneHandler /\ OrdersMean
                    /\ OrdersFunded /\ LocksOfOrders

What Engine B *holds* of an order is what rests on its book and what was taken off it by
trades that wait to be settled; the settlement of a trade reads the order as the
previous settlements left it. So the invariant follows, for each
order, the chain of the pending trades that name it back to the entry (`Held`,
`Chained`), says what the order's status and filled quantity mean for what is held
(`OrderMeans`), that every entry and trade has the price, side, symbol and time of its
order (`BookOfOrders`), that its lock record covers what is still to settle
(`OrdersFunded`), and that every record is of an order of its owner, who is still a user
(`LocksOfOrders`). It holds in both modes and across switches, where an order may be held by one engine and filled by the other.
From it: `OrdersStayFunded`, and with the engine's invariant `OrdersMatchInPriority`.

*One engine.* A switch of engines breaks more (section 5, `matched_twice`), so
`NoOverfill`, `ClosedIsClosed`, `BookIsTheOpenOrders` and `NothingMissed` are about

    OneEngineSpec == Init /\ [][Next /\ engineMode' = engineMode]_vars

a process of either mode that nobody switches, with any quotes and any number of orders;
the run `engines_apart` checks a part of it. `OneEngineInv` adds to `FundingInv` that
what Engine B holds of an order is exactly what remains of it while it is open and
nothing afterwards, or, in mode A, that Engine B was never called and no open order is
one the quote would fill, but those the running scan still has to come to.

*Balances.* `LockedIsAccountedFor` and `Conservation` are about sums. `SumOver` is a
fold, and a fold is a recursion the provers cannot do induction on; what is needed of
it is proved of a smallest subset of a finite set for which it fails (`MinimalSubset`):
its partial sums exist and are unique, a member can be taken out (`SumTakeOut`), and a
change of one summand changes the sum by as much (`SumChanges`). `AccountsInvariant`
then says of every user that nothing available is negative and that what is locked is
the sum of the lock records (`Balanced`), of every record that it is sound (`LocksSound`)
and that a settlement takes no more than the record still holds (from `FundingInv`). Its
hypothesis `BuysAreLimit`, that no MARKET BUY is submitted, cannot be dropped: such an
order locks a guess and settles at what it meets (section 5, `market_buy_overdraws`).
MARKET SELL orders, mode switches, cancels and deletions are all allowed. From it:
`LocksAccountForBalances` and `NothingNegative`.

*Conservation.* `NothingCreated`: every step of Engine B takes from one balance what it
gives another (`MovesBy`, `AllConserved`). It needs finitely many accounts, for the sums
to exist, and that no user is deleted, as in the run: a deletion forfeits what the user has.

**`MarketDataProofs`**: the inductive invariant of the breaker and its callers is

    BreakerInv == TypeOK /\ CountBelowThreshold /\ LateFailuresBounded /\ ProbesAccounted

Neither the bound on the failure counter in `TypeOK` nor `BoundedProbing` is
inductive. A failure that arrives when the breaker is open still counts, but an
open breaker lets no call begin, so the counter together with the calls still
awaited stays below threshold plus callers (`LateFailuresBounded`). A call let
through in HALF_OPEN is awaited, counted as a failure, or was the poll that `stop`
canceled (`ProbesAccounted`), and outside OPEN fewer failures are counted than
open the breaker. From it: `ServiceTypeCorrect` and `ProbingBounded`.

**`EventWriterProofs`**: the inductive invariant is

    EWInv == EWTypeOK /\ NoRepeats /\ EachAtOnePlace /\ LockMeans /\ StoppedMeans

Every event that was pushed is in exactly one of the buffer, the batch being written,
the file, the push that waits for the lock, and what was lost; moves between them are
lemmas about disjoint ranges of sequences. `LockMeans` says what the lock protects (a
batch exists only while a flush holds it), `StoppedMeans` that the last flush of
`stop` leaves nothing. From it: `EveryEventKept`, `StopWrites`, and the refinement
`ImplementsLog`: a push that gets the lock is a `Push` of the abstract log, a line that
is written a `Persist`, a failed write and a crash a `Cut` behind what the file has,
and every other step of the threads stutters.

**`BroadcastProofs`**: the inductive invariant is

    BInv == TypeOK /\ OneSlot /\ MembersConnected /\ every task is TaskOK

Neither `NoOneSkipped` nor `SentAtMostOnce` is inductive: while a task waits for a
send, the table it walks over changes under it. `Walk(task, i)` is what stays true
all the same when the iterator stands at slot `i`: whom the task still owes the
event is connected and in some slot beyond `i`; nobody in a slot beyond `i` was sent
it. The last part needs that a client keeps its slot
(`OneSlot`) and that a connection that was closed never comes back
(`MembersConnected`, and `written[c] > 0` only for clients that did connect), else a
client could reappear ahead of the walk that reached it. A table that is rebuilt puts
every client at one place again (`Placed`), which `OneSlot` needs, but not ahead of or
behind the walks where it was: the walks under way are marked (`rebuilt`) and nothing is
claimed of them, while those that begin later go over the new table.

**`PlayersProofs`**: the inductive invariant of the directory is

    DirInv == UsersOK /\ FileOK /\ HeldKnows /\ IndexKnows /\ AloneIsIndexed /\ Saved

The index is not kept in step with renames, so what it still promises is said in terms
of the history `held`: an entry leads to somebody who has had the name
(`IndexKnows`), and a user who always had a name, and alone, is in it
(`AloneIsIndexed`; a delete takes the entry of the user's *present* name, whoever it
leads to). `Saved` relates memory and file: equal unless the last save failed. From
it: `NamesStillResolve` and `UsersComeBack`.

The inductive invariant of the portfolio, `PortfolioInv`, says of every account with its
history that the account is typed and

- `CostsOK`: the average cost of a position lies between the cheapest and the dearest
  price its owner paid since it was last flat (`FlatSince`);
- `LedgerOK`: the shares of a symbol that were ever bought, in order, are as many as were
  sold and then those in the FIFO queue, which are the position (`QueueOK`); and cash is
  the deposits less the withdrawals plus the realized profit less what was paid for the
  shares in the queues (`Worth`).

`CostBasisInRange` follows from the first, `LeaderboardAddsUp` from the second: the ranking
counts cash and the value of the positions, and what was paid for the shares still held
turns that value into their gain. Three recursions are in the way: the history as one list, the replay of it that
pairs every sale with the oldest lots, and the sum over the symbols. Each is read off a
function that has the same steps and is shown to exist by minimal counterexample
(`FoldIsChain`, `PartialSums`). What then remains are three step lemmas: a sale takes what
it sells from the front of the queue, at the price of each lot (`ConsumeTakesFirst`), a
new trade is replayed last (`ReplayAppend`), and it moves cash by what it moves the queue
and the profit (`LedgerMoves`). Any number of symbols, users, trades, prices and
quantities is covered; `PlayersAssumption` asks that the symbols are finitely many.

**`WritersProofs`**: the inductive invariant is

    WritersInv == WTypeOK /\ RoundsOfServices /\ ThreadsEnd /\ WriteInProgress
                    /\ CatchingUp /\ LastReports /\ Emptied

A thread takes all jobs under the lock and writes them outside it, while handlers queue
more. What is true throughout is said of the *last* job of a record, and when none
waits of the last write on its way to each of its copies: it carries the newest history
(`CatchingUp`); when there is none either, the copy shows it. That a write shows in the
end what it carried needs that nobody else opens its file meanwhile (`WriteInProgress`).
Each file has one writer at a time (`OneWriter`) because the event loop writes what a
service left only after its thread was joined, and a thread that was joined works on only
if the join timed out (`ThreadsEnd`, `RoundsOfServices`), which is the hypothesis of the
properties. `LastReports` and `Emptied` say what each step of `shutdown()` has
achieved. From it: `RecordsStayCurrent` and `NothingIsLeft`.

**`RecoveryProofs`** is about the system across crashes, failed writes and restarts. What
a log says of an order is what three of its events say: the placement, the last event
with a status and the last with a filled quantity (`Told`; `ToldIsOne`: that is one
order). The inductive invariant has a part for either phase:

    RecInv == RecTypeOK /\ (phase = "up" => UpInv) /\ (phase # "up" => DownInv)

While a process is up, `UpInv` relates the orders to `TheLog`, the journal with the
outbox behind it: OMS publishes its fills before they are pushed, so neither the journal
alone nor the order of the pushes says it. Two relations are kept apart. `LogFits` holds
of any part of the log: placements are of known orders, each is placed once, the fills
logged after the placement only grow, up to what is filled now, and one with the status
FILLED has the whole quantity. It survives a cut at any place, even if fills of the
outbox then follow a placement that was lost (`FitsWithin`). `LogTells` says that the
whole log tells of every order exactly what it is; it is lost with a failed flush
(`holes`) and does not speak of the status and quantity of an order whose fill was
refused, of which no event tells. Handlers push in the middle of `TheLog`, before the
outbox; that this changes nothing of what the log tells of other orders is shown for an
event inserted anywhere (`Inserted`, `LastKept`).

While a process restores, or has failed to, `DownInv` says that the orders are what the
replayed part of the log tells (`ReplayedOrders`, event by event in `ReplayedOne`) and
that the log fits, and after an orderly shutdown tells, the orders the last process ended
with (`BeforeOK`). When the whole log is replayed both sides of the comparison are told
by the same events: `OrdersAreRestored`, `RecoveryInventsNothing`. The rebuilt sides of
the books are a recursive function of the log, about which `RebuiltSideOK` is shown by
minimal counterexample, as with the sums: typed, sorted, and only of orders in the
repository. So the engine starts with `EngineOK`, and the new process with `UpInv`
(`ToldFits`): `RecoveryTypes`, for any number of lives.

`AccountsAreRestored` takes the accounts as a function of the log. `Applied(x, e)` is what
the projection makes of the accounts `x` at the event `e`; the log `Leads` to the accounts
that its events, applied one after the other to fresh ones, leave, and to no others
(`LeadsToOne`). The events of a handler have the `Effect` to turn the accounts it met into
those it left, at one of them, the others changing nothing (`HandlersEffect`, one lemma
per handler; the replayed placement of an order that was rejected for its funds must find
as little to lock as the handler did, and an OMS fill in the outbox, pushed by a later handler,
changes no account). The three exceptions are those of the property: a fill by Engine A
logs no settlement, the cancel of a torn order unlocks its funds without an event, and a
failed flush loses events. An order that is torn stays so (`TornStays`), and what is in the
log stays there, so it is enough to look at the end. `FollowsLog` is the invariant: the
accounts of a process that is up follow from the whole log, those of a process that
restores from the part it has replayed, and so do those the last process ended with, which
the restored ones therefore equal.

`OnlyTornTradesBlock` is about the one check of a start that reads both what was rebuilt
from the log by way of the orders and what was rebuilt by way of the books. An open order
that is not on a book has, by the log, no placement left to fill, was canceled, or has no
price. That the first is a torn trade and the second impossible is said by `LogCounts`, of
the log alone and hence of every first part of it that a crash leaves (`CountsCut`): an
order is placed before anything else is said of it (`Introduced`), nothing follows a cancel
but what leaves it canceled (`CanceledLast`), and an order has in no first part more fills
than trades, and where it has as many, the last fill says as much as the trades or the
whole quantity (`FillsCounted`). Counts and sums over a log are a `Tally`, shown to change
by one event when one is inserted anywhere. A fill that waits in the outbox comes behind
trades of later handlers, so the step that logs a trade owes the log a fill that says at
least as much (`Awaits`), and the step that logs the fill pays it. That the two fills of
one trade are of two orders needs the side of every entry also on a rebuilt book
(`OnSides`): an order that traded with itself would be filled twice by one trade. The
invariant is

    BlockInv == (phase = "up" => OnSides) /\ (phase = "up" /\ ~holes => LogCounts(TheLog))
                  /\ (phase # "up" /\ ~holes => LogCounts(journal)) /\ OnlyTornTradesBlockStart

`SharesSurviveRestarts` adds `SharesInv`: without a deletion in the log every event that
is replayed moves shares between two balances or none (the lemmas of `NothingCreated`),
wherever the log was cut and whether or not the placement found anything to lock. What
Engine A moved is not in the log as a settlement, so logs with one of its trades are
excepted. Like
`NothingCreated` it is about finitely many accounts.

Only model-checked: liveness (outside the prover's reach); `BooksRestored`,
`RestoredAccountsAreSound` and `RebuiltBooksAreFunded`, for which section 8 says what is
needed.


## 7. Not modelled

- Market data adapters: parsing of external HTTP answers, and a random simulator. Only
  their answer to an outage is modelled.
- Spreadsheet and report formats, the Google API: pure output.
- Serialisation of events and models; logging and metrics; the frontend.
- Pure queries (depth, snapshots, exports): they change nothing. Of the analyses, the
  realized profit and the ranking's profit are modelled; counts, ratios, behaviour
  and momentum statistics are formulas over one history.
- Password hashes, tokens and authorisation: no state of theirs is kept.


## 8. Plan

Every component of section 1 that keeps state of its own is modelled; what is left is
to prove more about recovery. In this order:

1. `RebuiltBooksAreFunded`: that what the log leaves of an order's lock covers what it
   leaves of its quantity. `FundingInv` says so of a process with empty books; after a
   restart it has to allow rejected orders that came back and trades without a
   settlement, and to say so of every first part of the log.
2. `RestoredAccountsAreSound`: the accounts to which a first part of the log leads are
   those of some moment between two handlers (`HandlersEffect`), so what is missing is
   that the accounts of a restarted process stay sound, which needs 1.
3. `BooksRestored`, which compares the rebuilt lists with those that were there: both are
   sorted, so it is enough that they have the same entries. The trades in the log say how
   much of an order was traded; that this is what was taken off its entry has to be
   followed across restarts, as `OneEngineInv` does for one process.
