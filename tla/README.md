# sim_trade in TLA+

sim_trade is a simulated trading back end in Python: FastAPI processes take
orders, PostgreSQL holds every fact, Redis carries market data, events and
caches, and a handful of worker processes match orders, settle trades, value
positions and close the trading day.  This directory holds a formal model of the
parts that act over time: the order ledger, the matching process, the end-of-day
settlement, the delivery of order events to the index that decides which orders
are matched at all, cash securities with their corporate actions, the three
valuations (realtime profit and loss, cash securities, risk) and what they
trigger, the market data feed and the gateway that carries facts to the page.

`PROJECT.json` maps every definition to the source lines it models, lists the
runs, one mutant per property, the hazards and the finding.

1. [The system](#1-the-system)
2. [Modules](#2-modules)
3. [The order ledger](#3-the-order-ledger)
4. [The matching process](#4-the-matching-process)
5. [The end-of-day settlement](#5-the-end-of-day-settlement)
6. [Event delivery and the active-order index](#6-event-delivery-and-the-active-order-index)
7. [Realtime profit and loss](#7-realtime-profit-and-loss)
8. [Cash securities](#8-cash-securities)
9. [Risk and liquidation](#9-risk-and-liquidation)
10. [Market data and the gateway](#10-market-data-and-the-gateway)
11. [Runs](#11-runs)
12. [Proofs](#12-proofs)
13. [Finding and observations](#13-finding-and-observations)
14. [What is not modelled](#14-what-is-not-modelled)

## 1. The system

Paths are relative to `src/app/`.

| Component | State it keeps | Operations | Interacts with | What makes it correct |
|---|---|---|---|---|
| Order entry (`services/order_service.py`, `close_position_allocator.py`) | `account`, `order`, `order_close_allocation`, frozen lots of `position` and `position_detail`, `outbox_event` | `create_order` | gate, outbox | a key names one order; what an order freezes is there, and is frozen once |
| Validation and rules (`order_validation_service.py`, price and rule lookups) | none | checks that may refuse | order entry | stateless |
| Cancellation (`services/order_cancellation_service.py`) | the same rows | `cancel_order`, the settlement's `cancel_for_settlement`, `cancel_market_remainder` | gate, settlement | returns exactly what is still frozen, once |
| Trade settlement (`services/trade_settlement_service.py`) | the same rows, `trade` | `settle` | gate, matching | one trade per match; cash, margin, lots and trades agree |
| Option settlement and margin adjustment | the same rows, option margin | `settle` for options, margin re-check | gate | the reserve covers what the fill occupies |
| Tick matching (`workers/matching_worker.py`, `services/market_tick_matching_service.py`) | stream positions, pending messages | read a tick, match, settle, acknowledge | index, settlement | every tick is matched against every active order, or acknowledged as done |
| Order arrival (`workers/order_arrival_event_worker.py`, `services/order_arrival_matching_service.py`, `market_order_execution_service.py`) | consumer group, failure counts | execute a market order once, cancel its remainder | outbox, settlement | a market order ends soon, whatever fails |
| Outbox (`workers/outbox_publisher_worker.py`, `repositories/outbox_repository.py`) | `outbox_event` | claim, publish, mark sent, retry | every writer of facts | every committed event is published, SENT is never a lie |
| Active-order index (`workers/order_event_consumer_worker.py`, `services/accepted_order_event_service.py`, `active_order_rebuild_service.py`, `infrastructure/active_order_index.py`) | Redis sets and hashes, consumer group | consume, upsert, remove, rebuild | outbox, matching, market data | an active order never leaves it; it converges to the rows |
| Settlement gate (`services/settlement_gate_service.py`) | PostgreSQL advisory lock, latest batch | shared lock and `ensure_trading_open`, exclusive session lock | all trading | no trading transaction overlaps a run or follows a closed day |
| Daily settlement (`services/daily_settlement_service.py`) | `daily_settlement_batch`, frozen prices, account and position results | `run`: cancel, barrier, freeze, replay, complete, recover | gate, orders, cash securities, Redis | each day is posted once, in order, completely; a failed run can be repeated |
| Trading days (`services/trading_day_service.py`) | calendar, sessions | resolve the day of an order | order entry, settlement | every session belongs to one day |
| Cash securities (`services/stock_order_service.py`, `cash_security_settlement_service.py`, ...) | cash, `stock` positions and lots, T+1 availability | create, settle, cancel | settlement (without the gate) | cash and shares are conserved; bought shares wait a day |
| Corporate actions and replay (`services/cash_security_corporate_action_service.py`, `cash_security_position_replay_service.py`) | actions, entitlements, subscriptions, position adjustments | import, confirm, capture, apply, pay, list, subscribe, replay a day | settlement | an action takes effect once and to its end; a replay reproduces the live rows |
| Cash valuation (`workers/cash_security_valuation_worker.py`, `services/cash_security_valuation_service.py`) | routes, dirty marks, lease, fence, snapshots | route, mark, rebuild, value | ticks, facts, risk | no holding is forgotten; nothing stored or shown falls back |
| Realtime profit and loss (`workers/realtime_pnl_worker.py`, `services/realtime_pnl_service.py`, `infrastructure/realtime_pnl_store.py`) | Redis snapshots with versions, leases | recompute, persist with a version check | trades, ticks, gate | a snapshot never goes back to older facts |
| Risk and liquidation (`workers/risk_monitor_worker.py`, `services/risk_monitor_service.py`, `liquidation_service.py`) | risk state of accounts, dirty marks, liquidation tasks | monitor, cancel orders, close positions | order entry, cancellation | a liquidation never doubles its orders |
| WebSocket gateway (`realtime/`) | connections, cursors, single-gateway lease | snapshot, live events | event streams | a client misses no event between snapshot and stream |
| Market-data subscription (`workers/market_data_subscriber_worker.py`, `services/market_subscription_service.py`) | subscribed contracts, feed SDK | follow active orders and positions | index | what is needed is subscribed |
| Authentication (`services/auth_service.py`, `token_service.py`) | users, refresh sessions | login, rotate, revoke | API | a refresh token is used once |
| Reference data, queries, schemas, deployment | single rows, declarations | read and update | API | no behaviour over time |

How they interact.  A client's order passes the gate, is validated, freezes
money or lots and commits with an outbox event.  The publisher puts the event on
a Redis stream; the index service reads the *row* the event names and lists the
order; the matching worker sees a tick, looks at the listed orders, reads each
without a lock, and hands a match to `settle`, which locks account and order and
decides again.  Ticks and events are delivered at least once.  At the end of a
day an operator runs the settlement command, which excludes all that by an
advisory lock, cancels what is left, freezes prices, replays the day's facts
and opens the gate for the next day.

What is hard about it: requests, workers and the settlement command share rows
without sharing a process; matches are computed from unlocked reads; rounding
distributes margin and commission over partial fills; deliveries repeat and
overtake; every process may die between two transactions; and the settlement
has to be repeatable from wherever it stopped.  `PROJECT.json` lists these
hazards at their lines.

## 2. Modules

| Module | What it is |
|---|---|
| `OrderLedger` | one account's order entry, matching, settlement and cancellation, with all money, lots and margin |
| `OrderLifecycle`, `OrderLedgerRefinement` | what one order promises, and the mapping under which `OrderLedger` implements it |
| `TickMatching` | the two threads of a matching process, their streams, and the orders they compete for |
| `DailySettlement` | gate, settlement command, and the trading it races with |
| `EventDelivery` | abstract specification: at-least-once delivery of committed events |
| `OutboxPublisher` | outbox rows and publisher workers, which implement `EventDelivery` |
| `ActiveOrderIndex` | consumers, Lua scripts and rebuild of the index, on top of `EventDelivery` |
| `RealtimePnl` | realtime worker, persistence worker and recovery on one account's snapshots |
| `CashSecurityLedger` | orders, corporate actions and the replay of one cash account in one security |
| `CashValuation` | the workers that value cash accounts, with routes, lease and fence |
| `RiskLiquidation` | risk state, review and liquidation of one account |
| `MarketFeed` | the subscriber of one market |
| `RealtimeGateway` | projection, gateways, connection and page |
| `OrderLedgerProofs`, `MarketDataProofs`, `DailySettlementProofs`, `EventPathProofs`, `CashSecurityLedgerProofs`, `CashValuationProofs`, `RiskLiquidationProofs` | inductive invariants and theorems |
| `Sums` | what the proofs need to know of sums over finite sets |
| `MC...` | constants for TLC |

How the modules compose.  `ActiveOrderIndex` runs on the abstract `EventDelivery`
and not on `OutboxPublisher`: its stream changes only by `Delivery!Commit` and
`Delivery!Publish`, and `OutboxPublisher` is shown separately to implement that
promise, so that neither state space multiplies the other.  `TickMatching`
contains the index as a set whose entries come and go after the order has; that
they do is what `ActiveOrderIndex` shows.  `DailySettlement` treats an order as a unit of
lots whose money `OrderLedger` and `CashSecurityLedger` account for;
`CashSecurityLedger` contains the part of the settlement that its component takes
(corporate actions and replay), and `RealtimePnl` the settlement's recovery of
Redis.  `OrderLedger` runs within one day with the gate open.

Three conventions hold throughout.  A property that joins several claims about
one matter is the conjunction of named parts (`RowsReconcile`,
`OrdersRestInSettlement`, ...), each with its own comment.  What goes wrong a
bounded number of times (exceptions, deaths, expired leases, closed connections)
is in most modules counted by one counter (`MaxIncidents`, `MaxEvents`, `MaxFaults`), so that TLC
tries every mixture of kinds.  A state the code cannot leave or an event it cannot undo, and that would make
a liveness property false, is named (`Obstructed`, `Barren`, `overtaken`, `Stranded`, `Unpayable`, `Skipped`)
and appears in the property: the name says what the operator has to look for.

## 3. The order ledger

`OrderLedger` is one derivative account trading one futures contract in one
direction (`Side`) on one day, with limit orders.

| Variable | Rows |
|---|---|
| `orders` | `order`, keyed by `client_order_id` |
| `allocations` | `order_close_allocation`, by order and position detail |
| `account` | cash, available and risk-available money, frozen and used margin and commission, close profit |
| `position`, `details` | `position` and its FIFO `position_detail` rows (`today` says which commission bucket and closing order applies) |
| `trades` | `trade` |
| `outbox` | the events written with the rows |
| `submissions` | requests that have found no order under their key and have not locked the account yet |
| `commands` | matches found in an unlocked read and not yet settled |

| Action | Code |
|---|---|
| `LookupMisses` | the first look for the `client_order_id`, before any lock |
| `AcceptSubmission` | the rest of `create_order`: the second look under the account lock, freezing or FIFO allocation, order and event |
| `DropSubmission` | any refusal: the transaction rolls back and nothing changes |
| `Match` | a worker reads an active order without a lock and matches it with a tick |
| `Settle` | `settle`: dedup by `match_id`, order read again under its lock, open or close fill |
| `DropCommand` | the worker dies, settlement refuses, or the order cannot be matched any more |
| `Cancel` | `cancel_order` |

Each action is one PostgreSQL transaction.  What happens between transactions -
two submissions of one key, a match of an order that is cancelled before it is
settled, a tick delivered again - is an interleaving of actions.

The consistency errors the code raises (`*_INCONSISTENT`) are guards of the
actions, and `ActiveOrderNeverStuck` says that they are never the reason why
an active order cannot be filled or cancelled.

Left out: options, the `realized_pnl` and daily columns, the status column of
an allocation, and the revaluation of risk.  The account stays NORMAL.  Of the handlers'
consistency checks, those of fields that are written once or derived from others in the same
statement (an order's commission parts and its closing flag, a position's bucket totals) are left out.

**Bounds.** Three client ids (two orders compete for the same lots while a
third opened them), two ticks (a partial fill and its redelivery or completion),
three kinds of request, one detail from yesterday, and two matches in flight
(`MaxInFlight`).  Margins and commissions are chosen so that nothing divides
evenly: every partial fill leaves a remainder for the last one.  The run is on the
long side; the theorems hold for both.  Deadlock is not checked: once
the client ids are used up and every order has ended, nothing remains to be
done.  Client ids are symmetric.

## 4. The matching process

`TickMatching` has the thread that consumes the tick stream (`TakeTick`, the look
at each candidate and its settlement, the acknowledgement or the failure count)
and the thread that consumes order events (`TakeArrival`: a limit order is offered
the cached quote, a market order is executed with the quote it was priced with and
its remainder cancelled).  Orders are accepted, cancelled and enter and leave the
index in steps of their own; nothing orders these against the streams.

| Variable | What it stands for |
|---|---|
| `orders`, `trades` | rows of `order` and `trade`; a trade is a match of an order and a tick |
| `ticks` | the stream, whose last entry is also the cached quote |
| `group`, `failures`, `arrivals` | consumer groups: delivered, pending and dead messages, and their failure counts |
| `matcher`, `arrival` | the two threads |
| `index` | the orders of the contract in the active-order index |
| `offered` | history: which orders a tick found in the index, active and in reach |

An exception can come before or after the commit of a settlement, which the caller
cannot tell apart (`FailCandidate`, `FailArrival`); `Crash` ends both threads.

Fairness: both threads loop, and pending messages become idle and are taken again.
`MessagesAreHandled` says that ticks and order events all end, acknowledged or
as dead letters, and that a market order ends with its event.

**Bounds.** Two orders of two lots, of either kind; two ticks, in reach or out of
it; retries end at the second failure.  Ticks and faults share the bound
`MaxEvents` = 3, so that two ticks meet one fault and one tick two faults.

## 5. The end-of-day settlement

`DailySettlement` models the gate, the settlement command as the chain of
transactions it is, and orders of five kinds: limit and market orders on
derivatives, which take the gate, and stock, convertible bond and ETF orders, which do not.

| Variable | What it stands for |
|---|---|
| `clock` | the session of day *d* is open (`3d-2`), has closed (`3d-1`), or closed more than four hours ago (`3d`) |
| `requests`, `orders`, `arrivals` | requests with the day they resolved; order rows with their traded lots and the day they were sold out; market-order deliveries with their failure counts |
| `holders` | transactions holding the advisory lock in shared mode |
| `queue`, `exclusive` | settlement processes waiting for it, and the one that has it |
| `runs` | how far each process is, and its target day |
| `batches` | `daily_settlement_batch`, the frozen prices, and the posted results |
| `accountDay` | `account.trading_day` |

A trading transaction is two actions, entering the gate (`EnterToCreate`,
`EnterToFill`, `EnterMarket`, `EnterToCancel`: lock, then the check of the batch)
and its commit (`Accept`, `Settle`, `Cancel`) or `Rollback`.  The two checks of
the fill path are one, because the shared lock is held between them.  Orders on
cash securities change in one action each (`AcceptCash`, `FillCash`,
`CancelCash`), since they ask neither the lock nor the batch.  `SellOut` is the sale of a whole
holding: the position row stays, and the settlement goes on asking a price for it.

A market order is executed by the arrival worker: `EnterMarket`, `Settle`, and
`CancelRemainder` for what its snapshot could not fill.  `CancelRemainder` is the
settlement-internal cancellation, which asks nothing.  The snapshot persisted
with a market order always offers something, because an empty opposite side
refuses the order (`order_price_resolver.py:163-169`).  Whatever raises
(`FailRemainder`, `Rollback`, a closed gate in `EnterMarket`) is counted and
repeated up to the dead letter; a delivery of an order that has ended is
acknowledged (`IgnoreArrival`).

A run is `Start`, `AcquireExclusive`, `Preflight`, `LoadOrStartBatch`,
`CancelNext`*, `OrdersCancelled`, `ConfirmBarrier`, `FreezePrices`, `Replay`,
`CompleteBatch`, `RecoverRedis`, each a transaction of its own in the code;
`Raise` is an exception inside one of them, followed by `MarkBatchFailed`, and
`Crash` the death of the process at any step, which drops the session lock.
PostgreSQL's lock queue is modelled: a shared request waits behind an exclusive
one that waits already.

`OrdersRestInSettlement` is about derivative orders.  A cash order may be filled
while a run holds the lock and accepted for a day that is settled, because its
services never ask the gate; `docs/daily_settlement.md:17-20` lists what does,
and cash orders are not in that list.  What must hold in spite of them
(`DaysPostedOnceInOrder`) is checked with a bond order next to the others (a bond may be sold on the day it was bought,
a stock from the next).

`StartedDayCompletes` says that a day whose settlement was started is completed if
the command is repeated, unless it is `Obstructed`:

- a run died after it had posted the day and before it completed the batch: the
  results are there and refuse every later run (`daily_settlement_service.py:1190`, `:2337`);
- a market order is active and its event is a dead letter: the settlement does not
  list it (`order_repository.py:240`), a client may not cancel it, and the barrier
  counts it;
- an ETF order is active: the settlement has no cancellation service for its type
  (`daily_settlement_service.py:616`);
- a trade of a later day has reached the account, by an order on a cash security or because an
  account without a day was bound to the later one (`daily_settlement_service.py:1504`,
  `order_service.py:904`);
- the price database has no tick of the day for a contract that is held or was traded
  (`settlement_last_tick_provider.py:217`, `daily_settlement_service.py:778`);
- the frozen prices do not cover what the posting asks a price for: a security was traded after an
  earlier run had frozen them, and they are not frozen again (`daily_settlement_service.py:741`); or
  a security was sold out on an earlier day, so that nobody asks for its price when prices are
  frozen, but its row is still there when accounts are posted (`:1325`,
  `CASH_SECURITY_SETTLEMENT_PRICE_MISSING`);
- a cash security is held and its last tick is more than `tick_max_age_seconds` (14400) old when the
  day is posted, because the run, or its repetition, came late, or because trading in the security ended
  early (`:2209`, `CASH_SECURITY_SETTLEMENT_MARK_MISSING`).

These are the obstacles that the orders, trades, prices and times of the model can make.  Reference data
is assumed to be in order (calendar, sessions, instruments, margin and fee rules), and so are the
arithmetic checks of the replay for derivatives; income is the subject of `CashSecurityLedger`
and of the finding in section 13.  The staleness check of `_validate_tick` (`:682`) belongs to the Redis price source;
the command always passes the price database (`run_daily_settlement.py:48`), which asks only that
there is a tick.

Assumptions: operators start days in calendar order and may repeat any day;
one trading calendar; each order has its own contract; a cash holding is sold as a whole.

Left out: the arithmetic of the replay for futures, option expiry,
`current_stage` (nothing reads it back).

**Bounds.** A limit and a bond order of one lot and a market order of two (so that a remainder is
left to cancel), one quote, a contract without a tick on the second day and a bond whose
trading ends early on it, two days, one operator who repeats the command, one
failure or crash at any step, and an account that starts without a trading day or on day 1.
Two days are needed for everything that says "in order" or "stays completed".  A
second operator adds a queue for the exclusive lock; the theorems of
section 12 hold for any number.  Deadlock is checked.

**Fairness** (`FairSpec`, only for `StartedDayCompletes`).  Sessions go on; a
transaction that holds the lock ends; the arrival worker loops; a run that holds
the lock takes its next step - all weakly fair, as processes that are running
are.  `Repeat(d)` is strongly fair: the operators keep coming back to a day that
was started and is not complete, whatever other days they run in between.
Nothing is fair about new orders, fills or cancellations by clients, nor about
the first run of a day.

## 6. Event delivery and the active-order index

`OutboxPublisher` models `outbox_event` rows, workers that claim a batch with
`FOR UPDATE SKIP LOCKED` under a lease, publish event by event and commit each
outcome, over whatever another worker has written in the meantime.  `due`
stands for `next_retry_at`.  `Error` covers both an `XADD` that Redis refused
and one that took effect although its reply was lost.  `Crash` leaves the
claimed rows PROCESSING.

`ActiveOrderIndex` models the order rows by status and version, the stream as
`EventDelivery` promises it (any order, several copies), a consumer group with
pending and stale messages, and the index with its set of contracts.  A
consumer's message is several steps, because the code reads the row, reads the
detail and runs a script at different times; each Lua script is one step.  The
rebuild reads pages of rows and writes them back later.

`EventDelivery` lets an event be `lost`: after `max_retries` calls have raised the
publisher gives it up (DEAD), and the promise is that every committed event ends
up published or lost.

Left out: market orders (a market order is never indexed; the consumer
acknowledges its events), the content of an event (the code reads the row instead), the
processed-event keys (they only label the outcome), the sets by account and by
underlying, `update_margin_risk_snapshot`, messages that are malformed or were
trimmed from the stream.

The REPAIR branch of the rebuild is modelled and cannot be reached: an order
that was indexed but is on no page has ended, and does not become active again.

**Bounds.** `outbox_publisher` has two events, two workers that claim up to two,
`max_retries` 2 and three errors, so that one event can be given up while the
other is in trouble.  Leases that expire in the hands of a live worker
(`MaxSlow`) and deaths (`MaxCrashes`) are bounded; expiry after a death is not.
`active_order_index` has the one consumer that is deployed
(`docker-compose.yml:123`), two orders of one contract with two versions each and
three changes of the rows, `max_retries` 1, pages of one row, and any two incidents out of
exceptions, deaths and rebuilds: a message fails and is dead-lettered, the
dead letter fails and the message is taken again, or the failure is not even
counted; the rebuild runs next to the consumer, or dies.  `MaxCopies` is 1:
a second copy in the stream and a message taken again are the
same to the code, which has no memory of what it has done.  Deadlock is not
checked: versions and events run out.

`IndexFollowsOrders` and `IndexConverges` are about histories without a rebuild: a
rebuild may write an order back that has ended since it read its page, and the
order then stays indexed until the next rebuild (ticks skip it, because matching
and settlement read the row; its contract stays subscribed).  `ContractsCoverIndex`
and `OnlyFinishedOrdersLeaveIndex` hold with rebuilds and, by the theorems of
section 12, with any number of consumers.

**Fairness.** Publisher workers and consumers loop for ever; time passes, so
that leases expire and pending messages become stale; a rebuild that was
started runs on.  The delivery is fair as far as `OutboxPublisher` is shown to
be.  Redis's errors are bounded in number and otherwise unrestricted.

## 7. Realtime profit and loss

`RealtimePnl` shows one account three times: as facts in PostgreSQL (`book`), as
snapshots in Redis (`positions`, `account`, `index`), and as the caches and reads
in the middle of a cycle of a worker (`worker`).  A cycle of `RealtimePnlWorker` is
the chain of reads it is in the code - dirty marks, cache version, facts, prices,
old snapshots - with other processes between any two of them, and one Lua
script that writes everything if the lease is still held and the version is still
the one it read.  `MarkDirty` is `TradeEventPnlWorker`, `Persist` the persistence
worker, `SettleDay`, `RepeatRecovery` and `Recover` the settlement's recovery of Redis,
whose steps (delete, raise the version, rewrite) are actions of their own.

`CleanMeansCurrent` is the point of the dirty marks: none is cleared that still
has something to tell.  `NeverOlderFacts` is the point of the version.  Both
have one excuse, `counters.superseded`: a worker whose lease expired, was taken by
another instance and came back works on with what it had cached before; it is
counted when it happens.  `docker-compose.yml` deploys one instance, where it cannot.

Fairness: the workers loop; a cycle over all accounts is due every minute however
many cycles there are in between (strong fairness of `BeginFlush(w, TRUE)`); a
lease that nobody renews expires; a recovery that was begun goes on.

**Bounds.** Two workers, one contract, one trade or other transaction, one tick, and
one incident: a batch of the persistence worker, an expired lease, a dead
worker, a settlement or a repeated recovery.  One of each is what the hazards need
(one thing happens between a read and the write), and the state space of a cycle
with a second worker is large enough as it is.

## 8. Cash securities

`CashSecurityLedger` is one account and one security: its orders, its shares by
what may be sold today, its cash, one corporate action in two revisions, and the
days.  `Submit`, `Cancel` and `DeliverTick` are `create_order`, `cancel_order` and
`settle`; `DeliverTick` may deliver any tick to any order ever accepted, any
number of times, which covers every stale match.  `Import`, `Confirm` and
`Subscribe` are what operators and holders do about the action.  `Barrier`,
`RunDueActions`, `Repeat` and `Post` are the part of the settlement that runs on
this component: its cancellations, all steps of the action that are due that day
in the code's order, a repetition of the run, and the replay with its checks.

`ReplayIsLive` compares the two translations of every fact, the live handler's and
the replay's (`SettlementAccepts` says that the checks between them never refuse
the day, prices and income apart).  Exceptions, each named at its property: the cost of shares subscribed in a
rights issue, which the replay counts when they are subscribed and again when they
are listed; the cash in lieu of a split into fractions whose record day is before its ex
day, which may belong to another holding than the recorded one.

**Bounds.** Three orders at one limit with volumes 1 and 3, two ticks (one fills partly,
one trades below the limit), fees with a minimum that exceeds the rate's for small fills, seven
combinations of a product, a kind of action and a schedule (record and ex day the
same or not), two revisions, two subscriptions and three days, the last of which is
after everything is due.

`CashValuation` is the other half: `ReadFact`/`HandleFact` and `HandleTick` are the two
stream workers, `BeginRebuild`/`EndRebuild` the rebuild of the routes at a restart, and a writer
goes through `WriterStep`: acquire or renew the lease, activate the database fence,
list dirty accounts, and per account begin (fence and account locked), commit, write the
snapshot, clear the mark.  A writer may lose
its lease anywhere, die, fail between two steps (`RollBack`) or stop.  The feed may publish an
older tick over a newer one.

`Converges` names two exceptions.  `Barren`: a writer whose activation of the fence
raised keeps renewing a lease whose token is not in the fence, so that it never
values anything and nobody else may.  `overtaken`: the tick worker rebuilds the routes each time it starts
(`cash_security_valuation_worker.py:161`), from rows it has read before; a fact that
is handled between the read and the write is undone by the write, and ticks of that position
reach nobody until its next fact or the next rebuild.  `HoldingsAreValued` excepts the same
positions.  The fact worker's own rebuild cannot do this, since it handles no facts meanwhile.

Fairness: the loops go on and a lease that nobody renews expires.

**Bounds.** Two accounts with a position each in one contract, two writers, two ticks,
two changes of positions, one fault, which may be a restart of either stream worker with its rebuild;
the theorems of section 12 hold for any number of rebuilds.

## 9. Risk and liquidation

`RiskLiquidation` reduces an account's numbers to differences between its equity and its margin, one unit for
each lot: `cover` is what `risk_ratio` compares, `slack` is `risk_available_cash`, which the owner's opening order takes
from, and `cash` is `available_cash`, to which a closing fill returns margin at once.  The
market takes from the equity and gives back, the owner opens and cancels, and the valuation follows in a
transaction (`Value`) whose mark for the risk worker is a separate call (`Mark`).  The quote may
be usable, too old for a valuation, or missing.
A risk worker's cycle is: assess in a transaction, cancel opening orders, wait for the
next valuation, create a task; and for a task: prepare (account lock, key stored
first), create the order, record it.  `CreateOrder` reads the counter price of the latest tick however old
it is, and is refused if lots or the commission of the order are not there (`CommissionCovered`).  Each is an action, a worker may fail, die or
lose its lease between any two, and the lease has no fence.

`OrdersFollowTasks` and `DeficitIsHandled` excuse histories in which a worker lost the lease within its
cycle (`lost`): the lease is not fenced (`risk_monitor_worker.py:47`), and two workers may
then both act.  `Converges` has two excuses, and is violated without either.  `Stranded`: a working closing order whose price
the market has left is neither repriced nor replaced
(`liquidation_service.py:220-222`).  `Unpayable`: the account's available cash does not cover the
commission of a closing order (`order_freeze_service.py:252-256`), so that every order is refused,
its task fails and the next one is created.  With the default thresholds this is not an
exception but the rule (section 13); the run has a `risk_liquidation_ratio` below 1.00, under which a deficit
may still be payable.

Fairness: valuation and marks go on, the workers loop, all accounts are reconciled
once a minute (strong fairness of `Reconcile`), a lost quote comes back, and an order
that can trade does.

**Bounds.** Two workers, two lots, five units of equity, thresholds two, three and four, a commission of one; two moves of the market of up to
two units, one fault (a lost quote and a cancellation by the owner among them), no more than two of these together; one opening order of one lot; and `max_retries` 1, so that a task fails
while its order is still working, which is when the next task may meet that order.  A loss of one unit is a
warning, of two a deficit that can be paid, and with an opening order or a fill at a loss one that cannot.

## 10. Market data and the gateway

`MarketFeed`: `LoopStep` is one pass of the subscriber's main loop (observe what is
wanted, replace or reduce the subscription, connect, publish the status); `OnQuote`
and `OnMessage` are the SDK's callbacks into the bounded queue; `JobSucceeds` and `JobFails` the
thread that fetches the database's last ticks; `Process` the consumer that decides
between a live tick and a snapshot by the watermarks; `Want`, `Prepare` and `Expire`
what makes codes wanted; `OrderSnapshot` a snapshot that the API process writes past the
subscriber.  `PriceGoesForward` excuses a tick that replaces one of `OrderSnapshot` and
a tick that was sent before its code was given up (`since`), which both are the code's
behaviour: giving a code up forgets its marks, and a live tick in the queue is not stopped
for being of an older generation (`market_data_subscriber_worker.py:735-745`, `:578-592`).
`SnapshotNotForgotten` excuses `skipped`: a snapshot that was fetched and then dropped
from the full queue, or failed, is not fetched again
(`market_data_subscriber_worker.py:456-498`, `:578-584`).

Fairness: the threads go on and waiting times pass; `DebouncePasses` is strongly fair,
since every change of the demand starts the waiting time anew.

**Bounds.** Two codes, a queue of two, two ticks, one change of the demand (besides
any initial demand), one fault.

`RealtimeGateway`: `CommitFact` and `Project` bring a fact to the stream, late, again
and in any order; a gateway takes the lease, reads a batch, routes it and
acknowledges; the handler of a connection subscribes, reads the cursor, builds the
snapshot from the database and joins the events buffered meanwhile, each between two
awaits of the code; `Send` takes from the connection's queue to the page, which
applies what it is sent, as `static/trading_test.js` does.

`NothingSkipped` and `Converges` excuse a message whose routing has raised once
(`failed`, `Skipped`): its retry comes after later messages were routed, and the
connection's own version check then drops it (`connection_manager.py:178`).
`EventsGoForward` excuses the page's fall back after a snapshot, to an event that the snapshot already
covers.

Fairness: projection, lease expiry, a running gateway's consumer and the handler go
on; a gateway that has stopped is started again, and one that has lost the lease is stopped
(the code never takes it again by itself); the page asks for a ticket, connects and
subscribes again.

**Bounds.** Two gateways, queue of two, buffer of one, batches of two, two versions,
two faults of any kind: a buffer or queue that is full, a lease that moves while a batch is on its way,
a retry.

## 11. Runs

| Run | Question | Distinct states |
|---|---|---|
| `order_ledger` (`MCOrderLedger.cfg`) | Every interleaving of duplicate submissions, stale matches, redelivered ticks, partial fills and cancellations of three orders on the long side keeps money, lots and margin accounted for, with non-divisible margins and commissions. Checks `RowsReconcile`, `EachMatchSettledOnce`, `TradesExplainLedger`, `ActiveOrderNeverStuck`, `OutboxTellsTheLedger`, `YesterdayBeforeToday`, `ImplementsLifecycle`. | 223 thousand |
| `settlement` (`MCDailySettlement.cfg`) | A limit, a market and a bond order race an operator who settles two days, whose runs die or fail at any step, meet prices that are missing or too old, and are repeated: derivative trading never reaches into a settlement, each day is posted once, in order and completely, and is completed in the end unless a named obstacle stands in its way. Checks `SettledDayIsComplete`, `DaysPostedOnceInOrder`, `OrdersRestInSettlement`, `StartedDayCompletes`. | 1.33 million |
| `outbox_publisher` (`OutboxPublisher.cfg`) | Two workers publish two events while Redis raises up to and beyond max_retries, a worker dies and a lease expires in the hands of a live one: SENT is never a lie, nothing is repeated without cause or forgotten, and the abstract event delivery is implemented, its liveness included. Checks `SentMeansPublished`, `RepeatsHaveAnExcuse`, `ImplementsDelivery`. | 459 thousand |
| `active_order_index` (`MCActiveOrderIndex.cfg`) | The deployed consumer and two orders of one contract, with events in any order and any two of an exception, a crash, a failing dead letter and a rebuild: the index comes to the state of the order rows, the contract is subscribed exactly while one of its orders is indexed, and an active order never loses its place. Checks `IndexFollowsOrders`, `ContractsCoverIndex`, `OnlyFinishedOrdersLeaveIndex`, `IndexConverges`. | 696 thousand |
| `tick_matching` (`MCTickMatching.cfg`) | The thread of the ticks and the thread of the order events offer two orders of either kind the same quotes, with exceptions, lost answers, crashes and cancellations in between: no quote fills an order twice, none is acknowledged before every order it should have filled, and every message ends. Checks `TradesExplainOrders`, `AcknowledgedTicksWereOffered`, `MessagesAreHandled`. | 2.27 million |
| `realtime_pnl` (`MCRealtimePnl.cfg`) | Two instances of the realtime worker share one account while it trades, ticks arrive, the persistence worker and the settlement's recovery write, and one process dies or one lease expires under its holder: nothing is shown clean that is not current, no older facts replace newer ones, and what is shown becomes right. Checks `CleanMeansCurrent`, `NeverOlderFacts`, `Converges`. | 569 thousand |
| `risk_liquidation` (`MCRiskLiquidation.cfg`) | Two risk workers watch one account through losses, openings and lost or old quotes, cancel and close in several transactions, and one of them fails, dies or loses its lease: one order closes at a time, no deficit is lost sight of, and it is liquidated in the end unless the market has left the closing order or the account cannot pay its commission. Checks `OrdersFollowTasks`, `DeficitIsHandled`, `Converges`. | 1.37 million |
| `cash_ledger` (`MCCashSecurityLedger.cfg`) | Three orders and one corporate action of each kind, in two revisions, over three trading days: cash and shares promised to orders are there, the settlement's replay of all facts gives the rows the live handlers left, and every action takes effect once and to its end. Checks `OrdersAreCovered`, `ReplayIsLive`, `SettlementAccepts`, `ActionsTakeEffectOnce`. | 1.31 million |
| `cash_dividend` (`MCCashDividend.cfg`) | On the ex day of a cash dividend the settlement refuses the account in every repetition, because only one of the two profits it compares counts the dividend. Checks `EveryDayPosts`. | stops at the violation |
| `cash_valuation` (`MCCashValuation.cfg`) | Two writers take turns in valuing two accounts that hold one security, while trades, ticks in and out of order and one rebuild of the routes by either worker, crash, expired lease or failure interleave: no holding is forgotten unless the rebuild has overtaken its fact, nothing shown or stored falls back, and accounts are valued in the end. Checks `HoldingsAreValued`, `NothingFallsBack`, `Converges`. | 1.18 million |
| `market_feed` (`MCMarketFeed.cfg`) | The subscriber of one market follows demand for two codes over connections that break, with partial failures, full queues and snapshots fetched besides the live ticks: no code is reported subscribed or priced that is not, prices go forward, and the demand is met in the end. Checks `SubscriptionsAreComplete`, `PriceGoesForward`, `Converges`. | 798 thousand |
| `realtime_gateway` (`MCRealtimeGateway.cfg`) | A page connects through either of two gateways that take the lease from each other, joins its snapshot to the events that follow, and loses, exhausts and renews connections: no event falls in between, versions go forward, and the page shows the last fact in the end. Checks `NothingSkipped`, `EventsGoForward`, `Converges`. | 277 thousand |

Every action of every module fires in the passing runs.  `CHECK_DEADLOCK FALSE` is
set where orders, ticks and incidents run out and nothing is left to be done; the
settlement's run checks deadlock.  Type invariants (`TypeOK`) are in the modules and
proved where the theorems need them; no run repeats them.

## 12. Proofs

The theorems hold for every value of the constants that satisfies the named
assumptions of the modules (in brackets below).  TLC has checked each
invariant, or the properties it implies, on the instances of section 11.

`Sums` carries the arithmetic.  Account and position columns are sums over orders,
allocations and details, and sums are folds, about which a prover knows
nothing.  `SumFunctionOnSet` is taken apart here once: induction over the subsets
of a finite set (`SubsetInduction`, stated for a set of good sets instead of a
predicate and derived from `WFMin`) shows that the sum over a set is that over the
rest plus one element, whichever is taken; from there that a sum moves by what one
element moves by, that it covers each of its parts, and that it depends on the
values only.

`OrderLedgerProofs` (`ClientsAssumption`: finitely many client ids;
`RequestsAssumption`, `QuoteAssumption`, `RateAssumption`, `OpeningAssumption`:
volumes positive, prices natural, opening rows consistent and free; for the index of
active orders `OrderAssumption`, `BoundsAssumption`):

- `TypeCorrect`. Every variable of the ledger stays within its type, for any number of clients, lots, prices and fee rates.
- `FundsAddUp`. FundIdentity, a part of RowsReconcile: cash is at all times the sum of available money, frozen margin and commission and used margin.
- `OrdersBalance`. An order's lots are always its traded, remaining and cancelled lots, and its status says which of them are there.
- `FinishedOrdersStayFinished`. No step of any handler changes an order that has ended.
- `KeysNameOneOrder`. A client_order_id names one order of the account for good, however its submissions race.
- `MatchesSettleOnce`: `EachMatchSettledOnce`. No two trades carry the same match, however often ticks are delivered.
- `RowsAlwaysReconcile`: `RowsReconcile`. Every frozen or used amount and every frozen lot belongs to an order, an allocation or a position detail, and each account, position and order row agrees with them, for any fills, roundings, duplicates and cancellations.
- `ActiveOrdersNeverStick`: `ActiveOrderNeverStuck`. The consistency checks of settlement and cancellation never refuse an active order, whatever its earlier fills and releases left.
- `TradesAlwaysExplainLedger`: `TradesExplainLedger`. At every moment an order has traded what its trades say, and cash has moved only by their commissions and close profits, for any number of duplicates, stale matches and partial fills.
- `OutboxAlwaysTellsTheLedger`: `OutboxTellsTheLedger`. An order has its acceptance in the outbox exactly when it exists, one trade event for each match that was settled and its final status once it has ended, never a second one.
- `YesterdayAlwaysFirst`: `YesterdayBeforeToday`. No order entry promises a lot of today to an ordinary CLOSE while a lot of yesterday is free.
- `LedgerImplementsLifecycle`: `ImplementsLifecycle`. The ledger with all its handlers implements the abstract life cycle of independent orders.
- `IndexTypeCorrect`. Every variable of the consumers, the index and the rebuild stays within its type, for any number of orders, contracts and consumers.
- `ContractsStay`: `ContractsCoverIndex`. The contract of an indexed order is always in the set of contracts to subscribe, whichever consumers and rebuild work on the index.
- `ActiveOrdersStay`: `OnlyFinishedOrdersLeaveIndex`. No step of any process removes an order from the index that may still trade.
- `IndexAlwaysFollows`: `IndexFollowsOrders`. With one consumer, as deployed, and no rebuild, an index at rest is the state of the order rows, whatever order and number of copies their events come in.

The rows come first.  `RowInv` is the types, `ReserveOK` and `OrderBalance`, which
alone is not inductive: the fill handlers compute the margin to release from the
frozen margin and the remaining volume, and that a fill releases at most what
is frozen, and the last one all of it, needs `ReserveOK`.  Whatever action is
taken, it changes at most one order row, in one of three shapes (`StepsAreRowSteps`),
from which the rest about single orders and the refinement follow.

`LedgerInv` adds the money and lots that orders freeze.  `FreezeOK` says it of one
order: its allocations hold exactly the lots it has still to close, their commissions
are its reserve, and an allocation without lots has no commission.
`ReservesAddUp` and `LotsAddUp` say that the account, the position and each detail have
frozen the sum of that.  Each step writes one order, so the sums move by what it
moves; that what a FIFO split takes is all that is asked for, from no row more
than it has, is `FifoTakes`; that closing the last lot of a detail frees its margin to
the last unit, however earlier fills were rounded, is `MarginsFollowLots`.  The
consistency checks of the code follow because a sum covers its parts: what
an order releases is frozen in the account (`CloseFillsPass`, `CancelsPass`).

`TradesInv` relates orders and cash to the set of trades: each step adds
at most one trade, under a match that no trade has yet, and it moves the
traded volume and the cash by that trade (`FillsAreRecorded`).  `OutboxInv` says of one
order which events the outbox has of it (`Tells`); it knows `trades`
because an event of a trade is only new if its trade is.  `YesterdayAlwaysFirst` is
about one step: the plan takes details in FIFO order, and yesterday's come first.

The last four are about `ActiveOrderIndex`; the invariant of the first three of them is
`IndexInv`.  That only finished orders leave the index is
not visible in the step that removes one: the consumer removes what it found ended when it
read the row, the rebuild what it did not find on any page.  `ConsumerKnows` and
`RebuildKnows` keep what they have found true until they act on it: an order that has ended stays
so, whatever is changed, delivered and taken over in between.

`IndexAlwaysFollows` is stated for one consumer (`Consumers = {c}`), slow or not, and
histories without a rebuild; TLC shows that it fails with two consumers or a rebuild.
`Follows` says of each order that the index shows its row, or there is news it has not read:
an event not yet published, delivered or acknowledged, or a read that the consumer
has before it.  A change of a row makes such an event; only the consumer takes it away, by writing what it
read; and what it read is the row, or the row has changed since and there is
a newer event.

`EventPathProofs`, from the outbox to the page (`BoundsAssumption`, `WorkersAssumption`:
finitely many workers; `GatewayAssumption`):

- `SentIsPublished`: `SentMeansPublished`. A row that says SENT has its event in the stream, for any number of workers, failures and expired leases.
- `GivenUpLate`. An event is given up only after max_retries of its calls have raised, although every worker counts from the retry_count it has read.
- `RepeatsAreExcused`: `RepeatsHaveAnExcuse`. An event stands in the stream once, and at most once more for every XADD that raised although it took effect and every lease that expired, for any number of workers, failures and deaths.
- `OutboxDelivers`. The safety half of ImplementsDelivery: every behaviour of the outbox is one of the abstract delivery - what is in the stream was committed, no event is published more often than MaxCopies, what is given up was committed, through any failures, deaths and expired leases.
- `PagesMissNothing`: `NothingSkipped`. Whatever gateway holds the lease: once the consumer group is done with an event, the page that is subscribed at the holder was sent it or a snapshot that covers it, or its routing has failed; for any number of gateways, faults, full buffers and expired leases.
- `PagesGoForward`: `EventsGoForward`. The page falls back only from a snapshot, however late, often and out of order its events are projected, routed and queued.

The invariant of the first two is `OutboxInv`.  Its heart is `WorkerKnows`: what a
worker that has lost its lease still knows of its event whatever others have written
to the row.  A worker past its call knows that the event is in the stream, which never
shrinks; a worker whose call has raised knows that the number of raised calls is
larger than the `retry_count` it read, and that number never shrinks either.

`ExcuseInv` counts for each event who may still publish it: the workers that hold
it, and one more while its row can be claimed (`WithinExcuses`).  That sum and the copies in the
stream stay within one and the excuses: a lease that expires turns its holder into a
slow one and the row into one that can be claimed, and is counted as it does; an XADD
that raised although it took effect likewise.

`OutboxDelivers` proves `Delivery!Spec` for the values of
`committed`, `stream` and `lost` under the mapping of `OutboxPublisher`.  That a published
event has room for its copy is the excuses again: every expired lease belongs to
a worker that was slow or died (`LeasesCounted`, `Orphaned`), both of which are bounded.
What a worker holds is committed (`HeldIsCommitted`); and a worker that writes a
status gives the event up, revives it or stutters.

The last two are about `RealtimeGateway`; its invariant is `GatewayInv`.
`CoverInv` follows an event from the stream to the page that is subscribed at the holder of the
lease: what the group has behind it, or what has been passed by a later event, is sent,
buffered or in the snapshot (`Covered`), at whichever of the handler's awaits the connection
stands.  It holds only of the holder, since another gateway's batch may be older
than what the holder has acknowledged (`GroupInv`: the holder's messages are pending).  `StreamInv`
makes event ids and versions go together, so that the version check of a connection
never drops what is new; `ConnInv` says that the snapshot that is being joined covers all up to
its cursor.  `PageInv` adds the queue of the connection to what the page shows: along it
only a snapshot may be followed by something older.

`DailySettlementProofs` (`OrderAssumption`, `QuotesAssumption`,
`RunnersAssumption`, `BoundsAssumption`; the last three theorems `PnlAssumption`):

- `SettlementsExcludeTrading`. No trading transaction of a derivative order is inside the gate while a settlement process is past the lock, for any number of orders, operators, days and failures.
- `DaysPostOnceInOrder`: `DaysPostedOnceInOrder`. The results of a day reach account cash at most once, and only after all earlier days are completed, however often runs are repeated, fail or die.
- `OrdersEndWithTheirDay`. No derivative order of any kind is active once its day is posted.
- `PostedFactsStayTrue`: `SettledDayIsComplete`. The posted facts of a day are, and stay, all that its derivative orders ever trade.
- `CompletedDaysStay`. No step of any process reopens a completed day.
- `FrozenPricesHold`. A price frozen for a day is never replaced by a later run.
- `OrdersRest`: `OrdersRestInSettlement`. Derivative orders do not move while a run holds the lock, between a failed run and its repetition, or on a day that is completed.
- `PnlTypesHold`. Every variable of the realtime snapshots stays within its type, and no worker has a mark, version or fact that is newer than what is stored, for any number of workers, contracts, trades and recoveries.
- `CleanMarksMeanCurrentFacts`: `CleanMeansCurrent`. When no mark of the account is dirty, the snapshot shows the facts of PostgreSQL, for any number of workers, expired leases, deaths and recoveries that were not superseded.
- `ShownFactsGoForward`: `NeverOlderFacts`. No step of a worker, the persistence or a recovery replaces the shown facts by older ones.

The invariant is `SettlementInv`.  Beyond `LockExcludes` the properties are not inductive
alone; each side of the gate relies on what the other side's processes have made sure of.
`RunKnows` says it of a settlement process (past the preflight all earlier days are
completed, before the completion the day is posted), `BatchKnows` of the batches
(started only after all earlier ones are completed), `HolderKnows` of a trading
transaction inside the gate (every started day is completed and before its own),
and `OrderKnows` is what follows for the orders.  `GateOpen` and `GateOpenFor`
derive `HolderKnows` from `TradingOpen`, which looks at the latest batch only: by
`BatchKnows` the latest batch speaks for all.  The handlers are expanded in two
lemmas, `TradingShape` and `SettlingShape`, which reduce them to a few shapes; the
rest is proved from the shapes.

The realtime snapshots have an invariant of their own, `SnapshotInv`.  `CleanMeansCurrent` speaks of
moments at which nothing is dirty, so the invariant says it of every moment: what is shown and
not current will be told of, by an event, a mark or a recovery (`ShownInv`), and a cache
that is not current has not seen all that will tell (`CacheInv`).  A cycle clears the marks it
has listed only if its cache has seen them (`LeaseInv`), and a cache with the version of a recovery
has been read after the facts it announces (`RecoveryInv`).  The steps of a worker are
first reduced to five (`Works`, `Acquires`, `Reloads`, `Refreshes`, `Shows`), the others to `Rests` and `Changes`.
The excuse of a superseded worker is part of both statements: without it TLC finds `NeverOlderFacts` violated
once three incidents are allowed.

`MarketDataProofs` (`MatchingAssumption`, `FeedAssumption`):

- `TradesAlwaysExplainOrders`: `TradesExplainOrders`. Two threads, retries, lost answers and crashes notwithstanding, an order's lots are what its distinct quotes have filled, and no quote fills it twice.
- `AcknowledgedMeansOffered`: `AcknowledgedTicksWereOffered`. A tick that is acknowledged has filled every order within its reach that it found in the index, in whichever of its attempts, unless the order has ended.
- `SubscriptionsAlwaysComplete`: `SubscriptionsAreComplete`. A source is reported as running only with the channels of all codes requested, and every code subscribed has a price, or its snapshot is on its way or was lost, through any changes, broken connections, failed queries and full queues.
- `PricesGoForward`: `PriceGoesForward`. No snapshot replaces a later tick and no late tick a later snapshot of the subscriber, except a tick that was sent before its code was given up.

The invariant of the first two is `TickInv`.  For the trades: a settlement decides again under the lock
of its order, by what is left of the order and of the quote and whether the
pair has a trade, so no thread has to know what the other has done (`SettleExplains`).
For the offers: `OfferKept` says that an order a tick has been offered to stays in
the index as long as it is active, so that an attempt that fails on the way is
repeated by one that finds it again, and an attempt that has not failed has the order
before it, has filled it, or has seen it end.

The invariant of the subscriber is `FeedInv`.  Neither property is inductive.  For the price,
`PriceInv` says what stops a live tick that is late for the price of now, wherever it is, on the wire or
in the queue (`Behind`): the watermark of its code is not before it, and no snapshot still to come
takes the watermark back, because a snapshot is at most one tick behind the market and so
cannot be much older than one that was fetched before it.  That needs the order of the queue
(`Ordered`): live ticks of a code by their times, each snapshot at most one behind those before it.
`PriceKept` is the part that all steps share but those which publish.  The proof of
this theorem corrected the model: giving up a code forgets the watermark while its ticks
may still be in the queue, and without `since` the property was false as
soon as a code is given up and wanted again.  For the snapshots, `SnapshotInv` follows a
code that was asked for from the job to the queue to the price (`Expected`) or to its loss; for
the status, `ChannelsInv` says that outside of a change the connection has the channels that were
confirmed.

`RiskLiquidationProofs` (`ThresholdAssumption`, `BoundsAssumption`,
`WorkersAssumption`):

- `OrdersAlwaysFollowTasks`: `OrdersFollowTasks`. Liquidation orders never close more than is held, an account has one open task at most, and as long as no worker loses its lease in its cycle a task works through one order at a time and leaves none behind when completed.
- `DeficitIsAlwaysHandled`: `DeficitIsHandled`. As long as no worker has lost the lease in its cycle, a deficit in the account row is in the dirty set or its mark is on its way, and a state of liquidation always has its task, through every crash and failure.

The invariant is `RiskInv`.  The lease has no fence, so what a worker has read is only good
as long as no worker has lost the lease in its cycle: then the
worker in a cycle is the one with the lease (`LeaseHeld`), and nobody else changes the
state and the task it has read (`ReviewKnows`, `TaskKnows`).  `RiskInv` therefore
claims `CycleKnows` of histories without such a loss, as the
properties do, and the rest of all: orders and workers name existing tasks, the open
orders close no more lots than are held, one task is open at a time, a state of
liquidation has its task.

`CashSecurityLedgerProofs` (`ProductsAssumption`, `FeeAssumption`, `RequestAssumption`,
`ActionAssumption`):

- `OrdersAreAlwaysCovered`: `OrdersAreCovered`. Frozen cash, fees and shares are those of the active orders and cash is what is available and frozen, through any sequence of fills, cancellations, splits, payments, deliveries and subscriptions.
- `OneRevisionEverExecutes`. OneRevisionExecutes, a part of ActionsTakeEffectOnce: of the revisions of one action at most one is ever executed.
- `ReplayIsAlwaysLive`: `ReplayIsLive`. What the replay makes of all trades and adjustments on the day it posts is the live position in total, pending and frozen shares and, without subscriptions, in cost, for any kind and terms of the action, fills, days, repetitions and revisions.
- `SettlementAlwaysAccepts`: `SettlementAccepts`. On the day a batch posts, if it has no income, only its price can refuse it - too old for the mark of a holding, or not frozen for a row without shares - and all other checks of the posting transaction hold: trades and ledger facts explain the cash, nothing is frozen and the replay is sane, for any product, terms, dates, fills, cancellations, payments, splits, deliveries, subscriptions and repetitions.
- `ActionsAlwaysTakeEffectOnce`: `ActionsTakeEffectOnce`. If what an action pays and lists is announced for days not before those it follows from (SchedulesInOrder): one of its revisions takes effect at most, nobody is given more than is due or owed less than nothing, what is completed has been delivered, and all is completed by the last day, for any product, terms, trades, subscriptions, repetitions and order of the announcements.

The invariant is `CashInv`.  `OrdersHold` is the ledger's argument again: only an active order
holds something, and account and position have frozen the sums.  What is new is the
settlement, which runs through all revisions of the action and, of each, through all the steps
that are due.  These are two nested folds over a record of all books; `FoldStays` shows that
a fold stays in a set that each of its functions keeps, and `GoodBooks` is that set: the columns
add up, the buckets of the position add up (`SharesAddUp`, which also says that the frozen shares are
among those that may be sold today), and one revision is live.  One lemma per step of an action
shows that it keeps the books good whatever the terms and roundings.  The checks of the posting
(`Sane`, nothing frozen) are enough to go on from whatever the replay is.

What the replay is, `ReplayInv` says.  `Follows` compares the columns that fills and actions
write by increments with the replay of the facts up to the moment.  The hard part is the
order: the live row takes trades and adjustments as they come and is rolled over every night,
the replay takes a day's trades first, then its adjustments, and visits only the days that
have facts.  `Together` states that a step of an action moves the books and leaves the
fact of it, both by the same delta; `NothingAdded`, that until the actions run a day's
adjustments are subscriptions, which touch no column that a trade reads; `NextDayFollows` carries
the comparison over the posting.

That the posting accepts, `SettleInv` says.  Its cash side, `Recorded`: the account's cash is
the opening balance with the cash of the trades (`TradeCash`, a fold over the fills, taken as
a run of its steps) and that of the ledger facts (`SumOverIsLedgerCash`); only revisions that
have been executed have facts, and each subscription was asked for once.  `Records` and `Posts`
state what a step of an action leaves: a fact of its own revision and, where it moves cash, one
that was not there before, so that a repeated step is not counted twice.  Its share side,
`PendingHolds`: what an entitlement has pending is part of the position's pending shares, and
only the one revision that is entitled can take from them (`KeepsPending`), so that no delivery
takes more than there is.  The replay is then sane because the live position is
(`SameShares`, `ReplayIsSane`).

What an action delivers, `DeliverInv` says.  `Deliveries(b, d, n)` states, for the books `b` after step
`n` of day `d`, what whoever is entitled has been given: the claim once its day has passed and
not before, the money once its day has passed, shares that are pending, credited or both, and
a receivable that is exactly what has been claimed and not paid; who is not entitled has
nothing, and is owed nothing.  One lemma per operation takes `n - 1` to `n` (`ExDateGives`,
`MaturedGives`, `PaidGives`, `ListedGives`, and `NotDueGives` for a day on which it is not due), and
`StepsRun` and `RevisionsRun` carry that through the two folds.  `FinishedEnds` and `LastDayFinishes` are the
two halves of completion: what `_maybe_mark_completed` takes for finished has ended, and on the last
day all of its conditions hold.  The invariant is about the position in one place, the fraction of a
split on its ex day, and that is where the exception of `DeliveredOnce` comes from: `SplitLoses` compares
what the rounding of the buckets loses with the fraction of the whole.

`ActionsAlwaysTakeEffectOnce` assumes `SchedulesInOrder`, which the run's schedules satisfy and the
module evaluates.  `import_action` compares the record day with the ex day and no other dates: an
action imported with a payment before its ex day would be paid before it is owed, and one with a
listing before the subscription ends would leave what is subscribed later pending.

`CashValuationProofs` (`RoutesAssumption`, `FiniteAssumption`, `BoundsAssumption`):

- `NothingEverFallsBack`: `NothingFallsBack`. No valuation takes a mark back to an older tick, no Redis snapshot goes back to an earlier valuation and valuations are committed in the order of the fencing tokens, for any number of writers, accounts and positions and whatever fails.
- `NoHoldingIsForgotten`: `HoldingsAreValued`. Unless a rebuild of the tick worker, which had read the rows before, is written after a holding's last fact was handled: a holding whose fact was handled is in the routing index, and an account that is clean with no message on its way is valued at the latest ticks, in its rows and its snapshot, through crashes, restarts of either worker, lost leases and late writers.

Every action of a writer is one of eight moves
(`WriterStepIs`), and every other step leaves writers and database alone.  `FenceInv` says who
values: tokens are given once and grow, whoever has a transaction open has the fence, and
what the owner of the fence has still to publish is the account's row (`ShownInv`).  That is
enough for `NothingEverFallsBack`.

`HoldingsInv` says who is still to be valued.  `ReaderInv` follows the fact worker over the gap between
its read and its write: the row it has read is current, or another fact of the
position is behind it; with it `IndexInv` has every holding without a fact in the index and in the
one a rebuild is about to write.  `ValuesInv` follows a valuation from the read of the ticks to the
clearing of the mark: as long as the mark is the one that was listed, the ticks read are the
latest, the rows committed are those of the latest ticks, the snapshot shows them.  It is
not inductive without `OrderInv`: a writer that comes late must not clear a mark on behalf of
a valuation another writer has since replaced, and it cannot, because what it has is not newer than what the
owner of the fence is going to value.  Of a position that is `overtaken` `IndexInv` claims nothing, since the
rebuild of the tick worker undoes what the fact worker has written; a position that is not has all its later facts
in front of it or in what the rebuild has read.

Only model-checked:

- liveness: `StartedDayCompletes`, `IndexConverges`, `MessagesAreHandled`, every `Converges`, and the fairness half of `ImplementsDelivery`.
  Liveness under fairness is out of the prover's reach.


## 13. Finding and observations

**`cash_dividend`** (`EveryDayPosts` in `src/app/services/daily_settlement_service.py:2038`). On the ex day of a cash dividend (and of a bond coupon) an account's daily_pnl contains corporate_income (src/app/services/daily_settlement_service.py:2027), but expected_net_pnl (2038-2042), which it is compared with, does not: the replay raises REPLAY_NET_PNL_CONSERVATION_FAILED (2053-2057). Nothing a repetition does changes either number, so the day can never be posted, while the docstring of run(), src/app/services/daily_settlement_service.py:2642, says "执行或续跑一个交易日；已完成批次只恢复缓存并幂等返回。" The run cash_ledger shows (SettlementAccepts) that apart from income only a price can refuse the day: a mark that is too old, or a row without shares whose security has no frozen price.

Observations made while modelling.  No run is devoted to them; where one of them
would make a property false, the property names it.

- **Settlement.** The obstacles of section 5.
- **Index.** The rebuild writes back an order that has ended since its page was read
  (`active_order_rebuild_service.py:97`).
- **Matching.** The arrival thread may handle an order's event before the index
  consumer has indexed the order.  A tick in between finds it nowhere, and the order
  waits although the latest quote is within its reach; the docstring of
  `order_arrival_matching_service.py:22-26` counts on the opposite order.  A tick that is
  retried may fill an order that was accepted after it.
- **Realtime profit and loss.** When the risk mark of an event raises, the retry
  answers `DUPLICATE` before it comes to that mark again (`trade_created_pnl_service.py:153-160`).
- **Cash securities.** The replay counts the cost of a subscription twice and resets the
  daily profit basis (`cash_security_position_replay_service.py:96-101`).  The fraction of a stock
  dividend is never paid.  Dates of an action are compared with `==`, so a step whose day
  has no run is never taken.  The row of a position that was sold out or has matured is never deleted: once
nobody holds or trades the security, its price is not frozen, and the account cannot be posted
(`daily_settlement_service.py:1324-1329`).  A holding cannot be posted by a run that comes more than four
hours after its last tick, nor by any later one (`:2209-2221`).  `SettlementAccepts` names both.
- **Cash valuation.** A writer whose `activate_writer_fence` raised keeps its lease
  and values nothing (`cash_security_valuation_worker.py:185-205`).
  A tick worker that restarts while the fact worker runs writes an index it may have read
  before a fact that has been handled since (`cash_security_valuation_worker.py:161`): the
  position's ticks then reach nobody until its next fact or the next rebuild, although the comment at
  `cash_security_valuation_service.py:71-72` calls a rebuild after a restart safe (`overtaken`).
- **Liquidation.** With the default `risk_liquidation_ratio` of 1.00 (`core/config.py:274`) a futures account is in deficit
  only when its margin has reached its equity or its risk money is negative; either way its available cash,
  which the valuation sets from the same numbers, does not cover a commission, and `freeze_close_order_commission`
  refuses each liquidation order with `INSUFFICIENT_AVAILABLE_CASH` (`order_freeze_service.py:252-256`), although its comment (242-244)
  says that an account in deficit must be able to reduce its positions.  The task fails, the next review
  creates another, for ever (`Unpayable`).
  A fill of a liquidation order does not update the account's
  `risk_available_cash` (`close_trade_settlement_handler.py:887-903`), so the next cycle may
  order another reduction before the next valuation (`liquidation_service.py:51` promises the smallest
  reasonable one).  A retry whose stored request differs meets its own idempotency key until the task
  fails (`models/liquidation_task.py:42`).
- **Market data.** A tick dropped from a full queue is forgotten once the session
  says it has recovered; a lost snapshot is not fetched again; `RUNNING` remains published
  when the process dies.
- **Gateway.** A connection that is being accepted when its gateway loses the lease is not
  among those that `shutdown` closes (`connection_manager.py:257`), and hears nothing until it is
  closed otherwise; `docs/websocket_realtime.md:99-101` counts on its being closed.  A page that has just been given a
  snapshot falls back to older buffered events for a moment.  A gateway that lost
  its lease does not take it again.

## 14. What is not modelled

`PROJECT.json` gives the reason per component.  In short:

- Options: premium flows, seller margins and their re-checks are a second set of
  fill handlers over the rows of `OrderLedger`.  They would repeat its properties with
  more arithmetic; the risk module leaves protected pairs out for the same reason.
- The replay's arithmetic for futures and the daily profit basis of cash securities:
  straight-line sums over a day's facts that the code itself compares with the account;
  for cash securities, where live rows are replaced by the replay, the comparison is modelled.
- Validation, price resolution, rule lookups, permissions: they can only refuse.
- Malformed messages and bodies trimmed from a stream: acknowledged without work.
- A loss of Redis's data: the code rebuilds the index and the snapshots on restart, and
  both rebuilds are modelled; what is lost in between is a question of deployment.
- Refresh sessions, reference data, queries, schemas, static pages, deployment: one
  transaction each, or no behaviour over time.

What a next step would add: options in the ledger; a second operator, a stock and an ETF order in
the settlement's instance; the short side of the ledger as a run.
