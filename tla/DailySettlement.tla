--------------------------- MODULE DailySettlement ---------------------------
(***************************************************************************)
(* The manual end-of-day settlement and the trading it must keep out.      *)
(*                                                                         *)
(* Trading transactions on derivative orders take a PostgreSQL advisory    *)
(* lock in shared mode, then look at the latest settlement batch; the      *)
(* settlement command holds the same lock exclusively for its whole run.   *)
(* A run is a chain of short transactions (start the batch, cancel, check  *)
(* the barrier, freeze prices, replay, complete), any of which may be the  *)
(* last one before a crash, or may raise and mark the batch FAILED; the    *)
(* command is then simply run again.                                       *)
(*                                                                         *)
(* Orders on cash securities (stock, convertible bond, ETF) are accepted,  *)
(* filled and cancelled without the lock.                                  *)
(*                                                                         *)
(* Abstracted: money and prices (OrderLedger and the replay arithmetic),   *)
(* corporate actions between barrier and freeze, what the Redis recovery   *)
(* writes, and current_stage, which no code reads back.  Of a price only   *)
(* its presence and its age remain.  Each order has a contract of its own, *)
(* and a position row that outlives the position.                          *)
(***************************************************************************)
EXTENDS Integers, Sequences, FiniteSets, FiniteSetsExt

CONSTANTS
    OrderIds,
    KindOf,        \* what is traded, and how
    Lots,          \* total_volume
    Quotes,        \* what the last tick of a contract may be read as
    LastTick,      \* the last tick the price database has of a contract for a
                   \* day: of the closing hours, an earlier one, or none
    Runners,       \* operator processes that run the settlement command
    NoRunner,
    OpeningDays,   \* what account.trading_day may be at first; 0 is NULL
    MaxDay,        \* bound: trading days 1 .. MaxDay
    MaxRetries,    \* order_event / arrival retries before the dead letter
    CrashPoints,   \* steps of a run at which the process may die or raise
    MaxCrashes     \* bound on such failures of settlement processes

Kinds == {"LIMIT", "MARKET", "STOCK", "BOND", "ETF"}
CashKinds == {"STOCK", "BOND", "ETF"}
Steps == {"IDLE", "WAITING", "PREFLIGHT", "STARTING", "CANCELLING", "BARRIER",
          "FREEZING", "REPLAYING", "COMPLETING", "RECOVERING", "FAILING"}
RaisingSteps == {"CANCELLING", "BARRIER", "FREEZING", "REPLAYING", "COMPLETING",
                 "RECOVERING"}
Days == 1 .. MaxDay

ASSUME OrderAssumption == 
    KindOf \in [OrderIds -> Kinds] /\ Lots \in [OrderIds -> Nat \ {0}]
ASSUME QuotesAssumption == Quotes \subseteq Nat \ {0} /\ Quotes # {}
ASSUME TicksAssumption == LastTick \in [OrderIds -> [Days -> {"NONE", "EARLY", "CLOSE"}]]
ASSUME RunnersAssumption == NoRunner \notin Runners
ASSUME BoundsAssumption ==
    /\ OpeningDays \subseteq {0, 1}
    /\ MaxDay \in Nat \ {0} /\ MaxRetries \in Nat \ {0} /\ MaxCrashes \in Nat
    /\ CrashPoints \subseteq Steps \ {"IDLE"}

VARIABLES
    clock,       \* 3d-2: the session of day d is open; 3d-1: it has closed and
                 \* its closing ticks can still be marks; 3d: they are too old
    requests,    \* order requests in flight, and the day each was resolved to
    orders,      \* order rows; their trades are "traded" lots of "day", all of
                 \* them sold again on day "sold" if that is not 0
    arrivals,    \* ORDER_ACCEPTED deliveries of market orders
    holders,     \* transactions that hold the lock in shared mode
    queue,       \* settlement processes waiting for it in exclusive mode, in turn
    exclusive,   \* the one that holds it
    runs,        \* where each settlement process is, and its target day
    batches,     \* daily_settlement_batch, frozen prices and posted results
    accountDay,  \* account.trading_day of the derivative accounts
    crashes      \* how often a settlement process has died or raised

trading == << requests, orders, arrivals, accountDay >>
settling == << queue, exclusive, runs, batches, crashes >>
vars == << clock, trading, holders, settling >>

Request == [stage : {"NEW", "RESOLVED", "OVER"}, day : 0 .. MaxDay]
Over == [stage |-> "OVER", day |-> 0]
Order == [status : {"NONE", "ACTIVE", "FILLED", "CANCELLED"},
          day : 0 .. MaxDay, traded : Nat, sold : 0 .. MaxDay]
Arrival == [state : {"NONE", "PENDING", "MATCHED", "DONE", "DEAD"},
            failures : 0 .. MaxRetries]
Transactions == {"create", "fill", "cancel"} \X OrderIds
Stopped == [step |-> "IDLE", day |-> 0]
Batch == [status : {"NONE", "RUNNING", "FAILED", "COMPLETED"},
          contracts : SUBSET OrderIds, quote : Quotes \cup {0},
          postings : 0 .. 2, facts : [OrderIds -> Nat]]

Init ==
    /\ clock = 1
    /\ requests = [o \in OrderIds |-> [stage |-> "NEW", day |-> 0]]
    /\ orders = [o \in OrderIds |->
                   [status |-> "NONE", day |-> 0, traded |-> 0, sold |-> 0]]
    /\ arrivals = [o \in OrderIds |-> [state |-> "NONE", failures |-> 0]]
    /\ holders = {} /\ queue = << >> /\ exclusive = NoRunner
    /\ runs = [r \in Runners |-> Stopped]
    /\ batches = [d \in Days |->
                    [status |-> "NONE", contracts |-> {}, quote |-> 0,
                     postings |-> 0, facts |-> [o \in OrderIds |-> 0]]]
    /\ accountDay \in OpeningDays
    /\ crashes = 0

-----------------------------------------------------------------------------
(* The calendar and the gate.                                              *)

SessionOpen == clock % 3 = 1
Today == (clock + 2) \div 3
ClosedFor(day) == clock >= 3 * day - 1

Cash(o) == KindOf[o] \in CashKinds
Active(o) == orders[o].status = "ACTIVE"

StartedDays == {d \in Days : batches[d].status # "NONE"}
LatestDay == IF StartedDays = {} THEN 0 ELSE Max(StartedDays)

TradingOpen ==
    \A d \in StartedDays : d = LatestDay => batches[d].status = "COMPLETED"
TradingOpenFor(day) == TradingOpen /\ day > LatestDay

\* Mutant: the gate reads the batch without taking the lock.
SharedGrantedDuringSettlement == queue = << >>

\* PostgreSQL queues a shared request behind an exclusive one already waiting.
SharedGranted == exclusive = NoRunner /\ queue = << >>

TimePasses ==
    /\ clock < 3 * MaxDay
    /\ clock' = clock + 1
    /\ UNCHANGED << trading, holders, settling >>

-----------------------------------------------------------------------------
(* Order entry.                                                            *)

ResolveDay(o) ==
    /\ requests[o].stage = "NEW"
    /\ SessionOpen
    /\ requests' = [requests EXCEPT ![o] = [stage |-> "RESOLVED", day |-> Today]]
    /\ UNCHANGED << clock, orders, arrivals, accountDay, holders, settling >>

EnterToCreate(o) ==
    /\ ~Cash(o)
    /\ requests[o].stage = "RESOLVED" /\ << "create", o >> \notin holders
    /\ SharedGranted
    /\ IF TradingOpenFor(requests[o].day)
         THEN holders' = holders \cup {<< "create", o >>} /\ UNCHANGED requests
         ELSE requests' = [requests EXCEPT ![o] = Over] /\ UNCHANGED holders
    /\ UNCHANGED << clock, orders, arrivals, accountDay, settling >>

\* An account that has no day yet is bound to the day of its first order.
DayFits(day) == accountDay \in {0, day}

AcceptedOrder(o) ==
    [status |-> "ACTIVE", day |-> requests[o].day, traded |-> 0, sold |-> 0]

Accept(o) ==
    /\ << "create", o >> \in holders
    /\ holders' = holders \ {<< "create", o >>}
    /\ requests' = [requests EXCEPT ![o] = Over]
    /\ IF DayFits(requests[o].day)
         THEN /\ orders' = [orders EXCEPT ![o] = AcceptedOrder(o)]
              /\ accountDay' = IF accountDay = 0 THEN requests[o].day ELSE accountDay
              /\ arrivals' = IF KindOf[o] = "MARKET"
                               THEN [arrivals EXCEPT ![o].state = "PENDING"]
                               ELSE arrivals
         ELSE UNCHANGED << orders, arrivals, accountDay >>
    /\ UNCHANGED << clock, settling >>

AcceptCash(o) ==
    /\ Cash(o)
    /\ requests[o].stage = "RESOLVED"
    /\ requests' = [requests EXCEPT ![o] = Over]
    /\ orders' = [orders EXCEPT ![o] = AcceptedOrder(o)]
    /\ UNCHANGED << clock, arrivals, accountDay, holders, settling >>

-----------------------------------------------------------------------------
(* Fills and cancellations.                                                *)

Filled(order, lots, total) ==
    [order EXCEPT !.traded = @ + lots,
                  !.status = IF order.traded + lots = total THEN "FILLED" ELSE @]

\* A worker matched the order from an unlocked read; it may be closed by now.
EnterToFill(o) ==
    /\ KindOf[o] = "LIMIT" /\ orders[o].status # "NONE"
    /\ << "fill", o >> \notin holders
    /\ SharedGranted
    /\ TradingOpenFor(orders[o].day)
    /\ holders' = holders \cup {<< "fill", o >>}
    /\ UNCHANGED << clock, trading, settling >>

\* The trade of a market order is the one of its persisted snapshot: a repeated
\* execution finds it.
Settled(o) == KindOf[o] = "MARKET" /\ orders[o].traded > 0

Settle(o) ==
    /\ << "fill", o >> \in holders
    /\ holders' = holders \ {<< "fill", o >>}
    /\ IF Active(o) /\ ~Settled(o)
         THEN \E lots \in 1 .. Lots[o] - orders[o].traded :
                orders' = [orders EXCEPT ![o] = Filled(@, lots, Lots[o])]
         ELSE UNCHANGED orders
    /\ arrivals' = IF KindOf[o] = "MARKET"
                     THEN [arrivals EXCEPT ![o].state = "MATCHED"] ELSE arrivals
    /\ UNCHANGED << clock, requests, accountDay, settling >>

FillCash(o) ==
    /\ Cash(o) /\ Active(o)
    /\ \E lots \in 1 .. Lots[o] - orders[o].traded :
         orders' = [orders EXCEPT ![o] = Filled(@, lots, Lots[o])]
    /\ UNCHANGED << clock, requests, arrivals, accountDay, holders, settling >>

\* The holder of a cash security sells all of it.  A stock bought today stays
\* locked until its day is posted (T+1).
Held(o) == orders[o].traded > 0 /\ orders[o].sold = 0
Sellable(o) == KindOf[o] = "STOCK" => batches[orders[o].day].postings > 0

SellOut(o) ==
    /\ Cash(o) /\ Held(o) /\ ~Active(o) /\ Sellable(o)
    /\ SessionOpen
    /\ orders' = [orders EXCEPT ![o].sold = Today]
    /\ UNCHANGED << clock, requests, arrivals, accountDay, holders, settling >>

\* A delivery that raises is repeated; too many failures make it a dead letter.
DeliveryFailed(o) ==
    [arrivals EXCEPT ![o] = IF @.failures + 1 < MaxRetries
                              THEN [state |-> "PENDING", failures |-> @.failures + 1]
                              ELSE [state |-> "DEAD", failures |-> 0]]
DeliveryDone(o) == [arrivals EXCEPT ![o] = [state |-> "DONE", failures |-> 0]]

\* The arrival worker executes a market order against the snapshot persisted
\* with it, which always has something to offer.  A closed gate is a failure.
EnterMarket(o) ==
    /\ arrivals[o].state = "PENDING" /\ Active(o)
    /\ << "fill", o >> \notin holders
    /\ SharedGranted
    /\ IF TradingOpenFor(orders[o].day)
         THEN holders' = holders \cup {<< "fill", o >>} /\ UNCHANGED arrivals
         ELSE arrivals' = DeliveryFailed(o) /\ UNCHANGED holders
    /\ UNCHANGED << clock, requests, orders, accountDay, settling >>

\* A delivery of an order that has ended is acknowledged at once.
IgnoreArrival(o) ==
    /\ arrivals[o].state = "PENDING" /\ ~Active(o)
    /\ arrivals' = DeliveryDone(o)
    /\ UNCHANGED << clock, requests, orders, accountDay, holders, settling >>

\* cancel_market_remainder is settlement-internal: it does not ask the gate.
CancelRemainder(o) ==
    /\ arrivals[o].state = "MATCHED"
    /\ arrivals' = DeliveryDone(o)
    /\ orders' = IF Active(o) THEN [orders EXCEPT ![o].status = "CANCELLED"]
                              ELSE orders
    /\ UNCHANGED << clock, requests, accountDay, holders, settling >>

\* The execution is repeated as a whole when the cancellation raises.
FailRemainder(o) ==
    /\ arrivals[o].state = "MATCHED"
    /\ arrivals' = DeliveryFailed(o)
    /\ UNCHANGED << clock, requests, orders, accountDay, holders, settling >>

\* A client cannot cancel a market order; any other order only while the gate
\* is open, whatever its day.
EnterToCancel(o) ==
    /\ KindOf[o] = "LIMIT" /\ orders[o].status # "NONE"
    /\ << "cancel", o >> \notin holders
    /\ SharedGranted
    /\ TradingOpen
    /\ holders' = holders \cup {<< "cancel", o >>}
    /\ UNCHANGED << clock, trading, settling >>

Cancel(o) ==
    /\ << "cancel", o >> \in holders
    /\ holders' = holders \ {<< "cancel", o >>}
    /\ orders' = IF Active(o) THEN [orders EXCEPT ![o].status = "CANCELLED"]
                              ELSE orders
    /\ UNCHANGED << clock, requests, arrivals, accountDay, settling >>

CancelCash(o) ==
    /\ Cash(o) /\ Active(o)
    /\ orders' = [orders EXCEPT ![o].status = "CANCELLED"]
    /\ UNCHANGED << clock, requests, arrivals, accountDay, holders, settling >>

\* Any failure inside a trading transaction rolls it back and with it the lock.
Rollback(t) ==
    /\ t \in holders
    /\ holders' = holders \ {t}
    /\ requests' = IF t[1] = "create"
                     THEN [requests EXCEPT ![t[2]] = Over] ELSE requests
    /\ arrivals' = IF t[1] = "fill" /\ KindOf[t[2]] = "MARKET"
                     THEN DeliveryFailed(t[2]) ELSE arrivals
    /\ UNCHANGED << clock, orders, accountDay, settling >>

-----------------------------------------------------------------------------
(* The settlement command.                                                 *)

GoTo(r, step) == runs' = [runs EXCEPT ![r].step = step]

\* The lock belongs to the connection of the run and ends with it.
Leave(r) == runs' = [runs EXCEPT ![r] = Stopped] /\ exclusive' = NoRunner

\* Operators settle the days in calendar order, and may repeat any of them.
Start(r, d) ==
    /\ runs[r].step = "IDLE"
    /\ 1 .. d - 1 \subseteq StartedDays
    /\ runs' = [runs EXCEPT ![r] = [step |-> "WAITING", day |-> d]]
    /\ queue' = Append(queue, r)
    /\ UNCHANGED << clock, trading, holders, exclusive, batches, crashes >>

AcquireExclusive(r) ==
    /\ runs[r].step = "WAITING" /\ Head(queue) = r
    /\ exclusive = NoRunner /\ holders = {}
    /\ exclusive' = r
    /\ queue' = Tail(queue)
    /\ GoTo(r, "PREFLIGHT")
    /\ UNCHANGED << clock, trading, holders, batches, crashes >>

\* A day needs a price for every position that is held when its run looks, and
\* for every contract traded on the day; an active order counts as well until it
\* is cancelled.
RequiredContracts(day) ==
    {o \in OrderIds : orders[o].traded > 0
                       /\ (Held(o) \/ day \in {orders[o].day, orders[o].sold})}
RelevantContracts(day) == RequiredContracts(day) \cup {o \in OrderIds : Active(o)}

\* Mutant: the day itself is one of the earlier days.
EarlierOrSameIncomplete(day) ==
    \E d \in StartedDays : d <= day /\ batches[d].status # "COMPLETED"

EarlierIncomplete(day) ==
    \E d \in StartedDays : d < day /\ batches[d].status # "COMPLETED"

PreflightPasses(day) ==
    /\ day <= Today
    /\ RelevantContracts(day) # {} => ClosedFor(day)
    /\ ~EarlierIncomplete(day)

Preflight(r) ==
    /\ runs[r].step = "PREFLIGHT"
    /\ IF PreflightPasses(runs[r].day)
         THEN GoTo(r, "STARTING") /\ UNCHANGED exclusive
         ELSE Leave(r)
    /\ UNCHANGED << clock, trading, holders, queue, batches, crashes >>

LoadOrStartBatch(r) ==
    LET day == runs[r].day IN
    /\ runs[r].step = "STARTING"
    /\ IF batches[day].status = "COMPLETED"
         THEN GoTo(r, "RECOVERING") /\ UNCHANGED batches
         ELSE /\ batches' = [batches EXCEPT ![day].status = "RUNNING"]
              /\ GoTo(r, "CANCELLING")
    /\ UNCHANGED << clock, trading, holders, queue, exclusive, crashes >>

\* list_active_after_id leaves market orders out; a cash order is cancelled by
\* the service registered for its type, and none is registered for ETFs.
Listed == {o \in OrderIds : Active(o) /\ KindOf[o] # "MARKET"}
HasCancellationService(o) == KindOf[o] # "ETF"

CancelNext(r) ==
    /\ runs[r].step = "CANCELLING"
    /\ \E o \in Listed :
         IF HasCancellationService(o)
           THEN /\ orders' = [orders EXCEPT ![o].status = "CANCELLED"]
                /\ UNCHANGED runs
           ELSE GoTo(r, "FAILING") /\ UNCHANGED orders
    /\ UNCHANGED << clock, requests, arrivals, accountDay, holders, queue,
                    exclusive, batches, crashes >>

OrdersCancelled(r) ==
    /\ runs[r].step = "CANCELLING"
    /\ Listed = {}
    /\ GoTo(r, "BARRIER")
    /\ UNCHANGED << clock, trading, holders, queue, exclusive, batches, crashes >>

CountedActive == {o \in OrderIds : Active(o)}

ConfirmBarrier(r) ==
    /\ runs[r].step = "BARRIER"
    /\ GoTo(r, IF CountedActive = {} THEN "FREEZING" ELSE "FAILING")
    /\ UNCHANGED << clock, trading, holders, queue, exclusive, batches, crashes >>

\* Prices already frozen for the day are reused, if they still cover what is
\* required; otherwise the price database must have a tick of every contract.
FrozenBefore(day) == batches[day].contracts # {}
EveryTickFound(day) ==
    \A o \in RequiredContracts(day) : LastTick[o][day] # "NONE"

FreezePrices(r) ==
    LET day == runs[r].day IN
    /\ runs[r].step = "FREEZING"
    /\ \/ /\ FrozenBefore(day)
          /\ GoTo(r, IF RequiredContracts(day) \subseteq batches[day].contracts
                        THEN "REPLAYING" ELSE "FAILING")
          /\ UNCHANGED batches
       \/ /\ ~FrozenBefore(day) /\ ~EveryTickFound(day)
          /\ GoTo(r, "FAILING")
          /\ UNCHANGED batches
       \/ /\ ~FrozenBefore(day) /\ EveryTickFound(day)
          /\ \E quote \in Quotes :
               batches' = [batches EXCEPT ![day].contracts = RequiredContracts(day),
                                          ![day].quote = quote]
          /\ GoTo(r, "REPLAYING")
    /\ UNCHANGED << clock, trading, holders, queue, exclusive, crashes >>

\* Mutant: only fully filled orders count.
FactsOfFilledOrders(day) ==
    [o \in OrderIds |-> IF orders[o].day = day /\ orders[o].status = "FILLED"
                          THEN orders[o].traded ELSE 0]

FactsOf(day) ==
    [o \in OrderIds |-> IF orders[o].day = day THEN orders[o].traded ELSE 0]

\* Mutant: earlier results of the day are not looked for.
ResultsExistIgnored(day) == FALSE

ResultsExist(day) == batches[day].postings > 0

\* Account cash holds every trade, the expected cash those through the day.
CashConserved(day) ==
    \A o \in OrderIds : orders[o].traded > 0 => orders[o].day <= day /\ orders[o].sold <= day

\* A cash security keeps its position row when it is sold out, and every row is
\* valued with the frozen price; the tick behind that price becomes the mark of
\* what is still held, and must then be at most tick_max_age_seconds old.
CashRows == {o \in OrderIds : Cash(o) /\ orders[o].traded > 0}
MarkFresh(o, day) == LastTick[o][day] = "CLOSE" /\ clock = 3 * day - 1
MarksFresh(day) == \A o \in CashRows : Held(o) => MarkFresh(o, day)

ReplayPasses(day) ==
    /\ ~ResultsExist(day)
    /\ CashConserved(day)
    /\ RequiredContracts(day) \cup CashRows \subseteq batches[day].contracts
    /\ MarksFresh(day)
    /\ CountedActive = {}

Replay(r) ==
    LET day == runs[r].day IN
    /\ runs[r].step = "REPLAYING"
    /\ IF ReplayPasses(day)
         THEN /\ batches' = [batches EXCEPT ![day].postings = Min({@ + 1, 2}),
                                            ![day].facts = FactsOf(day)]
              /\ accountDay' = day + 1
              /\ GoTo(r, "COMPLETING")
         ELSE GoTo(r, "FAILING") /\ UNCHANGED << batches, accountDay >>
    /\ UNCHANGED << clock, requests, orders, arrivals, holders, queue,
                    exclusive, crashes >>

CompleteBatch(r) ==
    /\ runs[r].step = "COMPLETING"
    /\ batches' = [batches EXCEPT ![runs[r].day].status = "COMPLETED"]
    /\ GoTo(r, "RECOVERING")
    /\ UNCHANGED << clock, trading, holders, queue, exclusive, crashes >>

\* The index and the realtime snapshots are rebuilt under the lock; a failure
\* to do so is noted in cache_status and forgiven.
RecoverRedis(r) ==
    /\ runs[r].step = "RECOVERING"
    /\ Leave(r)
    /\ UNCHANGED << clock, trading, holders, queue, batches, crashes >>

FailedStatus(status) == IF status = "COMPLETED" THEN "COMPLETED" ELSE "FAILED"

MarkBatchFailed(r) ==
    /\ runs[r].step = "FAILING"
    /\ batches' = [batches EXCEPT ![runs[r].day].status = FailedStatus(@)]
    /\ Leave(r)
    /\ UNCHANGED << clock, trading, holders, queue, crashes >>

\* A transaction of the run raises and leaves no trace but the failed batch.
Raise(r) ==
    /\ runs[r].step \in CrashPoints \cap RaisingSteps
    /\ crashes < MaxCrashes
    /\ crashes' = crashes + 1
    /\ GoTo(r, "FAILING")
    /\ UNCHANGED << clock, trading, holders, queue, exclusive, batches >>

Crash(r) ==
    /\ runs[r].step \in CrashPoints
    /\ crashes < MaxCrashes
    /\ crashes' = crashes + 1
    /\ runs' = [runs EXCEPT ![r] = Stopped]
    /\ queue' = SelectSeq(queue, LAMBDA q : q # r)
    /\ exclusive' = IF exclusive = r THEN NoRunner ELSE exclusive
    /\ UNCHANGED << clock, trading, holders, batches >>

-----------------------------------------------------------------------------
Trade(o) ==
    \/ ResolveDay(o) \/ EnterToCreate(o) \/ Accept(o) \/ AcceptCash(o)
    \/ EnterToFill(o) \/ Settle(o) \/ FillCash(o) \/ SellOut(o)
    \/ EnterMarket(o) \/ IgnoreArrival(o) \/ CancelRemainder(o) \/ FailRemainder(o)
    \/ EnterToCancel(o) \/ Cancel(o) \/ CancelCash(o)

RunStep(r) ==
    \/ AcquireExclusive(r) \/ Preflight(r) \/ LoadOrStartBatch(r)
    \/ CancelNext(r) \/ OrdersCancelled(r) \/ ConfirmBarrier(r)
    \/ FreezePrices(r) \/ Replay(r) \/ CompleteBatch(r) \/ RecoverRedis(r)
    \/ MarkBatchFailed(r)

Next ==
    \/ TimePasses
    \/ \E o \in OrderIds : Trade(o)
    \/ \E t \in holders : Rollback(t)
    \/ \E r \in Runners : RunStep(r) \/ Raise(r) \/ Crash(r) \/ \E d \in Days : Start(r, d)

Spec == Init /\ [][Next]_vars

\* Every transaction that holds the lock ends, the arrival worker keeps
\* consuming its stream and gets the lock in its turn among repeated runs (which
\* queue in PostgreSQL), a started settlement process keeps going, time passes,
\* and the operators, whatever other days they run in between, keep coming back
\* to a day that is not yet complete.
Repeat(d) ==
    batches[d].status \in {"RUNNING", "FAILED"} /\ \E r \in Runners : Start(r, d)

Fairness ==
    /\ WF_vars(TimePasses)
    /\ \A o \in OrderIds : WF_vars(Accept(o) \/ Settle(o) \/ Cancel(o))
    /\ \A o \in {m \in OrderIds : KindOf[m] = "MARKET"} :
         SF_vars(EnterMarket(o)) /\ WF_vars(CancelRemainder(o) \/ IgnoreArrival(o))
    /\ \A r \in Runners : WF_vars(RunStep(r))
    /\ \A d \in Days : SF_vars(Repeat(d))

FairSpec == Spec /\ Fairness

-----------------------------------------------------------------------------
(* Properties.                                                             *)

\* Every variable stays within its type.
TypeOK ==
    /\ clock \in 1 .. 3 * MaxDay
    /\ requests \in [OrderIds -> Request]
    /\ orders \in [OrderIds -> Order]
    /\ arrivals \in [OrderIds -> Arrival]
    /\ holders \subseteq Transactions
    /\ queue \in Seq(Runners)
    /\ exclusive \in Runners \cup {NoRunner}
    /\ runs \in [Runners -> [step : Steps, day : 0 .. MaxDay]]
    /\ batches \in [Days -> Batch]
    /\ accountDay \in 0 .. MaxDay + 1
    /\ crashes \in 0 .. MaxCrashes

\* A settlement process past the lock is the only one there, and no trading
\* transaction is inside the gate with it (acquire_shared_transaction_lock
\* against _acquire_exclusive_lock).
LockExcludes ==
    /\ exclusive # NoRunner => holders = {}
    /\ \A r \in Runners : runs[r].step \notin {"IDLE", "WAITING"} <=> exclusive = r

\* While a settlement run holds the lock, no derivative order moves under what
\* the run freezes, replays and posts (the drained barrier of
\* docs/daily_settlement.md): none trades, and one that has ended stays so.
BookStandsStill ==
    [][ (exclusive # NoRunner /\ exclusive' = exclusive) =>
          \A o \in OrderIds : ~Cash(o) =>
            /\ orders'[o].traded = orders[o].traded
            /\ ~Active(o) => orders'[o] = orders[o] ]_vars

\* While the latest batch is not complete and nobody settles - after a failed
\* run or a crash - only the remainder of a market order may still be
\* cancelled; every other derivative order waits for the repeated run.
ClosedUntilComplete ==
    [][ ((\E d \in Days : batches[d].status \in {"RUNNING", "FAILED"})
           /\ exclusive = NoRunner) =>
          \A o \in OrderIds : KindOf[o] = "LIMIT" => orders'[o] = orders[o] ]_vars

\* Once a day has been completed, no derivative order is accepted for it and
\* none of its orders trades (the second half of ensure_trading_open).
SettledDayIsClosed ==
    [][ \A o \in OrderIds :
          (~Cash(o) /\ orders'[o] # orders[o] /\ orders'[o].day \in Days) =>
             batches[orders'[o].day].status # "COMPLETED" ]_vars

\* No derivative order stays active past the settlement of its day, limit or
\* market, however many runs the settlement took.
NoOrderOutlivesItsDay ==
    \A o \in OrderIds :
       ~Cash(o) /\ Active(o) => batches[orders[o].day].postings = 0

\* The posted results of a day account for every lot its derivative orders ever
\* trade.
SettledDayIsComplete ==
    \A d \in Days : batches[d].postings > 0 =>
       \A o \in OrderIds :
          ~Cash(o) /\ orders[o].day = d => batches[d].facts[o] = orders[o].traded

\* However often the settlement command is repeated, crashes and is repeated
\* again, the profit and loss of a day reaches account cash once.
EachDayPostedOnce == \A d \in Days : batches[d].postings <= 1

\* Days are posted in calendar order: each posting starts from the results
\* of all days before it.
DaysPostedInOrder ==
    \A d \in Days : batches[d].postings > 0 =>
       \A e \in 1 .. d - 1 : batches[e].status = "COMPLETED"

\* The days reach account cash each once and one after the other, whatever was
\* repeated, and by whom (_post_and_recover, _existing_results).
DaysPostedOnceInOrder == EachDayPostedOnce /\ DaysPostedInOrder

\* A completed day stays completed, whatever a repeated command runs into
\* afterwards: trading on the next day is never closed again by an old batch.
CompletedStays ==
    [][ \A d \in Days : batches[d].status = "COMPLETED" =>
          batches'[d].status = "COMPLETED" ]_vars

\* While a day is settled, between a failed run and the next, and once the day is
\* completed, orders rest: what the settlement has read stays as it was.
OrdersRestInSettlement ==
    /\ BookStandsStill
    /\ ClosedUntilComplete
    /\ SettledDayIsClosed

\* A price frozen for a day is the price of that day for every later run.
FrozenPricesStay ==
    [][ \A d \in Days : batches[d].contracts # {} =>
          << batches'[d].contracts, batches'[d].quote >>
             = << batches[d].contracts, batches[d].quote >> ]_vars

\* What no repetition of the command gets past.  Results posted by a run that died
\* before it completed the batch; a market order whose arrival event is a dead
\* letter; an active ETF order, for whose type no cancellation service is
\* registered; a trade of a later day, in a cash security or in an account that
\* had no day and was bound to it; a required contract the price database has no
\* tick of; a cash security that traded after the prices of the day were frozen,
\* or that was sold out on an earlier day and whose row no frozen price values; a
\* cash security that is held, once the last tick of the day is too old.
PricedContracts(d) ==
    IF FrozenBefore(d) THEN batches[d].contracts ELSE RequiredContracts(d)

Obstructed(d) ==
    \/ ResultsExist(d)
    \/ \E o \in OrderIds : KindOf[o] = "MARKET" /\ Active(o) /\ arrivals[o].state = "DEAD"
    \/ \E o \in OrderIds : KindOf[o] = "ETF" /\ Active(o)
    \/ \E o \in OrderIds : orders[o].traded > 0 /\ Max({orders[o].day, orders[o].sold}) > d
                           /\ (Cash(o) \/ accountDay > d)
    \/ ~FrozenBefore(d) /\ ~EveryTickFound(d)
    \/ ~(RequiredContracts(d) \cup CashRows \subseteq PricedContracts(d))
    \/ ~MarksFresh(d)

\* A day whose settlement was started is completed, if the operator keeps
\* repeating the command and nothing above obstructs it: run() "executes or
\* resumes" a trading day.
StartedDayCompletes ==
    <>[](\A d \in StartedDays : batches[d].status = "COMPLETED" \/ Obstructed(d))

=============================================================================
