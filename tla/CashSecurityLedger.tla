-------------------------- MODULE CashSecurityLedger --------------------------
(***************************************************************************)
(* The money and the holding of one cash-security account in one security: *)
(* a stock or T+1 ETF (SettlementDays = 1), or a convertible bond or T+0   *)
(* ETF (SettlementDays = 0).                                               *)
(*                                                                         *)
(* Orders freeze money (BUY) or shares (SELL), fills and cancellations     *)
(* release them, and a corporate action of one kind moves cash and shares  *)
(* in the daily settlement: captured on its record day, applied on its ex  *)
(* day, paid and listed later.  At the end of each day the settlement      *)
(* overwrites the position with a replay of the immutable facts - trades   *)
(* and position adjustments - after checking the account against them.     *)
(*                                                                         *)
(* A tick is matched against an unlocked snapshot of an order.  All that   *)
(* can have changed by the time settle has locked the row is that the      *)
(* order is smaller or has ended, so delivering a tick to any order ever   *)
(* accepted, any number of times, covers every stale match.                *)
(*                                                                         *)
(* Not modelled: the buckets of the daily profit basis, market values, the *)
(* fractional-share bookkeeping of share dividends, holdings imported      *)
(* without trades (their opening-balance fact), and the admin endpoints    *)
(* that run one step of an action by hand.  No order is entered between    *)
(* the barrier of a day's settlement and its end: what an order of the     *)
(* next session does to a late settlement is in DailySettlement.           *)
(***************************************************************************)
EXTENDS Integers, Sequences, FiniteSets, SequencesExt, FiniteSetsExt

CONSTANTS
    Orders,           \* client_order_id values, one order row each
    Ticks,            \* market_event_id values
    Quote,            \* [Ticks -> [bid, bidVolume, ask, askVolume]]
    LimitPrices, Volumes,   \* what a client may ask for
    FeeRate, MinimumFee,    \* one BY_MONEY fee component
    OpeningCash,      \* initial_cash
    Products,         \* [settlementDays, kind, feeScope]: the security, the
                      \*  kind of its action, what the minimum fee applies to
    Terms,            \* by kind: [base, ratio, cash, price, lieu]
    Schedules,        \* by kind: a set of date records of the action
    RevisionCount,    \* one source action has action_version 1 .. RevisionCount
    SubscriptionIds,  \* client_request_id values of rights subscriptions
    LastDay           \* bound: days 1 .. LastDay are traded and settled

IncomeKinds == {"CASH_DIVIDEND", "BOND_COUPON"}
SplitKinds == {"STOCK_SPLIT", "REVERSE_SPLIT"}
Revisions == 1 .. RevisionCount
Kinds == IncomeKinds \cup SplitKinds \cup
         {"STOCK_DIVIDEND", "RIGHTS_ISSUE", "BOND_MATURITY_REDEMPTION"}

ASSUME ProductsAssumption ==
    Products \subseteq [settlementDays : {0, 1}, kind : Kinds,
                        feeScope : {"TRADE", "ORDER"}]
ASSUME FeeAssumption ==
    /\ FeeRate \in Nat
    /\ MinimumFee \in Nat
ASSUME RequestAssumption ==
    /\ LimitPrices \subseteq Nat \ {0}
    /\ Volumes \subseteq Nat \ {0}
    /\ Quote \in [Ticks -> [bid : Nat \ {0}, bidVolume : Nat,
                            ask : Nat \ {0}, askVolume : Nat]]
    /\ OpeningCash \in Nat
    /\ IsFiniteSet(Orders)
\* import_action refuses amounts below zero and a base that is not positive; a split
\* without a ratio, or into fractions without a price, apply_ex_date would refuse.
ASSUME ActionAssumption ==
    /\ RevisionCount \in Nat
    /\ LastDay \in Nat
    /\ Terms \in [Kinds -> [base : Nat \ {0}, ratio : Nat, cash : Nat,
                            price : Nat, lieu : Nat]]
    /\ \A kind \in SplitKinds :
          /\ Terms[kind].ratio > 0
          /\ Terms[kind].lieu > 0 \/ Terms[kind].ratio % Terms[kind].base = 0

\* Dates as an announcement has them.  Of this import_action checks that the ex day
\* is not before the record day; a payment before its claim, or a listing before the
\* end of the subscription, it would import.  All happens within the days modelled.
InOrder(kind, dates) ==
    /\ dates \in [record : Int, ex : Int, payment : Int, listing : Int,
                   subscriptionStart : Int, subscriptionEnd : Int]
    /\ dates.record <= dates.ex
    /\ kind \in IncomeKinds \cup SplitKinds \cup {"BOND_MATURITY_REDEMPTION"} =>
          dates.ex <= dates.payment /\ dates.payment <= LastDay
    /\ kind = "STOCK_DIVIDEND" => dates.ex <= dates.listing /\ dates.listing <= LastDay
    /\ kind = "RIGHTS_ISSUE" =>
          dates.subscriptionEnd < dates.listing /\ dates.listing <= LastDay
SchedulesInOrder == \A kind \in Kinds : \A dates \in Schedules[kind] : InOrder(kind, dates)

ActiveStatuses == {"ACCEPTED", "PARTIALLY_FILLED"}

\* Statuses of an action that has not frozen a holder snapshot.
UnexecutedStatuses == {"DRAFT", "CONFIRMED"}
ProcessableStatuses == {"ENTITLEMENT_CAPTURED", "PROCESSING"}
DroppedStatuses == {"CANCELLED", "SUPERSEDED"}

NoOrder == [status |-> "NONE", direction |-> "BUY", limit |-> 0, total |-> 0,
            traded |-> 0, remaining |-> 0, cancelled |-> 0, frozenCash |-> 0,
            frozenCommission |-> 0, frozenVolume |-> 0,
            turnover |-> 0, charged |-> 0]   \* the order's fee accumulator

EmptyPosition == [total |-> 0, today |-> 0, yesterday |-> 0, frozen |-> 0,
                  locked |-> 0, available |-> 0, pending |-> 0, cost |-> 0]

NoEntitlement == [quantity |-> 0, cash |-> 0, shares |-> 0, lieu |-> 0,
                  subscribed |-> 0, pending |-> 0, credited |-> 0,
                  subscriptionCash |-> 0]

VARIABLES
    product,          \* the security and the kind of its action
    schedule,         \* the action's dates
    day,              \* the trading day of the account
    phase,            \* "trading", "acting", "posting": the day's settlement
    orders,
    account,          \* [cash, available, frozenCash, frozenCommission,
                      \*  receivable]
    position,
    trades,           \* trade facts in the order of their transactions
    actions,          \* status of each revision of the action
    entitlements,     \* the account's entitlement under each revision
    ledger,           \* corporate-action ledger facts
    adjustments,      \* position-adjustment facts in id order
    subscriptions     \* journal of rights subscriptions

vars == <<product, schedule, day, phase, orders, account, position, trades,
          actions, entitlements, ledger, adjustments, subscriptions>>

fixed == <<product, schedule>>
corporate == <<actions, entitlements, ledger, adjustments, subscriptions>>

Smaller(a, b) == IF a < b THEN a ELSE b
Larger(a, b) == IF a > b THEN a ELSE b

\* quantize_money of num / den: ROUND_HALF_UP.
RoundedQuotient(num, den) == IF den > 0 THEN (2 * num + den) \div (2 * den) ELSE 0

SumOver(S, Amount(_)) == MapThenSumSet(Amount, S)

Init ==
    /\ product \in Products
    /\ schedule \in Schedules[product.kind]
    /\ day = 1
    /\ phase = "trading"
    /\ orders = [o \in Orders |-> NoOrder]
    /\ account = [cash |-> OpeningCash, available |-> OpeningCash,
                  frozenCash |-> 0, frozenCommission |-> 0, receivable |-> 0]
    /\ position = EmptyPosition
    /\ trades = <<>>
    /\ actions = [r \in Revisions |-> "NONE"]
    /\ entitlements = [r \in Revisions |-> NoEntitlement]
    /\ ledger = {}
    /\ adjustments = <<>>
    /\ subscriptions = {}

-----------------------------------------------------------------------------
(* Orders.                                                                 *)

FeeDue(turnover) == Larger(FeeRate * turnover, MinimumFee)

\* What a fill is charged: a TRADE-scope minimum applies to each fill, an
\* ORDER-scope one to the order as a whole.
FillFee(o, turnover) ==
    IF product.feeScope = "TRADE" THEN FeeDue(turnover)
    ELSE FeeDue(orders[o].turnover + turnover) - orders[o].charged

\* total - frozen - settlement_locked.
WithAvailable(p) == [p EXCEPT !.available = p.total - p.frozen - p.locked]


\* freeze_buy and release_buy.
Frozen(a, money, fee) ==
    [a EXCEPT !.available = @ - money - fee, !.frozenCash = @ + money,
       !.frozenCommission = @ + fee]
Released(a, money, fee) == Frozen(a, -money, -fee)
MayFreeze(a, money, fee) == a.available >= money + fee
MayRelease(a, money, fee) == a.frozenCash >= money /\ a.frozenCommission >= fee

\* validate_sell.
MayPromise(p, volume) == volume <= p.available

\* create_order: a BUY freezes the limit value and the estimated fee, a SELL
\* the shares.  A request with a known client_order_id changes nothing.
Submit(o, direction, limit, volume) ==
    /\ phase = "trading" /\ day <= LastDay
    /\ orders[o].status = "NONE"
    /\ LET money == limit * volume
           fee == FeeDue(money)
           row == [NoOrder EXCEPT !.status = "ACCEPTED", !.direction = direction,
                     !.limit = limit, !.total = volume, !.remaining = volume]
       IN  \/ /\ direction = "BUY"
              /\ MayFreeze(account, money, fee)
              /\ account' = Frozen(account, money, fee)
              /\ orders' = [orders EXCEPT ![o] =
                              [row EXCEPT !.frozenCash = money,
                                 !.frozenCommission = fee]]
              /\ UNCHANGED position
           \/ /\ direction = "SELL"
              /\ MayPromise(position, volume)
              /\ position' = WithAvailable([position EXCEPT !.frozen = @ + volume])
              /\ orders' = [orders EXCEPT ![o] = [row EXCEPT !.frozenVolume = volume]]
              /\ UNCHANGED account
    /\ UNCHANGED <<fixed, day, phase, trades, corporate>>

\* cancel_order, by the client or by the settlement: releases what is frozen.
Cancel(o) ==
    LET row == orders[o] IN
    /\ row.status \in ActiveStatuses
    /\ MayRelease(account, row.frozenCash, row.frozenCommission)
    /\ position.frozen >= row.frozenVolume
    /\ row.direction = "SELL" => row.frozenVolume = row.remaining
    /\ account' = Released(account, row.frozenCash, row.frozenCommission)
    /\ position' = IF row.direction = "SELL"
                   THEN WithAvailable([position EXCEPT !.frozen = @ - row.frozenVolume])
                   ELSE position
    /\ orders' = [orders EXCEPT ![o] =
                    [row EXCEPT !.cancelled = @ + row.remaining, !.remaining = 0,
                       !.frozenCash = 0, !.frozenCommission = 0, !.frozenVolume = 0,
                       !.status = IF row.traded = 0 THEN "CANCELLED"
                                  ELSE "PARTIALLY_CANCELLED"]]
    /\ UNCHANGED <<fixed, day, phase, trades, corporate>>

-----------------------------------------------------------------------------
(* Positions.  The same two rules are written twice in the code: for the   *)
(* live row, and for the replay of the trade facts.                        *)

\* settlement_days: 1 for stocks and T+1 ETFs, 0 for bonds and T+0 ETFs.
LockedOnPurchase(volume) == volume * product.settlementDays

\* The shares bought are locked until the next day when SettlementDays = 1.
Bought(p, volume, turnover) ==
    WithAvailable([p EXCEPT !.total = @ + volume, !.today = @ + volume,
                     !.locked = @ + LockedOnPurchase(volume),
                     !.cost = @ + turnover])

\* How a sale of T+0 shares splits: yesterday's first.
SoldFromYesterday(p, volume) ==
    IF product.settlementDays = 1 THEN volume ELSE Smaller(p.yesterday, volume)

MaySell(p, volume) ==
    /\ volume <= p.total
    /\ product.settlementDays = 1 => volume <= p.yesterday

\* The cost that leaves with the shares; the last sale takes all of it.
CostOf(p, volume) ==
    IF volume = p.total THEN p.cost ELSE RoundedQuotient(p.cost * volume, p.total)

Sold(p, volume) ==
    LET yesterday == SoldFromYesterday(p, volume)
    IN  WithAvailable([p EXCEPT !.total = @ - volume,
                         !.yesterday = @ - yesterday,
                         !.today = @ - (volume - yesterday),
                         !.cost = @ - CostOf(p, volume)])

-----------------------------------------------------------------------------
(* Fills.                                                                  *)

\* Best-opposite matching: the order's limit reaches the quote.
Reaches(row, t) ==
    IF row.direction = "BUY"
    THEN Quote[t].askVolume > 0 /\ row.limit >= Quote[t].ask
    ELSE Quote[t].bidVolume > 0 /\ row.limit <= Quote[t].bid

Settled(o, t) == \E i \in DOMAIN trades : trades[i].order = o /\ trades[i].tick = t


\* Mutant: what the fee estimate exceeded the fees by stays with the order.
FilledRowKeepsFee(row, volume, turnover, fee) ==
    LET left == row.remaining - volume
        buys == row.direction = "BUY"
    IN  [row EXCEPT !.traded = @ + volume, !.remaining = left,
           !.turnover = @ + turnover, !.charged = @ + fee,
           !.status = IF left = 0 THEN "FILLED" ELSE "PARTIALLY_FILLED",
           !.frozenCash = IF buys THEN row.limit * left ELSE 0,
           !.frozenCommission =
               IF ~buys THEN 0 ELSE Larger(0, row.frozenCommission - fee),
           !.frozenVolume = IF buys THEN 0 ELSE @ - volume]

\* The order row after a fill; a filled order keeps no frozen fee.
FilledRow(row, volume, turnover, fee) ==
    LET left == row.remaining - volume
        buys == row.direction = "BUY"
    IN  [row EXCEPT !.traded = @ + volume, !.remaining = left,
           !.turnover = @ + turnover, !.charged = @ + fee,
           !.status = IF left = 0 THEN "FILLED" ELSE "PARTIALLY_FILLED",
           !.frozenCash = IF buys THEN row.limit * left ELSE 0,
           !.frozenCommission =
               IF ~buys \/ left = 0 THEN 0
               ELSE Larger(0, row.frozenCommission - fee),
           !.frozenVolume = IF buys THEN 0 ELSE @ - volume]


TradeFact(o, t, volume, turnover, fee, cost) ==
    [order |-> o, tick |-> t, day |-> day, direction |-> orders[o].direction,
     volume |-> volume, turnover |-> turnover, commission |-> fee, cost |-> cost]

\* settle of a BUY.  A fill the account cannot pay for raises, and changes
\* nothing.
FillBuy(o, t) ==
    LET row == orders[o]
        volume == Smaller(row.remaining, Quote[t].askVolume)
        turnover == Quote[t].ask * volume
        fee == FillFee(o, turnover)
        after == FilledRow(row, volume, turnover, fee)
        a == Frozen(Released(account, row.frozenCash, row.frozenCommission),
                    after.frozenCash, after.frozenCommission)
    IN  /\ row.direction = "BUY"
        /\ MayRelease(account, row.frozenCash, row.frozenCommission)
        /\ a.available >= turnover + fee
        /\ account' = [a EXCEPT !.available = @ - turnover - fee,
                         !.cash = @ - turnover - fee]
        /\ position' = Bought(position, volume, turnover)
        /\ orders' = [orders EXCEPT ![o] = after]
        /\ trades' = Append(trades, TradeFact(o, t, volume, turnover, fee, 0))

\* settle of a SELL.
FillSell(o, t) ==
    LET row == orders[o]
        volume == Smaller(row.remaining, Quote[t].bidVolume)
        turnover == Quote[t].bid * volume
        fee == FillFee(o, turnover)
    IN  /\ row.direction = "SELL"
        /\ row.frozenVolume >= volume
        /\ position.frozen >= volume
        /\ MaySell(position, volume)
        /\ account' = [account EXCEPT !.available = @ + turnover - fee,
                         !.cash = @ + turnover - fee]
        /\ position' = Sold([position EXCEPT !.frozen = @ - volume], volume)
        /\ orders' = [orders EXCEPT ![o] = FilledRow(row, volume, turnover, fee)]
        /\ trades' = Append(trades, TradeFact(o, t, volume, turnover, fee,
                                              CostOf(position, volume)))

\* A tick reaches an order that was once active: matched on a snapshot,
\* settled on the row.
DeliverTick(o, t) ==
    /\ orders[o].status \in ActiveStatuses
    /\ Reaches(orders[o], t)
    /\ ~Settled(o, t)
    /\ FillBuy(o, t) \/ FillSell(o, t)
    /\ UNCHANGED <<fixed, day, phase, corporate>>

-----------------------------------------------------------------------------
(* Import and confirmation of the action's revisions, at any time.         *)

Imported(r) == actions[r] # "NONE"

\* import_action: only a revision without executed predecessors replaces them.
Import(r) ==
    /\ ~Imported(r)
    /\ LET newer == {q \in Revisions : q > r /\ Imported(q)}
           older == {q \in Revisions :
                       q < r /\ Imported(q) /\ actions[q] \notin DroppedStatuses}
       IN  actions' =
             IF newer # {} THEN [actions EXCEPT ![r] = "SUPERSEDED"]
             ELSE IF \E q \in older : actions[q] \notin UnexecutedStatuses
             THEN [actions EXCEPT ![r] = "MANUAL_REVIEW_REQUIRED"]
             ELSE [q \in Revisions |-> IF q = r THEN "DRAFT"
                                       ELSE IF q \in older THEN "SUPERSEDED"
                                       ELSE actions[q]]
    /\ UNCHANGED <<fixed, day, phase, orders, account, position, trades,
                   entitlements, ledger, adjustments, subscriptions>>

\* confirm.
Confirm(r) ==
    /\ actions[r] = "DRAFT"
    /\ ~\E q \in Revisions : q > r /\ Imported(q) /\ actions[q] \notin DroppedStatuses
    /\ actions' = [actions EXCEPT ![r] = "CONFIRMED"]
    /\ UNCHANGED <<fixed, day, phase, orders, account, position, trades,
                   entitlements, ledger, adjustments, subscriptions>>

-----------------------------------------------------------------------------
(* Facts.  An operation on an action works on the books it has locked: a   *)
(* record of the account, the position, the action's revisions and facts.  *)

Books == [account |-> account, position |-> position, actions |-> actions,
          entitlements |-> entitlements, ledger |-> ledger,
          adjustments |-> adjustments]

\* Mutant: the lookup by idempotency key finds nothing.
NeverPosted(b, r, entry, token) == FALSE

\* The idempotency key of a fact: entitlement, entry type and token.
Posted(b, r, entry, token) ==
    \E l \in b.ledger : l.revision = r /\ l.entry = entry /\ l.token = token


LedgerFact(r, entry, token, cash, receivable, income) ==
    [revision |-> r, entry |-> entry, token |-> token, day |-> day,
     cash |-> cash, receivable |-> receivable, income |-> income]

\* A position-adjustment fact is what it adds to each column.
Adjustment(r, entry, delta) == [revision |-> r, entry |-> entry, day |-> day,
                                delta |-> delta]

Plus(p, delta) ==
    WithAvailable([column \in DOMAIN p |-> p[column] + delta[column]])

Minus(p, q) == [column \in DOMAIN p |-> p[column] - q[column]]

Dates == schedule
T == Terms[product.kind]
Entitled(b, r) == b.entitlements[r].quantity > 0

-----------------------------------------------------------------------------
(* The operations of run_due_actions.                                      *)

\* capture_entitlements: whoever holds at the record day's barrier is entitled.
Captured(b, r) ==
    LET held == b.position.total
        units == held * T.ratio
    IN  [b EXCEPT
           !.actions[r] = "ENTITLEMENT_CAPTURED",
           !.entitlements[r] =
              IF held = 0 \/ Entitled(b, r) THEN @
              ELSE [NoEntitlement EXCEPT
                      !.quantity = held,
                      !.cash = RoundedQuotient(held * T.cash, T.base),
                      !.shares = units \div T.base,
                      !.lieu = RoundedQuotient((units % T.base) * T.lieu, T.base)]]

CashIsPaid(b, r) == Posted(b, r, "CASH_PAID", "")

\* _maybe_mark_completed: every entitled component has reached its last fact.
Finished(b, r) ==
    LET e == b.entitlements[r]
        kind == product.kind
    IN  /\ b.actions[r] \in ProcessableStatuses
        /\ kind \in IncomeKinds \cup {"BOND_MATURITY_REDEMPTION"} =>
              /\ day >= Dates.payment
              /\ Entitled(b, r) => CashIsPaid(b, r)
        /\ kind = "STOCK_DIVIDEND" =>
              /\ day >= Dates.listing
              /\ e.pending = 0 /\ e.credited >= e.shares
        /\ kind = "RIGHTS_ISSUE" =>
              /\ day > Dates.subscriptionEnd
              /\ e.subscribed > 0 => e.pending = 0 /\ e.credited >= e.subscribed
        /\ kind \in SplitKinds =>
              /\ day >= Dates.ex
              /\ e.lieu > 0 => CashIsPaid(b, r)


Completed(b, r) ==
    IF Finished(b, r) THEN [b EXCEPT !.actions[r] = "COMPLETED"] ELSE b

\* A split multiplies every bucket and rounds each down; what total shares it
\* loses is paid in cash.
SplitPosition(p) ==
    LET times(n) == (n * T.ratio) \div T.base
    IN  WithAvailable([p EXCEPT !.today = times(@), !.yesterday = times(@),
                         !.total = times(p.today) + times(p.yesterday),
                         !.frozen = times(@), !.locked = times(@),
                         !.pending = times(@)])

\* apply_ex_date for an entitled account.
ExApplied(b, r) ==
    LET e == b.entitlements[r]
        p == b.position
        kind == product.kind
        split == SplitPosition(p)
        lost == p.total * T.ratio - split.total * T.base
        lieu == RoundedQuotient(lost * T.lieu, T.base)
    IN  CASE kind \in IncomeKinds /\ ~Posted(b, r, "RECEIVABLE_CREATED", "") ->
               [b EXCEPT !.account.receivable = @ + e.cash,
                  !.ledger = @ \cup {LedgerFact(r, "RECEIVABLE_CREATED", "", 0,
                                                e.cash, e.cash)}]
          [] kind = "STOCK_DIVIDEND" /\ ~Posted(b, r, "SHARES_PENDING", "") ->
               [b EXCEPT !.position.pending = @ + e.shares,
                  !.entitlements[r].pending = @ + e.shares,
                  !.ledger = @ \cup {LedgerFact(r, "SHARES_PENDING", "", 0, 0, 0)},
                  !.adjustments = Append(@, Adjustment(r, "SHARES_PENDING",
                       [EmptyPosition EXCEPT !.pending = e.shares]))]
          [] kind \in SplitKinds /\ ~Posted(b, r, kind, "") ->
               [b EXCEPT !.position = split,
                  !.entitlements[r].lieu = IF lost # 0 THEN lieu ELSE @,
                  !.account.receivable = @ + lieu,
                  !.ledger = @ \cup {LedgerFact(r, kind, "", 0, 0, 0)}
                       \cup IF lost = 0 THEN {}
                            ELSE {LedgerFact(r, "CASH_IN_LIEU", "", 0, lieu, 0)},
                  !.adjustments = Append(@, Adjustment(r, kind, Minus(split, p)))]
          [] OTHER -> b

\* apply_ex_date.
ExDate(b, r) ==
    LET applied == IF Entitled(b, r) THEN ExApplied(b, r) ELSE b
    IN  Completed([applied EXCEPT !.actions[r] = "PROCESSING"], r)

\* apply_bond_maturity: the principal becomes a receivable and the whole
\* holding is retired.
Matured(b, r) ==
    LET e == b.entitlements[r] IN
    Completed(
        IF ~Entitled(b, r) \/ Posted(b, r, "BOND_PRINCIPAL_RECEIVABLE", "") THEN b
        ELSE [b EXCEPT !.account.receivable = @ + e.cash,
                !.position = [EmptyPosition EXCEPT !.pending = b.position.pending],
                !.ledger = @ \cup {LedgerFact(r, "BOND_PRINCIPAL_RECEIVABLE", "",
                                              0, e.cash, 0)},
                !.adjustments = Append(@, Adjustment(r, "BOND_MATURITY_RETIRED",
                     Minus([EmptyPosition EXCEPT !.pending = b.position.pending],
                           b.position)))],
        r)

\* pay_cash: dividends, coupons, principal and the cash of split fractions.
Paid(b, r) ==
    LET amount == IF product.kind \in SplitKinds THEN b.entitlements[r].lieu
                  ELSE b.entitlements[r].cash
    IN  Completed(
            IF \/ product.kind \in {"STOCK_DIVIDEND", "RIGHTS_ISSUE"}
               \/ ~Entitled(b, r)
               \/ CashIsPaid(b, r)
            THEN b
            ELSE [b EXCEPT !.account.receivable = @ - amount,
                    !.account.cash = @ + amount, !.account.available = @ + amount,
                    !.ledger = @ \cup {LedgerFact(r, "CASH_PAID", "", amount,
                                                  -amount, 0)}],
            r)

\* Mutant: the listing leaves no adjustment fact.
ListedUnrecorded(b, r) ==
    LET e == b.entitlements[r]
        shares == [EmptyPosition EXCEPT !.total = e.pending, !.yesterday = e.pending,
                     !.pending = -e.pending, !.cost = e.subscriptionCash]
    IN  Completed(
            IF e.pending <= 0 \/ Posted(b, r, "SHARES_LISTED", "") THEN b
            ELSE [b EXCEPT !.position = Plus(@, shares),
                    !.entitlements[r].credited = @ + e.pending,
                    !.entitlements[r].pending = 0,
                    !.ledger = @ \cup {LedgerFact(r, "SHARES_LISTED", "", 0, 0, 0)}],
            r)

\* list_pending_shares: pending shares join yesterday's shares.
Listed(b, r) ==
    LET e == b.entitlements[r]
        shares == [EmptyPosition EXCEPT !.total = e.pending, !.yesterday = e.pending,
                     !.pending = -e.pending, !.cost = e.subscriptionCash]
    IN  Completed(
            IF e.pending <= 0 \/ Posted(b, r, "SHARES_LISTED", "") THEN b
            ELSE [b EXCEPT !.position = Plus(@, shares),
                    !.entitlements[r].credited = @ + e.pending,
                    !.entitlements[r].pending = 0,
                    !.ledger = @ \cup {LedgerFact(r, "SHARES_LISTED", "", 0, 0, 0)},
                    !.adjustments = Append(@, Adjustment(r, "SHARES_LISTED", shares))],
            r)


\* The steps of one revision in run_due_actions, in their order: principal
\* becomes a receivable before a payment of the same day.  What has been
\* completed by an earlier step of the same run is still run through.
ActionSteps == <<"capture", "ex date", "maturity", "payment", "listing", "completion">>

Due(b, r, step) ==
    LET processable == b.actions[r] \in ProcessableStatuses \cup {"COMPLETED"} IN
    CASE step = "capture" -> b.actions[r] = "CONFIRMED" /\ Dates.record = day
      [] step = "ex date" -> Dates.ex = day /\ processable
      [] step = "maturity" -> Dates.ex = day /\ processable
                              /\ product.kind = "BOND_MATURITY_REDEMPTION"
      [] step = "payment" -> Dates.payment = day /\ processable
      [] step = "listing" -> Dates.listing = day /\ processable
      [] OTHER -> TRUE

Perform(b, r, step) ==
    CASE step = "capture" -> Captured(b, r)
      [] step = "ex date" -> ExDate(b, r)
      [] step = "maturity" -> Matured(b, r)
      [] step = "payment" -> Paid(b, r)
      [] step = "listing" -> Listed(b, r)
      [] OTHER -> Completed(b, r)

\* A revision confirmed after its record day goes to manual review.
RunRevision(b, r) ==
    CASE b.actions[r] \notin UnexecutedStatuses \cup ProcessableStatuses -> b
      [] b.actions[r] = "CONFIRMED" /\ Dates.record < day ->
           [b EXCEPT !.actions[r] = "MANUAL_REVIEW_REQUIRED"]
      [] OTHER -> FoldLeft(LAMBDA c, step : IF Due(c, r, step)
                                            THEN Perform(c, r, step) ELSE c,
                           b, ActionSteps)

-----------------------------------------------------------------------------
(* The daily settlement of the account: barrier, actions, posting.         *)

NoActiveOrder == \A o \in Orders : orders[o].status \notin ActiveStatuses

\* Every order is cancelled (Cancel) before the barrier is confirmed.
Barrier ==
    /\ phase = "trading" /\ day <= LastDay
    /\ NoActiveOrder
    /\ phase' = "acting"
    /\ UNCHANGED <<fixed, day, orders, account, position, trades, corporate>>

\* run_due_actions, one transaction over all revisions in id order.  A bond
\* that is still reserved at its maturity raises.
RunDueActions ==
    /\ phase = "acting"
    /\ (product.kind = "BOND_MATURITY_REDEMPTION" /\ Dates.ex = day)
          => position.frozen = 0 /\ position.locked = 0
    /\ LET b == FoldLeft(RunRevision, Books, [r \in Revisions |-> r])
       IN  /\ account' = b.account
           /\ position' = b.position
           /\ actions' = b.actions
           /\ entitlements' = b.entitlements
           /\ ledger' = b.ledger
           /\ adjustments' = b.adjustments
    /\ phase' = "posting"
    /\ UNCHANGED <<fixed, day, orders, trades, subscriptions>>

\* The run fails or dies before it has posted; it is repeated.
Repeat ==
    /\ phase = "posting"
    /\ phase' = "acting"
    /\ UNCHANGED <<fixed, day, orders, account, position, trades, corporate>>

ReplayedTrade(p, trade) ==
    IF trade.direction = "BUY" THEN Bought(p, trade.volume, trade.turnover)
    ELSE Sold(p, trade.volume)

\* Mutant: the shares bought today stay today's and locked overnight.
RolledOverNot(p) == p

\* Yesterday's shares at the start of a later day.
RolledOver(p) ==
    WithAvailable([p EXCEPT !.yesterday = @ + p.today, !.today = 0, !.locked = 0])


NothingOn(facts, d) == \A i \in DOMAIN facts : facts[i].day # d

\* The trades of one day, and its adjustments, in their order.
Traded(p, d) ==
    FoldLeft(LAMBDA q, trade : IF trade.day = d THEN ReplayedTrade(q, trade) ELSE q,
             p, trades)

Adjusted(p, d) ==
    FoldLeft(LAMBDA q, fact : IF fact.day = d THEN Plus(q, fact.delta) ELSE q,
             p, adjustments)

\* The facts of one day.  A day without facts is not visited, so the next one does
\* not roll over for it.
ReplayedDay(p, d) ==
    IF NothingOn(trades, d) /\ NothingOn(adjustments, d) THEN p
    ELSE Adjusted(Traded(RolledOver(p), d), d)

\* CashSecurityPositionReplayProjection.replay through today.
Replay == FoldLeft(ReplayedDay, EmptyPosition, [d \in 1 .. day |-> d])

Authoritative == trades # <<>> \/ adjustments # <<>>

\* Cash as the facts explain it; those of an action that is dropped or under
\* review do not count.
ExplainedCash ==
    OpeningCash
    + FoldLeft(LAMBDA sum, trade :
                  sum - trade.commission
                  + (IF trade.direction = "SELL" THEN trade.turnover
                     ELSE -trade.turnover), 0, trades)
    + SumOver({l \in ledger : actions[l.revision] \notin
                  DroppedStatuses \cup {"MANUAL_REVIEW_REQUIRED"}}, LAMBDA l : l.cash)

\* Income of the day, which daily_pnl contains and the conservation check of
\* _settle_batch_from_facts does not expect.
IncomeToday == SumOver({l \in ledger : l.day = day}, LAMBDA l : l.income)

Sane(p) ==
    /\ \A column \in DOMAIN p \ {"cost"} : p[column] >= 0
    /\ p.total = p.today + p.yesterday

\* Executed facts that the replay must not leave out.
ReplaySafe ==
    \A l \in ledger : actions[l.revision] # "MANUAL_REVIEW_REQUIRED"

\* What freezing prices (_freeze_prices) can have left for the security: a tick of the day, which
\* is recent or too old for a mark when the account is posted, and none at all where
\* nobody holds it and nobody traded it today.  Others may hold it.
FrozenQuotes ==
    {"RECENT", "OLD"}
    \cup (IF position.total = 0 /\ NothingOn(trades, day) THEN {"NONE"} ELSE {})

\* The holding after the replay.
SettledPosition == IF Authoritative THEN Replay ELSE position

\* Every check of the posting transaction.  A position row is never deleted: the
\* first trade makes it, and with no share left it still needs a frozen price.
Accepts(quote) ==
    /\ ReplaySafe
    /\ account.frozenCash = 0 /\ account.frozenCommission = 0
    /\ account.cash = ExplainedCash
    /\ IncomeToday = 0
    /\ Authoritative => Sane(Replay) /\ Replay.frozen = 0
    /\ trades # <<>> => quote # "NONE"
    /\ SettledPosition.total > 0 => quote = "RECENT"

\* _settle_batch_from_facts: the replay replaces the position, which is then
\* carried over; all cash is available again; the day changes.
Post ==
    /\ phase = "posting"
    /\ \E quote \in FrozenQuotes : Accepts(quote)
    /\ LET p == SettledPosition
       IN  position' = WithAvailable([p EXCEPT !.today = 0, !.yesterday = p.total,
                                        !.locked = 0])
    /\ account' = [account EXCEPT !.available = account.cash]
    /\ day' = day + 1
    /\ phase' = "trading"
    /\ UNCHANGED <<fixed, orders, trades, corporate>>

-----------------------------------------------------------------------------
(* subscribe_rights, a client's call at any time in the window.            *)

Subscribe(r, request, volume) ==
    LET e == entitlements[r]
        cash == volume * T.price
        pending == [EmptyPosition EXCEPT !.pending = volume, !.cost = cash]
    IN  /\ product.kind = "RIGHTS_ISSUE"
        /\ Dates.subscriptionStart <= day /\ day <= Dates.subscriptionEnd
        /\ Entitled(Books, r)
        /\ ~\E s \in subscriptions : s.revision = r /\ s.request = request
        /\ volume <= e.shares - e.subscribed
        /\ account.available >= cash /\ account.cash >= cash
        /\ account' = [account EXCEPT !.cash = @ - cash, !.available = @ - cash]
        /\ position' = [position EXCEPT !.pending = @ + volume]
        /\ entitlements' = [entitlements EXCEPT ![r] =
                              [e EXCEPT !.subscribed = @ + volume,
                                 !.pending = @ + volume,
                                 !.subscriptionCash = @ + cash]]
        /\ ledger' = ledger \cup
              {LedgerFact(r, "RIGHTS_SUBSCRIBED", request, -cash, 0, 0)}
        /\ adjustments' = Append(adjustments,
                                 Adjustment(r, "RIGHTS_SUBSCRIBED", pending))
        /\ subscriptions' = subscriptions \cup
              {[revision |-> r, request |-> request, volume |-> volume]}
        /\ UNCHANGED <<fixed, day, phase, orders, trades, actions>>

-----------------------------------------------------------------------------
Next ==
    \/ \E o \in Orders, direction \in {"BUY", "SELL"}, limit \in LimitPrices,
          volume \in Volumes : Submit(o, direction, limit, volume)
    \/ \E o \in Orders : Cancel(o)
    \/ \E o \in Orders, t \in Ticks : DeliverTick(o, t)
    \/ \E r \in Revisions : Import(r) \/ Confirm(r)
    \/ \E r \in Revisions, request \in SubscriptionIds, volume \in Volumes :
          Subscribe(r, request, volume)
    \/ Barrier
    \/ RunDueActions
    \/ Repeat
    \/ Post

Spec == Init /\ [][Next]_vars

-----------------------------------------------------------------------------
(* Properties.                                                             *)

TypeOK ==
    /\ product \in Products
    /\ day \in 1 .. LastDay + 1
    /\ phase \in {"trading", "acting", "posting"}
    /\ \A o \in Orders : orders[o].status \in ActiveStatuses \cup
          {"NONE", "FILLED", "CANCELLED", "PARTIALLY_CANCELLED"}

OverOrders(amounts) == SumFunctionOnSet(amounts, Orders)

\* Every frozen amount of the account and every frozen share of the position
\* belongs to an active order, and cash is what is available and frozen, through
\* every order of fills, cancellations and payments (create_order, settle,
\* cancel_order, pay_cash, subscribe_rights).
FrozenBelongsToOrders ==
    /\ account.frozenCash = OverOrders([o \in Orders |-> orders[o].frozenCash])
    /\ account.frozenCommission = OverOrders([o \in Orders |-> orders[o].frozenCommission])
    /\ position.frozen = OverOrders([o \in Orders |-> orders[o].frozenVolume])
    /\ account.cash = account.available + account.frozenCash + account.frozenCommission
    /\ \A o \in Orders : orders[o].status \notin ActiveStatuses =>
          orders[o].frozenCash + orders[o].frozenCommission
          + orders[o].frozenVolume = 0

\* A sell order that was accepted can always be filled: the shares promised to
\* orders are shares that may be sold today, so settle never meets its T+1
\* refusal however buys, sales, listings and splits interleave.
SellOrdersAreCovered ==
    /\ position.frozen <= position.yesterday
                          + (IF product.settlementDays = 1 THEN 0 ELSE position.today)
    /\ position.available >= 0

\* Every order is covered until it ends, by cash or by shares, and nothing else
\* is frozen.
OrdersAreCovered == FrozenBelongsToOrders /\ SellOrdersAreCovered

\* The replay of trades and adjustments gives the shares and the cost the live
\* row has, which it is about to replace: the two translations of every fact
\* agree.  The cost is excepted where rights are subscribed: their fact counts
\* it once when it is subscribed and once more when it is listed, the live row
\* when it is listed.
ReplayIsLive ==
    phase = "posting" /\ Authoritative =>
        /\ Replay.total = position.total
        /\ Replay.pending = position.pending
        /\ Replay.frozen = position.frozen
        /\ subscriptions = {} => Replay.cost = position.cost

\* Whatever was traded, cancelled, paid, split, subscribed or repeated before, the
\* posting transaction of a day without income (_settle_batch_from_facts) refuses the account
\* only for the price: that of a holding when it is late, and that of a row without
\* shares when nobody traded the security.
SettlementAccepts ==
    phase = "posting" /\ IncomeToday = 0 =>
        \A quote \in FrozenQuotes :
            \/ Accepts(quote)
            \/ quote = "OLD" /\ position.total > 0
            \/ quote = "NONE" /\ position.total = 0 /\ trades # <<>>

\* What an account is owed is never less than nothing, and nothing remains owed
\* or pending when the action is completed; shares credited are the shares
\* entitled or subscribed.  A split into fractions applied after its record day is
\* excepted: its fraction may be of another holding than the one recorded.
WholeShares ==
    product.kind \in SplitKinds => Dates.record = Dates.ex \/ T.ratio % T.base = 0
DeliveredOnce ==
    /\ WholeShares => account.receivable >= 0
    /\ \A r \in Revisions :
          LET e == entitlements[r] IN
          /\ e.credited + e.pending <= Larger(e.shares, 0)
          /\ actions[r] = "COMPLETED" =>
                /\ e.pending = 0
                /\ product.kind = "STOCK_DIVIDEND" => e.credited = e.shares
                /\ product.kind = "RIGHTS_ISSUE" => e.credited = e.subscribed

\* Of all revisions of an action at most one ever gives entitlements, whenever
\* the revisions are imported and confirmed.
OneRevisionExecutes ==
    \A r, q \in Revisions : Entitled(Books, r) /\ Entitled(Books, q) => r = q

\* Whoever was entitled has been given everything when the last day has ended,
\* on whichever day, in whichever run and after whichever repetition each step
\* of the action was taken: no completion is missed by run_due_actions.
EveryActionCompletes ==
    day > LastDay => \A r \in Revisions : Entitled(Books, r) => actions[r] = "COMPLETED"

\* An announced action takes effect on every holder once, of one revision, and to
\* its end.
ActionsTakeEffectOnce ==
    /\ DeliveredOnce
    /\ OneRevisionExecutes
    /\ EveryActionCompletes

\* A day whose actions have run can be posted, dividends and coupons included: a
\* run executes "or resumes" a trading day.  It cannot on the ex day of a
\* dividend.
EveryDayPosts == phase = "posting" => Accepts("RECENT")

=============================================================================
