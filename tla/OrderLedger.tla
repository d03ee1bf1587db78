----------------------------- MODULE OrderLedger -----------------------------
(***************************************************************************)
(* The money-and-position ledger of one derivative account trading one     *)
(* futures contract on one side during one trading day.                    *)
(*                                                                         *)
(* Four handlers write it, each in one database transaction under the row  *)
(* locks Order -> Account -> Position -> PositionDetail/Allocation:        *)
(*                                                                         *)
(*   create_order   accepts an OPEN or a CLOSE limit order and freezes     *)
(*                  money or lots for it                                   *)
(*   settle         fills an order against a market event                  *)
(*   cancel_order   releases what the unfilled remainder still freezes     *)
(*                                                                         *)
(* Two of them act on something read BEFORE the locks are taken: order     *)
(* entry on the answer of its first idempotency lookup, settlement on the  *)
(* match a worker computed from an unlocked snapshot of the order.  Those  *)
(* reads are steps of their own here, and what they read is kept in        *)
(* "submissions" and "commands", where it goes stale.                      *)
(*                                                                         *)
(* Money is an integer number of units of the last stored decimal, rounded *)
(* half up by quantize_money wherever the code divides.                    *)
(***************************************************************************)
EXTENDS Integers, Sequences, FiniteSets, Functions

CONSTANTS
    ClientIds,        \* client_order_id values; an order row is keyed by one
    Requests,         \* what a client may ask for: [offset, limit, volume]
    Ticks,            \* market events: [Ticks -> [bid, bidVolume, ask, askVolume]]
    Quote,
    Side,             \* "LONG": OPEN is BUY, CLOSE is SELL.  "SHORT": reversed
    MarginRate,       \* open margin per price unit and lot, in 1/Scale
    FeeRate,          \* commission per price unit and lot by flag, in 1/Scale
    Scale,
    OpeningCash,      \* cash_balance at the start of the day
    OpeningDetails,   \* PositionDetails carried over from earlier days
    MaxInFlight       \* bound on requests and match results held by processes

OffsetFlags == {"OPEN", "CLOSE", "CLOSE_TODAY", "CLOSE_YESTERDAY"}

Detail == [today : BOOLEAN, price : Int, base : Int, original : Int,
           remaining : Int, frozen : Int, margin : Int]

Position == [total : Int, today : Int, yesterday : Int, frozen : Int,
             usedMargin : Int]

ASSUME ClientsAssumption == IsFiniteSet(ClientIds)
ASSUME RequestsAssumption ==
    Requests \subseteq [offset : OffsetFlags, limit : Nat \ {0},
                        volume : Nat \ {0}]
ASSUME QuoteAssumption ==
    Quote \in [Ticks -> [bid : Nat \ {0}, bidVolume : Nat,
                         ask : Nat \ {0}, askVolume : Nat]]
ASSUME RateAssumption ==
    /\ Side \in {"LONG", "SHORT"}
    /\ MarginRate \in Nat
    /\ FeeRate \in [OffsetFlags -> Nat]
    /\ Scale \in Nat \ {0}
ASSUME OpeningAssumption ==
    /\ OpeningCash \in Int
    /\ OpeningDetails \in Seq(Detail)
    /\ \A d \in DOMAIN OpeningDetails :
          LET row == OpeningDetails[d]
          IN  /\ ~row.today
              /\ row.frozen = 0       \* the orders of earlier days have ended
              /\ row.remaining >= 0 /\ row.margin >= 0
              /\ row.remaining = 0 => row.margin = 0

VARIABLES
    orders,           \* one row per client id; status "NONE" means no row
    allocations,      \* PositionFreezeAllocations of each order, by detail
    account,
    position,
    details,          \* PositionDetails of the position, in id order
    trades,
    outbox,           \* events committed with the business change
    submissions,      \* requests whose first idempotency lookup found nothing
    commands          \* match results computed from unlocked order snapshots

vars == <<orders, allocations, account, position, details, trades, outbox,
          submissions, commands>>

ledger == <<orders, allocations, account, position, details, trades, outbox>>

-----------------------------------------------------------------------------
(* Money and volume arithmetic.                                            *)

Smaller(a, b) == IF a < b THEN a ELSE b

\* The sum of a function's values.  (Stated as an integer for every argument:
\* what a fold returns is then known without an induction over it.)
Total(f) ==
    LET sum == SumFunctionOnSet(f, DOMAIN f)
    IN  IF sum \in Int THEN sum ELSE 0

\* f[x], or nothing where f is not defined.
At(f, x) == IF x \in DOMAIN f THEN f[x] ELSE 0

\* quantize_money of num / den for num >= 0: ROUND_HALF_UP.  The code never
\* divides by nothing.
RoundedQuotient(num, den) == IF den > 0 THEN (2 * num + den) \div (2 * den) ELSE 0

OpenMargin(price, volume) == RoundedQuotient(price * volume * MarginRate, Scale)

Commission(flag, price, volume) ==
    RoundedQuotient(price * volume * FeeRate[flag], Scale)

PartOfRoundedUp(amount, part, whole) == (amount * part + whole - 1) \div whole + 1

\* The part of a remaining amount that goes with "part" of "whole" lots; the
\* last part takes everything that rounding left behind.
PartOf(amount, part, whole) ==
    IF part = whole THEN amount ELSE RoundedQuotient(amount * part, whole)

-----------------------------------------------------------------------------
(* Lots on details, in the order in which the code goes through them.      *)

TodayFirst(e, d) ==
    IF details[e].today = details[d].today THEN e < d ELSE details[e].today

\* Close plans list yesterday's details before today's, by id; allocation rows
\* are created, and so numbered and later consumed, in that order.
Precedes(e, d) ==
    IF details[e].today = details[d].today THEN e < d ELSE details[d].today

\* First-in-first-out split of a volume over what each detail can give.
FifoSplit(capacity, volume) ==
    [d \in DOMAIN capacity |->
        LET earlier == {e \in DOMAIN capacity : Precedes(e, d)}
            before  == Total([e \in earlier |-> capacity[e]])
        IN  IF volume <= before THEN 0 ELSE Smaller(capacity[d], volume - before)]

ResolvedFlag(d) == IF details[d].today THEN "CLOSE_TODAY" ELSE "CLOSE_YESTERDAY"

\* The commission of lots[d] lots on each detail d: one fee per resolved flag,
\* split over its details by cumulative volume, so that the shares add up to
\* the fee however many details there are.
BucketShares(price, lots) ==
    LET Volume(D)  == Total([d \in D |-> lots[d]])
        Bucket(d)  == {e \in DOMAIN lots : ResolvedFlag(e) = ResolvedFlag(d)}
        Before(d)  == {e \in Bucket(d) : Precedes(e, d)}
        Fee(d)     == Commission(ResolvedFlag(d), price, Volume(Bucket(d)))
        UpTo(d, D) == RoundedQuotient(Fee(d) * Volume(D), Volume(Bucket(d)))
    IN  [d \in DOMAIN lots |->
            UpTo(d, Before(d) \cup {d}) - UpTo(d, Before(d))]

-----------------------------------------------------------------------------
(* Orders, positions and their classification.                             *)

ActiveStatuses    == {"ACCEPTED", "PARTIALLY_FILLED"}
CancelledStatuses == {"CANCELLED", "PARTIALLY_CANCELLED"}
TerminalStatuses  == CancelledStatuses \cup {"FILLED"}
Statuses          == {"NONE"} \cup ActiveStatuses \cup TerminalStatuses

NoOrder == [status |-> "NONE", offset |-> "OPEN", limit |-> 0, total |-> 0,
            traded |-> 0, remaining |-> 0, cancelled |-> 0,
            frozenMargin |-> 0, frozenCommission |-> 0, frozenPosition |-> 0]

NewOrder(r, margin, commission, lots) ==
    [NoOrder EXCEPT !.status = "ACCEPTED", !.offset = r.offset, !.limit = r.limit,
                    !.total = r.volume, !.remaining = r.volume,
                    !.frozenMargin = margin, !.frozenCommission = commission,
                    !.frozenPosition = lots]

Active(o) == orders[o].status \in ActiveStatuses
IsOpen(o) == orders[o].offset = "OPEN"

Buys(o) == IsOpen(o) <=> Side = "LONG"
PnlSign == IF Side = "LONG" THEN 1 ELSE -1

Event(kind, o, tick) == [kind |-> kind, order |-> o, tick |-> tick]
NoTick == "none"

TotalOf(ds, Test(_)) ==
    Total([d \in DOMAIN ds |-> IF Test(ds[d]) THEN ds[d].remaining ELSE 0])

IsToday(d)     == d.today
IsYesterday(d) == ~d.today

Init ==
    LET margin == Total([d \in DOMAIN OpeningDetails |-> OpeningDetails[d].margin])
    IN  /\ orders = [c \in ClientIds |-> NoOrder]
        /\ allocations = [c \in ClientIds |-> <<>>]
        /\ account = [cash |-> OpeningCash, available |-> OpeningCash - margin,
                      riskAvailable |-> OpeningCash - margin,
                      frozenMargin |-> 0, frozenCommission |-> 0,
                      usedMargin |-> margin, usedCommission |-> 0, closePnl |-> 0]
        /\ details = OpeningDetails
        /\ position = [total |-> TotalOf(OpeningDetails, IsYesterday), today |-> 0,
                       yesterday |-> TotalOf(OpeningDetails, IsYesterday),
                       frozen |-> 0, usedMargin |-> margin]
        /\ trades = {}
        /\ outbox = {}
        /\ submissions = {}
        /\ commands = {}

-----------------------------------------------------------------------------
(* create_order                                                            *)

\* The first idempotency lookup, before any lock: nothing found.  (A hit
\* returns the existing order and changes nothing.)
LookupMisses(c, r) ==
    /\ orders[c].status = "NONE"
    /\ Cardinality(submissions) < MaxInFlight
    /\ submissions' = submissions \cup {[client |-> c, request |-> r]}
    /\ UNCHANGED <<ledger, commands>>

\* An account whose risk_available_cash column still holds its default 0
\* while cash is available is repaired on the first freeze.
RiskAvailable ==
    IF account.riskAvailable = 0 /\ account.available > 0
    THEN account.available ELSE account.riskAvailable

CanFreezeOpen(r) ==
    LET needed == OpenMargin(r.limit, r.volume) + Commission("OPEN", r.limit, r.volume)
    IN  account.available >= needed /\ RiskAvailable >= needed

AcceptOpen(c, r) ==
    LET margin     == OpenMargin(r.limit, r.volume)
        commission == Commission("OPEN", r.limit, r.volume)
    IN  /\ CanFreezeOpen(r)
        /\ account' = [account EXCEPT
                          !.available        = @ - (margin + commission),
                          !.riskAvailable    = RiskAvailable - (margin + commission),
                          !.frozenMargin     = @ + margin,
                          !.frozenCommission = @ + commission]
        /\ orders' = [orders EXCEPT ![c] = NewOrder(r, margin, commission, 0)]
        /\ outbox' = outbox \cup {Event("ORDER_ACCEPTED", c, NoTick)}
        /\ UNCHANGED <<allocations, position, details, trades>>

Free(d) == details[d].remaining - details[d].frozen

\* Details a close of this kind may take lots from.
Candidates(offset) ==
    {d \in DOMAIN details :
        /\ Free(d) > 0
        /\ offset = "CLOSE_TODAY" => details[d].today
        /\ offset = "CLOSE_YESTERDAY" => ~details[d].today}

FreeLots(r) == [d \in Candidates(r.offset) |-> Free(d)]

\* PositionCloseAllocator.allocate: how many lots of which detail.
ClosePlan(r) ==
    LET taken == FifoSplit(FreeLots(r), r.volume)
    IN  [d \in {d \in DOMAIN taken : taken[d] > 0} |-> taken[d]]

CloseCommission(r) == Total(BucketShares(r.limit, ClosePlan(r)))

CanFreezeClose(r) ==
    /\ Total(FreeLots(r)) >= r.volume
    /\ account.available >= CloseCommission(r)

AcceptClose(c, r) ==
    LET plan       == ClosePlan(r)
        shares     == BucketShares(r.limit, plan)
        commission == Total(shares)
    IN  /\ CanFreezeClose(r)
        /\ account' = [account EXCEPT
                          !.available        = @ - commission,
                          !.riskAvailable    = @ - commission,
                          !.frozenCommission = @ + commission]
        /\ details' = [d \in DOMAIN details |->
                          [details[d] EXCEPT !.frozen = @ + At(plan, d)]]
        /\ allocations' = [allocations EXCEPT ![c] =
                              [d \in DOMAIN plan |->
                                  [original |-> plan[d], remaining |-> plan[d],
                                   consumed |-> 0, released |-> 0,
                                   commission |-> shares[d]]]]
        /\ position' = [position EXCEPT !.frozen = @ + r.volume]
        /\ orders' = [orders EXCEPT ![c] = NewOrder(r, 0, commission, r.volume)]
        /\ outbox' = outbox \cup {Event("ORDER_ACCEPTED", c, NoTick)}
        /\ UNCHANGED trades

CanFreeze(r) == IF r.offset = "OPEN" THEN CanFreezeOpen(r) ELSE CanFreezeClose(r)

SecondLookupSkipped(c) == FALSE

\* The transaction under the account lock.  The second lookup finds the order
\* that a concurrent request with the same key created meanwhile.
AlreadyExists(c) == orders[c].status # "NONE"

AcceptSubmission(s) ==
    /\ ~AlreadyExists(s.client)
    /\ IF s.request.offset = "OPEN"
       THEN AcceptOpen(s.client, s.request)
       ELSE AcceptClose(s.client, s.request)
    /\ submissions' = submissions \ {s}
    /\ UNCHANGED commands

\* Idempotent answer, or a business error that rolls the transaction back.
DropSubmission(s) ==
    /\ AlreadyExists(s.client) \/ ~CanFreeze(s.request)
    /\ submissions' = submissions \ {s}
    /\ UNCHANGED <<ledger, commands>>

-----------------------------------------------------------------------------
(* Matching on an unlocked snapshot, then trade settlement.                *)

FillPrice(o, t)     == IF Buys(o) THEN Quote[t].ask ELSE Quote[t].bid
QuotedVolume(o, t)  == IF Buys(o) THEN Quote[t].askVolume ELSE Quote[t].bidVolume
LimitReached(o, t)  == IF Buys(o) THEN orders[o].limit >= FillPrice(o, t)
                                  ELSE orders[o].limit <= FillPrice(o, t)

\* A worker reads the order without a lock and matches it.  A tick that was
\* not acknowledged is delivered again, so this may repeat for the same pair.
Match(o, t) ==
    /\ Active(o)
    /\ orders[o].remaining > 0
    /\ LimitReached(o, t)
    /\ QuotedVolume(o, t) > 0
    /\ Cardinality(commands) < MaxInFlight
    /\ commands' = commands \cup
           {[order |-> o, tick |-> t,
             volume |-> Smaller(orders[o].remaining, QuotedVolume(o, t))]}
    /\ UNCHANGED <<ledger, submissions>>

NeverSettled(o, t) == FALSE

Settled(o, t) == \E trade \in trades : trade.order = o /\ trade.tick = t

\* _is_matchable_order, evaluated again under the order lock.
Matchable(o) == Active(o) /\ orders[o].remaining > 0

\* IDEMPOTENT or ORDER_INACTIVE: the locked re-check refuses the match.
DropCommand(m) ==
    /\ Settled(m.order, m.tick) \/ ~Matchable(m.order)
    /\ commands' = commands \ {m}
    /\ UNCHANGED <<ledger, submissions>>

FillVolume(m) == Smaller(m.volume, orders[m.order].remaining)

FilledKeepsLots(order, volume, margin, commission, lots) ==
    [order EXCEPT
        !.traded           = @ + volume,
        !.remaining        = @ - volume,
        !.status           = IF order.remaining = volume THEN "FILLED"
                             ELSE "PARTIALLY_FILLED",
        !.frozenMargin     = @ - margin,
        !.frozenCommission = @ - commission]

\* The order row after a fill that releases these frozen amounts.
Filled(order, volume, margin, commission, lots) ==
    [order EXCEPT
        !.traded           = @ + volume,
        !.remaining        = @ - volume,
        !.status           = IF order.remaining = volume THEN "FILLED"
                             ELSE "PARTIALLY_FILLED",
        !.frozenMargin     = @ - margin,
        !.frozenCommission = @ - commission,
        !.frozenPosition   = @ - lots]

FillEventsAlwaysPartial(o, t) ==
    {Event("TRADE_CREATED", o, t), Event("PARTIALLY_FILLED", o, t)}

FillEvents(o, t) ==
    {Event("TRADE_CREATED", o, t), Event(orders'[o].status, o, t)}

\* OPEN_RESOURCE_INCONSISTENT is raised, and everything rolled back, otherwise.
OpenFillConsistent(o, volume) ==
    LET before == orders[o].remaining
    IN  /\ account.frozenMargin >= PartOf(orders[o].frozenMargin, volume, before)
        /\ account.frozenCommission >= PartOf(orders[o].frozenCommission, volume, before)

\* Frozen margin becomes occupied; the estimated commission is given back and
\* the actual one, at the fill price, is paid.  riskAvailable is left to the
\* next valuation.
OpenFillAccount(margin, released, commission) ==
    [account EXCEPT !.cash             = @ - commission,
                    !.available        = @ + released - commission,
                    !.frozenMargin     = @ - margin,
                    !.usedMargin       = @ + margin,
                    !.frozenCommission = @ - released,
                    !.usedCommission   = @ + commission]

SettleOpen(m) ==
    LET o          == m.order
        volume     == FillVolume(m)
        price      == FillPrice(o, m.tick)
        margin     == PartOf(orders[o].frozenMargin, volume, orders[o].remaining)
        released   == PartOf(orders[o].frozenCommission, volume, orders[o].remaining)
        commission == Commission("OPEN", price, volume)
    IN  /\ OpenFillConsistent(o, volume)
        /\ orders' = [orders EXCEPT ![o] = Filled(@, volume, margin, released, 0)]
        /\ account' = OpenFillAccount(margin, released, commission)
        /\ position' = [position EXCEPT !.total      = @ + volume,
                                        !.today      = @ + volume,
                                        !.usedMargin = @ + margin]
        /\ details' = Append(details,
                             [today |-> TRUE, price |-> price, base |-> price,
                              original |-> volume, remaining |-> volume,
                              frozen |-> 0, margin |-> margin])
        /\ trades' = trades \cup
               {[order |-> o, tick |-> m.tick, volume |-> volume, margin |-> margin,
                 commission |-> commission, closePnl |-> 0]}
        /\ outbox' = outbox \cup FillEvents(o, m.tick)
        /\ UNCHANGED allocations

Held(o) == [d \in DOMAIN allocations[o] |-> allocations[o][d].remaining]

HeldCommission(o) == [d \in DOMAIN allocations[o] |-> allocations[o][d].commission]

\* What one close fill takes from each allocation of the order.
Consumption(o, volume) == FifoSplit(Held(o), volume)

\* MarginReleaseCalculator, on the remaining margin and lots of each detail.
ReleasedMargin(o, volume) ==
    LET taken == Consumption(o, volume)
    IN  [d \in DOMAIN taken |->
            IF taken[d] = 0 THEN 0
            ELSE PartOf(details[d].margin, taken[d], details[d].remaining)]

ReleasedCommissionPerOriginalLot(o, volume) ==
    LET taken == Consumption(o, volume)
    IN  [d \in DOMAIN taken |->
            IF taken[d] = 0 THEN 0
            ELSE PartOf(allocations[o][d].commission, taken[d],
                        allocations[o][d].original)]

ReleasedCommission(o, volume) ==
    LET taken == Consumption(o, volume)
    IN  [d \in DOMAIN taken |->
            IF taken[d] = 0 THEN 0
            ELSE PartOf(allocations[o][d].commission, taken[d],
                        allocations[o][d].remaining)]

\* _validate_before_mutation and the resource checks of the close handler:
\* any failure raises before a field is written.
CloseFillConsistent(o, volume) ==
    LET mine == allocations[o]
    IN  /\ DOMAIN mine # {}
        /\ \A d \in DOMAIN mine :
              /\ mine[d].original = mine[d].remaining + mine[d].consumed + mine[d].released
              /\ mine[d].original > 0
              /\ mine[d].remaining >= 0
              /\ mine[d].remaining <= details[d].frozen
              /\ mine[d].remaining <= details[d].remaining
        /\ Total(Held(o)) = orders[o].remaining
        /\ orders[o].frozenPosition = orders[o].remaining
        /\ Total(HeldCommission(o)) = orders[o].frozenCommission
        /\ account.usedMargin >= Total(ReleasedMargin(o, volume))
        /\ account.frozenCommission >= Total(ReleasedCommission(o, volume))
        /\ position.usedMargin >= Total(ReleasedMargin(o, volume))
        /\ position.frozen >= volume

\* Margin and estimated commission come back, profit since the base price of
\* the day is booked, the actual commission is paid.
CloseFillAccount(margin, released, fee, pnl) ==
    [account EXCEPT !.cash             = @ + pnl - fee,
                    !.available        = @ + released - fee + margin + pnl,
                    !.usedMargin       = @ - margin,
                    !.frozenCommission = @ - released,
                    !.usedCommission   = @ + fee,
                    !.closePnl         = @ + pnl]

\* The day split is recomputed from the details as the fill leaves them.
PositionAfterClose(ds, volume, margin) ==
    [total      |-> position.total - volume,
     today      |-> TotalOf(ds, IsToday),
     yesterday  |-> TotalOf(ds, IsYesterday),
     frozen     |-> position.frozen - volume,
     usedMargin |-> IF position.total = volume THEN 0 ELSE position.usedMargin - margin]

SettleClose(m) ==
    LET o        == m.order
        volume   == FillVolume(m)
        price    == FillPrice(o, m.tick)
        taken    == Consumption(o, volume)
        used     == [d \in {d \in DOMAIN taken : taken[d] > 0} |-> taken[d]]
        freed    == ReleasedMargin(o, volume)
        paidBack == ReleasedCommission(o, volume)
        margin   == Total(freed)
        released == Total(paidBack)
        fee      == Total(BucketShares(price, used))
        pnl      == Total([d \in DOMAIN taken |->
                              PnlSign * taken[d] * (price - details[d].base)])
    IN  /\ CloseFillConsistent(o, volume)
        /\ details' = [d \in DOMAIN details |->
                          [details[d] EXCEPT !.remaining = @ - At(taken, d),
                                             !.frozen    = @ - At(taken, d),
                                             !.margin    = @ - At(freed, d)]]
        /\ allocations' = [allocations EXCEPT ![o] =
                              [d \in DOMAIN taken |->
                                  [allocations[o][d] EXCEPT
                                      !.remaining  = @ - taken[d],
                                      !.consumed   = @ + taken[d],
                                      !.commission = @ - paidBack[d]]]]
        /\ orders' = [orders EXCEPT ![o] = Filled(@, volume, 0, released, volume)]
        /\ account' = CloseFillAccount(margin, released, fee, pnl)
        /\ position' = PositionAfterClose(details', volume, margin)
        /\ trades' = trades \cup
               {[order |-> o, tick |-> m.tick, volume |-> volume, margin |-> margin,
                 commission |-> fee, closePnl |-> pnl]}
        /\ outbox' = outbox \cup FillEvents(o, m.tick)

Settle(m) ==
    /\ ~Settled(m.order, m.tick)
    /\ Matchable(m.order)
    /\ IF IsOpen(m.order) THEN SettleOpen(m) ELSE SettleClose(m)
    /\ commands' = commands \ {m}
    /\ UNCHANGED submissions

-----------------------------------------------------------------------------
(* cancel_order                                                            *)

\* CANCEL_*_INCONSISTENT is raised, and everything rolled back, otherwise.
CancelConsistent(o) ==
    LET order == orders[o]
        mine  == allocations[o]
    IN  /\ order.remaining > 0
        /\ account.frozenMargin >= order.frozenMargin
        /\ account.frozenCommission >= order.frozenCommission
        /\ IF IsOpen(o) THEN order.frozenPosition = 0
           ELSE /\ order.frozenMargin = 0
                /\ order.frozenPosition = order.remaining
                /\ DOMAIN mine # {}
                /\ Total(Held(o)) = order.remaining
                /\ Total(HeldCommission(o)) = order.frozenCommission
                /\ \A d \in DOMAIN mine :
                      /\ details[d].frozen >= mine[d].remaining
                      /\ details[d].remaining >= mine[d].remaining
                      /\ mine[d].original =
                            mine[d].remaining + mine[d].consumed + mine[d].released
                /\ position.frozen >= order.remaining

Cancelled(order) ==
    [order EXCEPT
        !.cancelled        = @ + order.remaining,
        !.remaining        = 0,
        !.frozenMargin     = 0,
        !.frozenCommission = 0,
        !.frozenPosition   = 0,
        !.status           = IF order.traded = 0 THEN "CANCELLED"
                             ELSE "PARTIALLY_CANCELLED"]

ReleaseAllocations(o) ==
    /\ details' = [d \in DOMAIN details |->
                      [details[d] EXCEPT !.frozen = @ - At(Held(o), d)]]
    /\ allocations' = [allocations EXCEPT ![o] =
                          [d \in DOMAIN allocations[o] |->
                              [allocations[o][d] EXCEPT
                                  !.released   = @ + Held(o)[d],
                                  !.remaining  = 0,
                                  !.commission = 0]]]
    /\ position' = [position EXCEPT !.frozen = @ - orders[o].remaining]

\* A request to cancel an order that is already cancelled answers with it and
\* changes nothing; FILLED is refused.
Cancel(o) ==
    LET order == orders[o]
    IN  /\ Active(o)
        /\ CancelConsistent(o)
        /\ account' = [account EXCEPT
                          !.available = @ + order.frozenMargin + order.frozenCommission,
                          !.riskAvailable = @ + order.frozenMargin + order.frozenCommission,
                          !.frozenMargin     = @ - order.frozenMargin,
                          !.frozenCommission = @ - order.frozenCommission]
        /\ IF IsOpen(o) THEN UNCHANGED <<details, allocations, position>>
                        ELSE ReleaseAllocations(o)
        /\ orders' = [orders EXCEPT ![o] = Cancelled(@)]
        /\ outbox' = outbox \cup {Event(orders'[o].status, o, NoTick)}
        /\ UNCHANGED <<trades, submissions, commands>>

-----------------------------------------------------------------------------

Next ==
    \/ \E c \in ClientIds, r \in Requests : LookupMisses(c, r)
    \/ \E s \in submissions : AcceptSubmission(s)
    \/ \E s \in submissions : DropSubmission(s)
    \/ \E o \in ClientIds, t \in Ticks : Match(o, t)
    \/ \E m \in commands : DropCommand(m)
    \/ \E m \in commands : Settle(m)
    \/ \E o \in ClientIds : Cancel(o)

Spec == Init /\ [][Next]_vars

-----------------------------------------------------------------------------
(* Type invariant.                                                         *)

Order == [status : Statuses, offset : OffsetFlags, limit : Nat, total : Nat,
          traded : Nat, remaining : Nat, cancelled : Nat, frozenMargin : Int,
          frozenCommission : Int, frozenPosition : Int]

Account == [cash : Int, available : Int, riskAvailable : Int, frozenMargin : Int,
            frozenCommission : Int, usedMargin : Int, usedCommission : Int,
            closePnl : Int]

Allocation == [original : Int, remaining : Int, consumed : Int,
               released : Int, commission : Int]

Trade == [order : ClientIds, tick : Ticks, volume : Int, margin : Int,
          commission : Int, closePnl : Int]

\* Every row holds values of the types its columns are declared with.
TypeOK ==
    /\ orders \in [ClientIds -> Order]
    /\ DOMAIN allocations = ClientIds
    /\ \A c \in ClientIds :
          allocations[c] \in [DOMAIN allocations[c] -> Allocation]
          /\ DOMAIN allocations[c] \subseteq DOMAIN details
    /\ account \in Account
    /\ position \in Position
    /\ details \in Seq(Detail)
    /\ trades \subseteq Trade
    /\ submissions \subseteq [client : ClientIds, request : Requests]
    /\ commands \subseteq [order : ClientIds, tick : Ticks, volume : Nat \ {0}]

-----------------------------------------------------------------------------
(* Safety.                                                                 *)

\* Cash on hand is split exactly between what is available, what positions
\* occupy and what active orders freeze: no handler creates or loses money.
FundIdentity ==
    account.available = account.cash - account.usedMargin
                        - account.frozenMargin - account.frozenCommission

\* The account freezes exactly what its order rows freeze, rounding included,
\* and an order that has ended freezes nothing.
FrozenFundsBelongToOrders ==
    /\ account.frozenMargin = Total([c \in ClientIds |-> orders[c].frozenMargin])
    /\ account.frozenCommission = Total([c \in ClientIds |-> orders[c].frozenCommission])
    /\ \A c \in ClientIds :
          /\ orders[c].frozenMargin >= 0 /\ orders[c].frozenCommission >= 0
          /\ orders[c].status \in TerminalStatuses =>
                orders[c].frozenMargin = 0 /\ orders[c].frozenCommission = 0

\* The lots frozen on a detail are those its allocations still hold, never more
\* than it has; position and orders agree with the sum.  No lot is promised to
\* two close orders, none is held by an order that has ended.
FrozenLotsBelongToOrders ==
    /\ \A d \in DOMAIN details :
          /\ details[d].frozen = Total([c \in ClientIds |-> At(Held(c), d)])
          /\ 0 <= details[d].frozen /\ details[d].frozen <= details[d].remaining
    /\ position.frozen = Total([d \in DOMAIN details |-> details[d].frozen])
    /\ position.frozen = Total([c \in ClientIds |-> orders[c].frozenPosition])
    /\ \A c \in ClientIds : orders[c].status \in TerminalStatuses =>
          /\ orders[c].frozenPosition = 0
          /\ \A d \in DOMAIN allocations[c] :
                allocations[c][d].remaining = 0 /\ allocations[c][d].commission = 0

\* The aggregate position, split by day, is the sum of its details; the margin
\* in use agrees on all three levels, and a closed detail keeps none.
PositionIsItsDetails ==
    /\ position.total = position.today + position.yesterday
    /\ position.today = TotalOf(details, IsToday)
    /\ position.yesterday = TotalOf(details, IsYesterday)
    /\ position.usedMargin = Total([d \in DOMAIN details |-> details[d].margin])
    /\ account.usedMargin = position.usedMargin
    /\ \A d \in DOMAIN details :
          /\ details[d].margin >= 0
          /\ details[d].remaining = 0 => details[d].margin = 0

\* After every transaction the account, the order rows, the position row and the
\* lots it was opened in agree: no handler updates one of them and leaves another.
RowsReconcile ==
    /\ FundIdentity
    /\ FrozenFundsBelongToOrders
    /\ FrozenLotsBelongToOrders
    /\ PositionIsItsDetails

\* A market event fills an order at most once, whatever was delivered again
\* and whichever worker processes it.
EachMatchSettledOnce ==
    \A a, b \in trades : a.order = b.order /\ a.tick = b.tick => a = b

TradesOf(c) == {trade \in trades : trade.order = c}

\* At every moment an order has traded what its trades say, and cash has moved
\* only by the commission and the close profit of recorded trades.
TradesExplainLedger ==
    /\ \A c \in ClientIds :
          orders[c].traded =
              SumFunctionOnSet([trade \in trades |-> trade.volume], TradesOf(c))
    /\ account.cash = OpeningCash
          + SumFunctionOnSet([trade \in trades |-> trade.closePnl - trade.commission],
                             trades)

\* An order's volumes add up and fit its status.
OrderBalance ==
    \A c \in ClientIds :
        LET order == orders[c]
        IN  /\ order.total = order.traded + order.remaining + order.cancelled
            /\ Active(c) => order.remaining > 0 /\ order.cancelled = 0
            /\ order.status = "ACCEPTED" => order.traded = 0
            /\ order.status = "FILLED" => order.traded = order.total
            /\ order.status \in CancelledStatuses =>
                   order.remaining = 0 /\ order.cancelled > 0
            /\ order.status = "CANCELLED" <=> order.cancelled > 0 /\ order.traded = 0

\* The consistency errors the handlers raise are unreachable: an active order
\* can be cancelled, and filled by any volume up to its remainder.
ActiveOrderNeverStuck ==
    \A c \in ClientIds : Active(c) =>
        /\ CancelConsistent(c)
        /\ \A volume \in 1 .. orders[c].remaining :
              IF IsOpen(c) THEN OpenFillConsistent(c, volume)
                           ELSE CloseFillConsistent(c, volume)

\* The events a consumer receives tell the state of the database: one
\* acceptance per order, one trade event per trade, the final status once.
OutboxTellsTheLedger ==
    LET Kinds(c) == {e.kind : e \in {e \in outbox : e.order = c}}
    IN  \A c \in ClientIds :
          /\ orders[c].status # "NONE" <=> "ORDER_ACCEPTED" \in Kinds(c)
          /\ \A t \in Ticks : Settled(c, t) <=> Event("TRADE_CREATED", c, t) \in outbox
          /\ Kinds(c) \cap TerminalStatuses =
                 {orders[c].status} \cap TerminalStatuses
          /\ Cardinality({e \in outbox : e.order = c /\ e.kind \in TerminalStatuses}) <= 1

-----------------------------------------------------------------------------
(* What a step may never do.                                               *)

\* Once finished, an order never changes again: no fill after a cancel, no
\* second release of what it froze.
TerminalIsFinal ==
    [][\A c \in ClientIds : orders[c].status \in TerminalStatuses =>
          orders'[c] = orders[c] /\ allocations'[c] = allocations[c]]_vars

\* A client_order_id names one request for ever: a retry with the same key can
\* neither replace the order nor freeze a second time, and fills and
\* cancellations are never taken back.
KeyNamesOneOrder ==
    [][\A c \in ClientIds : orders[c].status # "NONE" =>
          /\ orders'[c].status # "NONE"
          /\ orders'[c].offset = orders[c].offset
          /\ orders'[c].limit = orders[c].limit
          /\ orders'[c].total = orders[c].total
          /\ orders'[c].traded >= orders[c].traded
          /\ orders'[c].remaining <= orders[c].remaining]_vars

\* An ordinary CLOSE takes today's lots only when yesterday's are all taken.
YesterdayBeforeToday ==
    [][\A c \in ClientIds :
          /\ orders[c].status = "NONE" /\ orders'[c].offset = "CLOSE"
          /\ \E d \in DOMAIN allocations'[c] : details[d].today
          => \A d \in DOMAIN details' :
                details'[d].today \/ details'[d].frozen = details'[d].remaining]_vars

=============================================================================
