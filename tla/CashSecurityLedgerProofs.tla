----------------------- MODULE CashSecurityLedgerProofs -----------------------
(***************************************************************************)
(* One cash-security account through any number of orders, ticks, days and *)
(* revisions of a corporate action of any kind and terms: whatever is       *)
(* frozen belongs to an active order, every sell order is covered by shares *)
(* that may be sold today, and one revision at most is ever executed.       *)
(*                                                                         *)
(* The posting of a day replaces the position by a replay of all facts: the *)
(* columns that trades and actions write by increments are, at every moment *)
(* of trading, what that replay makes of the facts (ReplayInv).             *)
(*                                                                         *)
(* The posting refuses nothing but a day of income: the cash is what the    *)
(* trades and the facts of the action explain, only a revision that is      *)
(* executed has facts, and the pending shares of an entitlement are among   *)
(* those of the position (SettleInv).                                       *)
(*                                                                         *)
(* At the end, what the action delivers: at every step of every day, who is *)
(* entitled has been given what was due so far and is owed the rest, and    *)
(* nobody else is given anything (DeliverInv).                              *)
(***************************************************************************)
EXTENDS CashSecurityLedger, Sums

-----------------------------------------------------------------------------
(* The invariant.                                                          *)

OrderStatuses == ActiveStatuses \cup
    {"NONE", "FILLED", "CANCELLED", "PARTIALLY_CANCELLED"}
ExecutedStatuses == ProcessableStatuses \cup {"COMPLETED"}
LiveStatuses == UnexecutedStatuses \cup ExecutedStatuses
ActionStatuses == LiveStatuses \cup DroppedStatuses \cup {"NONE", "MANUAL_REVIEW_REQUIRED"}
Entries == Kinds \cup
    {"RECEIVABLE_CREATED", "SHARES_PENDING", "CASH_IN_LIEU", "BOND_PRINCIPAL_RECEIVABLE",
     "BOND_MATURITY_RETIRED", "CASH_PAID", "SHARES_LISTED", "RIGHTS_SUBSCRIBED"}

Row == [status : OrderStatuses, direction : {"BUY", "SELL"}, limit : Nat, total : Nat,
        traded : Int, remaining : Nat, cancelled : Int, frozenCash : Int,
        frozenCommission : Int, frozenVolume : Int, turnover : Int, charged : Int]
Account == [cash : Int, available : Int, frozenCash : Int, frozenCommission : Int,
            receivable : Int]
Position == [total : Int, today : Int, yesterday : Int, frozen : Int, locked : Int,
             available : Int, pending : Int, cost : Int]
Entitlement == [quantity : Int, cash : Int, shares : Int, lieu : Int, subscribed : Int,
                pending : Int, credited : Int, subscriptionCash : Int]
TradeFacts == [order : Orders, tick : Ticks, day : Nat, direction : {"BUY", "SELL"},
               volume : Int, turnover : Int, commission : Int, cost : Int]
LedgerFacts == [revision : Revisions, entry : Entries, token : SubscriptionIds \cup {""},
                day : Nat, cash : Int, receivable : Int, income : Int]
AdjustmentFacts == [revision : Revisions, entry : Entries, day : Nat, delta : Position]
BooksType == [account : Account, position : Position,
              actions : [Revisions -> ActionStatuses],
              entitlements : [Revisions -> Entitlement],
              ledger : SUBSET LedgerFacts, adjustments : Seq(AdjustmentFacts)]

\* Only an active order holds something: a purchase money, a sale its open volume.
RowHolds(row) ==
    /\ row.direction = "BUY" => row.frozenVolume = 0
    /\ row.direction = "SELL" => row.frozenCash = 0 /\ row.frozenCommission = 0
    /\ row.status \in ActiveStatuses /\ row.direction = "SELL" =>
          row.frozenVolume = row.remaining
    /\ row.status \notin ActiveStatuses =>
          row.frozenCash = 0 /\ row.frozenCommission = 0 /\ row.frozenVolume = 0

CashAddsUp(a) == a.cash = a.available + a.frozenCash + a.frozenCommission

\* The buckets of a position that lives: today's shares are those that are locked
\* when they settle tomorrow, and the frozen ones are among those that may be sold.
Sellable(p) == p.yesterday + (IF product.settlementDays = 1 THEN 0 ELSE p.today)

SharesAddUp(p) ==
    /\ p.today >= 0 /\ p.yesterday >= 0
    /\ p.total = p.today + p.yesterday
    /\ p.locked = IF product.settlementDays = 1 THEN p.today ELSE 0
    /\ p.available = p.total - p.frozen - p.locked
    /\ p.frozen <= Sellable(p)

\* At most one revision has not been dropped, put aside or left out, and only a
\* revision that is being executed, or was, has entitlements.
OneIsLive(b) ==
    /\ \A q, r \in Revisions :
          b.actions[q] \in LiveStatuses /\ b.actions[r] \in LiveStatuses => q = r
    /\ \A r \in Revisions : Entitled(b, r) => b.actions[r] \in ExecutedStatuses

DayInv ==
    /\ product \in Products
    /\ day \in 1 .. LastDay + 1
    /\ phase \in {"trading", "acting", "posting"}
    /\ phase # "trading" => day <= LastDay /\ NoActiveOrder

\* What the account and the position have frozen is what their orders hold.
OrdersHold(book, a, p) ==
    /\ book \in [Orders -> Row]
    /\ \A o \in Orders : RowHolds(book[o])
    /\ a.frozenCash = OverOrders([o \in Orders |-> book[o].frozenCash])
    /\ a.frozenCommission = OverOrders([o \in Orders |-> book[o].frozenCommission])
    /\ p.frozen = OverOrders([o \in Orders |-> book[o].frozenVolume])

OrdersInv ==
    /\ OrdersHold(orders, account, position)
    /\ trades \in Seq(TradeFacts)

BooksInv ==
    /\ Books \in BooksType
    /\ CashAddsUp(account)
    /\ SharesAddUp(position)
    /\ OneIsLive(Books)

CashInv == DayInv /\ OrdersInv /\ BooksInv

-----------------------------------------------------------------------------
(* The replay of a position, over given facts, of a security whose shares  *)
(* settle after some days.                                                 *)

FromYesterday(days, p, volume) == IF days = 1 THEN volume ELSE Smaller(p.yesterday, volume)

BoughtOf(days, p, volume, turnover) ==
    WithAvailable([p EXCEPT !.total = @ + volume, !.today = @ + volume,
                     !.locked = @ + volume * days, !.cost = @ + turnover])

SoldOf(days, p, volume) ==
    WithAvailable([p EXCEPT !.total = @ - volume,
                     !.yesterday = @ - FromYesterday(days, p, volume),
                     !.today = @ - (volume - FromYesterday(days, p, volume)),
                     !.cost = @ - CostOf(p, volume)])

TradeOf(days, p, trade) ==
    IF trade.direction = "BUY" THEN BoughtOf(days, p, trade.volume, trade.turnover)
    ELSE SoldOf(days, p, trade.volume)

TradedOf(days, ts, p, d) ==
    FoldLeft(LAMBDA q, trade : IF trade.day = d THEN TradeOf(days, q, trade) ELSE q, p, ts)

AdjustedOf(facts, p, d) ==
    FoldLeft(LAMBDA q, fact : IF fact.day = d THEN Plus(q, fact.delta) ELSE q, p, facts)

DayOf(days, ts, facts, p, d) ==
    IF NothingOn(ts, d) /\ NothingOn(facts, d) THEN p
    ELSE AdjustedOf(facts, TradedOf(days, ts, RolledOver(p), d), d)

ReplayOf(days, ts, facts, last) ==
    FoldLeft(LAMBDA q, d : DayOf(days, ts, facts, q, d), EmptyPosition, [d \in 1 .. last |-> d])

\* The replay is the one over the facts there are.
LEMMA ReplayIsOf == Replay = ReplayOf(product.settlementDays, trades, adjustments, day)
BY DEF Replay, ReplayOf, ReplayedDay, DayOf, Adjusted, AdjustedOf, Traded, TradedOf,
       ReplayedTrade, TradeOf, Bought, BoughtOf, Sold, SoldOf, LockedOnPurchase,
       SoldFromYesterday, FromYesterday, FoldLeft, MapThenFoldSet

LEMMA BoughtIsOf ==
    ASSUME NEW p, NEW volume, NEW turnover
    PROVE  Bought(p, volume, turnover) = BoughtOf(product.settlementDays, p, volume, turnover)
BY DEF Bought, BoughtOf, LockedOnPurchase

LEMMA SoldIsOf ==
    ASSUME NEW p, NEW volume
    PROVE  Sold(p, volume) = SoldOf(product.settlementDays, p, volume)
BY DEF Sold, SoldOf, SoldFromYesterday, FromYesterday

LEMMA RoundedQuotientType ==
    ASSUME NEW num \in Int, NEW den \in Int
    PROVE  RoundedQuotient(num, den) \in Int
<1>1. den > 0 => (2 * num + den) \div (2 * den) \in Int
  <2>1. ASSUME NEW a \in Int, NEW b \in Int, b > 0 PROVE a \div b \in Int
    BY <2>1
  <2> QED  BY <2>1
<1> QED  BY <1>1 DEF RoundedQuotient

LEMMA CostOfType ==
    ASSUME NEW p \in Position, NEW volume \in Int
    PROVE  CostOf(p, volume) \in Int
<1>1. p.cost \in Int /\ p.total \in Int
  BY DEF Position
<1>2. p.cost * volume \in Int
  BY <1>1
<1> QED  BY <1>1, <1>2, RoundedQuotientType DEF CostOf

LEMMA WithAvailableFields ==
    ASSUME NEW p \in Position
    PROVE  /\ WithAvailable(p) \in Position
           /\ WithAvailable(p).total = p.total /\ WithAvailable(p).today = p.today
           /\ WithAvailable(p).yesterday = p.yesterday /\ WithAvailable(p).frozen = p.frozen
           /\ WithAvailable(p).locked = p.locked /\ WithAvailable(p).pending = p.pending
           /\ WithAvailable(p).cost = p.cost
           /\ WithAvailable(p).available = p.total - p.frozen - p.locked
BY DEF WithAvailable, Position

\* What a fact adds to each column is what the columns get.
LEMMA PlusFields ==
    ASSUME NEW p \in Position, NEW delta \in Position
    PROVE  /\ Plus(p, delta) \in Position
           /\ Plus(p, delta).total = p.total + delta.total
           /\ Plus(p, delta).today = p.today + delta.today
           /\ Plus(p, delta).yesterday = p.yesterday + delta.yesterday
           /\ Plus(p, delta).frozen = p.frozen + delta.frozen
           /\ Plus(p, delta).locked = p.locked + delta.locked
           /\ Plus(p, delta).pending = p.pending + delta.pending
           /\ Plus(p, delta).cost = p.cost + delta.cost
           /\ Plus(p, delta).available = Plus(p, delta).total - Plus(p, delta).frozen
                                         - Plus(p, delta).locked
<1> DEFINE q == [column \in DOMAIN p |-> p[column] + delta[column]]
<1>1. /\ q \in Position /\ q.total = p.total + delta.total
      /\ q.today = p.today + delta.today /\ q.yesterday = p.yesterday + delta.yesterday
      /\ q.frozen = p.frozen + delta.frozen /\ q.locked = p.locked + delta.locked
      /\ q.pending = p.pending + delta.pending /\ q.cost = p.cost + delta.cost
  BY DEF Position
<1>2. Plus(p, delta) = WithAvailable(q)
  BY DEF Plus
<1> HIDE DEF q
<1> QED  BY <1>1, <1>2, WithAvailableFields

\* The columns after a purchase, after a sale and overnight.
IsBought(days, p, volume, turnover, q) ==
    /\ q \in Position
    /\ q.total = p.total + volume /\ q.today = p.today + volume /\ q.yesterday = p.yesterday
    /\ q.frozen = p.frozen /\ q.locked = p.locked + (IF days = 1 THEN volume ELSE 0)
    /\ q.pending = p.pending /\ q.cost = p.cost + turnover
    /\ q.available = q.total - q.frozen - q.locked

IsSold(days, p, volume, q) ==
    /\ q \in Position
    /\ q.total = p.total - volume
    /\ q.yesterday = p.yesterday - FromYesterday(days, p, volume)
    /\ q.today = p.today - (volume - FromYesterday(days, p, volume))
    /\ q.frozen = p.frozen /\ q.locked = p.locked
    /\ q.pending = p.pending /\ q.cost = p.cost - CostOf(p, volume)
    /\ q.available = q.total - q.frozen - q.locked

IsRolledOver(p, q) ==
    /\ q \in Position
    /\ q.total = p.total /\ q.today = 0 /\ q.yesterday = p.yesterday + p.today
    /\ q.frozen = p.frozen /\ q.locked = 0 /\ q.pending = p.pending /\ q.cost = p.cost
    /\ q.available = q.total - q.frozen - q.locked

LEMMA BoughtOfFields ==
    ASSUME NEW days \in {0, 1}, NEW p \in Position, NEW volume \in Int, NEW turnover \in Int
    PROVE  IsBought(days, p, volume, turnover, BoughtOf(days, p, volume, turnover))
<1>p. PICK total \in Int, today \in Int, barred \in Int, cost \in Int :
         /\ total = p.total + volume /\ today = p.today + volume
         /\ barred = p.locked + (IF days = 1 THEN volume ELSE 0)
         /\ cost = p.cost + turnover
  BY DEF Position
<1> DEFINE q == [p EXCEPT !.total = total, !.today = today, !.locked = barred, !.cost = cost]
<1>1. p.locked + volume * days = barred
  BY <1>p
<1>2. /\ q \in Position /\ q.total = total /\ q.today = today
      /\ q.yesterday = p.yesterday /\ q.frozen = p.frozen /\ q.locked = barred
      /\ q.pending = p.pending /\ q.cost = cost
  BY DEF Position
<1>3. BoughtOf(days, p, volume, turnover) = WithAvailable(q)
  BY <1>p, <1>1 DEF BoughtOf
<1> HIDE DEF q
<1> QED  BY <1>p, <1>2, <1>3, WithAvailableFields DEF IsBought

LEMMA SoldOfFields ==
    ASSUME NEW days \in {0, 1}, NEW p \in Position, NEW volume \in Int
    PROVE  IsSold(days, p, volume, SoldOf(days, p, volume))
<1>1. CostOf(p, volume) \in Int
  BY CostOfType
<1>2. FromYesterday(days, p, volume) \in Int
  BY DEF FromYesterday, Smaller, Position
<1>p. PICK total \in Int, yesterday \in Int, today \in Int, cost \in Int :
         /\ total = p.total - volume
         /\ yesterday = p.yesterday - FromYesterday(days, p, volume)
         /\ today = p.today - (volume - FromYesterday(days, p, volume))
         /\ cost = p.cost - CostOf(p, volume)
  BY <1>1, <1>2 DEF Position
<1> DEFINE q == [p EXCEPT !.total = total, !.yesterday = yesterday, !.today = today,
                          !.cost = cost]
<1>3. SoldOf(days, p, volume) = WithAvailable(q)
  BY <1>p DEF SoldOf
<1>4. /\ q \in Position /\ q.total = total /\ q.yesterday = yesterday
      /\ q.today = today /\ q.frozen = p.frozen /\ q.locked = p.locked
      /\ q.pending = p.pending /\ q.cost = cost
  BY DEF Position
<1> HIDE DEF q
<1> QED  BY <1>p, <1>3, <1>4, WithAvailableFields DEF IsSold

LEMMA BoughtFields ==
    ASSUME product \in Products, NEW p \in Position, NEW volume \in Int, NEW turnover \in Int
    PROVE  IsBought(product.settlementDays, p, volume, turnover, Bought(p, volume, turnover))
<1>1. product.settlementDays \in {0, 1}
  BY ProductsAssumption
<1> QED  BY <1>1, BoughtIsOf, BoughtOfFields

LEMMA SoldFields ==
    ASSUME product \in Products, NEW p \in Position, NEW volume \in Int
    PROVE  IsSold(product.settlementDays, p, volume, Sold(p, volume))
<1>1. product.settlementDays \in {0, 1}
  BY ProductsAssumption
<1> QED  BY <1>1, SoldIsOf, SoldOfFields

LEMMA RolledOverFields ==
    ASSUME NEW p \in Position PROVE IsRolledOver(p, RolledOver(p))
<1>p. PICK yesterday \in Int, none \in Int : yesterday = p.yesterday + p.today /\ none = 0
  BY DEF Position
<1> DEFINE q == [p EXCEPT !.yesterday = yesterday, !.today = none, !.locked = none]
<1>1. /\ q \in Position /\ q.total = p.total /\ q.today = 0 /\ q.yesterday = yesterday
      /\ q.frozen = p.frozen /\ q.locked = 0 /\ q.pending = p.pending /\ q.cost = p.cost
  BY <1>p DEF Position
<1>2. RolledOver(p) = WithAvailable(q)
  BY <1>p DEF RolledOver
<1> HIDE DEF q
<1> QED  BY <1>p, <1>1, <1>2, WithAvailableFields DEF IsRolledOver

\* The steps of each fold, one for each element.
TradeSteps(days, ts, d) ==
    [k \in DOMAIN ts |-> [q \in Position |->
        IF ts[k].day = d THEN TradeOf(days, q, ts[k]) ELSE q]]

AdjustSteps(facts, d) ==
    [k \in DOMAIN facts |-> [q \in Position |->
        IF facts[k].day = d THEN Plus(q, facts[k].delta) ELSE q]]

DaySteps(days, ts, facts, last) ==
    [d \in 1 .. last |-> [q \in Position |-> DayOf(days, ts, facts, q, d)]]

LEMMA TradeOfType ==
    ASSUME NEW days \in {0, 1}, NEW p \in Position, NEW trade \in TradeFacts
    PROVE  TradeOf(days, p, trade) \in Position
<1>1. trade.volume \in Int /\ trade.turnover \in Int
  BY DEF TradeFacts
<1> QED  BY <1>1, BoughtOfFields, SoldOfFields DEF TradeOf, IsBought, IsSold

\* The trades of a day, as a run.
LEMMA TradedRuns ==
    ASSUME NEW days \in {0, 1}, NEW ts \in Seq(TradeFacts), NEW p \in Position, NEW d
    PROVE  \E v : IsRun(v, TradeSteps(days, ts, d), p, Len(ts), Position)
                 /\ v[Len(ts)] = TradedOf(days, ts, p, d)
<1> DEFINE D == DOMAIN ts
           Step(q, i) == IF ts[i].day = d THEN TradeOf(days, q, ts[i]) ELSE q
           Body(g) == [s \in SUBSET D |-> IF s = {} THEN p ELSE Step(g[s \ {Max(s)}], Max(s))]
           F == TradeSteps(days, ts, d)
<1>1. TradedOf(days, ts, p, d) = (CHOOSE g : g = Body(g))[D]
  BY DEF TradedOf, FoldLeft, MapThenFoldSet
<1>n. PICK n \in Nat : n = Len(ts) /\ D = 1 .. n
  OBVIOUS
<1>2. ASSUME NEW i \in 1 .. n, NEW q \in Position PROVE Step(q, i) \in Position
  BY <1>n, TradeOfType
<1>3. \A i \in 1 .. n : \A q \in Position : F[i][q] = Step(q, i)
  BY <1>n DEF TradeSteps
<1> HIDE DEF D, Step, F
<1>4. \A s \in SUBSET (1 .. n) : s # {} => Max(s) \in 1 .. n /\ s \ {Max(s)} \in SUBSET (1 .. n)
  BY MaxBelongs
<1>5. p \in Position /\ ClosedBy(F, n, Position)
  BY <1>2, <1>3 DEF ClosedBy
<1>6. PICK g : IsFold(g, F, p, n, Position)
  BY ONLY <1>n, <1>5, FoldExists
<1>7. \A s \in SUBSET (1 .. n) :
         g[s] = IF s = {} THEN p ELSE Step(g[s \ {Max(s)}], Max(s))
  BY <1>3, <1>4, <1>6 DEF FoldStep, IsFold
<1>8. g = Body(g)
  BY <1>n, <1>6, <1>7 DEF IsFold
<1> HIDE DEF Body
<1>9. PICK iter : iter = Body(iter) /\ TradedOf(days, ts, p, d) = iter[1 .. n]
  BY <1>1, <1>n, <1>8
<1>10. iter[{}] = p /\ \A s \in SUBSET (1 .. n) : s # {} =>
          iter[s] = Step(iter[s \ {Max(s)}], Max(s))
  BY <1>n, <1>9 DEF Body
<1>11. Iterates(iter, F, p, n, Position)
  BY <1>3, <1>4, <1>10 DEF Iterates
<1>12. PICK v : IsRun(v, F, p, n, Position) /\ v[n] = iter[1 .. n]
  BY ONLY <1>n, <1>5, <1>11, FoldRuns
<1> QED  BY <1>n, <1>9, <1>12 DEF F

\* The adjustments of a day, as a run.
LEMMA AdjustedRuns ==
    ASSUME NEW facts \in Seq(AdjustmentFacts), NEW p \in Position, NEW d
    PROVE  \E v : IsRun(v, AdjustSteps(facts, d), p, Len(facts), Position)
                 /\ v[Len(facts)] = AdjustedOf(facts, p, d)
<1> DEFINE D == DOMAIN facts
           Step(q, i) == IF facts[i].day = d THEN Plus(q, facts[i].delta) ELSE q
           Body(g) == [s \in SUBSET D |-> IF s = {} THEN p ELSE Step(g[s \ {Max(s)}], Max(s))]
           F == AdjustSteps(facts, d)
<1>1. AdjustedOf(facts, p, d) = (CHOOSE g : g = Body(g))[D]
  BY DEF AdjustedOf, FoldLeft, MapThenFoldSet
<1>n. PICK n \in Nat : n = Len(facts) /\ D = 1 .. n
  OBVIOUS
<1>2. ASSUME NEW i \in 1 .. n, NEW q \in Position PROVE Step(q, i) \in Position
  <2>1. facts[i] \in AdjustmentFacts
    BY <1>n
  <2>2. facts[i].delta \in Position
    BY <2>1 DEF AdjustmentFacts
  <2> QED  BY <2>2, PlusFields
<1>3. \A i \in 1 .. n : \A q \in Position : F[i][q] = Step(q, i)
  BY <1>n DEF AdjustSteps
<1> HIDE DEF D, Step, F
<1>4. \A s \in SUBSET (1 .. n) : s # {} => Max(s) \in 1 .. n /\ s \ {Max(s)} \in SUBSET (1 .. n)
  BY MaxBelongs
<1>5. p \in Position /\ ClosedBy(F, n, Position)
  BY <1>2, <1>3 DEF ClosedBy
<1>6. PICK g : IsFold(g, F, p, n, Position)
  BY ONLY <1>n, <1>5, FoldExists
<1>7. \A s \in SUBSET (1 .. n) :
         g[s] = IF s = {} THEN p ELSE Step(g[s \ {Max(s)}], Max(s))
  BY <1>3, <1>4, <1>6 DEF FoldStep, IsFold
<1>8. g = Body(g)
  BY <1>n, <1>6, <1>7 DEF IsFold
<1> HIDE DEF Body
<1>9. PICK iter : iter = Body(iter) /\ AdjustedOf(facts, p, d) = iter[1 .. n]
  BY <1>1, <1>n, <1>8
<1>10. iter[{}] = p /\ \A s \in SUBSET (1 .. n) : s # {} =>
          iter[s] = Step(iter[s \ {Max(s)}], Max(s))
  BY <1>n, <1>9 DEF Body
<1>11. Iterates(iter, F, p, n, Position)
  BY <1>3, <1>4, <1>10 DEF Iterates
<1>12. PICK v : IsRun(v, F, p, n, Position) /\ v[n] = iter[1 .. n]
  BY ONLY <1>n, <1>5, <1>11, FoldRuns
<1> QED  BY <1>n, <1>9, <1>12 DEF F

LEMMA TradedOfType ==
    ASSUME NEW days \in {0, 1}, NEW ts \in Seq(TradeFacts), NEW p \in Position, NEW d
    PROVE  TradedOf(days, ts, p, d) \in Position
<1>1. PICK v : IsRun(v, TradeSteps(days, ts, d), p, Len(ts), Position)
               /\ v[Len(ts)] = TradedOf(days, ts, p, d)
  BY TradedRuns
<1>2. Len(ts) \in 0 .. Len(ts)
  OBVIOUS
<1> QED  BY <1>1, <1>2 DEF IsRun

LEMMA AdjustedOfType ==
    ASSUME NEW facts \in Seq(AdjustmentFacts), NEW p \in Position, NEW d
    PROVE  AdjustedOf(facts, p, d) \in Position
<1>1. PICK v : IsRun(v, AdjustSteps(facts, d), p, Len(facts), Position)
               /\ v[Len(facts)] = AdjustedOf(facts, p, d)
  BY AdjustedRuns
<1>2. Len(facts) \in 0 .. Len(facts)
  OBVIOUS
<1> QED  BY <1>1, <1>2 DEF IsRun

LEMMA DayOfType ==
    ASSUME NEW days \in {0, 1}, NEW ts \in Seq(TradeFacts), NEW facts \in Seq(AdjustmentFacts),
           NEW p \in Position, NEW d
    PROVE  DayOf(days, ts, facts, p, d) \in Position
BY RolledOverFields, TradedOfType, AdjustedOfType DEF DayOf, IsRolledOver

LEMMA EmptyPositionType == EmptyPosition \in Position
BY DEF EmptyPosition, Position

\* The days, as a run.
LEMMA ReplayRuns ==
    ASSUME NEW days \in {0, 1}, NEW ts \in Seq(TradeFacts), NEW facts \in Seq(AdjustmentFacts),
           NEW last \in Nat
    PROVE  \E v : IsRun(v, DaySteps(days, ts, facts, last), EmptyPosition, last, Position)
                 /\ v[last] = ReplayOf(days, ts, facts, last)
<1> DEFINE D == DOMAIN [d \in 1 .. last |-> d]
           Step(q, i) == DayOf(days, ts, facts, q, [d \in 1 .. last |-> d][i])
           Body(g) == [s \in SUBSET D |-> IF s = {} THEN EmptyPosition ELSE Step(g[s \ {Max(s)}], Max(s))]
           F == DaySteps(days, ts, facts, last)
<1>1. ReplayOf(days, ts, facts, last) = (CHOOSE g : g = Body(g))[D]
  BY DEF ReplayOf, FoldLeft, MapThenFoldSet
<1>n. PICK n \in Nat : n = last /\ D = 1 .. n
  OBVIOUS
<1>2. ASSUME NEW i \in 1 .. n, NEW q \in Position PROVE Step(q, i) \in Position
  BY DayOfType
<1>3. \A i \in 1 .. n : \A q \in Position : F[i][q] = Step(q, i)
  BY <1>n DEF DaySteps
<1> HIDE DEF D, Step, F
<1>4. \A s \in SUBSET (1 .. n) : s # {} => Max(s) \in 1 .. n /\ s \ {Max(s)} \in SUBSET (1 .. n)
  BY MaxBelongs
<1>5. EmptyPosition \in Position /\ ClosedBy(F, n, Position)
  BY <1>2, <1>3, EmptyPositionType DEF ClosedBy
<1>6. PICK g : IsFold(g, F, EmptyPosition, n, Position)
  BY ONLY <1>n, <1>5, FoldExists
<1>7. \A s \in SUBSET (1 .. n) :
         g[s] = IF s = {} THEN EmptyPosition ELSE Step(g[s \ {Max(s)}], Max(s))
  BY <1>3, <1>4, <1>6 DEF FoldStep, IsFold
<1>8. g = Body(g)
  BY <1>n, <1>6, <1>7 DEF IsFold
<1> HIDE DEF Body
<1>9. PICK iter : iter = Body(iter) /\ ReplayOf(days, ts, facts, last) = iter[1 .. n]
  BY <1>1, <1>n, <1>8
<1>10. iter[{}] = EmptyPosition /\ \A s \in SUBSET (1 .. n) : s # {} =>
          iter[s] = Step(iter[s \ {Max(s)}], Max(s))
  BY <1>n, <1>9 DEF Body
<1>11. Iterates(iter, F, EmptyPosition, n, Position)
  BY <1>3, <1>4, <1>10 DEF Iterates
<1>12. PICK v : IsRun(v, F, EmptyPosition, n, Position) /\ v[n] = iter[1 .. n]
  BY ONLY <1>n, <1>5, <1>11, FoldRuns
<1> QED  BY <1>n, <1>9, <1>12 DEF F

LEMMA ReplayOfType ==
    ASSUME NEW days \in {0, 1}, NEW ts \in Seq(TradeFacts), NEW facts \in Seq(AdjustmentFacts),
           NEW last \in Nat
    PROVE  ReplayOf(days, ts, facts, last) \in Position
<1>1. PICK v : IsRun(v, DaySteps(days, ts, facts, last), EmptyPosition, last, Position)
               /\ v[last] = ReplayOf(days, ts, facts, last)
  BY ReplayRuns
<1>2. last \in 0 .. last
  OBVIOUS
<1> QED  BY <1>1, <1>2 DEF IsRun

\* Whatever the facts are, the replay is a position.
LEMMA ReplayType ==
    ASSUME product \in Products, day \in Nat, trades \in Seq(TradeFacts),
           adjustments \in Seq(AdjustmentFacts)
    PROVE  Replay \in Position
<1>1. product.settlementDays \in {0, 1}
  BY ProductsAssumption
<1> QED  BY <1>1, ReplayIsOf, ReplayOfType

-----------------------------------------------------------------------------
(* What one more fact does to a replay.                                    *)

LEMMA AppendType ==
    ASSUME NEW S, NEW s \in Seq(S), NEW x \in S
    PROVE  Append(s, x) \in Seq(S)
OBVIOUS

\* A trade counts on its day only.
LEMMA TradedAppend ==
    ASSUME NEW days \in {0, 1}, NEW ts \in Seq(TradeFacts), NEW fact \in TradeFacts,
           NEW p \in Position, NEW d
    PROVE  TradedOf(days, Append(ts, fact), p, d)
             = IF fact.day = d THEN TradeOf(days, TradedOf(days, ts, p, d), fact)
               ELSE TradedOf(days, ts, p, d)
<1>n. PICK n \in Nat : n = Len(ts) /\ DOMAIN ts = 1 .. n
  OBVIOUS
<1>1. PICK more \in Seq(TradeFacts) : more = Append(ts, fact)
  BY AppendType
<1>2. /\ Len(more) = n + 1 /\ DOMAIN more = 1 .. (n + 1) /\ more[n + 1] = fact
      /\ \A k \in 1 .. n : more[k] = ts[k]
  BY <1>n, <1>1
<1>3. PICK u : IsRun(u, TradeSteps(days, ts, d), p, n, Position)
               /\ u[n] = TradedOf(days, ts, p, d)
  BY <1>n, TradedRuns
<1>4. PICK v : IsRun(v, TradeSteps(days, more, d), p, n + 1, Position)
               /\ v[n + 1] = TradedOf(days, more, p, d)
  BY <1>2, TradedRuns
<1>5. /\ \A k \in 1 .. n : \A q \in Position :
            TradeSteps(days, ts, d)[k][q] = TradeSteps(days, more, d)[k][q]
      /\ \A q \in Position :
            TradeSteps(days, more, d)[n + 1][q]
              = IF fact.day = d THEN TradeOf(days, q, fact) ELSE q
  <2>1. \A k \in 1 .. n : k \in 1 .. (n + 1)
    OBVIOUS
  <2>2. n + 1 \in 1 .. (n + 1)
    OBVIOUS
  <2> QED  BY <1>n, <1>2, <2>1, <2>2 DEF TradeSteps
<1>6. v[n + 1] = TradeSteps(days, more, d)[n + 1][u[n]] /\ u[n] \in Position
  <2>1. PICK F, H : F = TradeSteps(days, ts, d) /\ H = TradeSteps(days, more, d)
    OBVIOUS
  <2>2. PICK m \in Nat : m = n + 1
    OBVIOUS
  <2>3. IsRun(u, F, p, n, Position)
    BY <1>3, <2>1
  <2>4. IsRun(v, H, p, m, Position)
    BY <1>4, <2>1, <2>2
  <2>5. \A k \in 1 .. n : \A q \in Position : F[k][q] = H[k][q]
    BY <1>5, <2>1
  <2>6. v[m] = H[m][u[n]] /\ u[n] \in Position
    BY ONLY n \in Nat, m \in Nat, m = n + 1, p \in Position, <2>3, <2>4, <2>5, RunGoesOn
  <2> QED  BY <2>1, <2>2, <2>6
<1> QED  BY <1>1, <1>3, <1>4, <1>5, <1>6

\* So does an adjustment.
LEMMA AdjustedAppend ==
    ASSUME NEW facts \in Seq(AdjustmentFacts), NEW fact \in AdjustmentFacts,
           NEW p \in Position, NEW d
    PROVE  AdjustedOf(Append(facts, fact), p, d)
             = IF fact.day = d THEN Plus(AdjustedOf(facts, p, d), fact.delta)
               ELSE AdjustedOf(facts, p, d)
<1>n. PICK n \in Nat : n = Len(facts) /\ DOMAIN facts = 1 .. n
  OBVIOUS
<1>1. PICK more \in Seq(AdjustmentFacts) : more = Append(facts, fact)
  BY AppendType
<1>2. /\ Len(more) = n + 1 /\ DOMAIN more = 1 .. (n + 1) /\ more[n + 1] = fact
      /\ \A k \in 1 .. n : more[k] = facts[k]
  BY <1>n, <1>1
<1>3. PICK u : IsRun(u, AdjustSteps(facts, d), p, n, Position)
               /\ u[n] = AdjustedOf(facts, p, d)
  BY <1>n, AdjustedRuns
<1>4. PICK v : IsRun(v, AdjustSteps(more, d), p, n + 1, Position)
               /\ v[n + 1] = AdjustedOf(more, p, d)
  BY <1>2, AdjustedRuns
<1>5. /\ \A k \in 1 .. n : \A q \in Position :
            AdjustSteps(facts, d)[k][q] = AdjustSteps(more, d)[k][q]
      /\ \A q \in Position :
            AdjustSteps(more, d)[n + 1][q]
              = IF fact.day = d THEN Plus(q, fact.delta) ELSE q
  <2>1. \A k \in 1 .. n : k \in 1 .. (n + 1)
    OBVIOUS
  <2>2. n + 1 \in 1 .. (n + 1)
    OBVIOUS
  <2> QED  BY <1>n, <1>2, <2>1, <2>2 DEF AdjustSteps
<1>6. v[n + 1] = AdjustSteps(more, d)[n + 1][u[n]] /\ u[n] \in Position
  <2>1. PICK F, H : F = AdjustSteps(facts, d) /\ H = AdjustSteps(more, d)
    OBVIOUS
  <2>2. PICK m \in Nat : m = n + 1
    OBVIOUS
  <2>3. IsRun(u, F, p, n, Position)
    BY <1>3, <2>1
  <2>4. IsRun(v, H, p, m, Position)
    BY <1>4, <2>1, <2>2
  <2>5. \A k \in 1 .. n : \A q \in Position : F[k][q] = H[k][q]
    BY <1>5, <2>1
  <2>6. v[m] = H[m][u[n]] /\ u[n] \in Position
    BY ONLY n \in Nat, m \in Nat, m = n + 1, p \in Position, <2>3, <2>4, <2>5, RunGoesOn
  <2> QED  BY <2>1, <2>2, <2>6
<1> QED  BY <1>1, <1>3, <1>4, <1>5, <1>6

\* Without facts of the day nothing changes.
LEMMA NothingTraded ==
    ASSUME NEW days \in {0, 1}, NEW ts \in Seq(TradeFacts), NEW p \in Position, NEW d,
           NothingOn(ts, d)
    PROVE  TradedOf(days, ts, p, d) = p
<1>n. PICK n \in Nat : n = Len(ts) /\ DOMAIN ts = 1 .. n
  OBVIOUS
<1>1. PICK v : IsRun(v, TradeSteps(days, ts, d), p, n, Position)
               /\ v[n] = TradedOf(days, ts, p, d)
  BY <1>n, TradedRuns
<1>2. \A k \in 1 .. n : \A q \in Position : TradeSteps(days, ts, d)[k][q] = q
  BY <1>n DEF TradeSteps, NothingOn
<1> QED  BY <1>1, <1>2, RunOfNothing

LEMMA NothingAdjusted ==
    ASSUME NEW facts \in Seq(AdjustmentFacts), NEW p \in Position, NEW d, NothingOn(facts, d)
    PROVE  AdjustedOf(facts, p, d) = p
<1>n. PICK n \in Nat : n = Len(facts) /\ DOMAIN facts = 1 .. n
  OBVIOUS
<1>1. PICK v : IsRun(v, AdjustSteps(facts, d), p, n, Position)
               /\ v[n] = AdjustedOf(facts, p, d)
  BY <1>n, AdjustedRuns
<1>2. \A k \in 1 .. n : \A q \in Position : AdjustSteps(facts, d)[k][q] = q
  BY <1>n DEF AdjustSteps, NothingOn
<1> QED  BY <1>1, <1>2, RunOfNothing

\* The replay of no day, and of a day more.
LEMMA ReplayGoesOn ==
    ASSUME NEW days \in {0, 1}, NEW ts \in Seq(TradeFacts), NEW facts \in Seq(AdjustmentFacts),
           NEW last \in Nat
    PROVE  /\ ReplayOf(days, ts, facts, 0) = EmptyPosition
           /\ ReplayOf(days, ts, facts, last + 1)
                = DayOf(days, ts, facts, ReplayOf(days, ts, facts, last), last + 1)
<1>1. PICK u : IsRun(u, DaySteps(days, ts, facts, last), EmptyPosition, last, Position)
               /\ u[last] = ReplayOf(days, ts, facts, last)
  BY ReplayRuns
<1>2. PICK v : IsRun(v, DaySteps(days, ts, facts, last + 1), EmptyPosition, last + 1, Position)
               /\ v[last + 1] = ReplayOf(days, ts, facts, last + 1)
  <2>1. last + 1 \in Nat
    OBVIOUS
  <2> QED  BY <2>1, ReplayRuns
<1>3. PICK w : IsRun(w, DaySteps(days, ts, facts, 0), EmptyPosition, 0, Position)
               /\ w[0] = ReplayOf(days, ts, facts, 0)
  <2>1. 0 \in Nat
    OBVIOUS
  <2> QED  BY <2>1, ReplayRuns
<1>4. /\ \A k \in 1 .. last : \A q \in Position :
            DaySteps(days, ts, facts, last)[k][q] = DaySteps(days, ts, facts, last + 1)[k][q]
      /\ \A q \in Position :
            DaySteps(days, ts, facts, last + 1)[last + 1][q]
              = DayOf(days, ts, facts, q, last + 1)
  <2>1. last + 1 \in 1 .. (last + 1) /\ \A k \in 1 .. last : k \in 1 .. (last + 1)
    OBVIOUS
  <2> QED  BY <2>1 DEF DaySteps
<1>5. v[last + 1] = DaySteps(days, ts, facts, last + 1)[last + 1][u[last]] /\ u[last] \in Position
  <2>1. PICK F, H : F = DaySteps(days, ts, facts, last) /\ H = DaySteps(days, ts, facts, last + 1)
    OBVIOUS
  <2>2. PICK m \in Nat : m = last + 1
    OBVIOUS
  <2>3. IsRun(u, F, EmptyPosition, last, Position)
    BY <1>1, <2>1
  <2>4. IsRun(v, H, EmptyPosition, m, Position)
    BY <1>2, <2>1, <2>2
  <2>5. \A k \in 1 .. last : \A q \in Position : F[k][q] = H[k][q]
    BY <1>4, <2>1
  <2>6. v[m] = H[m][u[last]] /\ u[last] \in Position
    BY ONLY last \in Nat, m \in Nat, m = last + 1, EmptyPositionType, <2>3, <2>4, <2>5, RunGoesOn
  <2> QED  BY <2>1, <2>2, <2>6
<1>6. w[0] = EmptyPosition
  BY <1>3 DEF IsRun
<1> QED  BY <1>1, <1>2, <1>3, <1>4, <1>5, <1>6

\* A fact of a later day changes nothing of the days before.
LEMMA LaterFact ==
    ASSUME NEW days \in {0, 1}, NEW ts \in Seq(TradeFacts), NEW facts \in Seq(AdjustmentFacts),
           NEW last \in Nat, NEW us \in Seq(TradeFacts), NEW more \in Seq(AdjustmentFacts),
           \A d \in 1 .. last : \A p \in Position :
              DayOf(days, us, more, p, d) = DayOf(days, ts, facts, p, d)
    PROVE  ReplayOf(days, us, more, last) = ReplayOf(days, ts, facts, last)
<1>1. PICK u : IsRun(u, DaySteps(days, ts, facts, last), EmptyPosition, last, Position)
               /\ u[last] = ReplayOf(days, ts, facts, last)
  BY ReplayRuns
<1>2. PICK v : IsRun(v, DaySteps(days, us, more, last), EmptyPosition, last, Position)
               /\ v[last] = ReplayOf(days, us, more, last)
  BY ReplayRuns
<1>3. \A k \in 1 .. last : \A q \in Position :
         DaySteps(days, ts, facts, last)[k][q] = DaySteps(days, us, more, last)[k][q]
  BY DEF DaySteps
<1> QED  BY <1>1, <1>2, <1>3, RunsAgree

LEMMA LaterTrade ==
    ASSUME NEW days \in {0, 1}, NEW ts \in Seq(TradeFacts), NEW facts \in Seq(AdjustmentFacts),
           NEW last \in Nat, NEW fact \in TradeFacts, fact.day > last
    PROVE  ReplayOf(days, Append(ts, fact), facts, last) = ReplayOf(days, ts, facts, last)
<1>1. PICK more \in Seq(TradeFacts) : more = Append(ts, fact)
  BY AppendType
<1>2. ASSUME NEW d \in 1 .. last, NEW p \in Position
      PROVE  DayOf(days, more, facts, p, d) = DayOf(days, ts, facts, p, d)
  <2>1. fact.day # d
    BY DEF TradeFacts
  <2>2. NothingOn(more, d) <=> NothingOn(ts, d)
    <3>n. PICK n \in Nat : n = Len(ts) /\ DOMAIN ts = 1 .. n
      OBVIOUS
    <3>1. /\ DOMAIN more = 1 .. (n + 1) /\ more[n + 1] = fact
          /\ \A k \in 1 .. n : more[k] = ts[k]
      BY <1>1, <3>n
    <3> QED  BY <2>1, <3>n, <3>1 DEF NothingOn
  <2>3. PICK q \in Position : q = RolledOver(p)
    BY RolledOverFields DEF IsRolledOver
  <2>4. TradedOf(days, more, q, d) = TradedOf(days, ts, q, d)
    BY <1>1, <2>1, TradedAppend
  <2> QED  BY <2>2, <2>3, <2>4 DEF DayOf
<1>3. ReplayOf(days, more, facts, last) = ReplayOf(days, ts, facts, last)
  BY <1>2, LaterFact
<1> QED  BY <1>1, <1>3

LEMMA LaterAdjustment ==
    ASSUME NEW days \in {0, 1}, NEW ts \in Seq(TradeFacts), NEW facts \in Seq(AdjustmentFacts),
           NEW last \in Nat, NEW fact \in AdjustmentFacts, fact.day > last
    PROVE  ReplayOf(days, ts, Append(facts, fact), last) = ReplayOf(days, ts, facts, last)
<1>1. PICK more \in Seq(AdjustmentFacts) : more = Append(facts, fact)
  BY AppendType
<1>2. ASSUME NEW d \in 1 .. last, NEW p \in Position
      PROVE  DayOf(days, ts, more, p, d) = DayOf(days, ts, facts, p, d)
  <2>1. fact.day # d
    BY DEF AdjustmentFacts
  <2>2. NothingOn(more, d) <=> NothingOn(facts, d)
    <3>n. PICK n \in Nat : n = Len(facts) /\ DOMAIN facts = 1 .. n
      OBVIOUS
    <3>1. /\ DOMAIN more = 1 .. (n + 1) /\ more[n + 1] = fact
          /\ \A k \in 1 .. n : more[k] = facts[k]
      BY <1>1, <3>n
    <3> QED  BY <2>1, <3>n, <3>1 DEF NothingOn
  <2>3. PICK q \in Position : q = TradedOf(days, ts, RolledOver(p), d)
    BY RolledOverFields, TradedOfType DEF IsRolledOver
  <2>4. AdjustedOf(more, q, d) = AdjustedOf(facts, q, d)
    BY <1>1, <2>1, AdjustedAppend
  <2> QED  BY <2>2, <2>3, <2>4 DEF DayOf
<1>3. ReplayOf(days, ts, more, last) = ReplayOf(days, ts, facts, last)
  BY <1>2, LaterFact
<1> QED  BY <1>1, <1>3

-----------------------------------------------------------------------------
(* The live position beside the replay.                                    *)

\* Every column is what it was and what was added.
AddsUp(p, q, delta) ==
    /\ p.total = q.total + delta.total /\ p.today = q.today + delta.today
    /\ p.yesterday = q.yesterday + delta.yesterday /\ p.frozen = q.frozen + delta.frozen
    /\ p.locked = q.locked + delta.locked /\ p.pending = q.pending + delta.pending
    /\ p.cost = q.cost + delta.cost

WellFormed(p) == p.available = p.total - p.frozen - p.locked

LEMMA IntsAddUp ==
    ASSUME NEW a \in Int, NEW b \in Int, NEW c \in Int
    PROVE  (a + b) + c = a + (b + c) /\ (a + b) + c = (a + c) + b
OBVIOUS

LEMMA AddsUpMore ==
    ASSUME NEW p \in Position, NEW x \in Position, NEW y \in Position, NEW delta \in Position,
           NEW px, NEW py, AddsUp(x, p, y), AddsUp(px, x, delta), AddsUp(py, y, delta)
    PROVE  AddsUp(px, p, py)
<1>t. \A q \in Position : /\ q.total \in Int /\ q.today \in Int /\ q.yesterday \in Int
                          /\ q.frozen \in Int /\ q.locked \in Int /\ q.pending \in Int
                          /\ q.cost \in Int
  BY DEF Position
<1>1. px.total = p.total + py.total
  BY <1>t, IntsAddUp DEF AddsUp
<1>2. px.today = p.today + py.today
  BY <1>t, IntsAddUp DEF AddsUp
<1>3. px.yesterday = p.yesterday + py.yesterday
  BY <1>t, IntsAddUp DEF AddsUp
<1>4. px.frozen = p.frozen + py.frozen
  BY <1>t, IntsAddUp DEF AddsUp
<1>5. px.locked = p.locked + py.locked
  BY <1>t, IntsAddUp DEF AddsUp
<1>6. px.pending = p.pending + py.pending
  BY <1>t, IntsAddUp DEF AddsUp
<1>7. px.cost = p.cost + py.cost
  BY <1>t, IntsAddUp DEF AddsUp
<1> QED  BY <1>1, <1>2, <1>3, <1>4, <1>5, <1>6, <1>7 DEF AddsUp

\* Adjustments add up to the same from whatever they start.
LEMMA AdjustedAdds ==
    ASSUME NEW facts \in Seq(AdjustmentFacts), NEW p \in Position, WellFormed(p), NEW d
    PROVE  /\ AddsUp(AdjustedOf(facts, p, d), p, AdjustedOf(facts, EmptyPosition, d))
           /\ WellFormed(AdjustedOf(facts, p, d))
<1>n. PICK n \in Nat : n = Len(facts) /\ DOMAIN facts = 1 .. n
  OBVIOUS
<1> DEFINE F == AdjustSteps(facts, d)
<1>1. PICK u : IsRun(u, F, p, n, Position) /\ u[n] = AdjustedOf(facts, p, d)
  BY <1>n, AdjustedRuns
<1>2. PICK v : IsRun(v, F, EmptyPosition, n, Position)
               /\ v[n] = AdjustedOf(facts, EmptyPosition, d)
  BY <1>n, AdjustedRuns, EmptyPositionType
<1> DEFINE K == {k \in Nat : k <= n => AddsUp(u[k], p, v[k]) /\ WellFormed(u[k])}
<1>3. 0 \in K
  <2>1. u[0] = p /\ v[0] = EmptyPosition
    BY <1>1, <1>2 DEF IsRun
  <2>2. AddsUp(p, p, EmptyPosition)
    BY DEF AddsUp, EmptyPosition, Position
  <2> QED  BY <2>1, <2>2
<1>4. ASSUME NEW k \in Nat, k \in K PROVE k + 1 \in K
  <2>1. SUFFICES ASSUME k + 1 <= n PROVE AddsUp(u[k + 1], p, v[k + 1]) /\ WellFormed(u[k + 1])
    OBVIOUS
  <2>2. k + 1 \in 1 .. n /\ (k + 1) - 1 = k /\ k \in 0 .. n
    BY <2>1
  <2>3. AddsUp(u[k], p, v[k]) /\ WellFormed(u[k])
    BY <1>4, <2>1
  <2>4. /\ u[k] \in Position /\ v[k] \in Position
        /\ u[k + 1] = F[k + 1][u[k]] /\ v[k + 1] = F[k + 1][v[k]]
    BY <1>1, <1>2, <2>2 DEF IsRun
  <2>5. PICK x \in Position, y \in Position, fact \in AdjustmentFacts :
           x = u[k] /\ y = v[k] /\ fact = facts[k + 1]
    BY <1>n, <2>2, <2>4
  <2>6. /\ F[k + 1][x] = (IF fact.day = d THEN Plus(x, fact.delta) ELSE x)
        /\ F[k + 1][y] = (IF fact.day = d THEN Plus(y, fact.delta) ELSE y)
    BY <1>n, <2>2, <2>5 DEF AdjustSteps
  <2>7. AddsUp(x, p, y) /\ WellFormed(x)
    BY <2>3, <2>5
  <2>8. PICK delta \in Position : delta = fact.delta
    BY DEF AdjustmentFacts
  <2>9. AddsUp(Plus(x, delta), p, Plus(y, delta)) /\ WellFormed(Plus(x, delta))
    <3>1. PICK px \in Position, py \in Position : px = Plus(x, delta) /\ py = Plus(y, delta)
      BY PlusFields
    <3>2. AddsUp(px, x, delta) /\ AddsUp(py, y, delta) /\ WellFormed(px)
      BY <3>1, PlusFields DEF AddsUp, WellFormed
    <3>3. AddsUp(px, p, py)
      BY <2>7, <3>2, AddsUpMore
    <3> QED  BY <3>1, <3>2, <3>3
  <2> QED  BY <2>4, <2>5, <2>6, <2>7, <2>8, <2>9
<1>5. Nat \subseteq K
  <2> HIDE DEF K
  <2> QED  BY <1>3, <1>4, NatSetInduction
<1>6. AddsUp(u[n], p, v[n]) /\ WellFormed(u[n])
  BY <1>5
<1> QED  BY <1>1, <1>2, <1>6

UpTo(facts, d) == \A i \in DOMAIN facts : facts[i].day <= d

\* What the position was when the day began, by the replay, and what the trades and
\* the adjustments of the day make of it.
TradedToday(days, ts, facts, d) ==
    TradedOf(days, ts, RolledOver(ReplayOf(days, ts, facts, d - 1)), d)

AddedToday(facts, d) == AdjustedOf(facts, EmptyPosition, d)

\* A live position is what was traded and what was added, in each column but those
\* that orders change; the cost as long as no rights are subscribed.
Tracks(p, traded, added, subs) ==
    /\ p.total = traded.total + added.total
    /\ p.today = traded.today + added.today
    /\ p.yesterday = traded.yesterday + added.yesterday
    /\ p.locked = traded.locked + added.locked
    /\ p.pending = traded.pending + added.pending
    /\ subs = {} => p.cost = traded.cost + added.cost
    /\ traded.frozen = 0 /\ added.frozen = 0
    /\ WellFormed(traded)

\* During the trading day nothing is added to the shares that may be sold.
NothingAdded(added, subs) ==
    /\ added.total = 0 /\ added.today = 0 /\ added.yesterday = 0 /\ added.locked = 0
    /\ subs = {} => added.cost = 0

Follows(days, ts, facts, p, subs, d) ==
    /\ Sane(ReplayOf(days, ts, facts, d - 1))
    /\ ReplayOf(days, ts, facts, d - 1).frozen = 0
    /\ Tracks(p, TradedToday(days, ts, facts, d), AddedToday(facts, d), subs)
    /\ UpTo(ts, d) /\ UpTo(facts, d)

\* What is added to the position and to the adjustments alike.
LEMMA TracksMore ==
    ASSUME NEW p \in Position, NEW traded \in Position, NEW added \in Position,
           NEW delta \in Position, NEW q, NEW sum, NEW subs, NEW more,
           Tracks(p, traded, added, subs), AddsUp(sum, added, delta), delta.frozen = 0,
           q.total = p.total + delta.total, q.today = p.today + delta.today,
           q.yesterday = p.yesterday + delta.yesterday, q.locked = p.locked + delta.locked,
           q.pending = p.pending + delta.pending,
           more = {} => subs = {} /\ q.cost = p.cost + delta.cost
    PROVE  Tracks(q, traded, sum, more)
<1>t. \A x \in Position : /\ x.total \in Int /\ x.today \in Int /\ x.yesterday \in Int
                          /\ x.frozen \in Int /\ x.locked \in Int /\ x.pending \in Int
                          /\ x.cost \in Int
  BY DEF Position
<1>1. q.total = traded.total + sum.total
  BY <1>t, IntsAddUp DEF Tracks, AddsUp
<1>2. q.today = traded.today + sum.today
  BY <1>t, IntsAddUp DEF Tracks, AddsUp
<1>3. q.yesterday = traded.yesterday + sum.yesterday
  BY <1>t, IntsAddUp DEF Tracks, AddsUp
<1>4. q.locked = traded.locked + sum.locked
  BY <1>t, IntsAddUp DEF Tracks, AddsUp
<1>5. q.pending = traded.pending + sum.pending
  BY <1>t, IntsAddUp DEF Tracks, AddsUp
<1>6. ASSUME more = {} PROVE q.cost = traded.cost + sum.cost
  <2>1. p.cost = traded.cost + added.cost /\ q.cost = p.cost + delta.cost
    BY <1>6 DEF Tracks
  <2>2. sum.cost = added.cost + delta.cost
    BY DEF AddsUp
  <2> QED  BY <1>t, <2>1, <2>2, IntsAddUp
<1>7. traded.frozen = 0 /\ sum.frozen = 0 /\ WellFormed(traded)
  BY DEF Tracks, AddsUp
<1> QED  BY <1>1, <1>2, <1>3, <1>4, <1>5, <1>6, <1>7 DEF Tracks

\* What is bought is bought on both sides.
LEMMA TracksBought ==
    ASSUME NEW days, NEW p \in Position, NEW traded \in Position, NEW added \in Position,
           NEW volume \in Int, NEW turnover \in Int, NEW q, NEW now, NEW subs,
           Tracks(p, traded, added, subs), IsBought(days, p, volume, turnover, q),
           IsBought(days, traded, volume, turnover, now)
    PROVE  Tracks(q, now, added, subs)
<1>t. \A x \in Position : /\ x.total \in Int /\ x.today \in Int /\ x.yesterday \in Int
                          /\ x.frozen \in Int /\ x.locked \in Int /\ x.pending \in Int
                          /\ x.cost \in Int
  BY DEF Position
<1>1. PICK later \in Int : later = IF days = 1 THEN volume ELSE 0
  OBVIOUS
<1>2. /\ now.total = traded.total + volume /\ now.today = traded.today + volume
      /\ now.yesterday = traded.yesterday /\ now.locked = traded.locked + later
      /\ now.pending = traded.pending /\ now.cost = traded.cost + turnover
      /\ now.frozen = traded.frozen /\ WellFormed(now)
  BY <1>1 DEF IsBought, WellFormed
<1>3. /\ q.total = p.total + volume /\ q.today = p.today + volume
      /\ q.yesterday = p.yesterday /\ q.locked = p.locked + later
      /\ q.pending = p.pending /\ q.cost = p.cost + turnover
  BY <1>1 DEF IsBought
<1>4. q.total = now.total + added.total
  BY <1>t, <1>2, <1>3, IntsAddUp DEF Tracks
<1>5. q.today = now.today + added.today
  BY <1>t, <1>2, <1>3, IntsAddUp DEF Tracks
<1>6. q.locked = now.locked + added.locked
  BY <1>t, <1>2, <1>3, IntsAddUp DEF Tracks
<1>7. q.yesterday = now.yesterday + added.yesterday /\ q.pending = now.pending + added.pending
  BY <1>2, <1>3 DEF Tracks
<1>8. ASSUME subs = {} PROVE q.cost = now.cost + added.cost
  <2>1. p.cost = traded.cost + added.cost
    BY <1>8 DEF Tracks
  <2> QED  BY <1>t, <1>2, <1>3, <2>1, IntsAddUp
<1>9. now.frozen = 0 /\ added.frozen = 0 /\ WellFormed(now)
  BY <1>2 DEF Tracks
<1> QED  BY <1>4, <1>5, <1>6, <1>7, <1>8, <1>9 DEF Tracks

\* What is sold is sold on both sides, as long as nothing is added but pending shares.
LEMMA TracksSold ==
    ASSUME NEW days \in {0, 1}, NEW p \in Position, NEW traded \in Position,
           NEW added \in Position, NEW volume \in Int, NEW q, NEW now \in Position, NEW subs,
           Tracks(p, traded, added, subs), NothingAdded(added, subs),
           IsSold(days, p, volume, q), IsSold(days, traded, volume, now)
    PROVE  Tracks(q, now, added, subs)
<1>t. \A x \in Position : /\ x.total \in Int /\ x.today \in Int /\ x.yesterday \in Int
                          /\ x.frozen \in Int /\ x.locked \in Int /\ x.pending \in Int
                          /\ x.cost \in Int
  BY DEF Position
<1>0. \A a \in Int : a + 0 = a
  OBVIOUS
<1>1. /\ added.total = 0 /\ added.today = 0 /\ added.yesterday = 0 /\ added.locked = 0
      /\ subs = {} => added.cost = 0
  BY DEF NothingAdded
<1>2. /\ p.total = traded.total /\ p.today = traded.today
      /\ p.yesterday = traded.yesterday /\ p.locked = traded.locked
      /\ p.pending = traded.pending + added.pending
  BY <1>0, <1>1, <1>t DEF Tracks
<1>3. ASSUME subs = {} PROVE q.cost = now.cost + added.cost
  <2>1. p.cost = traded.cost + added.cost /\ added.cost = 0
    BY <1>1, <1>3 DEF Tracks
  <2>2. p.cost = traded.cost
    BY <1>0, <1>t, <2>1
  <2>3. CostOf(p, volume) = CostOf(traded, volume)
    BY <1>2, <2>2 DEF CostOf
  <2>4. q.cost = now.cost
    BY <2>2, <2>3 DEF IsSold
  <2> QED  BY <1>0, <1>t, <2>1, <2>4
<1>4. FromYesterday(days, p, volume) = FromYesterday(days, traded, volume)
  BY <1>2 DEF FromYesterday, Smaller
<1>5. /\ q.total = now.total /\ q.today = now.today /\ q.yesterday = now.yesterday
      /\ q.locked = now.locked /\ q.pending = now.pending + added.pending
  BY <1>2, <1>4 DEF IsSold
<1>6. /\ q.total = now.total + added.total /\ q.today = now.today + added.today
      /\ q.yesterday = now.yesterday + added.yesterday
      /\ q.locked = now.locked + added.locked
  BY <1>0, <1>1, <1>5, <1>t
<1>7. now.frozen = 0 /\ added.frozen = 0 /\ WellFormed(now)
  BY DEF Tracks, IsSold, WellFormed
<1> QED  BY <1>3, <1>5, <1>6, <1>7 DEF Tracks

LEMMA TodayTypes ==
    ASSUME NEW days \in {0, 1}, NEW ts \in Seq(TradeFacts), NEW facts \in Seq(AdjustmentFacts),
           NEW d \in Nat \ {0}
    PROVE  /\ d - 1 \in Nat
           /\ ReplayOf(days, ts, facts, d - 1) \in Position
           /\ RolledOver(ReplayOf(days, ts, facts, d - 1)) \in Position
           /\ TradedToday(days, ts, facts, d) \in Position
           /\ AddedToday(facts, d) \in Position
<1>1. d - 1 \in Nat
  OBVIOUS
<1>2. ReplayOf(days, ts, facts, d - 1) \in Position
  BY <1>1, ReplayOfType
<1>3. RolledOver(ReplayOf(days, ts, facts, d - 1)) \in Position
  BY <1>2, RolledOverFields DEF IsRolledOver
<1> QED  BY <1>1, <1>2, <1>3, TradedOfType, AdjustedOfType, EmptyPositionType
         DEF TradedToday, AddedToday

\* Orders change the frozen and the available shares, which the replay does not know.
LEMMA FollowsOrders ==
    ASSUME NEW days, NEW ts, NEW facts, NEW p, NEW q, NEW subs, NEW d,
           Follows(days, ts, facts, p, subs, d),
           q.total = p.total, q.today = p.today, q.yesterday = p.yesterday,
           q.locked = p.locked, q.pending = p.pending, q.cost = p.cost
    PROVE  Follows(days, ts, facts, q, subs, d)
BY DEF Follows, Tracks

\* A fact of the day is added to the position and to the facts.
LEMMA FollowsFact ==
    ASSUME NEW days \in {0, 1}, NEW ts \in Seq(TradeFacts), NEW facts \in Seq(AdjustmentFacts),
           NEW d \in Nat \ {0}, NEW p \in Position, NEW q \in Position, NEW subs, NEW more,
           NEW fact \in AdjustmentFacts, fact.day = d, fact.delta.frozen = 0,
           Follows(days, ts, facts, p, subs, d),
           q.total = p.total + fact.delta.total, q.today = p.today + fact.delta.today,
           q.yesterday = p.yesterday + fact.delta.yesterday,
           q.locked = p.locked + fact.delta.locked,
           q.pending = p.pending + fact.delta.pending,
           more = {} => subs = {} /\ q.cost = p.cost + fact.delta.cost
    PROVE  /\ Follows(days, ts, Append(facts, fact), q, more, d)
           /\ AddedToday(Append(facts, fact), d) = Plus(AddedToday(facts, d), fact.delta)
<1>1. PICK entries \in Seq(AdjustmentFacts) : entries = Append(facts, fact)
  BY AppendType
<1>2. PICK traded \in Position, added \in Position, delta \in Position :
         /\ traded = TradedToday(days, ts, facts, d) /\ added = AddedToday(facts, d)
         /\ delta = fact.delta
  BY TodayTypes DEF AdjustmentFacts
<1>3. ReplayOf(days, ts, entries, d - 1) = ReplayOf(days, ts, facts, d - 1)
  <2>1. d - 1 \in Nat /\ fact.day > d - 1
    OBVIOUS
  <2> QED  BY <1>1, <2>1, LaterAdjustment
<1>4. TradedToday(days, ts, entries, d) = traded
  BY <1>2, <1>3 DEF TradedToday
<1>5. PICK sum \in Position : sum = AddedToday(entries, d) /\ sum = Plus(added, delta)
  <2>1. AddedToday(entries, d) = Plus(AddedToday(facts, d), fact.delta)
    BY <1>1, EmptyPositionType, AdjustedAppend DEF AddedToday
  <2>2. Plus(added, delta) \in Position
    BY PlusFields
  <2> QED  BY <1>2, <2>1, <2>2
<1>6. AddsUp(sum, added, delta)
  BY <1>5, PlusFields DEF AddsUp
<1>7. Tracks(p, traded, added, subs)
  BY <1>2 DEF Follows
<1>8. Tracks(q, traded, sum, more)
  BY <1>2, <1>6, <1>7, TracksMore
<1>9. UpTo(entries, d)
  <2>n. PICK n \in Nat : n = Len(facts) /\ DOMAIN facts = 1 .. n
    OBVIOUS
  <2>1. /\ DOMAIN entries = 1 .. (n + 1) /\ entries[n + 1] = fact
        /\ \A k \in 1 .. n : entries[k] = facts[k]
    BY <1>1, <2>n
  <2> QED  BY <2>n, <2>1 DEF UpTo, Follows
<1>10. Follows(days, ts, entries, q, more, d)
  BY <1>3, <1>4, <1>5, <1>8, <1>9 DEF Follows
<1> QED  BY <1>1, <1>2, <1>5, <1>10

\* A trade of the day does to what was traded as it does to the live position.
LEMMA FollowsTrade ==
    ASSUME NEW days \in {0, 1}, NEW ts \in Seq(TradeFacts), NEW facts \in Seq(AdjustmentFacts),
           NEW d \in Nat \ {0}, NEW p \in Position, NEW q \in Position, NEW subs,
           NEW fact \in TradeFacts, fact.day = d,
           Follows(days, ts, facts, p, subs, d), NothingAdded(AddedToday(facts, d), subs),
           \/ fact.direction = "BUY" /\ IsBought(days, p, fact.volume, fact.turnover, q)
           \/ /\ fact.direction = "SELL"
              /\ IsSold(days, p, fact.volume, q)
    PROVE  Follows(days, Append(ts, fact), facts, q, subs, d)
<1>1. PICK us \in Seq(TradeFacts) : us = Append(ts, fact)
  BY AppendType
<1>2. PICK traded \in Position, added \in Position, begun \in Position,
           volume \in Int, turnover \in Int :
         /\ traded = TradedToday(days, ts, facts, d) /\ added = AddedToday(facts, d)
         /\ begun = RolledOver(ReplayOf(days, ts, facts, d - 1))
         /\ volume = fact.volume /\ turnover = fact.turnover
  BY TodayTypes DEF TradeFacts
<1>3. ReplayOf(days, us, facts, d - 1) = ReplayOf(days, ts, facts, d - 1)
  <2>1. d - 1 \in Nat /\ fact.day > d - 1
    OBVIOUS
  <2> QED  BY <1>1, <2>1, LaterTrade
<1>4. PICK now \in Position : now = TradedToday(days, us, facts, d)
                              /\ now = TradeOf(days, traded, fact)
  <2>1. TradedOf(days, us, begun, d) = TradeOf(days, TradedOf(days, ts, begun, d), fact)
    BY <1>1, TradedAppend
  <2>2. TradedToday(days, us, facts, d) = TradeOf(days, traded, fact)
    BY <1>2, <1>3, <2>1 DEF TradedToday
  <2>3. TradeOf(days, traded, fact) \in Position
    BY TradeOfType
  <2> QED  BY <2>2, <2>3
<1>5. Tracks(p, traded, added, subs) /\ NothingAdded(added, subs)
  BY <1>2 DEF Follows
<1>8. Tracks(q, now, added, subs)
  <2>1. CASE fact.direction = "BUY"
    <3>1. now = BoughtOf(days, traded, volume, turnover)
      BY <1>2, <1>4, <2>1 DEF TradeOf
    <3>2. IsBought(days, traded, volume, turnover, now) /\ IsBought(days, p, volume, turnover, q)
      BY <1>2, <2>1, <3>1, BoughtOfFields
    <3> QED  BY <1>5, <3>2, TracksBought
  <2>2. CASE fact.direction = "SELL"
    <3>1. now = SoldOf(days, traded, volume)
      BY <1>2, <1>4, <2>2 DEF TradeOf
    <3>2. IsSold(days, traded, volume, now) /\ IsSold(days, p, volume, q)
      BY <1>2, <2>2, <3>1, SoldOfFields
    <3> QED  BY <1>5, <3>2, TracksSold
  <2> QED  BY <2>1, <2>2
<1>9. UpTo(us, d)
  <2>n. PICK n \in Nat : n = Len(ts) /\ DOMAIN ts = 1 .. n
    OBVIOUS
  <2>1. /\ DOMAIN us = 1 .. (n + 1) /\ us[n + 1] = fact
        /\ \A k \in 1 .. n : us[k] = ts[k]
    BY <1>1, <2>n
  <2> QED  BY <2>n, <2>1 DEF UpTo, Follows
<1>10. Follows(days, us, facts, q, subs, d)
  BY <1>2, <1>3, <1>4, <1>8, <1>9 DEF Follows
<1> QED  BY <1>1, <1>10

-----------------------------------------------------------------------------
(* What actions do to a position.                                          *)

\* A multiplication that rounds down.
LEMMA TimesType ==
    ASSUME NEW n \in Int, NEW ratio \in Nat, NEW base \in Nat \ {0}
    PROVE  /\ (n * ratio) \div base \in Int
           /\ n >= 0 => (n * ratio) \div base >= 0
           /\ n = 0 => (n * ratio) \div base = 0
<1> PICK k \in Int : k = n * ratio /\ (n >= 0 => k >= 0) /\ (n = 0 => k = 0)
  OBVIOUS
<1>1. k \div base \in Int
  OBVIOUS
<1>2. k >= 0 => k \div base >= 0
  OBVIOUS
<1>3. k = 0 => k \div base = 0
  OBVIOUS
<1> QED  BY <1>1, <1>2, <1>3

LEMMA TermsType ==
    ASSUME product \in Products
    PROVE  /\ T.base \in Nat \ {0} /\ T.ratio \in Nat /\ T.cash \in Nat
           /\ T.price \in Nat /\ T.lieu \in Nat
<1>1. product.kind \in Kinds
  BY ProductsAssumption
<1> QED  BY <1>1, ActionAssumption DEF T

LEMMA SplitKeepsShares ==
    ASSUME product \in Products, NEW p \in Position, SharesAddUp(p), p.frozen = 0
    PROVE  /\ SplitPosition(p) \in Position /\ SharesAddUp(SplitPosition(p))
           /\ SplitPosition(p).frozen = 0
<1> DEFINE times(n) == (n * T.ratio) \div T.base
<1>1. \A n \in Int : /\ times(n) \in Int
                     /\ n >= 0 => times(n) >= 0
                     /\ n = 0 => times(n) = 0
  BY TermsType, TimesType
<1> HIDE DEF times
<1>2. /\ p.today \in Int /\ p.yesterday \in Int /\ p.frozen \in Int /\ p.locked \in Int
      /\ p.pending \in Int
  BY DEF Position
<1> PICK today \in Int, yesterday \in Int, total \in Int, frozen \in Int, barred \in Int,
         pending \in Int :
       /\ today = times(p.today) /\ yesterday = times(p.yesterday)
       /\ total = times(p.today) + times(p.yesterday) /\ frozen = times(p.frozen)
       /\ barred = times(p.locked) /\ pending = times(p.pending)
  <2>1. /\ times(p.today) \in Int /\ times(p.yesterday) \in Int /\ times(p.frozen) \in Int
        /\ times(p.locked) \in Int /\ times(p.pending) \in Int
    BY <1>1, <1>2
  <2>2. times(p.today) + times(p.yesterday) \in Int
    BY <2>1
  <2> QED  BY <2>1, <2>2
<1> DEFINE q == [p EXCEPT !.today = today, !.yesterday = yesterday, !.total = total,
                          !.frozen = frozen, !.locked = barred, !.pending = pending]
<1>3. /\ q \in Position /\ q.today = today /\ q.yesterday = yesterday /\ q.total = total
      /\ q.frozen = frozen /\ q.locked = barred
  BY DEF Position
<1>4. SplitPosition(p) = WithAvailable(q)
  BY DEF SplitPosition, times
<1> HIDE DEF q
<1>5. /\ today >= 0 /\ yesterday >= 0 /\ total = today + yesterday /\ frozen = 0
      /\ barred = IF product.settlementDays = 1 THEN today ELSE 0
  BY <1>1, <1>2 DEF SharesAddUp
<1> QED  BY <1>3, <1>4, <1>5, WithAvailableFields DEF SharesAddUp, Sellable

LEMMA PendingKeepsShares ==
    ASSUME NEW p \in Position, SharesAddUp(p), NEW pending \in Int
    PROVE  LET q == [p EXCEPT !.pending = pending] IN
             q \in Position /\ SharesAddUp(q) /\ q.frozen = p.frozen
<1> DEFINE q == [p EXCEPT !.pending = pending]
<1>1. /\ q \in Position /\ q.total = p.total /\ q.today = p.today
      /\ q.yesterday = p.yesterday /\ q.frozen = p.frozen /\ q.locked = p.locked
      /\ q.available = p.available
  BY DEF Position
<1> HIDE DEF q
<1>2. SharesAddUp(q)
  BY <1>1 DEF SharesAddUp, Sellable
<1> QED  BY <1>1, <1>2 DEF q

\* A position without shares, as a bond that is redeemed leaves it.
LEMMA NoShares ==
    ASSUME NEW pending \in Int
    PROVE  LET q == [EmptyPosition EXCEPT !.pending = pending] IN
             q \in Position /\ SharesAddUp(q) /\ q.frozen = 0
<1> DEFINE q == [EmptyPosition EXCEPT !.pending = pending]
<1>1. q = [total |-> 0, today |-> 0, yesterday |-> 0, frozen |-> 0, locked |-> 0,
           available |-> 0, pending |-> pending, cost |-> 0]
  BY DEF EmptyPosition
<1> HIDE DEF q
<1>2. q \in Position /\ q.frozen = 0
  BY <1>1 DEF Position
<1>3. SharesAddUp(q)
  BY <1>1 DEF SharesAddUp, Sellable
<1> QED  BY <1>2, <1>3 DEF q

LEMMA MinusType ==
    ASSUME NEW p \in Position, NEW q \in Position PROVE Minus(p, q) \in Position
BY DEF Minus, Position

\* The shares that a listing adds, of which there are some.
OfListing(pending, cost) ==
    [EmptyPosition EXCEPT !.total = pending, !.yesterday = pending,
       !.pending = -pending, !.cost = cost]

LEMMA ListingKeepsShares ==
    ASSUME NEW p \in Position, SharesAddUp(p), NEW pending \in Int, pending > 0, NEW cost \in Int
    PROVE  /\ OfListing(pending, cost) \in Position
           /\ Plus(p, OfListing(pending, cost)) \in Position
           /\ SharesAddUp(Plus(p, OfListing(pending, cost)))
           /\ Plus(p, OfListing(pending, cost)).frozen = p.frozen
<1> DEFINE shares == OfListing(pending, cost)
           q == Plus(p, shares)
<1> PICK negative \in Int : negative = -pending
  OBVIOUS
<1>1. shares = [total |-> pending, today |-> 0, yesterday |-> pending, frozen |-> 0,
                locked |-> 0, available |-> 0, pending |-> negative, cost |-> cost]
  <2>1. shares = [EmptyPosition EXCEPT !.total = pending, !.yesterday = pending,
                                       !.pending = negative, !.cost = cost]
    BY DEF OfListing
  <2> HIDE DEF shares
  <2> QED  BY <2>1 DEF EmptyPosition
<1> HIDE DEF shares
<1>2. /\ shares \in Position /\ shares.total = pending /\ shares.today = 0
      /\ shares.yesterday = pending /\ shares.frozen = 0 /\ shares.locked = 0
  BY <1>1 DEF Position
<1>3. /\ q \in Position /\ q.total = p.total + pending /\ q.today = p.today
      /\ q.yesterday = p.yesterday + pending /\ q.frozen = p.frozen /\ q.locked = p.locked
      /\ q.available = q.total - q.frozen - q.locked
  BY <1>2, PlusFields DEF Position
<1> HIDE DEF q
<1>4. SharesAddUp(q)
  <2>1. p.today \in Int /\ p.yesterday \in Int /\ p.frozen \in Int
    BY DEF Position
  <2> QED  BY <1>3, <2>1 DEF SharesAddUp, Sellable
<1> QED  BY <1>2, <1>3, <1>4 DEF q, shares

-----------------------------------------------------------------------------
(* What run_due_actions does to the books.                                 *)

\* Books of an account without active orders.
GoodBooks ==
    {b \in BooksType : /\ CashAddsUp(b.account)
                       /\ b.account.frozenCash = 0 /\ b.account.frozenCommission = 0
                       /\ SharesAddUp(b.position)
                       /\ b.position.frozen = 0
                       /\ OneIsLive(b)}

\* They are about to be changed by the operations on a revision.
GoodFor(r) == {b \in GoodBooks : b.actions[r] \in LiveStatuses}

MayBeBooked(b, a, p, status, e, facts, entries) ==
    /\ a \in Account /\ CashAddsUp(a) /\ a.frozenCash = 0 /\ a.frozenCommission = 0
    /\ p \in Position /\ SharesAddUp(p) /\ p.frozen = 0
    /\ status \in LiveStatuses
    /\ e \in Entitlement /\ (e.quantity > 0 => status \in ExecutedStatuses)
    /\ facts \in SUBSET LedgerFacts
    /\ entries \in Seq(AdjustmentFacts)

Booked(b, r, a, p, status, e, facts, entries) ==
    [account |-> a, position |-> p, actions |-> [b.actions EXCEPT ![r] = status],
     entitlements |-> [b.entitlements EXCEPT ![r] = e], ledger |-> facts,
     adjustments |-> entries]

\* Books that agree in every part are the same.
LEMMA SameBooks ==
    ASSUME NEW b \in BooksType, NEW c \in BooksType,
           b.account = c.account, b.position = c.position, b.actions = c.actions,
           b.entitlements = c.entitlements, b.ledger = c.ledger,
           b.adjustments = c.adjustments
    PROVE  b = c
<1>1. \A d \in BooksType :
         d = [account |-> d.account, position |-> d.position, actions |-> d.actions,
              entitlements |-> d.entitlements, ledger |-> d.ledger,
              adjustments |-> d.adjustments]
  BY DEF BooksType
<1> QED  BY <1>1

\* An operation on one revision leaves the others alone.
LEMMA BookedIsGood ==
    ASSUME NEW r \in Revisions, NEW b \in GoodFor(r), NEW a, NEW p, NEW status, NEW e,
           NEW facts, NEW entries, MayBeBooked(b, a, p, status, e, facts, entries)
    PROVE  Booked(b, r, a, p, status, e, facts, entries) \in GoodFor(r)
<1> DEFINE c == Booked(b, r, a, p, status, e, facts, entries)
<1>1. /\ b.actions \in [Revisions -> ActionStatuses]
      /\ b.entitlements \in [Revisions -> Entitlement]
      /\ b.actions[r] \in LiveStatuses /\ OneIsLive(b)
  BY DEF GoodFor, GoodBooks, BooksType
<1>2. /\ c.account = a /\ c.position = p /\ c.ledger = facts /\ c.adjustments = entries
      /\ c.actions = [b.actions EXCEPT ![r] = status]
      /\ c.entitlements = [b.entitlements EXCEPT ![r] = e]
      /\ c = [account |-> a, position |-> p, actions |-> c.actions,
              entitlements |-> c.entitlements, ledger |-> facts, adjustments |-> entries]
  BY DEF Booked
<1> HIDE DEF c
<1>3. status \in ActionStatuses
  BY DEF MayBeBooked, ActionStatuses
<1>4. /\ c.actions \in [Revisions -> ActionStatuses] /\ c.actions[r] = status
      /\ c.entitlements \in [Revisions -> Entitlement] /\ c.entitlements[r] = e
      /\ \A q \in Revisions \ {r} : /\ c.actions[q] = b.actions[q]
                                    /\ c.entitlements[q] = b.entitlements[q]
  BY <1>1, <1>2, <1>3 DEF MayBeBooked
<1>5. c \in BooksType
  BY <1>2, <1>4 DEF MayBeBooked, BooksType
<1>6. OneIsLive(c)
  BY <1>1, <1>4 DEF OneIsLive, Entitled, MayBeBooked
<1> QED  BY <1>2, <1>4, <1>5, <1>6 DEF GoodFor, GoodBooks, MayBeBooked, c

\* What may be booked as it is.
LEMMA BooksMayBeBooked ==
    ASSUME NEW r \in Revisions, NEW b \in GoodFor(r)
    PROVE  /\ MayBeBooked(b, b.account, b.position, b.actions[r], b.entitlements[r],
                          b.ledger, b.adjustments)
           /\ b = Booked(b, r, b.account, b.position, b.actions[r], b.entitlements[r],
                         b.ledger, b.adjustments)
           /\ b.account \in Account /\ b.position \in Position
           /\ b.entitlements[r] \in Entitlement
<1>1. b \in BooksType
  BY DEF GoodFor, GoodBooks
<1>2. /\ b.actions = [b.actions EXCEPT ![r] = b.actions[r]]
      /\ b.entitlements = [b.entitlements EXCEPT ![r] = b.entitlements[r]]
  BY <1>1 DEF BooksType
<1>3. b = Booked(b, r, b.account, b.position, b.actions[r], b.entitlements[r],
                 b.ledger, b.adjustments)
  BY <1>1, <1>2 DEF BooksType, Booked
<1>4. /\ b.account \in Account /\ b.position \in Position
      /\ b.entitlements[r] \in Entitlement /\ b.ledger \in SUBSET LedgerFacts
      /\ b.adjustments \in Seq(AdjustmentFacts)
  BY <1>1 DEF BooksType
<1>5. b.entitlements[r].quantity > 0 => b.actions[r] \in ExecutedStatuses
  BY DEF GoodFor, GoodBooks, OneIsLive, Entitled
<1>6. MayBeBooked(b, b.account, b.position, b.actions[r], b.entitlements[r],
                  b.ledger, b.adjustments)
  BY <1>4, <1>5 DEF GoodFor, GoodBooks, MayBeBooked
<1> QED  BY <1>3, <1>4, <1>6

LEMMA CompletedIsGood ==
    ASSUME NEW r \in Revisions, NEW b \in GoodFor(r)
    PROVE  Completed(b, r) \in GoodFor(r)
<1> PICK done : done = "COMPLETED"
  OBVIOUS
<1> DEFINE c == Booked(b, r, b.account, b.position, done, b.entitlements[r],
                       b.ledger, b.adjustments)
<1>1. MayBeBooked(b, b.account, b.position, done, b.entitlements[r],
                  b.ledger, b.adjustments)
  BY BooksMayBeBooked DEF MayBeBooked, LiveStatuses, ExecutedStatuses
<1>2. c \in GoodFor(r)
  BY <1>1, BookedIsGood
<1>3. [b EXCEPT !.actions[r] = done] = c
  <2>1. b \in BooksType
    BY DEF GoodFor, GoodBooks
  <2>2. b.entitlements = [b.entitlements EXCEPT ![r] = b.entitlements[r]]
    BY <2>1 DEF BooksType
  <2> QED  BY <2>1, <2>2 DEF BooksType, Booked
<1> HIDE DEF c
<1> QED  BY <1>2, <1>3 DEF Completed

\* A fact of an operation of the day.
LEMMA FactTypes ==
    ASSUME day \in Nat, NEW r \in Revisions, NEW entry \in Entries
    PROVE  /\ \A cash, receivable, income \in Int :
                 LedgerFact(r, entry, "", cash, receivable, income) \in LedgerFacts
           /\ \A delta \in Position : Adjustment(r, entry, delta) \in AdjustmentFacts
<1>1. ASSUME NEW cash \in Int, NEW receivable \in Int, NEW income \in Int
      PROVE  LedgerFact(r, entry, "", cash, receivable, income) \in LedgerFacts
  BY DEF LedgerFact, LedgerFacts
<1>2. ASSUME NEW delta \in Position PROVE Adjustment(r, entry, delta) \in AdjustmentFacts
  BY DEF Adjustment, AdjustmentFacts
<1> QED  BY <1>1, <1>2

LEMMA CapturedIsGood ==
    ASSUME product \in Products, NEW r \in Revisions, NEW b \in GoodFor(r)
    PROVE  Captured(b, r) \in GoodFor(r)
<1> PICK status : status = "ENTITLEMENT_CAPTURED"
  OBVIOUS
<1> DEFINE held == b.position.total
           units == held * T.ratio
           fresh == [NoEntitlement EXCEPT
                       !.quantity = held,
                       !.cash = RoundedQuotient(held * T.cash, T.base),
                       !.shares = units \div T.base,
                       !.lieu = RoundedQuotient((units % T.base) * T.lieu, T.base)]
           e == IF held = 0 \/ Entitled(b, r) THEN b.entitlements[r] ELSE fresh
           c == Booked(b, r, b.account, b.position, status, e, b.ledger, b.adjustments)
<1>1. fresh \in Entitlement
  <2>1. held \in Int /\ T.base \in Nat \ {0} /\ T.ratio \in Nat /\ T.cash \in Nat
        /\ T.lieu \in Nat
    BY BooksMayBeBooked, TermsType DEF Position
  <2>2. PICK cash \in Int : cash = RoundedQuotient(held * T.cash, T.base)
    <3>1. PICK n \in Int : n = held * T.cash
      BY <2>1
    <3>2. PICK d \in Int : d = T.base
      BY <2>1
    <3>3. RoundedQuotient(n, d) \in Int
      BY RoundedQuotientType
    <3> QED  BY <3>1, <3>2, <3>3
  <2>3. PICK shares \in Int : shares = units \div T.base
    BY <2>1, TimesType
  <2>4. PICK lieu \in Int : lieu = RoundedQuotient((units % T.base) * T.lieu, T.base)
    <3>1. units \in Int
      BY <2>1
    <3> HIDE DEF units
    <3>2. units % T.base \in Int
      BY <2>1, <3>1
    <3>3. PICK n \in Int : n = (units % T.base) * T.lieu
      BY <2>1, <3>2
    <3>4. PICK d \in Int : d = T.base
      BY <2>1
    <3>5. RoundedQuotient(n, d) \in Int
      BY RoundedQuotientType
    <3> QED  BY <3>3, <3>4, <3>5
  <2>5. PICK number \in Int : number = held
    BY <2>1
  <2>6. fresh = [NoEntitlement EXCEPT !.quantity = number, !.cash = cash,
                                      !.shares = shares, !.lieu = lieu]
    BY <2>2, <2>3, <2>4, <2>5
  <2> HIDE DEF fresh
  <2>7. fresh = [quantity |-> number, cash |-> cash, shares |-> shares, lieu |-> lieu,
                 subscribed |-> 0, pending |-> 0, credited |-> 0, subscriptionCash |-> 0]
    BY <2>6 DEF NoEntitlement
  <2> QED  BY <2>7 DEF Entitlement
<1> HIDE DEF fresh
<1>2. MayBeBooked(b, b.account, b.position, status, e, b.ledger, b.adjustments)
  BY <1>1, BooksMayBeBooked
  DEF MayBeBooked, LiveStatuses, ExecutedStatuses, ProcessableStatuses
<1>3. c \in GoodFor(r)
  <2> HIDE DEF e
  <2> QED  BY <1>2, BookedIsGood
<1>4. Captured(b, r) = [b EXCEPT !.actions[r] = status, !.entitlements[r] = e]
  <2>1. b.entitlements \in [Revisions -> Entitlement] /\ b \in BooksType
    BY DEF GoodFor, GoodBooks, BooksType
  <2> QED  BY <2>1 DEF Captured, fresh, BooksType
<1>5. Captured(b, r) = c
  <2>1. b \in BooksType
    BY DEF GoodFor, GoodBooks
  <2> HIDE DEF e
  <2> QED  BY <1>4, <2>1 DEF BooksType, Booked
<1> QED  BY <1>3, <1>5

\* Money that moves between what is owed and what the account has.
Moved(a, owed, paid) ==
    [a EXCEPT !.receivable = @ + owed, !.cash = @ + paid, !.available = @ + paid]

LEMMA MovedFields ==
    ASSUME NEW a \in Account, CashAddsUp(a), NEW owed \in Int, NEW paid \in Int
    PROVE  /\ Moved(a, owed, paid) \in Account /\ CashAddsUp(Moved(a, owed, paid))
           /\ Moved(a, owed, paid).frozenCash = a.frozenCash
           /\ Moved(a, owed, paid).frozenCommission = a.frozenCommission
<1> PICK receivable \in Int, cash \in Int, available \in Int :
       /\ receivable = a.receivable + owed /\ cash = a.cash + paid
       /\ available = a.available + paid
  BY DEF Account
<1> DEFINE c == [a EXCEPT !.receivable = receivable, !.cash = cash, !.available = available]
<1>1. /\ c \in Account /\ c.cash = cash /\ c.available = available
      /\ c.frozenCash = a.frozenCash /\ c.frozenCommission = a.frozenCommission
  BY DEF Account
<1>2. c = Moved(a, owed, paid)
  BY DEF Account, Moved
<1> HIDE DEF c
<1>3. CashAddsUp(c)
  BY <1>1 DEF CashAddsUp, Account
<1> QED  BY <1>1, <1>2, <1>3

LEMMA PaidIsGood ==
    ASSUME product \in Products, day \in Nat, NEW r \in Revisions, NEW b \in GoodFor(r)
    PROVE  Paid(b, r) \in GoodFor(r)
<1> PICK amount \in Int, owed \in Int, none \in Int :
       /\ amount = IF product.kind \in SplitKinds THEN b.entitlements[r].lieu
                   ELSE b.entitlements[r].cash
       /\ owed = -amount /\ none = 0
  BY BooksMayBeBooked DEF Entitlement
<1> DEFINE fact == LedgerFact(r, "CASH_PAID", "", amount, owed, none)
           a == Moved(b.account, owed, amount)
           facts == b.ledger \cup {fact}
           c == Booked(b, r, a, b.position, b.actions[r], b.entitlements[r], facts,
                       b.adjustments)
           paid == [b EXCEPT !.account.receivable = @ - amount,
                       !.account.cash = @ + amount, !.account.available = @ + amount,
                       !.ledger = @ \cup {fact}]
<1>1. fact \in LedgerFacts
  <2>1. "CASH_PAID" \in Entries
    BY DEF Entries
  <2> QED  BY <2>1, FactTypes
<1>2. fact = LedgerFact(r, "CASH_PAID", "", amount, -amount, 0)
  OBVIOUS
<1> HIDE DEF fact
<1>3. b \in BooksType /\ b.account \in Account
  BY DEF GoodFor, GoodBooks, BooksType
<1>4. /\ a \in Account /\ CashAddsUp(a) /\ a.frozenCash = b.account.frozenCash
      /\ a.frozenCommission = b.account.frozenCommission
  <2>1. CashAddsUp(b.account)
    BY DEF GoodFor, GoodBooks
  <2> QED  BY <1>3, <2>1, MovedFields
<1>5. paid = c
  <2>1. /\ b.actions = [b.actions EXCEPT ![r] = b.actions[r]]
        /\ b.entitlements = [b.entitlements EXCEPT ![r] = b.entitlements[r]]
    BY <1>3 DEF BooksType
  <2>2. paid = [b EXCEPT !.account = a, !.ledger = facts]
    <3>1. b.account.receivable \in Int
      BY <1>3 DEF Account
    <3>2. b.account.receivable - amount = b.account.receivable + owed
      BY <3>1
    <3> QED  BY <1>3, <3>2 DEF BooksType, Account, Moved
  <2> HIDE DEF paid, a, facts
  <2> QED  BY <1>3, <2>1, <2>2 DEF BooksType, Booked
<1> HIDE DEF a
<1>6. MayBeBooked(b, a, b.position, b.actions[r], b.entitlements[r], facts, b.adjustments)
  BY <1>1, <1>4, BooksMayBeBooked DEF MayBeBooked
<1>7. c \in GoodFor(r)
  <2> HIDE DEF facts
  <2> QED  BY <1>6, BookedIsGood
<1>8. paid \in GoodFor(r)
  BY <1>5, <1>7
<1> HIDE DEF paid
<1>9. CASE \/ product.kind \in {"STOCK_DIVIDEND", "RIGHTS_ISSUE"}
           \/ ~Entitled(b, r)
           \/ CashIsPaid(b, r)
  BY <1>9, CompletedIsGood DEF Paid
<1>10. CASE ~(\/ product.kind \in {"STOCK_DIVIDEND", "RIGHTS_ISSUE"}
              \/ ~Entitled(b, r)
              \/ CashIsPaid(b, r))
  <2>1. Paid(b, r) = Completed(paid, r)
    BY <1>2, <1>10 DEF Paid, paid
  <2> QED  BY <1>8, <2>1, CompletedIsGood
<1> QED  BY <1>9, <1>10

LEMMA ListedIsGood ==
    ASSUME product \in Products, day \in Nat, NEW r \in Revisions, NEW b \in GoodFor(r)
    PROVE  Listed(b, r) \in GoodFor(r)
<1>e. PICK e \in Entitlement : e = b.entitlements[r]
  BY BooksMayBeBooked
<1>1. CASE e.pending <= 0 \/ Posted(b, r, "SHARES_LISTED", "")
  BY <1>e, <1>1, CompletedIsGood DEF Listed
<1>2. CASE ~(e.pending <= 0 \/ Posted(b, r, "SHARES_LISTED", ""))
  <2>s. PICK shares : shares = [EmptyPosition EXCEPT !.total = e.pending,
                                !.yesterday = e.pending, !.pending = -e.pending,
                                !.cost = e.subscriptionCash]
    OBVIOUS
  <2>c. PICK credited \in Int, none \in Int : credited = e.credited + e.pending /\ none = 0
    BY DEF Entitlement
  <2> DEFINE p == Plus(b.position, shares)
             after == [e EXCEPT !.credited = credited, !.pending = none]
             facts == b.ledger \cup {LedgerFact(r, "SHARES_LISTED", "", none, none, none)}
             entries == Append(b.adjustments, Adjustment(r, "SHARES_LISTED", shares))
             c == Booked(b, r, b.account, p, b.actions[r], after, facts, entries)
  <2>1. b \in BooksType /\ b.position \in Position /\ SharesAddUp(b.position)
        /\ b.position.frozen = 0
    BY DEF GoodFor, GoodBooks, BooksType
  <2>2. shares \in Position /\ p \in Position /\ SharesAddUp(p) /\ p.frozen = 0
    <3>1. PICK pending \in Int, cost \in Int :
             pending = e.pending /\ cost = e.subscriptionCash /\ pending > 0
      <4>1. e.pending \in Int /\ e.subscriptionCash \in Int
        BY DEF Entitlement
      <4>2. ~(e.pending <= 0)
        BY <1>2, Zenon
      <4> QED  BY <4>1, <4>2
    <3>2. shares = OfListing(pending, cost)
      BY <2>s, <3>1 DEF OfListing
    <3> QED  BY <2>1, <3>1, <3>2, ListingKeepsShares
  <2>3. /\ LedgerFact(r, "SHARES_LISTED", "", none, none, none) \in LedgerFacts
        /\ Adjustment(r, "SHARES_LISTED", shares) \in AdjustmentFacts
    <3>1. "SHARES_LISTED" \in Entries
      BY DEF Entries
    <3> QED  BY <2>2, <3>1, FactTypes
  <2>4. after \in Entitlement /\ after.quantity = e.quantity
    BY DEF Entitlement
  <2>5. facts \in SUBSET LedgerFacts /\ entries \in Seq(AdjustmentFacts)
    <3>1. b.ledger \in SUBSET LedgerFacts /\ b.adjustments \in Seq(AdjustmentFacts)
      BY <2>1 DEF BooksType
    <3>2. facts \in SUBSET LedgerFacts
      BY <2>3, <3>1
    <3>3. entries \in Seq(AdjustmentFacts)
      <4> PICK fact : fact = Adjustment(r, "SHARES_LISTED", shares)
        OBVIOUS
      <4>1. fact \in AdjustmentFacts
        BY <2>3
      <4> QED  BY <3>1, <4>1
    <3> QED  BY <3>2, <3>3
  <2>6. [b EXCEPT !.position = Plus(@, shares),
                  !.entitlements[r].credited = @ + e.pending,
                  !.entitlements[r].pending = 0,
                  !.ledger = @ \cup {LedgerFact(r, "SHARES_LISTED", "", 0, 0, 0)},
                  !.adjustments = Append(@, Adjustment(r, "SHARES_LISTED", shares))]
        = [b EXCEPT !.position = p, !.entitlements[r] = after, !.ledger = facts,
                    !.adjustments = entries]
    <3>1. [b EXCEPT !.position = Plus(@, shares),
                    !.entitlements[r].credited = @ + e.pending,
                    !.entitlements[r].pending = 0,
                    !.ledger = @ \cup {LedgerFact(r, "SHARES_LISTED", "", 0, 0, 0)},
                    !.adjustments = Append(@, Adjustment(r, "SHARES_LISTED", shares))]
          = [b EXCEPT !.position = p, !.entitlements[r].credited = credited,
                      !.entitlements[r].pending = none, !.ledger = facts,
                      !.adjustments = entries]
      BY <1>e, <2>c, <2>1 DEF BooksType
    <3>2. after = [b.entitlements[r] EXCEPT !.credited = credited, !.pending = none]
      BY <1>e
    <3> HIDE DEF p, facts, entries, after
    <3>3. [b EXCEPT !.position = p, !.entitlements[r].credited = credited,
                    !.entitlements[r].pending = none, !.ledger = facts,
                    !.adjustments = entries]
          = [b EXCEPT !.position = p, !.entitlements[r] = after, !.ledger = facts,
                      !.adjustments = entries]
      BY <2>1, <3>2 DEF BooksType
    <3> QED  BY <3>1, <3>3
  <2> HIDE DEF p, after, facts, entries
  <2>7. [b EXCEPT !.position = p, !.entitlements[r] = after, !.ledger = facts,
                  !.adjustments = entries] = c
    <3> DEFINE q == [b EXCEPT !.position = p, !.entitlements[r] = after, !.ledger = facts,
                              !.adjustments = entries]
    <3>1. b \in BooksType /\ p \in Position /\ after \in Entitlement
          /\ facts \in SUBSET LedgerFacts /\ entries \in Seq(AdjustmentFacts)
      BY <2>1, <2>2, <2>4, <2>5
    <3>2. /\ q \in BooksType /\ q.account = b.account /\ q.position = p
          /\ q.actions = b.actions /\ q.ledger = facts /\ q.adjustments = entries
          /\ q.entitlements = [b.entitlements EXCEPT ![r] = after]
      BY <3>1 DEF BooksType
    <3>3. /\ c \in BooksType /\ c.account = b.account /\ c.position = p
          /\ c.actions = b.actions /\ c.ledger = facts /\ c.adjustments = entries
          /\ c.entitlements = [b.entitlements EXCEPT ![r] = after]
      BY <3>1 DEF BooksType, Booked
    <3> HIDE DEF q, c
    <3>4. q = c
      BY <3>2, <3>3, SameBooks
    <3> QED  BY <3>4 DEF q
  <2>8. MayBeBooked(b, b.account, p, b.actions[r], after, facts, entries)
    BY <1>e, <2>2, <2>4, <2>5, BooksMayBeBooked DEF MayBeBooked
  <2>9. c \in GoodFor(r)
    BY <2>8, BookedIsGood
  <2>10. Listed(b, r) = Completed(c, r)
    BY <1>e, <1>2, <2>s, <2>6, <2>7 DEF Listed
  <2> QED  BY <2>9, <2>10, CompletedIsGood
<1> QED  BY <1>1, <1>2

\* A claim on cash, with its fact.
LEMMA ClaimIsGood ==
    ASSUME day \in Nat, NEW r \in Revisions, NEW b \in GoodFor(r), NEW owed \in Int,
           NEW p \in Position, SharesAddUp(p), p.frozen = 0,
           NEW e \in Entitlement, e.quantity = b.entitlements[r].quantity,
           NEW facts \in SUBSET LedgerFacts, NEW delta \in AdjustmentFacts
    PROVE  /\ [b EXCEPT !.account.receivable = @ + owed, !.ledger = @ \cup facts]
                 \in GoodFor(r)
           /\ [b EXCEPT !.position = p, !.entitlements[r] = e, !.ledger = @ \cup facts,
                        !.adjustments = Append(@, delta)] \in GoodFor(r)
           /\ [b EXCEPT !.account.receivable = @ + owed, !.position = p,
                        !.entitlements[r] = e, !.ledger = @ \cup facts,
                        !.adjustments = Append(@, delta)] \in GoodFor(r)
           /\ [b EXCEPT !.account.receivable = @ + owed, !.position = p,
                        !.ledger = @ \cup facts, !.adjustments = Append(@, delta)]
                 \in GoodFor(r)
<1> PICK none \in Int : none = 0
  OBVIOUS
<1> DEFINE a == Moved(b.account, owed, none)
           more == b.ledger \cup facts
           entries == Append(b.adjustments, delta)
<1>1. b \in BooksType /\ CashAddsUp(b.account)
  BY DEF GoodFor, GoodBooks
<1>2. b.account \in Account /\ b.ledger \in SUBSET LedgerFacts
      /\ b.adjustments \in Seq(AdjustmentFacts)
  BY <1>1 DEF BooksType
<1>3. /\ a \in Account /\ CashAddsUp(a) /\ a.frozenCash = b.account.frozenCash
      /\ a.frozenCommission = b.account.frozenCommission
  BY <1>1, <1>2, MovedFields
<1>4. a = [b.account EXCEPT !.receivable = @ + owed]
  <2>1. PICK receivable \in Int : receivable = b.account.receivable + owed
    BY <1>2 DEF Account
  <2>2. b.account.cash + none = b.account.cash /\ b.account.available + none = b.account.available
    BY <1>2 DEF Account
  <2>3. a = [b.account EXCEPT !.receivable = receivable, !.cash = b.account.cash,
                              !.available = b.account.available]
    BY <2>1, <2>2 DEF Moved
  <2>4. [b.account EXCEPT !.receivable = receivable, !.cash = b.account.cash,
                          !.available = b.account.available]
        = [b.account EXCEPT !.receivable = receivable]
    BY <1>2 DEF Account
  <2> QED  BY <2>1, <2>3, <2>4
<1>5. more \in SUBSET LedgerFacts /\ entries \in Seq(AdjustmentFacts)
  BY <1>2
<1>6. /\ b.actions = [b.actions EXCEPT ![r] = b.actions[r]]
      /\ b.entitlements = [b.entitlements EXCEPT ![r] = b.entitlements[r]]
      /\ b.entitlements[r] \in Entitlement /\ b.position \in Position
  BY <1>1 DEF BooksType
<1> HIDE DEF a, more, entries
<1>7. ASSUME NEW q \in BooksType, NEW s \in {b.position, p},
             NEW f \in {b.entitlements[r], e}, NEW c \in {b.account, a},
             NEW j \in {b.adjustments, entries},
             q.account = c, q.position = s, q.actions = b.actions, q.ledger = more,
             q.entitlements = [b.entitlements EXCEPT ![r] = f], q.adjustments = j
      PROVE  q \in GoodFor(r)
  <2>1. MayBeBooked(b, c, s, b.actions[r], f, more, j)
    BY <1>3, <1>5, <1>7, BooksMayBeBooked DEF MayBeBooked
  <2> DEFINE d == Booked(b, r, c, s, b.actions[r], f, more, j)
  <2>2. d \in GoodFor(r)
    BY <2>1, BookedIsGood
  <2>3. d \in BooksType
    BY <2>2 DEF GoodFor, GoodBooks
  <2>4. /\ d.account = c /\ d.position = s /\ d.actions = b.actions /\ d.ledger = more
        /\ d.entitlements = [b.entitlements EXCEPT ![r] = f] /\ d.adjustments = j
    BY <1>6 DEF Booked
  <2> HIDE DEF d
  <2>5. q = d
    BY <1>7, <2>3, <2>4, SameBooks
  <2> QED  BY <2>2, <2>5
<1>8. [b EXCEPT !.account.receivable = @ + owed, !.ledger = @ \cup facts] \in GoodFor(r)
  <2> DEFINE q == [b EXCEPT !.account = a, !.ledger = more]
  <2>1. /\ q \in BooksType /\ q.account = a /\ q.position = b.position
        /\ q.actions = b.actions /\ q.ledger = more /\ q.adjustments = b.adjustments
        /\ q.entitlements = b.entitlements
    BY <1>1, <1>3, <1>5 DEF BooksType
  <2>2. q = [b EXCEPT !.account.receivable = @ + owed, !.ledger = @ \cup facts]
    BY <1>1, <1>4 DEF BooksType, more
  <2> HIDE DEF q
  <2>3. q \in GoodFor(r)
    BY <1>6, <1>7, <2>1
  <2> QED  BY <2>2, <2>3
<1>9. [b EXCEPT !.position = p, !.entitlements[r] = e, !.ledger = @ \cup facts,
                !.adjustments = Append(@, delta)] \in GoodFor(r)
  <2> DEFINE q == [b EXCEPT !.position = p, !.entitlements[r] = e, !.ledger = more,
                            !.adjustments = entries]
  <2>1. /\ q \in BooksType /\ q.account = b.account /\ q.position = p
        /\ q.actions = b.actions /\ q.ledger = more /\ q.adjustments = entries
        /\ q.entitlements = [b.entitlements EXCEPT ![r] = e]
    BY <1>1, <1>5 DEF BooksType
  <2>2. q = [b EXCEPT !.position = p, !.entitlements[r] = e, !.ledger = @ \cup facts,
                      !.adjustments = Append(@, delta)]
    BY <1>1 DEF BooksType, more, entries
  <2> HIDE DEF q
  <2>3. q \in GoodFor(r)
    BY <1>7, <2>1
  <2> QED  BY <2>2, <2>3
<1>10. [b EXCEPT !.account.receivable = @ + owed, !.position = p,
                 !.entitlements[r] = e, !.ledger = @ \cup facts,
                 !.adjustments = Append(@, delta)] \in GoodFor(r)
  <2> DEFINE q == [b EXCEPT !.account = a, !.position = p, !.entitlements[r] = e,
                            !.ledger = more, !.adjustments = entries]
  <2>1. /\ q \in BooksType /\ q.account = a /\ q.position = p
        /\ q.actions = b.actions /\ q.ledger = more /\ q.adjustments = entries
        /\ q.entitlements = [b.entitlements EXCEPT ![r] = e]
    BY <1>1, <1>3, <1>5 DEF BooksType
  <2>2. q = [b EXCEPT !.account.receivable = @ + owed, !.position = p,
                      !.entitlements[r] = e, !.ledger = @ \cup facts,
                      !.adjustments = Append(@, delta)]
    BY <1>1, <1>4 DEF BooksType, more, entries
  <2> HIDE DEF q
  <2>3. q \in GoodFor(r)
    BY <1>7, <2>1
  <2> QED  BY <2>2, <2>3
<1>11. [b EXCEPT !.account.receivable = @ + owed, !.position = p,
                 !.ledger = @ \cup facts, !.adjustments = Append(@, delta)] \in GoodFor(r)
  <2> DEFINE q == [b EXCEPT !.account = a, !.position = p, !.ledger = more,
                            !.adjustments = entries]
  <2>1. /\ q \in BooksType /\ q.account = a /\ q.position = p
        /\ q.actions = b.actions /\ q.ledger = more /\ q.adjustments = entries
        /\ q.entitlements = b.entitlements
    BY <1>1, <1>3, <1>5 DEF BooksType
  <2>2. q = [b EXCEPT !.account.receivable = @ + owed, !.position = p,
                      !.ledger = @ \cup facts, !.adjustments = Append(@, delta)]
    BY <1>1, <1>4 DEF BooksType, more, entries
  <2> HIDE DEF q
  <2>3. q \in GoodFor(r)
    BY <1>6, <1>7, <2>1
  <2> QED  BY <2>2, <2>3
<1> QED  BY <1>8, <1>9, <1>10, <1>11

LEMMA MaturedIsGood ==
    ASSUME product \in Products, day \in Nat, NEW r \in Revisions, NEW b \in GoodFor(r)
    PROVE  Matured(b, r) \in GoodFor(r)
<1> DEFINE rest == [EmptyPosition EXCEPT !.pending = b.position.pending]
           owed == b.entitlements[r].cash
           fact == LedgerFact(r, "BOND_PRINCIPAL_RECEIVABLE", "", 0, owed, 0)
           delta == Adjustment(r, "BOND_MATURITY_RETIRED", Minus(rest, b.position))
           matured == [b EXCEPT !.account.receivable = @ + owed, !.position = rest,
                                !.ledger = @ \cup {fact}, !.adjustments = Append(@, delta)]
<1>1. /\ b.position \in Position /\ b.entitlements[r] \in Entitlement
      /\ b.position.pending \in Int /\ owed \in Int
  <2>1. b.position \in Position /\ b.entitlements[r] \in Entitlement
    BY BooksMayBeBooked
  <2> QED  BY <2>1 DEF Position, Entitlement
<1>2. rest \in Position /\ SharesAddUp(rest) /\ rest.frozen = 0
  BY <1>1, NoShares
<1> HIDE DEF rest
<1>3. Minus(rest, b.position) \in Position
  BY <1>1, <1>2, MinusType
<1>4. /\ "BOND_PRINCIPAL_RECEIVABLE" \in Entries /\ "BOND_MATURITY_RETIRED" \in Entries
  BY DEF Entries
<1>5. delta \in AdjustmentFacts
  BY <1>3, <1>4, FactTypes
<1>6. {fact} \in SUBSET LedgerFacts
  <2> HIDE DEF owed
  <2> PICK none \in Int : none = 0
    OBVIOUS
  <2>1. LedgerFact(r, "BOND_PRINCIPAL_RECEIVABLE", "", none, owed, none) \in LedgerFacts
    BY <1>1, <1>4, FactTypes
  <2> QED  BY <2>1
<1> DEFINE facts == {fact}
<1> HIDE DEF delta, owed, facts
<1>7. [b EXCEPT !.account.receivable = @ + owed, !.position = rest,
                !.ledger = @ \cup facts, !.adjustments = Append(@, delta)] \in GoodFor(r)
  <2>1. facts \in SUBSET LedgerFacts
    BY <1>6 DEF facts
  <2> QED  BY <1>1, <1>2, <1>5, <2>1, ClaimIsGood
<1>8. matured \in GoodFor(r)
  BY <1>7 DEF facts
<1>9. CASE ~Entitled(b, r) \/ Posted(b, r, "BOND_PRINCIPAL_RECEIVABLE", "")
  BY <1>9, CompletedIsGood DEF Matured
<1>10. CASE ~(~Entitled(b, r) \/ Posted(b, r, "BOND_PRINCIPAL_RECEIVABLE", ""))
  <2>1. Matured(b, r) = Completed(matured, r)
    BY <1>10 DEF Matured, rest, owed, delta
  <2> HIDE DEF matured
  <2> QED  BY <1>8, <2>1, CompletedIsGood
<1> QED  BY <1>9, <1>10

LEMMA IncomeIsGood ==
    ASSUME day \in Nat, NEW r \in Revisions, NEW b \in GoodFor(r)
    PROVE  LET e == b.entitlements[r] IN
           [b EXCEPT !.account.receivable = @ + e.cash,
              !.ledger = @ \cup {LedgerFact(r, "RECEIVABLE_CREATED", "", 0, e.cash, e.cash)}]
              \in GoodFor(r)
<1> PICK e \in Entitlement, p \in Position : e = b.entitlements[r] /\ p = b.position
  BY BooksMayBeBooked
<1>1. PICK owed \in Int, none \in Int : owed = e.cash /\ none = 0
  BY DEF Entitlement
<1> DEFINE facts == {LedgerFact(r, "RECEIVABLE_CREATED", "", none, owed, owed)}
           delta == Adjustment(r, "SHARES_PENDING", p)
<1>2. facts \in SUBSET LedgerFacts /\ delta \in AdjustmentFacts
  BY FactTypes DEF Entries
<1>3. SharesAddUp(p) /\ p.frozen = 0
  BY DEF GoodFor, GoodBooks
<1> HIDE DEF facts, delta
<1>4. [b EXCEPT !.account.receivable = @ + owed, !.ledger = @ \cup facts] \in GoodFor(r)
  BY <1>2, <1>3, ClaimIsGood
<1> QED  BY <1>1, <1>4 DEF facts

LEMMA DividendIsGood ==
    ASSUME day \in Nat, NEW r \in Revisions, NEW b \in GoodFor(r)
    PROVE  LET e == b.entitlements[r] IN
           [b EXCEPT !.position.pending = @ + e.shares,
              !.entitlements[r].pending = @ + e.shares,
              !.ledger = @ \cup {LedgerFact(r, "SHARES_PENDING", "", 0, 0, 0)},
              !.adjustments = Append(@, Adjustment(r, "SHARES_PENDING",
                                           [EmptyPosition EXCEPT !.pending = e.shares]))]
              \in GoodFor(r)
<1>e. PICK e \in Entitlement, p \in Position : e = b.entitlements[r] /\ p = b.position
  BY BooksMayBeBooked
<1>1. PICK shares \in Int, owed \in Int, none \in Int, held \in Int, pending \in Int :
         /\ shares = e.shares /\ none = 0 /\ owed = 0
         /\ held = p.pending + shares /\ pending = e.pending + shares
  BY DEF Entitlement, Position
<1> DEFINE q == [p EXCEPT !.pending = held]
           f == [e EXCEPT !.pending = pending]
           facts == {LedgerFact(r, "SHARES_PENDING", "", none, none, none)}
           added == [EmptyPosition EXCEPT !.pending = shares]
           delta == Adjustment(r, "SHARES_PENDING", added)
           changed == [b EXCEPT !.position = q, !.entitlements[r] = f,
                                !.ledger = @ \cup facts, !.adjustments = Append(@, delta)]
<1>2. SharesAddUp(p) /\ p.frozen = 0 /\ b \in BooksType
  BY <1>e DEF GoodFor, GoodBooks
<1>3. q \in Position /\ SharesAddUp(q) /\ q.frozen = 0
  BY <1>2, PendingKeepsShares
<1>4. f \in Entitlement /\ f.quantity = b.entitlements[r].quantity
  BY <1>e DEF Entitlement
<1>5. added \in Position
  BY NoShares
<1> HIDE DEF added
<1>6. facts \in SUBSET LedgerFacts /\ delta \in AdjustmentFacts
  <2>1. "SHARES_PENDING" \in Entries
    BY DEF Entries
  <2> QED  BY <1>5, <2>1, FactTypes
<1>7. changed
      = [b EXCEPT !.position.pending = @ + shares,
           !.entitlements[r].pending = @ + shares,
           !.ledger = @ \cup facts, !.adjustments = Append(@, delta)]
  <2>1. b.position.pending + shares = held /\ b.entitlements[r].pending + shares = pending
    BY <1>e, <1>1
  <2> HIDE DEF facts, delta
  <2>2. q = [b.position EXCEPT !.pending = held]
    BY <1>e
  <2>3. f = [b.entitlements[r] EXCEPT !.pending = pending]
    BY <1>e
  <2> HIDE DEF q, f
  <2> QED  BY <1>2, <2>1, <2>2, <2>3 DEF BooksType
<1> HIDE DEF q, f, facts, delta
<1>8. changed \in GoodFor(r)
  BY <1>2, <1>3, <1>4, <1>6, <1>1, ClaimIsGood
<1> HIDE DEF changed
<1> QED  BY <1>e, <1>1, <1>7, <1>8 DEF facts, delta, added

LEMMA SplitIsGood ==
    ASSUME product \in Products, product.kind \in SplitKinds, day \in Nat,
           NEW r \in Revisions, NEW b \in GoodFor(r)
    PROVE  LET p == b.position
               split == SplitPosition(p)
               lost == p.total * T.ratio - split.total * T.base
               lieu == RoundedQuotient(lost * T.lieu, T.base)
           IN  [b EXCEPT !.position = split,
                  !.entitlements[r].lieu = IF lost # 0 THEN lieu ELSE @,
                  !.account.receivable = @ + lieu,
                  !.ledger = @ \cup {LedgerFact(r, product.kind, "", 0, 0, 0)}
                       \cup IF lost = 0 THEN {}
                            ELSE {LedgerFact(r, "CASH_IN_LIEU", "", 0, lieu, 0)},
                  !.adjustments = Append(@, Adjustment(r, product.kind, Minus(split, p)))]
               \in GoodFor(r)
<1>e. PICK e \in Entitlement, p \in Position : e = b.entitlements[r] /\ p = b.position
  BY BooksMayBeBooked
<1>1. SharesAddUp(p) /\ p.frozen = 0 /\ b \in BooksType
  BY <1>e DEF GoodFor, GoodBooks
<1>2. PICK split \in Position : split = SplitPosition(p) /\ SharesAddUp(split)
                                /\ split.frozen = 0
  BY <1>1, SplitKeepsShares
<1>3. PICK lost \in Int, lieu \in Int :
         /\ lost = p.total * T.ratio - split.total * T.base
         /\ lieu = RoundedQuotient(lost * T.lieu, T.base)
  <2>1. /\ p.total \in Int /\ split.total \in Int /\ T.ratio \in Int /\ T.base \in Int
        /\ T.lieu \in Int
    BY TermsType DEF Position
  <2>2. PICK held \in Int, kept \in Int :
           held = p.total * T.ratio /\ kept = split.total * T.base
    BY <2>1
  <2>3. PICK n \in Int : n = (held - kept) * T.lieu
    BY <2>1
  <2>4. RoundedQuotient(n, T.base) \in Int
    BY <2>1, RoundedQuotientType
  <2> QED  BY <2>2, <2>3, <2>4
<1>4. PICK left \in Int, none \in Int : left = (IF lost # 0 THEN lieu ELSE e.lieu) /\ none = 0
  BY DEF Entitlement
<1> DEFINE f == [e EXCEPT !.lieu = left]
           facts == {LedgerFact(r, product.kind, "", none, none, none)}
                    \cup IF lost = 0 THEN {}
                         ELSE {LedgerFact(r, "CASH_IN_LIEU", "", none, lieu, none)}
           delta == Adjustment(r, product.kind, Minus(split, p))
           changed == [b EXCEPT !.account.receivable = @ + lieu, !.position = split,
                         !.entitlements[r] = f, !.ledger = @ \cup facts,
                         !.adjustments = Append(@, delta)]
<1>5. f \in Entitlement /\ f.quantity = b.entitlements[r].quantity
  BY <1>e DEF Entitlement
<1>6. facts \in SUBSET LedgerFacts /\ delta \in AdjustmentFacts
  <2>1. product.kind \in Entries /\ "CASH_IN_LIEU" \in Entries
    BY DEF Entries, Kinds, SplitKinds
  <2>2. /\ LedgerFact(r, product.kind, "", none, none, none) \in LedgerFacts
        /\ LedgerFact(r, "CASH_IN_LIEU", "", none, lieu, none) \in LedgerFacts
    BY <2>1, FactTypes
  <2>3. delta \in AdjustmentFacts
    BY <2>1, MinusType, FactTypes
  <2> QED  BY <2>2, <2>3
<1>7. changed
      = [b EXCEPT !.position = split,
           !.entitlements[r].lieu = IF lost # 0 THEN lieu ELSE @,
           !.account.receivable = @ + lieu, !.ledger = @ \cup facts,
           !.adjustments = Append(@, delta)]
  <2>1. (IF lost # 0 THEN lieu ELSE b.entitlements[r].lieu) = left
    BY <1>e, <1>4
  <2> HIDE DEF facts, delta
  <2>2. f = [b.entitlements[r] EXCEPT !.lieu = left]
    BY <1>e
  <2> HIDE DEF f
  <2> QED  BY <1>1, <2>1, <2>2 DEF BooksType
<1> HIDE DEF f, facts, delta
<1>8. changed \in GoodFor(r)
  BY <1>2, <1>5, <1>6, ClaimIsGood
<1>9. [b EXCEPT !.position = split,
           !.entitlements[r].lieu = IF lost # 0 THEN lieu ELSE @,
           !.account.receivable = @ + lieu,
           !.ledger = @ \cup {LedgerFact(r, product.kind, "", 0, 0, 0)}
                \cup IF lost = 0 THEN {}
                     ELSE {LedgerFact(r, "CASH_IN_LIEU", "", 0, lieu, 0)},
           !.adjustments = Append(@, Adjustment(r, product.kind, Minus(split, p)))]
      \in GoodFor(r)
  <2>1. b.ledger \cup {LedgerFact(r, product.kind, "", 0, 0, 0)}
             \cup (IF lost = 0 THEN {} ELSE {LedgerFact(r, "CASH_IN_LIEU", "", 0, lieu, 0)})
        = b.ledger \cup facts
    BY <1>4 DEF facts
  <2> HIDE DEF changed
  <2> QED  BY <1>7, <1>8, <2>1 DEF delta
<1> QED  BY <1>e, <1>2, <1>3, <1>9

LEMMA ExAppliedIsGood ==
    ASSUME product \in Products, day \in Nat, NEW r \in Revisions, NEW b \in GoodFor(r)
    PROVE  ExApplied(b, r) \in GoodFor(r)
<1>1. CASE product.kind \in IncomeKinds /\ ~Posted(b, r, "RECEIVABLE_CREATED", "")
  BY <1>1, IncomeIsGood DEF ExApplied, IncomeKinds, SplitKinds
<1>2. CASE product.kind = "STOCK_DIVIDEND" /\ ~Posted(b, r, "SHARES_PENDING", "")
  BY <1>2, DividendIsGood DEF ExApplied, IncomeKinds, SplitKinds
<1>3. CASE product.kind \in SplitKinds /\ ~Posted(b, r, product.kind, "")
  BY <1>3, SplitIsGood DEF ExApplied, IncomeKinds, SplitKinds
<1>4. CASE /\ ~(product.kind \in IncomeKinds /\ ~Posted(b, r, "RECEIVABLE_CREATED", ""))
           /\ ~(product.kind = "STOCK_DIVIDEND" /\ ~Posted(b, r, "SHARES_PENDING", ""))
           /\ ~(product.kind \in SplitKinds /\ ~Posted(b, r, product.kind, ""))
  BY <1>4 DEF ExApplied
<1> QED  BY <1>1, <1>2, <1>3, <1>4

LEMMA ExDateIsGood ==
    ASSUME product \in Products, day \in Nat, NEW r \in Revisions, NEW b \in GoodFor(r)
    PROVE  ExDate(b, r) \in GoodFor(r)
<1> PICK applied \in GoodFor(r) : applied = IF Entitled(b, r) THEN ExApplied(b, r) ELSE b
  BY ExAppliedIsGood
<1> PICK status : status = "PROCESSING"
  OBVIOUS
<1> DEFINE c == Booked(applied, r, applied.account, applied.position, status,
                       applied.entitlements[r], applied.ledger, applied.adjustments)
<1>1. MayBeBooked(applied, applied.account, applied.position, status,
                  applied.entitlements[r], applied.ledger, applied.adjustments)
  BY BooksMayBeBooked
  DEF MayBeBooked, LiveStatuses, ExecutedStatuses, ProcessableStatuses
<1>2. c \in GoodFor(r)
  BY <1>1, BookedIsGood
<1>3. [applied EXCEPT !.actions[r] = status] = c
  <2>1. applied \in BooksType
    BY DEF GoodFor, GoodBooks
  <2>2. applied.entitlements = [applied.entitlements EXCEPT ![r] = applied.entitlements[r]]
    BY <2>1 DEF BooksType
  <2> QED  BY <2>1, <2>2 DEF BooksType, Booked
<1> HIDE DEF c
<1>4. ExDate(b, r) = Completed(c, r)
  BY <1>3 DEF ExDate
<1> QED  BY <1>2, <1>4, CompletedIsGood

LEMMA PerformedIsGood ==
    ASSUME product \in Products, day \in Nat, NEW r \in Revisions, NEW b \in GoodFor(r), NEW step
    PROVE  Perform(b, r, step) \in GoodFor(r)
<1>1. /\ Captured(b, r) \in GoodFor(r) /\ ExDate(b, r) \in GoodFor(r)
      /\ Matured(b, r) \in GoodFor(r) /\ Paid(b, r) \in GoodFor(r)
      /\ Listed(b, r) \in GoodFor(r) /\ Completed(b, r) \in GoodFor(r)
  BY CapturedIsGood, ExDateIsGood, MaturedIsGood, PaidIsGood, ListedIsGood, CompletedIsGood
<1> QED  BY <1>1 DEF Perform

\* The steps that are due, one after the other.
StepsOf(b, r) ==
    FoldLeft(LAMBDA c, step : IF Due(c, r, step) THEN Perform(c, r, step) ELSE c,
             b, ActionSteps)

\* Books that no operation on a live revision leads out of, nor a review.
KeptByActions(K) ==
    /\ K \subseteq GoodBooks
    /\ \A r \in Revisions : \A b \in K :
          /\ b.actions[r] \in LiveStatuses =>
                \A i \in DOMAIN ActionSteps : Perform(b, r, ActionSteps[i]) \in K
          /\ b.actions[r] = "CONFIRMED" =>
                [b EXCEPT !.actions[r] = "MANUAL_REVIEW_REQUIRED"] \in K

\* The books go through the steps of a live revision one after the other.
StepOn(b, r, step) == IF Due(b, r, step) THEN Perform(b, r, step) ELSE b

LEMMA StepsRun ==
    ASSUME product \in Products, day \in Nat, NEW K, KeptByActions(K),
           NEW r \in Revisions, NEW b \in K, b.actions[r] \in LiveStatuses
    PROVE  \E v : /\ v[0] = b /\ v[6] = StepsOf(b, r)
                  /\ \A k \in 0 .. 6 : v[k] \in K /\ v[k].actions[r] \in LiveStatuses
                  /\ \A k \in 1 .. 6 : v[k] = StepOn(v[k - 1], r, ActionSteps[k])
<1> DEFINE L == {q \in K : q.actions[r] \in LiveStatuses}
           Step(q, i) == StepOn(q, r, ActionSteps[i])
           Body(g) == [s \in SUBSET (DOMAIN ActionSteps) |->
                          IF s = {} THEN b ELSE Step(g[s \ {Max(s)}], Max(s))]
<1>1. StepsOf(b, r) = (CHOOSE g : g = Body(g))[DOMAIN ActionSteps]
  BY DEF StepsOf, StepOn, FoldLeft, MapThenFoldSet
<1>n. PICK n \in Nat : n = 6 /\ DOMAIN ActionSteps = 1 .. n
  BY DEF ActionSteps
<1>2. ASSUME NEW i \in 1 .. n, NEW q \in L PROVE Step(q, i) \in L
  <2>1. q \in GoodFor(r)
    BY DEF KeptByActions, GoodFor
  <2>2. Perform(q, r, ActionSteps[i]) \in GoodFor(r)
    BY <2>1, PerformedIsGood
  <2>3. Perform(q, r, ActionSteps[i]) \in K
    BY <1>n DEF KeptByActions
  <2> QED  BY <2>2, <2>3 DEF GoodFor, StepOn
<1>b. b \in L
  OBVIOUS
<1> HIDE DEF Step, L
<1>F. PICK F : F = [i \in 1 .. n |-> [q \in L |-> Step(q, i)]]
  OBVIOUS
<1>3. \A i \in 1 .. n : \A q \in L : F[i][q] = Step(q, i)
  BY <1>F
<1>4. \A s \in SUBSET (1 .. n) : s # {} => Max(s) \in 1 .. n /\ s \ {Max(s)} \in SUBSET (1 .. n)
  BY MaxBelongs
<1>c. n \in Nat /\ b \in L /\ ClosedBy(F, n, L)
  BY <1>2, <1>3, <1>b DEF ClosedBy
<1>5. PICK g : IsFold(g, F, b, n, L)
  BY ONLY <1>c, FoldExists
<1>6. \A s \in SUBSET (1 .. n) :
         g[s] = IF s = {} THEN b ELSE Step(g[s \ {Max(s)}], Max(s))
  BY <1>3, <1>4, <1>5 DEF FoldStep, IsFold
<1>7. g = Body(g)
  BY <1>n, <1>5, <1>6 DEF IsFold
<1> HIDE DEF Body
<1>8. PICK iter : iter = Body(iter) /\ StepsOf(b, r) = iter[1 .. n]
  BY <1>1, <1>n, <1>7
<1>9. iter[{}] = b /\ \A s \in SUBSET (1 .. n) : s # {} =>
         iter[s] = Step(iter[s \ {Max(s)}], Max(s))
  BY <1>n, <1>8 DEF Body
<1>10. Iterates(iter, F, b, n, L)
  BY <1>3, <1>4, <1>9 DEF Iterates
<1>11. PICK v : IsRun(v, F, b, n, L) /\ v[n] = iter[1 .. n]
  BY ONLY <1>c, <1>10, FoldRuns
<1>12. v[0] = b /\ v[6] = StepsOf(b, r) /\ \A k \in 0 .. 6 : v[k] \in L
  BY <1>n, <1>8, <1>11 DEF IsRun
<1>13. ASSUME NEW k \in 1 .. 6 PROVE v[k] = Step(v[k - 1], k)
  <2>1. k - 1 \in 0 .. 6 /\ k \in 1 .. n
    BY <1>n
  <2>2. v[k] = F[k][v[k - 1]]
    BY <1>11, <2>1 DEF IsRun
  <2> QED  BY <1>3, <1>12, <2>1, <2>2
<1> QED  BY <1>12, <1>13 DEF L, Step

LEMMA StepsAreKept ==
    ASSUME product \in Products, day \in Nat, NEW K, KeptByActions(K),
           NEW r \in Revisions, NEW b \in K, b.actions[r] \in LiveStatuses
    PROVE  StepsOf(b, r) \in K
<1>1. PICK v : v[6] = StepsOf(b, r) /\ \A k \in 0 .. 6 : v[k] \in K
  BY StepsRun
<1> QED  BY <1>1

LEMMA RevisionIsKept ==
    ASSUME product \in Products, day \in Nat, NEW K, KeptByActions(K),
           NEW r \in Revisions, NEW b \in K
    PROVE  RunRevision(b, r) \in K
<1>0. RunRevision(b, r) =
        CASE b.actions[r] \notin UnexecutedStatuses \cup ProcessableStatuses -> b
          [] b.actions[r] = "CONFIRMED" /\ Dates.record < day ->
               [b EXCEPT !.actions[r] = "MANUAL_REVIEW_REQUIRED"]
          [] OTHER -> StepsOf(b, r)
  BY DEF RunRevision, StepsOf
<1>1. CASE b.actions[r] \notin UnexecutedStatuses \cup ProcessableStatuses
  <2>1. RunRevision(b, r) = b
    <3>1. b.actions[r] = "CONFIRMED" => b.actions[r] \in UnexecutedStatuses
      BY DEF UnexecutedStatuses
    <3> QED  BY <1>0, <1>1, <3>1
  <2> QED  BY <2>1
<1>2. CASE /\ b.actions[r] \in UnexecutedStatuses \cup ProcessableStatuses
           /\ b.actions[r] = "CONFIRMED" /\ Dates.record < day
  BY <1>0, <1>2 DEF KeptByActions
<1>3. CASE /\ b.actions[r] \in UnexecutedStatuses \cup ProcessableStatuses
           /\ ~(b.actions[r] = "CONFIRMED" /\ Dates.record < day)
  <2>1. b.actions[r] \in LiveStatuses
    BY <1>3 DEF LiveStatuses, ExecutedStatuses
  <2>2. RunRevision(b, r) = StepsOf(b, r)
    BY <1>0, <1>3
  <2> QED  BY <2>1, <2>2, StepsAreKept
<1> QED  BY <1>1, <1>2, <1>3

\* All revisions, in the order of their numbers.
RunOf(b) == FoldLeft(RunRevision, b, [r \in Revisions |-> r])

LEMMA RevisionsRun ==
    ASSUME product \in Products, day \in Nat, NEW K, KeptByActions(K), NEW b \in K
    PROVE  \E v : /\ v[0] = b /\ v[RevisionCount] = RunOf(b)
                  /\ \A k \in 0 .. RevisionCount : v[k] \in K
                  /\ \A k \in Revisions : v[k] = RunRevision(v[k - 1], k)
<1> DEFINE revisions == [r \in Revisions |-> r]
           Step(q, i) == RunRevision(q, revisions[i])
           Body(g) == [s \in SUBSET (DOMAIN revisions) |->
                          IF s = {} THEN b ELSE Step(g[s \ {Max(s)}], Max(s))]
<1>1. RunOf(b) = (CHOOSE g : g = Body(g))[DOMAIN revisions]
  BY DEF RunOf, FoldLeft, MapThenFoldSet
<1>n. PICK n \in Nat : n = RevisionCount /\ DOMAIN revisions = 1 .. n
  BY ActionAssumption DEF Revisions
<1>r. \A i \in 1 .. n : i \in Revisions /\ \A q : Step(q, i) = RunRevision(q, i)
  BY <1>n DEF Revisions
<1>2. ASSUME NEW i \in 1 .. n, NEW q \in K PROVE Step(q, i) \in K
  BY <1>r, RevisionIsKept
<1> HIDE DEF Step
<1>F. PICK F : F = [i \in 1 .. n |-> [q \in K |-> Step(q, i)]]
  OBVIOUS
<1>3. \A i \in 1 .. n : \A q \in K : F[i][q] = Step(q, i)
  BY <1>F
<1>4. \A s \in SUBSET (1 .. n) : s # {} => Max(s) \in 1 .. n /\ s \ {Max(s)} \in SUBSET (1 .. n)
  BY MaxBelongs
<1>c. n \in Nat /\ b \in K /\ ClosedBy(F, n, K)
  BY <1>2, <1>3 DEF ClosedBy
<1>5. PICK g : IsFold(g, F, b, n, K)
  BY ONLY <1>c, FoldExists
<1>6. \A s \in SUBSET (1 .. n) :
         g[s] = IF s = {} THEN b ELSE Step(g[s \ {Max(s)}], Max(s))
  BY <1>3, <1>4, <1>5 DEF FoldStep, IsFold
<1>7. g = Body(g)
  BY <1>n, <1>5, <1>6 DEF IsFold
<1> HIDE DEF Body
<1>8. PICK iter : iter = Body(iter) /\ RunOf(b) = iter[1 .. n]
  BY <1>1, <1>n, <1>7
<1>9. iter[{}] = b /\ \A s \in SUBSET (1 .. n) : s # {} =>
         iter[s] = Step(iter[s \ {Max(s)}], Max(s))
  BY <1>n, <1>8 DEF Body
<1>10. Iterates(iter, F, b, n, K)
  BY <1>3, <1>4, <1>9 DEF Iterates
<1>11. PICK v : IsRun(v, F, b, n, K) /\ v[n] = iter[1 .. n]
  BY ONLY <1>c, <1>10, FoldRuns
<1>12. v[0] = b /\ v[n] = RunOf(b) /\ \A k \in 0 .. n : v[k] \in K
  BY <1>n, <1>8, <1>11 DEF IsRun
<1>13. ASSUME NEW k \in 1 .. n PROVE v[k] = RunRevision(v[k - 1], k)
  <2>1. k - 1 \in 0 .. n
    BY <1>n
  <2>2. v[k] = F[k][v[k - 1]]
    BY <1>11 DEF IsRun
  <2> QED  BY <1>3, <1>r, <1>12, <2>1, <2>2
<1>14. Revisions = 1 .. n
  BY <1>n DEF Revisions
<1> QED  BY <1>n, <1>12, <1>13, <1>14

LEMMA RunIsKept ==
    ASSUME product \in Products, day \in Nat, NEW K, KeptByActions(K), NEW b \in K
    PROVE  RunOf(b) \in K
<1>1. PICK v : v[RevisionCount] = RunOf(b) /\ \A k \in 0 .. RevisionCount : v[k] \in K
  BY RevisionsRun
<1>2. RevisionCount \in 0 .. RevisionCount
  BY ActionAssumption
<1> QED  BY <1>1, <1>2

\* A revision that is put aside for a review.
Reviewed(b, r) == [b EXCEPT !.actions[r] = "MANUAL_REVIEW_REQUIRED"]

LEMMA ReviewedIsGood ==
    ASSUME NEW r \in Revisions, NEW b \in GoodBooks, b.actions[r] = "CONFIRMED"
    PROVE  /\ Reviewed(b, r) \in GoodBooks
           /\ Reviewed(b, r).account = b.account /\ Reviewed(b, r).position = b.position
           /\ Reviewed(b, r).entitlements = b.entitlements /\ Reviewed(b, r).ledger = b.ledger
           /\ Reviewed(b, r).adjustments = b.adjustments
           /\ \A q \in Revisions \ {r} : Reviewed(b, r).actions[q] = b.actions[q]
<1>s. PICK status : status = "MANUAL_REVIEW_REQUIRED"
  OBVIOUS
<1> DEFINE c == [b EXCEPT !.actions[r] = status]
<1>1. b \in BooksType /\ OneIsLive(b) /\ status \in ActionStatuses
  BY <1>s DEF GoodBooks, ActionStatuses
<1>2. /\ c \in BooksType /\ c.account = b.account /\ c.position = b.position
      /\ c.entitlements = b.entitlements /\ c.actions = [b.actions EXCEPT ![r] = status]
      /\ c.ledger = b.ledger /\ c.adjustments = b.adjustments
  BY <1>1 DEF BooksType
<1>3. c = Reviewed(b, r)
  BY <1>s DEF Reviewed
<1> HIDE DEF c
<1>4. c.actions[r] = status /\ \A q \in Revisions \ {r} : c.actions[q] = b.actions[q]
  BY <1>1, <1>2 DEF BooksType
<1>5. status \notin LiveStatuses /\ "CONFIRMED" \notin ExecutedStatuses
  BY <1>s DEF LiveStatuses, UnexecutedStatuses, ExecutedStatuses, ProcessableStatuses
<1>6. OneIsLive(c)
  BY <1>1, <1>2, <1>4, <1>5 DEF OneIsLive, Entitled
<1>7. c \in GoodBooks
  BY <1>2, <1>6 DEF GoodBooks
<1> QED  BY <1>2, <1>3, <1>4, <1>7

LEMMA RunIsGood ==
    ASSUME product \in Products, day \in Nat, NEW b \in GoodBooks
    PROVE  RunOf(b) \in GoodBooks
<1>1. KeptByActions(GoodBooks)
  <2>1. ASSUME NEW r \in Revisions, NEW c \in GoodBooks, c.actions[r] \in LiveStatuses, NEW step
        PROVE  Perform(c, r, step) \in GoodBooks
    BY <2>1, PerformedIsGood DEF GoodFor
  <2>2. ASSUME NEW r \in Revisions, NEW c \in GoodBooks, c.actions[r] = "CONFIRMED"
        PROVE  [c EXCEPT !.actions[r] = "MANUAL_REVIEW_REQUIRED"] \in GoodBooks
    BY <2>2, ReviewedIsGood DEF Reviewed
  <2> HIDE DEF GoodBooks
  <2> QED  BY <2>1, <2>2 DEF KeptByActions
<1> QED  BY <1>1, RunIsKept

-----------------------------------------------------------------------------
(* What the actions on orders do.                                          *)

\* One row is written, and what it holds changes by as much as what is frozen.
OrderWritten(book, a, p, o, row, c, q) ==
    /\ row \in Row /\ RowHolds(row)
    /\ c.frozenCash = a.frozenCash + (row.frozenCash - book[o].frozenCash)
    /\ c.frozenCommission =
          a.frozenCommission + (row.frozenCommission - book[o].frozenCommission)
    /\ q.frozen = p.frozen + (row.frozenVolume - book[o].frozenVolume)

LEMMA WrittenOrdersHold ==
    ASSUME NEW book, NEW a, NEW p, OrdersHold(book, a, p), NEW o \in Orders,
           NEW row, NEW c, NEW q, OrderWritten(book, a, p, o, row, c, q)
    PROVE  OrdersHold([book EXCEPT ![o] = row], c, q)
<1> DEFINE now == [book EXCEPT ![o] = row]
<1>1. /\ book \in [Orders -> Row] /\ row \in Row /\ IsFiniteSet(Orders)
  BY RequestAssumption DEF OrdersHold, OrderWritten
<1>2. /\ now \in [Orders -> Row] /\ now[o] = row
      /\ \A x \in Orders \ {o} : now[x] = book[x]
  BY <1>1
<1> HIDE DEF now
<1>3. \A x \in Orders : RowHolds(now[x])
  BY <1>2 DEF OrdersHold, OrderWritten
<1>4. \A x \in Row : /\ x.frozenCash \in Int /\ x.frozenCommission \in Int
                     /\ x.frozenVolume \in Int
  BY DEF Row
<1>5. c.frozenCash = OverOrders([x \in Orders |-> now[x].frozenCash])
  <2> DEFINE f == [x \in Orders |-> book[x].frozenCash]
             g == [x \in Orders |-> now[x].frozenCash]
             d == row.frozenCash - book[o].frozenCash
  <2>1. /\ d \in Int /\ \A x \in Orders : f[x] \in Int
        /\ \A x \in Orders \ {o} : g[x] = f[x]
        /\ g[o] = f[o] + d
    BY <1>1, <1>2, <1>4
  <2> HIDE DEF f, g, d
  <2>2. SumFunctionOnSet(g, Orders) = SumFunctionOnSet(f, Orders) + d
    BY <1>1, <2>1, SumChanges
  <2> QED  BY <2>2 DEF OverOrders, OrdersHold, OrderWritten, f, g, d
<1>6. c.frozenCommission = OverOrders([x \in Orders |-> now[x].frozenCommission])
  <2> DEFINE f == [x \in Orders |-> book[x].frozenCommission]
             g == [x \in Orders |-> now[x].frozenCommission]
             d == row.frozenCommission - book[o].frozenCommission
  <2>1. /\ d \in Int /\ \A x \in Orders : f[x] \in Int
        /\ \A x \in Orders \ {o} : g[x] = f[x]
        /\ g[o] = f[o] + d
    BY <1>1, <1>2, <1>4
  <2> HIDE DEF f, g, d
  <2>2. SumFunctionOnSet(g, Orders) = SumFunctionOnSet(f, Orders) + d
    BY <1>1, <2>1, SumChanges
  <2> QED  BY <2>2 DEF OverOrders, OrdersHold, OrderWritten, f, g, d
<1>7. q.frozen = OverOrders([x \in Orders |-> now[x].frozenVolume])
  <2> DEFINE f == [x \in Orders |-> book[x].frozenVolume]
             g == [x \in Orders |-> now[x].frozenVolume]
             d == row.frozenVolume - book[o].frozenVolume
  <2>1. /\ d \in Int /\ \A x \in Orders : f[x] \in Int
        /\ \A x \in Orders \ {o} : g[x] = f[x]
        /\ g[o] = f[o] + d
    BY <1>1, <1>2, <1>4
  <2> HIDE DEF f, g, d
  <2>2. SumFunctionOnSet(g, Orders) = SumFunctionOnSet(f, Orders) + d
    BY <1>1, <2>1, SumChanges
  <2> QED  BY <2>2 DEF OverOrders, OrdersHold, OrderWritten, f, g, d
<1> QED  BY <1>2, <1>3, <1>5, <1>6, <1>7 DEF OrdersHold, now

\* Nothing is frozen when no order is active.
LEMMA NothingFrozen ==
    ASSUME OrdersInv, NoActiveOrder
    PROVE  account.frozenCash = 0 /\ account.frozenCommission = 0 /\ position.frozen = 0
<1> DEFINE cash == [o \in Orders |-> orders[o].frozenCash]
           commission == [o \in Orders |-> orders[o].frozenCommission]
           volume == [o \in Orders |-> orders[o].frozenVolume]
<1>1. \A o \in Orders : cash[o] = 0 /\ commission[o] = 0 /\ volume[o] = 0
  BY DEF OrdersInv, OrdersHold, NoActiveOrder, RowHolds
<1>2. IsFiniteSet(Orders)
  BY RequestAssumption
<1> HIDE DEF cash, commission, volume
<1>3. /\ SumFunctionOnSet(cash, Orders) = 0 /\ SumFunctionOnSet(commission, Orders) = 0
      /\ SumFunctionOnSet(volume, Orders) = 0
  BY <1>1, <1>2, SumOfNothing
<1> QED  BY <1>3 DEF OrdersInv, OrdersHold, OverOrders, cash, commission, volume

\* The books after a step that leaves the actions alone.
LEMMA BooksHoldNext ==
    ASSUME BooksInv, NEW a \in Account, CashAddsUp(a), NEW p \in Position, SharesAddUp(p),
           product' = product, account' = a, position' = p, UNCHANGED corporate
    PROVE  BooksInv'
<1>1. /\ actions \in [Revisions -> ActionStatuses]
      /\ entitlements \in [Revisions -> Entitlement]
      /\ ledger \in SUBSET LedgerFacts /\ adjustments \in Seq(AdjustmentFacts)
  BY DEF BooksInv, BooksType, Books
<1>2. UNCHANGED <<actions, entitlements, ledger, adjustments>>
  BY DEF corporate
<1>3. (Books \in BooksType)'
  BY <1>1, <1>2 DEF Books, BooksType
<1>4. OneIsLive(Books)'
  BY <1>2 DEF BooksInv, OneIsLive, Books, Entitled
<1>5. CashAddsUp(account)' /\ SharesAddUp(position)'
  BY DEF CashAddsUp, SharesAddUp, Sellable
<1> QED  BY <1>3, <1>4, <1>5 DEF BooksInv

\* What the order's money goes through.
LEMMA FrozenFields ==
    ASSUME NEW a \in Account, CashAddsUp(a), NEW money \in Int, NEW fee \in Int
    PROVE  /\ Frozen(a, money, fee) \in Account /\ CashAddsUp(Frozen(a, money, fee))
           /\ Frozen(a, money, fee).frozenCash = a.frozenCash + money
           /\ Frozen(a, money, fee).frozenCommission = a.frozenCommission + fee
           /\ Frozen(a, money, fee).cash = a.cash
<1> PICK available \in Int, frozenCash \in Int, frozenCommission \in Int :
       /\ available = a.available - money - fee /\ frozenCash = a.frozenCash + money
       /\ frozenCommission = a.frozenCommission + fee
  BY DEF Account
<1> DEFINE c == [a EXCEPT !.available = available, !.frozenCash = frozenCash,
                          !.frozenCommission = frozenCommission]
<1>1. /\ c \in Account /\ c.cash = a.cash /\ c.available = available
      /\ c.frozenCash = frozenCash /\ c.frozenCommission = frozenCommission
  BY DEF Account
<1>2. c = Frozen(a, money, fee)
  BY DEF Account, Frozen
<1> HIDE DEF c
<1>3. CashAddsUp(c)
  BY <1>1 DEF CashAddsUp, Account
<1> QED  BY <1>1, <1>2, <1>3

LEMMA FeeDueType ==
    ASSUME NEW turnover \in Int PROVE FeeDue(turnover) \in Int
<1>1. FeeRate * turnover \in Int /\ MinimumFee \in Int
  BY FeeAssumption
<1> QED  BY <1>1 DEF FeeDue, Larger

LEMMA FillFeeType ==
    ASSUME NEW o \in Orders, orders[o] \in Row, NEW turnover \in Int
    PROVE  FillFee(o, turnover) \in Int
<1>1. orders[o].turnover \in Int /\ orders[o].charged \in Int
  BY DEF Row
<1>2. PICK n \in Int : n = orders[o].turnover + turnover
  BY <1>1
<1>3. FeeDue(turnover) \in Int /\ FeeDue(n) \in Int
  BY FeeDueType
<1> QED  BY <1>1, <1>2, <1>3 DEF FillFee

\* Shares are promised to an order, or come back from it.
Promised(p, volume) == WithAvailable([p EXCEPT !.frozen = @ + volume])

LEMMA PromisedFields ==
    ASSUME NEW p \in Position, SharesAddUp(p), NEW volume \in Int, volume <= p.available,
           product \in Products
    PROVE  /\ Promised(p, volume) \in Position /\ SharesAddUp(Promised(p, volume))
           /\ Promised(p, volume).frozen = p.frozen + volume
<1>1. PICK frozen \in Int : frozen = p.frozen + volume
  BY DEF Position
<1> DEFINE q == [p EXCEPT !.frozen = frozen]
<1>2. /\ q \in Position /\ q.total = p.total /\ q.today = p.today
      /\ q.yesterday = p.yesterday /\ q.frozen = frozen /\ q.locked = p.locked
  BY DEF Position
<1>3. Promised(p, volume) = WithAvailable(q)
  BY <1>1 DEF Promised
<1> HIDE DEF q
<1>4. /\ p.total \in Int /\ p.today \in Int /\ p.yesterday \in Int /\ p.frozen \in Int
      /\ p.locked \in Int
  BY DEF Position
<1>5. frozen <= Sellable(q)
  BY <1>1, <1>2, <1>4 DEF SharesAddUp, Sellable
<1>6. SharesAddUp(WithAvailable(q))
  BY <1>2, <1>4, <1>5, WithAvailableFields DEF SharesAddUp, Sellable
<1> QED  BY <1>1, <1>2, <1>3, <1>6, WithAvailableFields

\* A step on one order of a trading day.
OrderStep(o, row, a, p) ==
    /\ orders' = [orders EXCEPT ![o] = row]
    /\ account' = a /\ position' = p
    /\ a \in Account /\ CashAddsUp(a)
    /\ p \in Position /\ SharesAddUp(p)
    /\ OrderWritten(orders, account, position, o, row, a, p)
    /\ UNCHANGED <<fixed, day, phase, corporate>>

LEMMA OrderStepKeeps ==
    ASSUME CashInv, NEW o \in Orders, NEW row, NEW a, NEW p, OrderStep(o, row, a, p),
           phase = "trading", trades' \in Seq(TradeFacts)
    PROVE  CashInv'
<1>1. OrdersHold([orders EXCEPT ![o] = row], a, p)
  BY WrittenOrdersHold DEF CashInv, OrdersInv, OrderStep
<1>2. OrdersHold(orders', account', position')
  BY <1>1 DEF OrderStep
<1>3. OrdersInv'
  BY <1>2 DEF OrdersInv, OrdersHold, RowHolds, OverOrders
<1>4. product' = product /\ day' = day /\ phase' = phase
  BY DEF OrderStep, fixed
<1>5. DayInv'
  BY <1>4 DEF CashInv, DayInv
<1>6. BooksInv'
  BY <1>4, BooksHoldNext DEF CashInv, OrderStep
<1> QED  BY <1>3, <1>5, <1>6 DEF CashInv

LEMMA RowTypes ==
    ASSUME CashInv, NEW o \in Orders
    PROVE  /\ orders \in [Orders -> Row] /\ orders[o] \in Row /\ RowHolds(orders[o])
           /\ account \in Account /\ CashAddsUp(account)
           /\ position \in Position /\ SharesAddUp(position)
           /\ trades \in Seq(TradeFacts) /\ product \in Products /\ day \in Nat
<1>1. account \in Account /\ position \in Position
  BY DEF CashInv, BooksInv, Books, BooksType
<1> QED  BY <1>1 DEF CashInv, OrdersInv, OrdersHold, BooksInv, DayInv

\* The row of a request that was accepted.
AcceptedRow(direction, limit, volume) ==
    [NoOrder EXCEPT !.status = "ACCEPTED", !.direction = direction, !.limit = limit,
       !.total = volume, !.remaining = volume]

LEMMA AcceptedRowFields ==
    ASSUME NEW direction \in {"BUY", "SELL"}, NEW limit \in Nat, NEW volume \in Nat
    PROVE  /\ AcceptedRow(direction, limit, volume) \in Row
           /\ AcceptedRow(direction, limit, volume).status = "ACCEPTED"
           /\ AcceptedRow(direction, limit, volume).direction = direction
           /\ AcceptedRow(direction, limit, volume).remaining = volume
           /\ AcceptedRow(direction, limit, volume).frozenCash = 0
           /\ AcceptedRow(direction, limit, volume).frozenCommission = 0
           /\ AcceptedRow(direction, limit, volume).frozenVolume = 0
<1>1. /\ NoOrder \in Row /\ NoOrder.frozenCash = 0 /\ NoOrder.frozenCommission = 0
      /\ NoOrder.frozenVolume = 0
  BY DEF NoOrder, Row, OrderStatuses
<1> QED  BY <1>1 DEF AcceptedRow, Row, OrderStatuses, ActiveStatuses

LEMMA SubmitKeeps ==
    ASSUME CashInv, NEW o \in Orders, NEW direction \in {"BUY", "SELL"},
           NEW limit \in LimitPrices, NEW volume \in Volumes,
           Submit(o, direction, limit, volume)
    PROVE  CashInv'
<1>1. PICK money \in Int, fee \in Int : money = limit * volume /\ fee = FeeDue(money)
  <2>1. PICK money \in Int : money = limit * volume
    BY RequestAssumption
  <2> QED  BY <2>1, FeeDueType
<1>2. /\ limit \in Nat /\ volume \in Nat /\ volume > 0
  BY RequestAssumption
<1>3. /\ orders[o].status = "NONE" /\ phase = "trading"
      /\ UNCHANGED <<fixed, day, phase, trades, corporate>>
  BY DEF Submit
<1>4. /\ orders[o].frozenCash = 0 /\ orders[o].frozenCommission = 0
      /\ orders[o].frozenVolume = 0
  BY <1>3, RowTypes DEF RowHolds, ActiveStatuses
<1>5. CASE direction = "BUY"
  <2> DEFINE fresh == AcceptedRow(direction, limit, volume)
             row == [fresh EXCEPT !.frozenCash = money, !.frozenCommission = fee]
             a == Frozen(account, money, fee)
  <2>1. /\ orders' = [orders EXCEPT ![o] = row] /\ account' = a /\ position' = position
    BY <1>1, <1>5 DEF Submit, AcceptedRow
  <2>2. /\ fresh \in Row /\ fresh.frozenVolume = 0 /\ fresh.direction = "BUY"
        /\ fresh.status = "ACCEPTED"
    BY <1>2, <1>5, AcceptedRowFields
  <2> HIDE DEF fresh
  <2>3. /\ row \in Row /\ row.frozenCash = money /\ row.frozenCommission = fee
        /\ row.frozenVolume = 0 /\ row.direction = "BUY" /\ row.status = "ACCEPTED"
    BY <2>2 DEF Row
  <2> HIDE DEF row, a
  <2>4. RowHolds(row)
    BY <2>3 DEF RowHolds, ActiveStatuses
  <2>5. /\ a \in Account /\ CashAddsUp(a) /\ a.frozenCash = account.frozenCash + money
        /\ a.frozenCommission = account.frozenCommission + fee
    BY RowTypes, FrozenFields DEF a
  <2>6. OrderWritten(orders, account, position, o, row, a, position)
    <3>1. position.frozen \in Int
      BY RowTypes DEF Position
    <3> QED  BY <1>4, <2>3, <2>4, <2>5, <3>1 DEF OrderWritten
  <2>7. OrderStep(o, row, a, position)
    BY <1>3, <2>1, <2>5, <2>6, RowTypes DEF OrderStep
  <2> QED  BY <1>3, <2>7, OrderStepKeeps, RowTypes
<1>6. CASE direction = "SELL"
  <2> DEFINE fresh == AcceptedRow(direction, limit, volume)
             row == [fresh EXCEPT !.frozenVolume = volume]
             p == Promised(position, volume)
  <2>1. /\ orders' = [orders EXCEPT ![o] = row] /\ account' = account /\ position' = p
        /\ volume <= position.available
    BY <1>6 DEF Submit, MayPromise, Promised, AcceptedRow
  <2>2. /\ fresh \in Row /\ fresh.frozenCash = 0 /\ fresh.frozenCommission = 0
        /\ fresh.remaining = volume /\ fresh.direction = "SELL"
        /\ fresh.status = "ACCEPTED"
    BY <1>2, <1>6, AcceptedRowFields
  <2> HIDE DEF fresh
  <2>3. /\ row \in Row /\ row.frozenCash = 0 /\ row.frozenCommission = 0
        /\ row.frozenVolume = volume /\ row.remaining = volume
        /\ row.direction = "SELL" /\ row.status = "ACCEPTED"
    BY <1>2, <2>2 DEF Row
  <2> HIDE DEF row, p
  <2>4. RowHolds(row)
    BY <2>3 DEF RowHolds, ActiveStatuses
  <2>5. p \in Position /\ SharesAddUp(p) /\ p.frozen = position.frozen + volume
    BY <1>2, <2>1, RowTypes, PromisedFields DEF p
  <2>6. OrderWritten(orders, account, position, o, row, account, p)
    <3>1. account.frozenCash \in Int /\ account.frozenCommission \in Int
      BY RowTypes DEF Account
    <3> QED  BY <1>2, <1>4, <2>3, <2>4, <2>5, <3>1 DEF OrderWritten
  <2>7. OrderStep(o, row, account, p)
    BY <1>3, <2>1, <2>5, <2>6, RowTypes DEF OrderStep
  <2> QED  BY <1>3, <2>7, OrderStepKeeps, RowTypes
<1> QED  BY <1>5, <1>6

LEMMA CancelKeeps ==
    ASSUME CashInv, NEW o \in Orders, Cancel(o)
    PROVE  CashInv'
<1>1. PICK row \in Row : row = orders[o] /\ RowHolds(row)
  BY RowTypes
<1>2. /\ row.status \in ActiveStatuses /\ phase = "trading"
      /\ (row.direction = "SELL" => row.frozenVolume = row.remaining)
      /\ UNCHANGED <<fixed, day, phase, trades, corporate>>
  BY <1>1 DEF Cancel, CashInv, DayInv, NoActiveOrder
<1>3. PICK cash \in Int, fee \in Int, shares \in Int :
         /\ cash = -row.frozenCash /\ fee = -row.frozenCommission
         /\ shares = -row.frozenVolume
  BY DEF Row
<1>4. PICK cancelled \in Int, left \in Nat, none \in Int,
           status \in {"CANCELLED", "PARTIALLY_CANCELLED"} :
         /\ cancelled = row.cancelled + row.remaining /\ left = 0 /\ none = 0
         /\ status = IF row.traded = 0 THEN "CANCELLED" ELSE "PARTIALLY_CANCELLED"
  BY DEF Row
<1> DEFINE after == [row EXCEPT !.cancelled = cancelled, !.remaining = left,
                       !.frozenCash = none, !.frozenCommission = none,
                       !.frozenVolume = none, !.status = status]
           a == Frozen(account, cash, fee)
           p == IF row.direction = "SELL" THEN Promised(position, shares) ELSE position
<1>5. orders' = [orders EXCEPT ![o] = after] /\ account' = a /\ position' = p
  <2>1. orders' = [orders EXCEPT ![o] = after]
    BY <1>1, <1>4 DEF Cancel
  <2>2. account' = a
    BY <1>1, <1>3 DEF Cancel, Released
  <2>3. position.frozen - row.frozenVolume = position.frozen + shares
    BY <1>3, RowTypes DEF Position, Row
  <2>4. position' = p
    BY <1>1, <2>3 DEF Cancel, Promised
  <2> QED  BY <2>1, <2>2, <2>4
<1>6. /\ after \in Row /\ after.status = status /\ after.direction = row.direction
      /\ after.frozenCash = 0 /\ after.frozenCommission = 0 /\ after.frozenVolume = 0
  <2>1. status \in OrderStatuses
    BY DEF OrderStatuses
  <2>2. /\ after \in Row /\ after.status = status /\ after.direction = row.direction
        /\ after.frozenCash = none /\ after.frozenCommission = none
        /\ after.frozenVolume = none
    BY <2>1 DEF Row
  <2> QED  BY <1>4, <2>2
<1> HIDE DEF after
<1>7. RowHolds(after)
  BY <1>6 DEF RowHolds, ActiveStatuses
<1>8. /\ a \in Account /\ CashAddsUp(a) /\ a.frozenCash = account.frozenCash + cash
      /\ a.frozenCommission = account.frozenCommission + fee
  BY RowTypes, FrozenFields
<1>9. p \in Position /\ SharesAddUp(p) /\ p.frozen = position.frozen + shares
  <2>1. CASE row.direction = "SELL"
    <3>1. shares <= position.available
      <4>1. /\ position.today \in Int /\ position.yesterday \in Int
            /\ position.frozen \in Int /\ row.remaining \in Nat
        BY RowTypes DEF Position, Row
      <4>2. position.available >= 0
        BY <4>1, RowTypes DEF SharesAddUp, Sellable
      <4>3. position.available \in Int
        BY RowTypes DEF Position
      <4> QED  BY <1>2, <1>3, <2>1, <4>1, <4>2, <4>3
    <3> QED  BY <2>1, <3>1, RowTypes, PromisedFields
  <2>2. CASE row.direction # "SELL"
    <3>1. row.direction = "BUY"
      BY <2>2 DEF Row
    <3>2. shares = 0
      BY <1>1, <1>3, <3>1 DEF RowHolds
    <3>3. position.frozen \in Int
      BY RowTypes DEF Position
    <3> QED  BY <2>2, <3>2, <3>3, RowTypes
  <2> QED  BY <2>1, <2>2
<1> HIDE DEF a, p
<1>10. OrderWritten(orders, account, position, o, after, a, p)
  <2>1. row.frozenCash \in Int /\ row.frozenCommission \in Int /\ row.frozenVolume \in Int
    BY DEF Row
  <2>2. /\ account.frozenCash \in Int /\ account.frozenCommission \in Int
        /\ position.frozen \in Int
    BY RowTypes DEF Account, Position
  <2> QED  BY <1>1, <1>3, <1>6, <1>7, <1>8, <1>9, <2>1, <2>2 DEF OrderWritten
<1>11. OrderStep(o, after, a, p)
  BY <1>2, <1>5, <1>8, <1>9, <1>10 DEF OrderStep
<1> QED  BY <1>2, <1>11, OrderStepKeeps, RowTypes

\* The row after a fill of no more than remains.
LEMMA FilledRowFields ==
    ASSUME NEW row \in Row, RowHolds(row), row.status \in ActiveStatuses,
           NEW volume \in Nat, volume <= row.remaining, NEW turnover \in Int, NEW fee \in Int
    PROVE  LET after == FilledRow(row, volume, turnover, fee) IN
           /\ after \in Row /\ RowHolds(after)
           /\ row.direction = "SELL" =>
                 /\ after.frozenCash = row.frozenCash
                 /\ after.frozenCommission = row.frozenCommission
                 /\ after.frozenVolume = row.frozenVolume - volume
           /\ row.direction = "BUY" => after.frozenVolume = row.frozenVolume
<1> DEFINE after == FilledRow(row, volume, turnover, fee)
           buys == row.direction = "BUY"
<1>t. /\ row.remaining \in Nat /\ row.limit \in Nat /\ row.traded \in Int
      /\ row.turnover \in Int /\ row.charged \in Int /\ row.frozenCommission \in Int
      /\ row.frozenVolume \in Int /\ row.frozenCash \in Int
      /\ row.direction \in {"BUY", "SELL"}
  BY DEF Row
<1>1. PICK left \in Nat, traded \in Int, sum \in Int, charged \in Int :
         /\ left = row.remaining - volume /\ traded = row.traded + volume
         /\ sum = row.turnover + turnover /\ charged = row.charged + fee
  BY <1>t
<1>2. PICK status \in {"FILLED", "PARTIALLY_FILLED"} :
         status = IF left = 0 THEN "FILLED" ELSE "PARTIALLY_FILLED"
  OBVIOUS
<1>3. PICK cash \in Int : cash = (IF buys THEN row.limit * left ELSE 0)
                          /\ (left = 0 => cash = 0)
  <2>1. row.limit * left \in Int /\ (left = 0 => row.limit * left = 0)
    BY <1>t
  <2> QED  BY <2>1
<1>4. PICK commission \in Int :
         commission = IF ~buys \/ left = 0 THEN 0 ELSE Larger(0, row.frozenCommission - fee)
  BY <1>t DEF Larger
<1>5. PICK shares \in Int : shares = IF buys THEN 0 ELSE row.frozenVolume - volume
  BY <1>t
<1> DEFINE now == [row EXCEPT !.traded = traded, !.remaining = left, !.turnover = sum,
                     !.charged = charged, !.status = status, !.frozenCash = cash,
                     !.frozenCommission = commission, !.frozenVolume = shares]
<1>6. after = now
  <2>1. row.remaining - volume = left
    BY <1>1
  <2> QED  BY <1>1, <1>2, <1>3, <1>4, <1>5, <2>1 DEF FilledRow
<1>7. /\ now \in Row /\ now.direction = row.direction /\ now.remaining = left
      /\ now.status = status /\ now.frozenCash = cash /\ now.frozenCommission = commission
      /\ now.frozenVolume = shares
  BY DEF Row, OrderStatuses, ActiveStatuses
<1> HIDE DEF now
<1>8. RowHolds(now)
  <2>1. CASE buys
    <3>1. shares = 0 /\ row.direction # "SELL"
      BY <1>5, <2>1
    <3>2. status \notin ActiveStatuses => left = 0
      BY <1>2 DEF ActiveStatuses
    <3>3. left = 0 => cash = 0 /\ commission = 0
      BY <1>3, <1>4
    <3> QED  BY <1>7, <3>1, <3>2, <3>3 DEF RowHolds
  <2>2. CASE ~buys
    <3>1. row.direction = "SELL" /\ cash = 0 /\ commission = 0
      BY <1>t, <1>3, <1>4, <2>2
    <3>2. shares = left
      BY <1>t, <1>1, <1>5, <2>2, <3>1 DEF RowHolds
    <3>3. status \notin ActiveStatuses => left = 0
      BY <1>2 DEF ActiveStatuses
    <3> QED  BY <1>7, <3>1, <3>2, <3>3 DEF RowHolds
  <2> QED  BY <2>1, <2>2
<1>9. row.direction = "SELL" => /\ now.frozenCash = row.frozenCash
                                /\ now.frozenCommission = row.frozenCommission
                                /\ now.frozenVolume = row.frozenVolume - volume
  BY <1>3, <1>4, <1>5, <1>7 DEF RowHolds
<1>10. buys => now.frozenVolume = row.frozenVolume
  BY <1>5, <1>7 DEF RowHolds
<1> HIDE DEF after
<1>11. /\ after \in Row /\ RowHolds(after)
       /\ row.direction = "SELL" => /\ after.frozenCash = row.frozenCash
                                    /\ after.frozenCommission = row.frozenCommission
                                    /\ after.frozenVolume = row.frozenVolume - volume
       /\ row.direction = "BUY" => after.frozenVolume = row.frozenVolume
  BY <1>6, <1>7, <1>8, <1>9, <1>10
<1> QED  BY <1>11 DEF after

\* The shares of a purchase and of a sale.
LEMMA BoughtKeepsShares ==
    ASSUME product \in Products, NEW p \in Position, SharesAddUp(p), NEW volume \in Nat,
           NEW turnover \in Int
    PROVE  /\ Bought(p, volume, turnover) \in Position
           /\ SharesAddUp(Bought(p, volume, turnover))
           /\ Bought(p, volume, turnover).frozen = p.frozen
<1>q. PICK q : q = Bought(p, volume, turnover)
              /\ IsBought(product.settlementDays, p, volume, turnover, q)
  BY BoughtFields
<1>1. /\ q \in Position /\ q.total = p.total + volume /\ q.today = p.today + volume
      /\ q.yesterday = p.yesterday /\ q.frozen = p.frozen
      /\ q.locked = p.locked + (IF product.settlementDays = 1 THEN volume ELSE 0)
      /\ q.available = q.total - q.frozen - q.locked
  BY <1>q DEF IsBought
<1>2. /\ p.total \in Int /\ p.today \in Int /\ p.yesterday \in Int /\ p.frozen \in Int
      /\ p.locked \in Int
  BY DEF Position
<1>3. SharesAddUp(q)
  <2>1. CASE product.settlementDays = 1
    BY <1>1, <1>2, <2>1 DEF SharesAddUp, Sellable
  <2>2. CASE product.settlementDays # 1
    BY <1>1, <1>2, <2>2 DEF SharesAddUp, Sellable
  <2> QED  BY <2>1, <2>2
<1> QED  BY <1>q, <1>1, <1>3

LEMMA SoldKeepsShares ==
    ASSUME product \in Products, NEW p \in Position, SharesAddUp(p), NEW volume \in Nat,
           p.frozen >= volume, MaySell(p, volume),
           NEW left \in Position, left = [p EXCEPT !.frozen = @ - volume]
    PROVE  /\ Sold(left, volume) \in Position /\ SharesAddUp(Sold(left, volume))
           /\ Sold(left, volume).frozen = p.frozen - volume
<1>1. /\ left.total = p.total /\ left.today = p.today /\ left.yesterday = p.yesterday
      /\ left.frozen = p.frozen - volume /\ left.locked = p.locked
  BY DEF Position
<1>2. /\ p.total \in Int /\ p.today \in Int /\ p.yesterday \in Int /\ p.frozen \in Int
      /\ p.locked \in Int
  BY DEF Position
<1>3. PICK earlier \in Int : earlier = FromYesterday(product.settlementDays, left, volume)
  BY <1>1, <1>2 DEF FromYesterday, Smaller
<1>4. /\ earlier <= p.yesterday /\ volume - earlier <= p.today /\ volume - earlier >= 0
      /\ product.settlementDays = 1 => earlier = volume
  BY <1>1, <1>2, <1>3 DEF FromYesterday, Smaller, MaySell, SharesAddUp
<1>q. PICK q : q = Sold(left, volume) /\ IsSold(product.settlementDays, left, volume, q)
  BY SoldFields
<1>5. /\ q \in Position
      /\ q.total = p.total - volume /\ q.yesterday = p.yesterday - earlier
      /\ q.today = p.today - (volume - earlier) /\ q.frozen = p.frozen - volume
      /\ q.locked = p.locked /\ q.available = q.total - q.frozen - q.locked
  BY <1>1, <1>3, <1>q DEF IsSold
<1>6. SharesAddUp(q)
  <2>1. CASE product.settlementDays = 1
    BY <1>2, <1>4, <1>5, <2>1 DEF SharesAddUp, Sellable
  <2>2. CASE product.settlementDays # 1
    BY <1>2, <1>4, <1>5, <2>2 DEF SharesAddUp, Sellable
  <2> QED  BY <2>1, <2>2
<1> QED  BY <1>q, <1>5, <1>6

\* What a fill pays or brings.
PaidIn(a, money) == [a EXCEPT !.available = @ + money, !.cash = @ + money]

LEMMA PaidInFields ==
    ASSUME NEW a \in Account, CashAddsUp(a), NEW money \in Int
    PROVE  /\ PaidIn(a, money) \in Account /\ CashAddsUp(PaidIn(a, money))
           /\ PaidIn(a, money).frozenCash = a.frozenCash
           /\ PaidIn(a, money).frozenCommission = a.frozenCommission
<1> PICK available \in Int, cash \in Int :
       available = a.available + money /\ cash = a.cash + money
  BY DEF Account
<1> DEFINE c == [a EXCEPT !.available = available, !.cash = cash]
<1>1. /\ c \in Account /\ c.cash = cash /\ c.available = available
      /\ c.frozenCash = a.frozenCash /\ c.frozenCommission = a.frozenCommission
  BY DEF Account
<1>2. c = PaidIn(a, money)
  BY DEF Account, PaidIn
<1> HIDE DEF c
<1>3. CashAddsUp(c)
  BY <1>1 DEF CashAddsUp, Account
<1> QED  BY <1>1, <1>2, <1>3

LEMMA TradeFactType ==
    ASSUME CashInv, NEW o \in Orders, NEW t \in Ticks, NEW volume \in Int,
           NEW turnover \in Int, NEW fee \in Int, NEW cost \in Int
    PROVE  Append(trades, TradeFact(o, t, volume, turnover, fee, cost)) \in Seq(TradeFacts)
<1>1. PICK fact : fact = TradeFact(o, t, volume, turnover, fee, cost)
  OBVIOUS
<1>2. orders[o].direction \in {"BUY", "SELL"} /\ day \in Nat
  BY RowTypes DEF Row
<1>3. fact \in TradeFacts
  BY <1>1, <1>2 DEF TradeFact, TradeFacts
<1>4. trades \in Seq(TradeFacts)
  BY RowTypes
<1>5. Append(trades, fact) \in Seq(TradeFacts)
  BY <1>3, <1>4
<1> QED  BY <1>1, <1>5

LEMMA FillBuyKeeps ==
    ASSUME CashInv, NEW o \in Orders, NEW t \in Ticks, FillBuy(o, t),
           orders[o].status \in ActiveStatuses, UNCHANGED <<fixed, day, phase, corporate>>
    PROVE  CashInv'
<1>1. PICK row \in Row : row = orders[o] /\ RowHolds(row) /\ row.direction = "BUY"
  BY RowTypes DEF FillBuy
<1>2. PICK volume \in Nat : volume = Smaller(row.remaining, Quote[t].askVolume)
                            /\ volume <= row.remaining
  BY RequestAssumption DEF Smaller, Row
<1>3. PICK turnover \in Int : turnover = Quote[t].ask * volume
  BY RequestAssumption
<1>4. PICK fee \in Int : fee = FillFee(o, turnover)
  BY <1>1, FillFeeType
<1>5. PICK after \in Row :
         /\ after = FilledRow(row, volume, turnover, fee) /\ RowHolds(after)
         /\ after.frozenVolume = row.frozenVolume
  BY <1>1, <1>2, FilledRowFields
<1>t. /\ row.frozenCash \in Int /\ row.frozenCommission \in Int
      /\ after.frozenCash \in Int /\ after.frozenCommission \in Int
  BY DEF Row
<1>c. PICK cash \in Int : cash = -row.frozenCash
  BY <1>t
<1>m. PICK commission \in Int : commission = -row.frozenCommission
  BY <1>t
<1>f. PICK more \in Int, extra \in Int : more = after.frozenCash /\ extra = after.frozenCommission
  BY <1>t
<1>p. PICK cost \in Int : cost = -(turnover + fee)
  <2>1. turnover + fee \in Int
    OBVIOUS
  <2> QED  BY <2>1
<1>6. /\ cash = -row.frozenCash /\ commission = -row.frozenCommission
      /\ more = after.frozenCash /\ extra = after.frozenCommission
      /\ cost = -(turnover + fee)
  BY <1>c, <1>m, <1>f, <1>p
<1>7. PICK b \in Account : /\ b = Frozen(account, cash, commission) /\ CashAddsUp(b)
                           /\ b.frozenCash = account.frozenCash + cash
                           /\ b.frozenCommission = account.frozenCommission + commission
  BY RowTypes, FrozenFields
<1>8. PICK c \in Account : /\ c = Frozen(b, more, extra) /\ CashAddsUp(c)
                           /\ c.frozenCash = b.frozenCash + more
                           /\ c.frozenCommission = b.frozenCommission + extra
  BY <1>7, FrozenFields
<1>9. PICK a \in Account : /\ a = PaidIn(c, cost) /\ CashAddsUp(a)
                           /\ a.frozenCash = c.frozenCash
                           /\ a.frozenCommission = c.frozenCommission
  BY <1>8, PaidInFields
<1>10. PICK p \in Position : /\ p = Bought(position, volume, turnover) /\ SharesAddUp(p)
                             /\ p.frozen = position.frozen
  BY RowTypes, BoughtKeepsShares
<1>11. /\ orders' = [orders EXCEPT ![o] = after] /\ position' = p
       /\ trades' = Append(trades, TradeFact(o, t, volume, turnover, fee, 0))
  BY <1>1, <1>2, <1>3, <1>4, <1>5, <1>10 DEF FillBuy
<1>12. account' = a
  <2>1. c.available - turnover - fee = c.available + cost /\ c.cash - turnover - fee = c.cash + cost
    BY <1>6 DEF Account
  <2>2. c = Frozen(Released(account, row.frozenCash, row.frozenCommission),
                   after.frozenCash, after.frozenCommission)
    BY <1>6, <1>7, <1>8 DEF Released
  <2>3. account' = [c EXCEPT !.available = c.available - turnover - fee,
                             !.cash = c.cash - turnover - fee]
    BY <1>1, <1>2, <1>3, <1>4, <1>5, <2>2 DEF FillBuy
  <2> QED  BY <1>9, <2>1, <2>3 DEF PaidIn, Account
<1>13. OrderWritten(orders, account, position, o, after, a, p)
  <2>1. /\ row.frozenCash \in Int /\ row.frozenCommission \in Int /\ row.frozenVolume \in Int
        /\ account.frozenCash \in Int /\ account.frozenCommission \in Int
        /\ position.frozen \in Int
    BY RowTypes DEF Account, Position, Row
  <2>2. a.frozenCash = account.frozenCash + (after.frozenCash - row.frozenCash)
    BY <1>6, <1>7, <1>8, <1>9, <2>1
  <2>3. a.frozenCommission =
           account.frozenCommission + (after.frozenCommission - row.frozenCommission)
    BY <1>6, <1>7, <1>8, <1>9, <2>1
  <2>4. p.frozen = position.frozen + (after.frozenVolume - row.frozenVolume)
    BY <1>5, <1>10, <2>1
  <2> QED  BY <1>1, <1>5, <2>2, <2>3, <2>4 DEF OrderWritten
<1>14. OrderStep(o, after, a, p)
  BY <1>9, <1>10, <1>11, <1>12, <1>13 DEF OrderStep
<1>15. phase = "trading"
  BY DEF CashInv, DayInv, NoActiveOrder
<1>16. trades' \in Seq(TradeFacts)
  BY <1>11, TradeFactType
<1> QED  BY <1>14, <1>15, <1>16, OrderStepKeeps

LEMMA FillSellKeeps ==
    ASSUME CashInv, NEW o \in Orders, NEW t \in Ticks, FillSell(o, t),
           orders[o].status \in ActiveStatuses, UNCHANGED <<fixed, day, phase, corporate>>
    PROVE  CashInv'
<1>1. PICK row \in Row : row = orders[o] /\ RowHolds(row) /\ row.direction = "SELL"
  BY RowTypes DEF FillSell
<1>2. PICK volume \in Nat : volume = Smaller(row.remaining, Quote[t].bidVolume)
                            /\ volume <= row.remaining
  BY RequestAssumption DEF Smaller, Row
<1>3. PICK turnover \in Int : turnover = Quote[t].bid * volume
  BY RequestAssumption
<1>4. PICK fee \in Int : fee = FillFee(o, turnover)
  BY <1>1, FillFeeType
<1>5. PICK after \in Row :
         /\ after = FilledRow(row, volume, turnover, fee) /\ RowHolds(after)
         /\ after.frozenCash = row.frozenCash
         /\ after.frozenCommission = row.frozenCommission
         /\ after.frozenVolume = row.frozenVolume - volume
  BY <1>1, <1>2, FilledRowFields
<1>6. PICK gain \in Int : gain = turnover - fee
  OBVIOUS
<1>7. PICK a \in Account : /\ a = PaidIn(account, gain) /\ CashAddsUp(a)
                           /\ a.frozenCash = account.frozenCash
                           /\ a.frozenCommission = account.frozenCommission
  BY RowTypes, PaidInFields
<1>8. PICK left \in Position : left = [position EXCEPT !.frozen = @ - volume]
  <2>1. PICK frozen \in Int : frozen = position.frozen - volume
    BY RowTypes DEF Position
  <2>2. [position EXCEPT !.frozen = frozen] \in Position
    BY RowTypes DEF Position
  <2> QED  BY <2>1, <2>2
<1>9. PICK p \in Position : /\ p = Sold(left, volume) /\ SharesAddUp(p)
                            /\ p.frozen = position.frozen - volume
  <2>1. position.frozen >= volume /\ MaySell(position, volume)
    BY <1>1, <1>2 DEF FillSell
  <2>2. product \in Products /\ position \in Position /\ SharesAddUp(position)
    BY RowTypes
  <2> QED  BY ONLY <1>8, <2>1, <2>2, SoldKeepsShares
<1>10. CostOf(position, volume) \in Int
  BY RowTypes, CostOfType
<1>11. /\ orders' = [orders EXCEPT ![o] = after] /\ position' = p
       /\ trades' = Append(trades, TradeFact(o, t, volume, turnover, fee,
                                             CostOf(position, volume)))
  BY <1>1, <1>2, <1>3, <1>4, <1>5, <1>8, <1>9 DEF FillSell
<1>12. account' = a
  <2>1. /\ account.available + turnover - fee = account.available + gain
        /\ account.cash + turnover - fee = account.cash + gain
    BY <1>6, RowTypes DEF Account
  <2>2. account' = [account EXCEPT !.available = account.available + turnover - fee,
                                   !.cash = account.cash + turnover - fee]
    BY <1>1, <1>2, <1>3, <1>4 DEF FillSell
  <2> QED  BY <1>7, <2>1, <2>2 DEF PaidIn, Account
<1>13. OrderWritten(orders, account, position, o, after, a, p)
  <2>1. /\ row.frozenCash \in Int /\ row.frozenCommission \in Int /\ row.frozenVolume \in Int
        /\ account.frozenCash \in Int /\ account.frozenCommission \in Int
        /\ position.frozen \in Int
    BY RowTypes DEF Account, Position, Row
  <2> QED  BY <1>1, <1>5, <1>7, <1>9, <2>1 DEF OrderWritten
<1>14. OrderStep(o, after, a, p)
  BY <1>7, <1>9, <1>11, <1>12, <1>13 DEF OrderStep
<1>15. phase = "trading"
  BY DEF CashInv, DayInv, NoActiveOrder
<1>16. trades' \in Seq(TradeFacts)
  BY <1>10, <1>11, TradeFactType
<1> QED  BY <1>14, <1>15, <1>16, OrderStepKeeps

LEMMA DeliverTickKeeps ==
    ASSUME CashInv, NEW o \in Orders, NEW t \in Ticks, DeliverTick(o, t)
    PROVE  CashInv'
BY FillBuyKeeps, FillSellKeeps DEF DeliverTick

-----------------------------------------------------------------------------
(* What the actions on revisions do.                                       *)

\* A step that changes the statuses of revisions only.
LEMMA StatusStepKeeps ==
    ASSUME CashInv, actions' \in [Revisions -> ActionStatuses],
           \A q, r \in Revisions :
              actions'[q] \in LiveStatuses /\ actions'[r] \in LiveStatuses => q = r,
           \A r \in Revisions : Entitled(Books, r) => actions'[r] \in ExecutedStatuses,
           UNCHANGED <<fixed, day, phase, orders, account, position, trades,
                       entitlements, ledger, adjustments, subscriptions>>
    PROVE  CashInv'
<1>1. DayInv'
  BY DEF CashInv, DayInv, fixed, NoActiveOrder
<1>2. OrdersInv'
  BY DEF CashInv, OrdersInv, OrdersHold, RowHolds, OverOrders
<1>3. /\ account \in Account /\ position \in Position
      /\ entitlements \in [Revisions -> Entitlement]
      /\ ledger \in SUBSET LedgerFacts /\ adjustments \in Seq(AdjustmentFacts)
      /\ CashAddsUp(account) /\ SharesAddUp(position)
  BY DEF CashInv, BooksInv, Books, BooksType
<1>4. (Books \in BooksType)'
  BY <1>3 DEF Books, BooksType
<1>5. OneIsLive(Books)'
  BY DEF OneIsLive, Books, Entitled
<1>6. CashAddsUp(account)' /\ SharesAddUp(position)'
  BY <1>3 DEF CashAddsUp, SharesAddUp, Sellable, fixed
<1> QED  BY <1>1, <1>2, <1>4, <1>5, <1>6 DEF CashInv, BooksInv

LEMMA ActionTypes ==
    ASSUME CashInv
    PROVE  /\ actions \in [Revisions -> ActionStatuses]
           /\ \A q, r \in Revisions :
                 actions[q] \in LiveStatuses /\ actions[r] \in LiveStatuses => q = r
           /\ \A r \in Revisions : Entitled(Books, r) => actions[r] \in ExecutedStatuses
BY DEF CashInv, BooksInv, BooksType, Books, OneIsLive, Entitled

\* Which statuses exclude each other.
LEMMA StatusKinds ==
    /\ "NONE" \notin LiveStatuses /\ "SUPERSEDED" \notin LiveStatuses
    /\ "MANUAL_REVIEW_REQUIRED" \notin LiveStatuses
    /\ "DRAFT" \in LiveStatuses /\ "CONFIRMED" \in LiveStatuses
    /\ UnexecutedStatuses \cap ExecutedStatuses = {}
    /\ ExecutedStatuses \subseteq LiveStatuses /\ UnexecutedStatuses \subseteq LiveStatuses
    /\ DroppedStatuses \cap LiveStatuses = {}
    /\ LiveStatuses \subseteq ActionStatuses
    /\ {"SUPERSEDED", "MANUAL_REVIEW_REQUIRED", "NONE"} \subseteq ActionStatuses
BY DEF LiveStatuses, UnexecutedStatuses, ExecutedStatuses, ProcessableStatuses,
       DroppedStatuses, ActionStatuses

LEMMA ImportKeeps ==
    ASSUME CashInv, NEW r \in Revisions, Import(r)
    PROVE  CashInv'
<1> DEFINE newer == {q \in Revisions : q > r /\ Imported(q)}
           older == {q \in Revisions :
                       q < r /\ Imported(q) /\ actions[q] \notin DroppedStatuses}
<1>1. /\ actions[r] = "NONE"
      /\ UNCHANGED <<fixed, day, phase, orders, account, position, trades,
                     entitlements, ledger, adjustments, subscriptions>>
  BY DEF Import, Imported
<1>2. ~Entitled(Books, r)
  BY <1>1, ActionTypes, StatusKinds
<1>3. CASE newer # {}
  <2>1. actions' = [actions EXCEPT ![r] = "SUPERSEDED"]
    BY <1>3 DEF Import
  <2> QED  BY <1>1, <1>2, <2>1, ActionTypes, StatusKinds, StatusStepKeeps
<1>4. CASE newer = {} /\ \E q \in older : actions[q] \notin UnexecutedStatuses
  <2>1. actions' = [actions EXCEPT ![r] = "MANUAL_REVIEW_REQUIRED"]
    BY <1>4 DEF Import
  <2> QED  BY <1>1, <1>2, <2>1, ActionTypes, StatusKinds, StatusStepKeeps
<1>5. CASE newer = {} /\ ~\E q \in older : actions[q] \notin UnexecutedStatuses
  <2>1. actions' = [q \in Revisions |-> IF q = r THEN "DRAFT"
                                        ELSE IF q \in older THEN "SUPERSEDED"
                                        ELSE actions[q]]
    BY <1>5 DEF Import
  <2>2. \A q \in Revisions \ {r} :
           \/ actions[q] = "NONE" \/ actions[q] \in DroppedStatuses
           \/ q \in older /\ actions[q] \in UnexecutedStatuses
    <3>1. SUFFICES ASSUME NEW q \in Revisions \ {r}
                   PROVE  \/ actions[q] = "NONE" \/ actions[q] \in DroppedStatuses
                          \/ q \in older /\ actions[q] \in UnexecutedStatuses
      OBVIOUS
    <3>2. q > r \/ q < r
      BY DEF Revisions
    <3> QED  BY <1>5, <3>2 DEF Imported
  <2> HIDE DEF older, newer
  <2>3. actions' \in [Revisions -> ActionStatuses]
    BY <2>1, ActionTypes, StatusKinds
  <2>4. \A q \in Revisions \ {r} : actions'[q] \notin LiveStatuses
    BY <2>1, <2>2, StatusKinds
  <2>5. \A q \in Revisions : Entitled(Books, q) => actions'[q] \in ExecutedStatuses
    BY <1>2, <2>1, <2>2, ActionTypes, StatusKinds
  <2> QED  BY <1>1, <2>3, <2>4, <2>5, StatusStepKeeps
<1> QED  BY <1>3, <1>4, <1>5

LEMMA ConfirmKeeps ==
    ASSUME CashInv, NEW r \in Revisions, Confirm(r)
    PROVE  CashInv'
<1>1. /\ actions[r] = "DRAFT" /\ actions' = [actions EXCEPT ![r] = "CONFIRMED"]
      /\ UNCHANGED <<fixed, day, phase, orders, account, position, trades,
                     entitlements, ledger, adjustments, subscriptions>>
  BY DEF Confirm
<1>2. "DRAFT" \in UnexecutedStatuses
  BY DEF UnexecutedStatuses
<1>3. ~Entitled(Books, r)
  BY <1>1, <1>2, ActionTypes, StatusKinds
<1> QED  BY <1>1, <1>3, ActionTypes, StatusKinds, StatusStepKeeps

-----------------------------------------------------------------------------
(* What the daily settlement does.                                         *)

LEMMA PhaseStepKeeps ==
    ASSUME CashInv, NoActiveOrder, day <= LastDay, phase' \in {"acting", "posting"},
           UNCHANGED <<fixed, day, orders, account, position, trades, corporate>>
    PROVE  CashInv'
<1>1. DayInv'
  BY DEF CashInv, DayInv, fixed, NoActiveOrder
<1>2. OrdersInv'
  BY DEF CashInv, OrdersInv, OrdersHold, RowHolds, OverOrders
<1>3. BooksInv'
  BY RowTypes, BooksHoldNext DEF CashInv, fixed, BooksInv, Books, BooksType
<1> QED  BY <1>1, <1>2, <1>3 DEF CashInv

LEMMA BarrierKeeps == ASSUME CashInv, Barrier PROVE CashInv'
BY PhaseStepKeeps DEF Barrier

LEMMA RepeatKeeps == ASSUME CashInv, Repeat PROVE CashInv'
BY PhaseStepKeeps DEF Repeat, CashInv, DayInv

LEMMA RunDueActionsKeeps ==
    ASSUME CashInv, RunDueActions
    PROVE  CashInv'
<1>1. /\ phase = "acting" /\ phase' = "posting" /\ NoActiveOrder /\ day <= LastDay
      /\ day \in Nat /\ product \in Products
      /\ UNCHANGED <<fixed, day, orders, trades, subscriptions>>
  BY DEF RunDueActions, CashInv, DayInv
<1>2. account.frozenCash = 0 /\ account.frozenCommission = 0 /\ position.frozen = 0
  BY <1>1, NothingFrozen DEF CashInv
<1>3. Books \in GoodBooks
  BY <1>2 DEF CashInv, BooksInv, GoodBooks, Books
<1>4. PICK b \in GoodBooks : b = RunOf(Books)
  BY <1>1, <1>3, RunIsGood
<1>5. /\ account' = b.account /\ position' = b.position /\ actions' = b.actions
      /\ entitlements' = b.entitlements /\ ledger' = b.ledger
      /\ adjustments' = b.adjustments
  BY <1>4 DEF RunDueActions, RunOf
<1>6. b = [account |-> b.account, position |-> b.position, actions |-> b.actions,
           entitlements |-> b.entitlements, ledger |-> b.ledger,
           adjustments |-> b.adjustments]
  BY DEF GoodBooks, BooksType
<1>7. Books' = b
  BY <1>5, <1>6 DEF Books
<1>8. /\ b \in BooksType /\ CashAddsUp(b.account) /\ SharesAddUp(b.position) /\ OneIsLive(b)
      /\ b.account.frozenCash = 0 /\ b.account.frozenCommission = 0
      /\ b.position.frozen = 0
  BY DEF GoodBooks
<1>9. BooksInv'
  <2>1. (Books \in BooksType)'
    BY <1>7, <1>8 DEF BooksType
  <2>2. CashAddsUp(account)' /\ SharesAddUp(position)'
    BY <1>1, <1>5, <1>8 DEF CashAddsUp, SharesAddUp, Sellable, fixed
  <2>3. OneIsLive(Books)'
    BY <1>7, <1>8 DEF OneIsLive, Entitled
  <2> QED  BY <2>1, <2>2, <2>3 DEF BooksInv
<1>10. OrdersInv'
  <2>1. OrdersHold(orders, b.account, b.position)
    BY <1>2, <1>8 DEF CashInv, OrdersInv, OrdersHold
  <2>2. OrdersHold(orders', account', position')
    BY <1>1, <1>5, <2>1
  <2> QED  BY <1>1, <2>2 DEF CashInv, OrdersInv, OrdersHold, RowHolds, OverOrders
<1>11. DayInv'
  BY <1>1 DEF CashInv, DayInv, fixed, NoActiveOrder
<1> QED  BY <1>9, <1>10, <1>11 DEF CashInv

\* The shares are carried over to the next day.
CarriedOver(p) == WithAvailable([p EXCEPT !.today = 0, !.yesterday = p.total, !.locked = 0])

LEMMA CarriedOverFields ==
    ASSUME NEW p \in Position, p.total >= 0, p.frozen = 0
    PROVE  /\ CarriedOver(p) \in Position /\ SharesAddUp(CarriedOver(p))
           /\ CarriedOver(p).frozen = 0
<1> PICK total \in Int, none \in Int : total = p.total /\ none = 0 /\ total >= 0
  BY DEF Position
<1> DEFINE q == [p EXCEPT !.today = none, !.yesterday = total, !.locked = none]
<1>1. /\ q \in Position /\ q.total = p.total /\ q.today = none /\ q.yesterday = total
      /\ q.frozen = p.frozen /\ q.locked = none
  BY DEF Position
<1>2. CarriedOver(p) = WithAvailable(q)
  BY DEF CarriedOver
<1> HIDE DEF q
<1>3. SharesAddUp(WithAvailable(q))
  BY <1>1, WithAvailableFields DEF SharesAddUp, Sellable
<1> QED  BY <1>1, <1>2, <1>3, WithAvailableFields

LEMMA PostKeeps ==
    ASSUME CashInv, Post
    PROVE  CashInv'
<1>1. /\ phase = "posting" /\ phase' = "trading" /\ NoActiveOrder /\ day <= LastDay
      /\ day \in Nat /\ product \in Products /\ day' = day + 1
      /\ UNCHANGED <<fixed, orders, trades, corporate>>
  BY DEF Post, CashInv, DayInv
<1>2. account.frozenCash = 0 /\ account.frozenCommission = 0 /\ position.frozen = 0
  BY <1>1, NothingFrozen DEF CashInv
<1>3. /\ account \in Account /\ position \in Position /\ SharesAddUp(position)
      /\ adjustments \in Seq(AdjustmentFacts) /\ trades \in Seq(TradeFacts)
  BY DEF CashInv, BooksInv, Books, BooksType, OrdersInv
<1>4. PICK p \in Position : /\ p = (IF Authoritative THEN Replay ELSE position)
                            /\ p.total >= 0 /\ p.frozen = 0
  <2>1. CASE Authoritative
    <3>1. Replay \in Position
      BY <1>1, <1>3, ReplayType
    <3>2. Sane(Replay) /\ Replay.frozen = 0
      BY <2>1 DEF Post, Accepts
    <3>3. Replay.total >= 0
      <4>1. "total" \in DOMAIN Replay \ {"cost"}
        BY <3>1 DEF Position
      <4>2. Replay["total"] >= 0
        BY <3>2, <4>1 DEF Sane
      <4> QED  BY <4>2
    <3> QED  BY <2>1, <3>1, <3>2, <3>3
  <2>2. CASE ~Authoritative
    <3>1. position.total >= 0
      BY <1>3 DEF SharesAddUp, Position
    <3> QED  BY <1>2, <1>3, <2>2, <3>1
  <2> QED  BY <2>1, <2>2
<1>5. PICK q \in Position : q = CarriedOver(p) /\ SharesAddUp(q) /\ q.frozen = 0
  BY <1>4, CarriedOverFields
<1>6. PICK available \in Int : available = account.cash
  BY <1>3 DEF Account
<1>7. PICK a \in Account : /\ a = [account EXCEPT !.available = available]
                           /\ a.available = available /\ a.cash = account.cash
                           /\ a.frozenCash = account.frozenCash
                           /\ a.frozenCommission = account.frozenCommission
  <2>1. [account EXCEPT !.available = available] \in Account
    BY <1>3 DEF Account
  <2> QED  BY <1>3, <2>1 DEF Account
<1>8. position' = q /\ account' = a
  BY <1>4, <1>5, <1>6, <1>7 DEF Post, SettledPosition, CarriedOver
<1>9. CashAddsUp(a)
  BY <1>2, <1>6, <1>7 DEF CashAddsUp
<1>10. BooksInv'
  BY <1>1, <1>5, <1>8, <1>9, BooksHoldNext DEF CashInv, fixed
<1>11. OrdersHold(orders, a, q)
  BY <1>2, <1>5, <1>7 DEF CashInv, OrdersInv, OrdersHold
<1>12. OrdersInv'
  <2>1. OrdersHold(orders', account', position')
    BY <1>1, <1>8, <1>11
  <2> QED  BY <1>1, <2>1 DEF CashInv, OrdersInv, OrdersHold, RowHolds, OverOrders
<1>13. DayInv'
  <2>1. day + 1 \in 1 .. LastDay + 1
    BY <1>1, ActionAssumption
  <2> QED  BY <1>1, <2>1 DEF CashInv, DayInv, fixed
<1> QED  BY <1>10, <1>12, <1>13 DEF CashInv

-----------------------------------------------------------------------------
(* Rights, and the whole.                                                  *)

LEMMA SubscribeKeeps ==
    ASSUME CashInv, NEW r \in Revisions, NEW request \in SubscriptionIds,
           NEW volume \in Volumes, Subscribe(r, request, volume)
    PROVE  CashInv'
<1>1. /\ product \in Products /\ day \in Nat
      /\ account \in Account /\ CashAddsUp(account)
      /\ position \in Position /\ SharesAddUp(position)
      /\ entitlements \in [Revisions -> Entitlement] /\ ledger \in SUBSET LedgerFacts
      /\ adjustments \in Seq(AdjustmentFacts) /\ actions \in [Revisions -> ActionStatuses]
  BY DEF CashInv, DayInv, BooksInv, Books, BooksType
<1>2. UNCHANGED <<product, schedule, day, phase, orders, trades, actions>>
  BY DEF Subscribe, fixed
<1>3. PICK cash \in Int, cost \in Int : cash = volume * T.price /\ cost = -cash
  <2>1. volume \in Nat /\ T.price \in Nat
    BY <1>1, RequestAssumption, TermsType
  <2>2. PICK cash \in Int : cash = volume * T.price
    BY <2>1
  <2> QED  BY <2>2
<1>4. PICK e \in Entitlement : e = entitlements[r]
  BY <1>1
<1>5. volume \in Int
  BY RequestAssumption
<1>6. PICK a \in Account : /\ account' = a /\ CashAddsUp(a)
                           /\ a.frozenCash = account.frozenCash
                           /\ a.frozenCommission = account.frozenCommission
  <2>1. account.cash - cash = account.cash + cost
        /\ account.available - cash = account.available + cost
    BY <1>1, <1>3 DEF Account
  <2>2. account' = [account EXCEPT !.cash = account.cash - cash,
                                   !.available = account.available - cash]
    BY <1>3 DEF Subscribe
  <2>3. account' = PaidIn(account, cost)
    BY <1>1, <2>1, <2>2 DEF PaidIn, Account
  <2> QED  BY <1>1, <2>3, PaidInFields
<1>7. PICK p \in Position : /\ position' = p /\ SharesAddUp(p)
                            /\ p.frozen = position.frozen
  <2>1. PICK pending \in Int : pending = position.pending + volume
    BY <1>1, <1>5 DEF Position
  <2>2. position' = [position EXCEPT !.pending = pending]
    BY <2>1 DEF Subscribe
  <2> QED  BY <1>1, <2>2, PendingKeepsShares
<1>8. PICK f \in Entitlement : /\ entitlements' = [entitlements EXCEPT ![r] = f]
                               /\ f.quantity = e.quantity
  <2>1. e.subscribed \in Int /\ e.pending \in Int /\ e.subscriptionCash \in Int
    BY DEF Entitlement
  <2>2. PICK subscribed \in Int, pending \in Int, total \in Int :
           /\ subscribed = e.subscribed + volume /\ pending = e.pending + volume
           /\ total = e.subscriptionCash + cash
    BY <1>5, <2>1
  <2> DEFINE g == [e EXCEPT !.subscribed = subscribed, !.pending = pending,
                            !.subscriptionCash = total]
  <2>3. entitlements' = [entitlements EXCEPT ![r] = g]
    BY <1>3, <1>4, <2>2 DEF Subscribe
  <2>4. g \in Entitlement /\ g.quantity = e.quantity
    BY DEF Entitlement
  <2> HIDE DEF g
  <2> QED  BY <2>3, <2>4
<1>9. ledger' \in SUBSET LedgerFacts
  <2>1. PICK none \in Int : none = 0
    OBVIOUS
  <2>2. "RIGHTS_SUBSCRIBED" \in Entries
    BY DEF Entries
  <2>3. LedgerFact(r, "RIGHTS_SUBSCRIBED", request, cost, none, none) \in LedgerFacts
    BY <1>1, <2>2 DEF LedgerFact, LedgerFacts
  <2>4. ledger' = ledger \cup {LedgerFact(r, "RIGHTS_SUBSCRIBED", request, cost, none, none)}
    BY <1>3, <2>1 DEF Subscribe
  <2> QED  BY <1>1, <2>3, <2>4
<1>10. adjustments' \in Seq(AdjustmentFacts)
  <2>1. PICK held \in Int : held = volume
    BY <1>5
  <2> DEFINE pending == [EmptyPosition EXCEPT !.pending = held, !.cost = cash]
  <2>2. pending \in Position
    <3>1. EmptyPosition \in Position
      BY DEF EmptyPosition, Position
    <3> QED  BY <3>1 DEF Position
  <2>3. adjustments' = Append(adjustments, Adjustment(r, "RIGHTS_SUBSCRIBED", pending))
    BY <1>3, <2>1 DEF Subscribe
  <2> HIDE DEF pending
  <2>4. "RIGHTS_SUBSCRIBED" \in Entries
    BY DEF Entries
  <2>5. PICK fact \in AdjustmentFacts : fact = Adjustment(r, "RIGHTS_SUBSCRIBED", pending)
    BY <1>1, <2>2, <2>4, FactTypes
  <2> QED  BY <1>1, <2>3, <2>5
<1>11. BooksInv'
  <2>1. entitlements' \in [Revisions -> Entitlement]
    BY <1>1, <1>8
  <2>2. (Books \in BooksType)'
    BY <1>1, <1>2, <1>6, <1>7, <1>9, <1>10, <2>1 DEF Books, BooksType
  <2>3. \A q \in Revisions : entitlements'[q].quantity = entitlements[q].quantity
    BY <1>1, <1>4, <1>8
  <2>4. OneIsLive(Books)'
    BY <1>2, <2>3 DEF CashInv, BooksInv, OneIsLive, Books, Entitled
  <2>5. CashAddsUp(account)' /\ SharesAddUp(position)'
    BY <1>2, <1>6, <1>7 DEF CashAddsUp, SharesAddUp, Sellable
  <2> QED  BY <2>2, <2>4, <2>5 DEF BooksInv
<1>12. OrdersInv'
  <2>1. OrdersHold(orders, a, p)
    BY <1>6, <1>7 DEF CashInv, OrdersInv, OrdersHold
  <2>2. OrdersHold(orders', account', position')
    BY <1>2, <1>6, <1>7, <2>1
  <2> QED  BY <1>2, <2>2 DEF CashInv, OrdersInv, OrdersHold, RowHolds, OverOrders
<1>13. DayInv'
  BY <1>2 DEF CashInv, DayInv, NoActiveOrder
<1> QED  BY <1>11, <1>12, <1>13 DEF CashInv

LEMMA CashInit == Init => CashInv
<1> SUFFICES ASSUME Init PROVE CashInv
  OBVIOUS
<1>1. OpeningCash \in Int /\ IsFiniteSet(Orders) /\ LastDay \in Nat
  BY RequestAssumption, ActionAssumption
<1>2. DayInv
  BY <1>1 DEF Init, DayInv
<1>3. /\ NoOrder \in Row /\ NoOrder.frozenCash = 0 /\ NoOrder.frozenCommission = 0
      /\ NoOrder.frozenVolume = 0 /\ NoOrder.status = "NONE"
  BY DEF NoOrder, Row, OrderStatuses
<1>4. \A o \in Orders : orders[o] = NoOrder
  BY DEF Init
<1>5. RowHolds(NoOrder)
  BY <1>3 DEF RowHolds, ActiveStatuses
<1>6. /\ account = [cash |-> OpeningCash, available |-> OpeningCash, frozenCash |-> 0,
                    frozenCommission |-> 0, receivable |-> 0]
      /\ position = EmptyPosition /\ trades = <<>>
  BY DEF Init
<1>7. account \in Account /\ CashAddsUp(account)
      /\ account.frozenCash = 0 /\ account.frozenCommission = 0
  BY <1>1, <1>6 DEF Account, CashAddsUp
<1>8. position \in Position /\ SharesAddUp(position) /\ position.frozen = 0
  BY <1>6 DEF EmptyPosition, Position, SharesAddUp, Sellable
<1>9. OrdersInv
  <2> DEFINE cash == [o \in Orders |-> orders[o].frozenCash]
             commission == [o \in Orders |-> orders[o].frozenCommission]
             volume == [o \in Orders |-> orders[o].frozenVolume]
  <2>1. \A o \in Orders : cash[o] = 0 /\ commission[o] = 0 /\ volume[o] = 0
    BY <1>3, <1>4
  <2> HIDE DEF cash, commission, volume
  <2>2. /\ SumFunctionOnSet(cash, Orders) = 0 /\ SumFunctionOnSet(commission, Orders) = 0
        /\ SumFunctionOnSet(volume, Orders) = 0
    BY <1>1, <2>1, SumOfNothing
  <2>3. /\ account.frozenCash = OverOrders([o \in Orders |-> orders[o].frozenCash])
        /\ account.frozenCommission = OverOrders([o \in Orders |-> orders[o].frozenCommission])
        /\ position.frozen = OverOrders([o \in Orders |-> orders[o].frozenVolume])
    BY <1>7, <1>8, <2>2 DEF OverOrders, cash, commission, volume
  <2>4. orders \in [Orders -> Row] /\ \A o \in Orders : RowHolds(orders[o])
    BY <1>3, <1>4, <1>5 DEF Init
  <2>5. trades \in Seq(TradeFacts)
    BY <1>6
  <2> QED  BY <2>3, <2>4, <2>5 DEF OrdersInv, OrdersHold
<1>10. BooksInv
  <2>1. NoEntitlement \in Entitlement /\ NoEntitlement.quantity = 0
    BY DEF NoEntitlement, Entitlement
  <2>2. /\ actions = [r \in Revisions |-> "NONE"]
        /\ entitlements = [r \in Revisions |-> NoEntitlement]
        /\ ledger = {} /\ adjustments = <<>>
    BY DEF Init
  <2>3. actions \in [Revisions -> ActionStatuses]
    BY <2>2, StatusKinds
  <2>4. entitlements \in [Revisions -> Entitlement] /\ ledger \in SUBSET LedgerFacts
        /\ adjustments \in Seq(AdjustmentFacts)
    BY <2>1, <2>2
  <2>5. Books \in BooksType
    BY <1>7, <1>8, <2>3, <2>4 DEF Books, BooksType
  <2>6. OneIsLive(Books)
    BY <2>1, <2>2, StatusKinds DEF OneIsLive, Books, Entitled
  <2> QED  BY <1>7, <1>8, <2>5, <2>6 DEF BooksInv
<1> QED  BY <1>2, <1>9, <1>10 DEF CashInv

LEMMA CashStep == CashInv /\ [Next]_vars => CashInv'
<1> SUFFICES ASSUME CashInv, [Next]_vars PROVE CashInv'
  OBVIOUS
<1>1. CASE \E o \in Orders, direction \in {"BUY", "SELL"}, limit \in LimitPrices,
              volume \in Volumes : Submit(o, direction, limit, volume)
  BY <1>1, SubmitKeeps
<1>2. CASE \E o \in Orders : Cancel(o)
  BY <1>2, CancelKeeps
<1>3. CASE \E o \in Orders, t \in Ticks : DeliverTick(o, t)
  BY <1>3, DeliverTickKeeps
<1>4. CASE \E r \in Revisions : Import(r) \/ Confirm(r)
  BY <1>4, ImportKeeps, ConfirmKeeps
<1>5. CASE \E r \in Revisions, request \in SubscriptionIds, volume \in Volumes :
              Subscribe(r, request, volume)
  BY <1>5, SubscribeKeeps
<1>6. CASE Barrier \/ RunDueActions \/ Repeat \/ Post
  BY <1>6, BarrierKeeps, RunDueActionsKeeps, RepeatKeeps, PostKeeps
<1>7. CASE UNCHANGED vars
  <2>1. DayInv'
    BY <1>7 DEF vars, CashInv, DayInv, NoActiveOrder
  <2>2. OrdersInv'
    BY <1>7 DEF vars, CashInv, OrdersInv, OrdersHold, RowHolds, OverOrders
  <2>3. BooksInv'
    BY <1>7, RowTypes, BooksHoldNext DEF vars, corporate, CashInv, BooksInv, Books, BooksType
  <2> QED  BY <2>1, <2>2, <2>3 DEF CashInv
<1> QED  BY <1>1, <1>2, <1>3, <1>4, <1>5, <1>6, <1>7 DEF Next

\* Every order entry, fill, cancellation, import, confirmation, subscription, run of
\* corporate actions and posting (create_order, settle, cancel_order, import_action,
\* confirm, subscribe_rights, run_due_actions, _settle_batch_from_facts) keeps rows,
\* account, position and revisions as the invariant has them.
THEOREM CashInvHolds == Spec => []CashInv
BY CashInit, CashStep, PTL DEF Spec

LEMMA CoveredSuffices == CashInv => OrdersAreCovered
<1> SUFFICES ASSUME CashInv PROVE OrdersAreCovered
  OBVIOUS
<1>1. /\ account \in Account /\ position \in Position
      /\ CashAddsUp(account) /\ SharesAddUp(position)
      /\ OrdersHold(orders, account, position)
  BY DEF CashInv, OrdersInv, BooksInv, Books, BooksType
<1>2. FrozenBelongsToOrders
  <2>1. \A o \in Orders : orders[o].status \notin ActiveStatuses =>
           orders[o].frozenCash + orders[o].frozenCommission + orders[o].frozenVolume = 0
    BY <1>1 DEF OrdersHold, RowHolds
  <2> QED  BY <1>1, <2>1 DEF FrozenBelongsToOrders, OrdersHold, CashAddsUp
<1>3. SellOrdersAreCovered
  <2>1. /\ position.today \in Int /\ position.yesterday \in Int /\ position.frozen \in Int
    BY <1>1 DEF Position
  <2> QED  BY <1>1, <2>1 DEF SellOrdersAreCovered, SharesAddUp, Sellable
<1> QED  BY <1>2, <1>3 DEF OrdersAreCovered

\* Whatever the security, the fees, the terms and dates of its action and the ticks
\* are: what is frozen belongs to active orders, cash is what is available and frozen,
\* and a sell order that was accepted is covered by shares that may be sold today, so
\* that settle never meets its T+1 refusal.
THEOREM OrdersAreAlwaysCovered == Spec => []OrdersAreCovered
BY CashInvHolds, CoveredSuffices, PTL

\* Two revisions of one action never both give entitlements, in whatever order they
\* are imported and confirmed (import_action, confirm, capture_entitlements).
THEOREM OneRevisionEverExecutes == Spec => []OneRevisionExecutes
<1>1. CashInv => OneRevisionExecutes
  BY ActionTypes, StatusKinds DEF OneRevisionExecutes
<1> QED  BY <1>1, CashInvHolds, PTL

-----------------------------------------------------------------------------
(* What run_due_actions does to the position, and to the facts.            *)

\* The position is left alone, or changed by what one new fact of the day says.
Together(b, c) ==
    \/ c.position = b.position /\ c.adjustments = b.adjustments
    \/ \E fact \in AdjustmentFacts :
          /\ fact.day = day /\ fact.delta.frozen = 0
          /\ AddsUp(c.position, b.position, fact.delta)
          /\ c.adjustments = Append(b.adjustments, fact)

LEMMA MinusAddsUp ==
    ASSUME NEW p \in Position, NEW q \in Position, p.frozen = 0, q.frozen = 0
    PROVE  AddsUp(p, q, Minus(p, q)) /\ Minus(p, q).frozen = 0
<1>1. PICK delta \in Position : delta = Minus(p, q)
  BY MinusType
<1>2. /\ delta.total = p.total - q.total /\ delta.today = p.today - q.today
      /\ delta.yesterday = p.yesterday - q.yesterday /\ delta.frozen = p.frozen - q.frozen
      /\ delta.locked = p.locked - q.locked /\ delta.pending = p.pending - q.pending
      /\ delta.cost = p.cost - q.cost
  BY <1>1 DEF Minus, Position
<1>t. \A x \in Position : /\ x.total \in Int /\ x.today \in Int /\ x.yesterday \in Int
                          /\ x.frozen \in Int /\ x.locked \in Int /\ x.pending \in Int
                          /\ x.cost \in Int
  BY DEF Position
<1>3. \A m, n \in Int : m = n + (m - n)
  OBVIOUS
<1>4. AddsUp(p, q, delta)
  BY <1>2, <1>t, <1>3 DEF AddsUp
<1>5. delta.frozen = 0
  BY <1>2
<1> QED  BY <1>1, <1>4, <1>5

LEMMA WrittenTogether ==
    ASSUME day \in Nat, NEW r \in Revisions, NEW b, NEW c, NEW entry \in Entries,
           NEW delta \in Position, delta.frozen = 0, AddsUp(c.position, b.position, delta),
           c.adjustments = Append(b.adjustments, Adjustment(r, entry, delta))
    PROVE  Together(b, c)
<1>1. PICK fact \in AdjustmentFacts : fact = Adjustment(r, entry, delta)
  BY FactTypes
<1>2. fact.day = day /\ fact.delta = delta
  BY <1>1 DEF Adjustment
<1> QED  BY <1>1, <1>2 DEF Together

LEMMA CompletedTogether ==
    ASSUME NEW r \in Revisions, NEW b, NEW c \in GoodFor(r), Together(b, c)
    PROVE  Together(b, Completed(c, r))
<1>1. Completed(c, r).position = c.position /\ Completed(c, r).adjustments = c.adjustments
  <2>1. c \in BooksType
    BY DEF GoodFor, GoodBooks
  <2> QED  BY <2>1 DEF Completed, BooksType
<1> QED  BY <1>1 DEF Together

LEMMA CapturedTogether ==
    ASSUME NEW r \in Revisions, NEW b \in GoodFor(r)
    PROVE  Together(b, Captured(b, r))
<1>1. b \in BooksType
  BY DEF GoodFor, GoodBooks
<1>2. Captured(b, r).position = b.position /\ Captured(b, r).adjustments = b.adjustments
  BY <1>1 DEF Captured, BooksType
<1> QED  BY <1>2 DEF Together

LEMMA PaidTogether ==
    ASSUME product \in Products, day \in Nat, NEW r \in Revisions, NEW b \in GoodFor(r)
    PROVE  Together(b, Paid(b, r))
<1>1. b \in BooksType
  BY DEF GoodFor, GoodBooks
<1>2. Paid(b, r).position = b.position /\ Paid(b, r).adjustments = b.adjustments
  BY <1>1 DEF Paid, Completed, BooksType
<1> QED  BY <1>2 DEF Together

LEMMA MaturedTogether ==
    ASSUME product \in Products, day \in Nat, NEW r \in Revisions, NEW b \in GoodFor(r)
    PROVE  Together(b, Matured(b, r))
<1>b. b \in BooksType /\ b.position \in Position /\ b.position.frozen = 0
  BY DEF GoodFor, GoodBooks, BooksType
<1>1. PICK rest : rest = [EmptyPosition EXCEPT !.pending = b.position.pending]
  OBVIOUS
<1>2. rest \in Position /\ rest.frozen = 0
  <2>1. b.position.pending \in Int
    BY <1>b DEF Position
  <2> QED  BY <1>1, <2>1, NoShares
<1>3. PICK delta \in Position : delta = Minus(rest, b.position)
  BY <1>b, <1>2, MinusType
<1>4. AddsUp(rest, b.position, delta) /\ delta.frozen = 0
  BY <1>b, <1>2, <1>3, MinusAddsUp
<1>5. \/ /\ Matured(b, r).position = b.position
         /\ Matured(b, r).adjustments = b.adjustments
      \/ /\ Matured(b, r).position = rest
         /\ Matured(b, r).adjustments
              = Append(b.adjustments, Adjustment(r, "BOND_MATURITY_RETIRED", delta))
  BY <1>b, <1>1, <1>3 DEF Matured, Completed, BooksType
<1>6. "BOND_MATURITY_RETIRED" \in Entries
  BY DEF Entries
<1>7. CASE Matured(b, r).position = b.position /\ Matured(b, r).adjustments = b.adjustments
  BY <1>7 DEF Together
<1>8. CASE /\ Matured(b, r).position = rest
           /\ Matured(b, r).adjustments
                = Append(b.adjustments, Adjustment(r, "BOND_MATURITY_RETIRED", delta))
  BY <1>4, <1>6, <1>8, WrittenTogether
<1> QED  BY <1>5, <1>7, <1>8

LEMMA ListedTogether ==
    ASSUME product \in Products, day \in Nat, NEW r \in Revisions, NEW b \in GoodFor(r)
    PROVE  Together(b, Listed(b, r))
<1>b. b \in BooksType /\ b.position \in Position /\ SharesAddUp(b.position)
  BY DEF GoodFor, GoodBooks, BooksType
<1>e. PICK e \in Entitlement : e = b.entitlements[r]
  BY BooksMayBeBooked
<1>1. CASE e.pending <= 0 \/ Posted(b, r, "SHARES_LISTED", "")
  <2>1. Listed(b, r) = Completed(b, r)
    BY <1>1, <1>e DEF Listed
  <2>2. Together(b, b)
    BY DEF Together
  <2> QED  BY <2>1, <2>2, CompletedTogether
<1>2. CASE ~(e.pending <= 0 \/ Posted(b, r, "SHARES_LISTED", ""))
  <2>1. PICK pending \in Int, cost \in Int :
           pending = e.pending /\ cost = e.subscriptionCash /\ pending > 0
    <3>1. e.pending \in Int /\ e.subscriptionCash \in Int
      BY DEF Entitlement
    <3>2. ~(e.pending <= 0)
      BY <1>2, Zenon
    <3> QED  BY <3>1, <3>2
  <2>2. PICK shares \in Position : /\ shares = OfListing(pending, cost)
                                   /\ Plus(b.position, shares) \in Position
                                   /\ Plus(b.position, shares).frozen = b.position.frozen
    BY <1>b, <2>1, ListingKeepsShares
  <2>3. /\ Listed(b, r).position = Plus(b.position, shares)
        /\ Listed(b, r).adjustments
             = Append(b.adjustments, Adjustment(r, "SHARES_LISTED", shares))
    <3>1. shares = [EmptyPosition EXCEPT !.total = e.pending, !.yesterday = e.pending,
                      !.pending = -e.pending, !.cost = e.subscriptionCash]
      BY <2>1, <2>2 DEF OfListing
    <3> QED  BY <1>b, <1>e, <1>2, <3>1 DEF Listed, Completed, BooksType
  <2>4. AddsUp(Plus(b.position, shares), b.position, shares)
    BY <1>b, PlusFields DEF AddsUp
  <2>5. shares.frozen = 0
    <3>1. shares.frozen \in Int /\ b.position.frozen \in Int
      BY <1>b DEF Position
    <3>2. b.position.frozen = b.position.frozen + shares.frozen
      BY <2>2, <2>4 DEF AddsUp
    <3> QED  BY <3>1, <3>2
  <2>6. "SHARES_LISTED" \in Entries
    BY DEF Entries
  <2> QED  BY <2>3, <2>4, <2>5, <2>6, WrittenTogether
<1> QED  BY <1>1, <1>2

LEMMA ExAppliedTogether ==
    ASSUME product \in Products, day \in Nat, NEW r \in Revisions, NEW b \in GoodFor(r)
    PROVE  Together(b, ExApplied(b, r))
<1>b. /\ b \in BooksType /\ b.position \in Position /\ SharesAddUp(b.position)
      /\ b.position.frozen = 0
  BY DEF GoodFor, GoodBooks, BooksType
<1>1. CASE product.kind \in IncomeKinds /\ ~Posted(b, r, "RECEIVABLE_CREATED", "")
  <2>1. /\ ExApplied(b, r).position = b.position
        /\ ExApplied(b, r).adjustments = b.adjustments
    BY <1>b, <1>1 DEF ExApplied, IncomeKinds, SplitKinds, BooksType
  <2> QED  BY <2>1 DEF Together
<1>2. CASE product.kind = "STOCK_DIVIDEND" /\ ~Posted(b, r, "SHARES_PENDING", "")
  <2>1. PICK shares \in Int : shares = b.entitlements[r].shares
    BY BooksMayBeBooked DEF Entitlement
  <2>2. PICK delta \in Position : delta = [EmptyPosition EXCEPT !.pending = shares]
    BY NoShares
  <2>3. /\ ExApplied(b, r).position = [b.position EXCEPT !.pending = @ + shares]
        /\ ExApplied(b, r).adjustments
             = Append(b.adjustments, Adjustment(r, "SHARES_PENDING", delta))
    BY <1>b, <1>2, <2>1, <2>2 DEF ExApplied, IncomeKinds, SplitKinds, BooksType
  <2>4. /\ delta.total = 0 /\ delta.today = 0 /\ delta.yesterday = 0 /\ delta.frozen = 0
        /\ delta.locked = 0 /\ delta.pending = shares /\ delta.cost = 0
    BY <2>2 DEF EmptyPosition
  <2>5. AddsUp([b.position EXCEPT !.pending = @ + shares], b.position, delta)
    <3>1. PICK p \in Position : p = b.position
      BY <1>b
    <3>2. PICK pending \in Int : pending = p.pending + shares
      BY DEF Position
    <3>3. PICK q \in Position : q = [p EXCEPT !.pending = pending]
      BY DEF Position
    <3>4. /\ q.total = p.total /\ q.today = p.today /\ q.yesterday = p.yesterday
          /\ q.frozen = p.frozen /\ q.locked = p.locked /\ q.pending = pending
          /\ q.cost = p.cost
      BY <3>3 DEF Position
    <3>5. /\ p.total \in Int /\ p.today \in Int /\ p.yesterday \in Int /\ p.frozen \in Int
          /\ p.locked \in Int /\ p.cost \in Int
      BY DEF Position
    <3>6. AddsUp(q, p, delta)
      BY <2>4, <3>2, <3>4, <3>5 DEF AddsUp
    <3> QED  BY <3>1, <3>2, <3>3, <3>6
  <2>6. "SHARES_PENDING" \in Entries
    BY DEF Entries
  <2> QED  BY <2>3, <2>4, <2>5, <2>6, WrittenTogether
<1>3. CASE product.kind \in SplitKinds /\ ~Posted(b, r, product.kind, "")
  <2>1. PICK split \in Position : split = SplitPosition(b.position) /\ split.frozen = 0
    BY <1>b, SplitKeepsShares
  <2>2. PICK delta \in Position : delta = Minus(split, b.position)
    BY <1>b, MinusType
  <2>3. AddsUp(split, b.position, delta) /\ delta.frozen = 0
    BY <1>b, <2>1, <2>2, MinusAddsUp
  <2>4. /\ ExApplied(b, r).position = split
        /\ ExApplied(b, r).adjustments
             = Append(b.adjustments, Adjustment(r, product.kind, delta))
    BY <1>b, <1>3, <2>1, <2>2 DEF ExApplied, IncomeKinds, SplitKinds, BooksType
  <2>5. product.kind \in Entries
    BY <1>3 DEF Entries, Kinds, SplitKinds
  <2> QED  BY <2>3, <2>4, <2>5, WrittenTogether
<1>4. CASE /\ ~(product.kind \in IncomeKinds /\ ~Posted(b, r, "RECEIVABLE_CREATED", ""))
           /\ ~(product.kind = "STOCK_DIVIDEND" /\ ~Posted(b, r, "SHARES_PENDING", ""))
           /\ ~(product.kind \in SplitKinds /\ ~Posted(b, r, product.kind, ""))
  <2>1. ExApplied(b, r) = b
    BY <1>4 DEF ExApplied
  <2> QED  BY <2>1 DEF Together
<1> QED  BY <1>1, <1>2, <1>3, <1>4

LEMMA ExDateTogether ==
    ASSUME product \in Products, day \in Nat, NEW r \in Revisions, NEW b \in GoodFor(r)
    PROVE  Together(b, ExDate(b, r))
<1>1. PICK c \in GoodFor(r) : /\ c = IF Entitled(b, r) THEN ExApplied(b, r) ELSE b
                              /\ Together(b, c)
  <2>1. Together(b, b)
    BY DEF Together
  <2> QED  BY <2>1, ExAppliedIsGood, ExAppliedTogether
<1>2. c \in BooksType
  BY DEF GoodFor, GoodBooks
<1>3. ExDate(b, r).position = c.position /\ ExDate(b, r).adjustments = c.adjustments
  BY <1>1, <1>2 DEF ExDate, Completed, BooksType
<1> QED  BY <1>1, <1>3 DEF Together

LEMMA PerformedTogether ==
    ASSUME product \in Products, day \in Nat, NEW r \in Revisions, NEW b \in GoodFor(r), NEW step
    PROVE  Together(b, Perform(b, r, step))
<1>1. Together(b, b)
  BY DEF Together
<1>2. /\ Together(b, Captured(b, r)) /\ Together(b, ExDate(b, r))
      /\ Together(b, Matured(b, r)) /\ Together(b, Paid(b, r))
      /\ Together(b, Listed(b, r)) /\ Together(b, Completed(b, r))
  BY <1>1, CapturedTogether, ExDateTogether, MaturedTogether, PaidTogether, ListedTogether,
     CompletedTogether
<1> QED  BY <1>2 DEF Perform

-----------------------------------------------------------------------------
(* The invariant of the replay.                                            *)

\* The books, the trades and the subscriptions of a day.
FollowingBooks ==
    {b \in GoodBooks : Follows(product.settlementDays, trades, b.adjustments, b.position,
                               subscriptions, day)}

LEMMA TogetherFollows ==
    ASSUME product \in Products, day \in Nat \ {0}, trades \in Seq(TradeFacts),
           NEW b \in FollowingBooks, NEW c \in GoodBooks, Together(b, c)
    PROVE  c \in FollowingBooks
<1>1. /\ b.position \in Position /\ b.adjustments \in Seq(AdjustmentFacts)
      /\ Follows(product.settlementDays, trades, b.adjustments, b.position,
                 subscriptions, day)
      /\ c.position \in Position /\ product.settlementDays \in {0, 1}
  BY ProductsAssumption DEF FollowingBooks, GoodBooks, BooksType
<1>2. CASE c.position = b.position /\ c.adjustments = b.adjustments
  BY <1>1, <1>2 DEF FollowingBooks
<1>3. ASSUME NEW fact \in AdjustmentFacts, fact.day = day, fact.delta.frozen = 0,
             AddsUp(c.position, b.position, fact.delta),
             c.adjustments = Append(b.adjustments, fact)
      PROVE  c \in FollowingBooks
  <2>1. PICK p \in Position, q \in Position, facts \in Seq(AdjustmentFacts), days \in {0, 1},
             d \in Nat \ {0}, ts \in Seq(TradeFacts), subs \in {subscriptions} :
           /\ p = b.position /\ q = c.position /\ facts = b.adjustments
           /\ days = product.settlementDays /\ d = day /\ ts = trades
           /\ subs = subscriptions
    BY <1>1
  <2>2. Follows(days, ts, facts, p, subs, d) /\ fact.day = d /\ AddsUp(q, p, fact.delta)
    BY <1>1, <1>3, <2>1
  <2>3. Follows(days, ts, Append(facts, fact), q, subs, d)
    BY <1>3, <2>2, FollowsFact DEF AddsUp
  <2> QED  BY <1>3, <2>1, <2>3 DEF FollowingBooks
<1> QED  BY <1>2, <1>3 DEF Together

LEMMA RunFollows ==
    ASSUME product \in Products, day \in Nat \ {0}, trades \in Seq(TradeFacts),
           NEW b \in FollowingBooks
    PROVE  RunOf(b) \in FollowingBooks
<1>1. day \in Nat /\ \A c \in FollowingBooks : c \in GoodBooks
  BY DEF FollowingBooks
<1>2. ASSUME NEW r \in Revisions, NEW c \in FollowingBooks, c.actions[r] \in LiveStatuses,
             NEW step
      PROVE  Perform(c, r, step) \in FollowingBooks
  <2>1. c \in GoodFor(r)
    BY <1>1, <1>2 DEF GoodFor
  <2>2. Perform(c, r, step) \in GoodBooks
    BY <1>1, <2>1, PerformedIsGood DEF GoodFor
  <2>3. Together(c, Perform(c, r, step))
    BY <1>1, <2>1, PerformedTogether
  <2> QED  BY <2>2, <2>3, TogetherFollows
<1>3. ASSUME NEW r \in Revisions, NEW c \in FollowingBooks, c.actions[r] = "CONFIRMED"
      PROVE  [c EXCEPT !.actions[r] = "MANUAL_REVIEW_REQUIRED"] \in FollowingBooks
  <2>1. /\ Reviewed(c, r) \in GoodBooks /\ Reviewed(c, r).position = c.position
        /\ Reviewed(c, r).adjustments = c.adjustments
    BY <1>1, <1>3, ReviewedIsGood
  <2>2. Together(c, Reviewed(c, r))
    BY <2>1 DEF Together
  <2>3. Reviewed(c, r) \in FollowingBooks
    BY <2>1, <2>2, TogetherFollows
  <2> QED  BY <2>3 DEF Reviewed
<1>4. KeptByActions(FollowingBooks)
  <2>1. FollowingBooks \subseteq GoodBooks
    BY <1>1
  <2> HIDE DEF FollowingBooks
  <2> QED  BY <1>2, <1>3, <2>1 DEF KeptByActions
<1> QED  BY <1>1, <1>4, RunIsKept

\* The live position follows the replay; during the trading of a day nothing has been
\* added to the shares that may be sold.
ReplayInv ==
    /\ Follows(product.settlementDays, trades, adjustments, position, subscriptions, day)
    /\ phase = "trading" => NothingAdded(AddedToday(adjustments, day), subscriptions)

LEMMA ReplayTypes ==
    ASSUME CashInv
    PROVE  /\ product \in Products /\ product.settlementDays \in {0, 1} /\ day \in Nat \ {0}
           /\ trades \in Seq(TradeFacts) /\ adjustments \in Seq(AdjustmentFacts)
           /\ position \in Position
BY ProductsAssumption DEF CashInv, DayInv, OrdersInv, BooksInv, Books, BooksType

\* A step that leaves the facts alone, and the columns that the replay knows.
LEMMA OrdersKeepReplay ==
    ASSUME ReplayInv, NEW p, position' = p,
           p.total = position.total, p.today = position.today,
           p.yesterday = position.yesterday, p.locked = position.locked,
           p.pending = position.pending, p.cost = position.cost,
           product' = product, day' = day, phase' = "trading" => phase = "trading",
           UNCHANGED <<trades, adjustments, subscriptions>>
    PROVE  ReplayInv'
<1>1. Follows(product.settlementDays, trades, adjustments, p, subscriptions, day)
  BY FollowsOrders DEF ReplayInv
<1>2. Follows(product'.settlementDays, trades', adjustments', position', subscriptions', day')
  BY <1>1
<1>3. phase' = "trading" => NothingAdded(AddedToday(adjustments', day'), subscriptions')
  BY DEF ReplayInv
<1> QED  BY <1>2, <1>3 DEF ReplayInv, Follows, UpTo, NothingAdded

\* Positions with the same shares, in every bucket.
SameShares(r, p) ==
    /\ r.today = p.today /\ r.yesterday = p.yesterday /\ r.locked = p.locked
    /\ WellFormed(r)

\* At the end of a day the replay has the shares and the cost of the live position, and
\* what was sane in the morning is when nothing has happened.
LEMMA ReplayMatches ==
    ASSUME NEW days \in {0, 1}, NEW ts \in Seq(TradeFacts), NEW facts \in Seq(AdjustmentFacts),
           NEW d \in Nat \ {0}, NEW p \in Position, NEW subs,
           Follows(days, ts, facts, p, subs, d)
    PROVE  LET r == ReplayOf(days, ts, facts, d) IN
           /\ r \in Position
           /\ r.total = p.total /\ r.pending = p.pending /\ r.frozen = 0
           /\ subs = {} => r.cost = p.cost
           /\ NothingOn(ts, d) /\ NothingOn(facts, d) => Sane(r)
           /\ ~(NothingOn(ts, d) /\ NothingOn(facts, d)) => SameShares(r, p)
<1>1. PICK traded \in Position, added \in Position, before \in Position, begun \in Position :
         /\ traded = TradedToday(days, ts, facts, d) /\ added = AddedToday(facts, d)
         /\ before = ReplayOf(days, ts, facts, d - 1) /\ begun = RolledOver(before)
         /\ IsRolledOver(before, begun)
  BY TodayTypes, RolledOverFields
<1>2. Tracks(p, traded, added, subs) /\ Sane(before) /\ before.frozen = 0
  BY <1>1 DEF Follows
<1>3. traded = TradedOf(days, ts, begun, d)
  BY <1>1 DEF TradedToday
<1>4. PICK r \in Position : r = ReplayOf(days, ts, facts, d)
                            /\ r = DayOf(days, ts, facts, before, d)
  <2>1. PICK last \in Nat : last = d - 1 /\ last + 1 = d
    OBVIOUS
  <2>2. ReplayOf(days, ts, facts, last + 1)
          = DayOf(days, ts, facts, ReplayOf(days, ts, facts, last), last + 1)
    BY ReplayGoesOn
  <2>3. DayOf(days, ts, facts, before, d) \in Position
    BY DayOfType
  <2> QED  BY <1>1, <2>1, <2>2, <2>3
<1>t. \A x \in Position : /\ x.total \in Int /\ x.frozen \in Int /\ x.pending \in Int
                          /\ x.cost \in Int
  BY DEF Position
<1>0. \A a \in Int : a + 0 = a
  OBVIOUS
<1>5. CASE NothingOn(ts, d) /\ NothingOn(facts, d)
  <2>1. r = before
    BY <1>4, <1>5 DEF DayOf
  <2>2. traded = begun /\ added = EmptyPosition
    BY <1>1, <1>3, <1>5, NothingTraded, NothingAdjusted, EmptyPositionType DEF AddedToday
  <2>3. /\ p.total = r.total /\ p.pending = r.pending
        /\ subs = {} => p.cost = r.cost
    <3>1. added.total = 0 /\ added.pending = 0 /\ added.cost = 0
      BY <2>2 DEF EmptyPosition
    <3>2. traded.total = r.total /\ traded.pending = r.pending /\ traded.cost = r.cost
      BY <1>1, <2>1, <2>2 DEF IsRolledOver
    <3> QED  BY <1>0, <1>2, <1>t, <3>1, <3>2 DEF Tracks
  <2>4. r.frozen = 0 /\ Sane(r)
    BY <1>2, <2>1
  <2> QED  BY <1>4, <1>5, <2>3, <2>4
<1>6. CASE ~(NothingOn(ts, d) /\ NothingOn(facts, d))
  <2>1. r = AdjustedOf(facts, traded, d)
    BY <1>1, <1>3, <1>4, <1>6 DEF DayOf
  <2>2. AddsUp(r, traded, added)
    <3>1. WellFormed(traded)
      BY <1>2 DEF Tracks
    <3> QED  BY <1>1, <2>1, <3>1, AdjustedAdds DEF AddedToday
  <2>3. /\ r.total = p.total /\ r.pending = p.pending
        /\ subs = {} => r.cost = p.cost
    BY <1>2, <2>2 DEF Tracks, AddsUp
  <2>4. r.frozen = 0
    BY <1>2, <2>2 DEF Tracks, AddsUp
  <2>5. r.today = p.today /\ r.yesterday = p.yesterday /\ r.locked = p.locked
    BY <1>2, <2>2 DEF Tracks, AddsUp
  <2>6. WellFormed(r)
    BY <1>1, <1>2, <2>1, AdjustedAdds DEF Tracks
  <2> QED  BY <1>4, <1>6, <2>3, <2>4, <2>5, <2>6 DEF SameShares
<1> QED  BY <1>5, <1>6

\* The next day begins with what was carried over, on both sides.
LEMMA NextDayFollows ==
    ASSUME NEW days \in {0, 1}, NEW ts \in Seq(TradeFacts), NEW facts \in Seq(AdjustmentFacts),
           NEW d \in Nat \ {0}, NEW p \in Position, NEW subs, UpTo(ts, d), UpTo(facts, d),
           NEW r \in Position, r = ReplayOf(days, ts, facts, d), Sane(r), r.frozen = 0,
           p.total = r.total, p.pending = r.pending, subs = {} => p.cost = r.cost
    PROVE  /\ Follows(days, ts, facts, CarriedOver(p), subs, d + 1)
           /\ NothingAdded(AddedToday(facts, d + 1), subs)
<1>1. PICK later \in Nat \ {0} : later = d + 1 /\ later - 1 = d
  OBVIOUS
<1>2. NothingOn(ts, later) /\ UpTo(ts, later)
  <2>n. PICK n \in Nat : n = Len(ts) /\ DOMAIN ts = 1 .. n
    OBVIOUS
  <2>1. \A i \in DOMAIN ts : ts[i] \in TradeFacts
    BY <2>n
  <2>2. \A i \in DOMAIN ts : ts[i].day \in Nat
    BY <2>1 DEF TradeFacts
  <2> QED  BY <1>1, <2>2 DEF UpTo, NothingOn
<1>3. NothingOn(facts, later) /\ UpTo(facts, later)
  <2>n. PICK n \in Nat : n = Len(facts) /\ DOMAIN facts = 1 .. n
    OBVIOUS
  <2>1. \A i \in DOMAIN facts : facts[i] \in AdjustmentFacts
    BY <2>n
  <2>2. \A i \in DOMAIN facts : facts[i].day \in Nat
    BY <2>1 DEF AdjustmentFacts
  <2> QED  BY <1>1, <2>2 DEF UpTo, NothingOn
<1>4. ReplayOf(days, ts, facts, later - 1) = r
  BY <1>1
<1>5. PICK begun \in Position : begun = RolledOver(r) /\ IsRolledOver(r, begun)
  BY RolledOverFields DEF IsRolledOver
<1>6. TradedToday(days, ts, facts, later) = begun
  BY <1>2, <1>4, <1>5, NothingTraded DEF TradedToday
<1>7. AddedToday(facts, later) = EmptyPosition
  BY <1>3, NothingAdjusted, EmptyPositionType DEF AddedToday
<1>8. PICK q \in Position :
         /\ q = CarriedOver(p) /\ q.total = p.total /\ q.today = 0 /\ q.yesterday = p.total
         /\ q.locked = 0 /\ q.pending = p.pending /\ q.cost = p.cost
  <2>1. PICK total \in Int, none \in Int : total = p.total /\ none = 0
    BY DEF Position
  <2>2. PICK x \in Position : /\ x = [p EXCEPT !.today = none, !.yesterday = total,
                                               !.locked = none]
                              /\ x.total = p.total /\ x.today = none /\ x.yesterday = total
                              /\ x.locked = none /\ x.pending = p.pending /\ x.cost = p.cost
    <3>1. [p EXCEPT !.today = none, !.yesterday = total, !.locked = none] \in Position
      BY DEF Position
    <3> QED  BY <3>1 DEF Position
  <2>3. CarriedOver(p) = WithAvailable(x)
    BY <2>1, <2>2 DEF CarriedOver
  <2>4. PICK q \in Position :
           /\ q = WithAvailable(x) /\ q.total = x.total /\ q.today = x.today
           /\ q.yesterday = x.yesterday /\ q.locked = x.locked /\ q.pending = x.pending
           /\ q.cost = x.cost
    BY WithAvailableFields
  <2> QED  BY <2>1, <2>2, <2>3, <2>4
<1>9. Tracks(q, begun, EmptyPosition, subs)
  <2>1. /\ EmptyPosition.total = 0 /\ EmptyPosition.today = 0 /\ EmptyPosition.yesterday = 0
        /\ EmptyPosition.locked = 0 /\ EmptyPosition.pending = 0 /\ EmptyPosition.cost = 0
        /\ EmptyPosition.frozen = 0
    BY DEF EmptyPosition
  <2>2. /\ r.total \in Int /\ r.today \in Int /\ r.yesterday \in Int /\ r.pending \in Int
        /\ r.cost \in Int
    BY DEF Position
  <2>3. r.yesterday + r.today = r.total
    BY <2>2 DEF Sane
  <2>4. WellFormed(begun)
    BY <1>5 DEF IsRolledOver, WellFormed
  <2> QED  BY <1>5, <1>8, <2>1, <2>2, <2>3, <2>4 DEF Tracks, IsRolledOver
<1>10. Follows(days, ts, facts, q, subs, later)
  BY <1>2, <1>3, <1>4, <1>6, <1>7, <1>9 DEF Follows
<1>11. NothingAdded(AddedToday(facts, later), subs)
  BY <1>7 DEF NothingAdded, EmptyPosition
<1> QED  BY <1>1, <1>8, <1>10, <1>11

LEMMA PromisedColumns ==
    ASSUME NEW p \in Position, NEW frozen \in Int
    PROVE  LET q == WithAvailable([p EXCEPT !.frozen = frozen]) IN
           /\ q.total = p.total /\ q.today = p.today /\ q.yesterday = p.yesterday
           /\ q.locked = p.locked /\ q.pending = p.pending /\ q.cost = p.cost
<1>1. PICK x \in Position : x = [p EXCEPT !.frozen = frozen]
  BY DEF Position
<1>2. /\ x.total = p.total /\ x.today = p.today /\ x.yesterday = p.yesterday
      /\ x.locked = p.locked /\ x.pending = p.pending /\ x.cost = p.cost
  BY <1>1 DEF Position
<1> QED  BY <1>1, <1>2, WithAvailableFields

LEMMA SubmitFollows ==
    ASSUME CashInv, ReplayInv, NEW o \in Orders, NEW direction \in {"BUY", "SELL"},
           NEW limit \in LimitPrices, NEW volume \in Volumes,
           Submit(o, direction, limit, volume)
    PROVE  ReplayInv'
<1>1. UNCHANGED <<product, day, phase, trades, adjustments, subscriptions>>
  BY DEF Submit, fixed, corporate
<1>2. PICK frozen \in Int : frozen = position.frozen + volume
  <2>1. position.frozen \in Int /\ volume \in Int
    BY ReplayTypes, RequestAssumption DEF Position
  <2> QED  BY <2>1
<1>3. CASE position' = position
  BY <1>1, <1>3, OrdersKeepReplay
<1>4. CASE position' = WithAvailable([position EXCEPT !.frozen = frozen])
  <2>1. PICK p : position' = p /\ p = WithAvailable([position EXCEPT !.frozen = frozen])
    BY <1>4
  <2> QED  BY <1>1, <2>1, ReplayTypes, PromisedColumns, OrdersKeepReplay
<1> QED  BY <1>2, <1>3, <1>4 DEF Submit

LEMMA CancelFollows ==
    ASSUME CashInv, ReplayInv, NEW o \in Orders, Cancel(o)
    PROVE  ReplayInv'
<1>1. UNCHANGED <<product, day, phase, trades, adjustments, subscriptions>>
  BY DEF Cancel, fixed, corporate
<1>2. PICK frozen \in Int : frozen = position.frozen - orders[o].frozenVolume
  <2>1. position.frozen \in Int /\ orders[o].frozenVolume \in Int
    BY RowTypes DEF Position, Row
  <2> QED  BY <2>1
<1>3. CASE position' = position
  BY <1>1, <1>3, OrdersKeepReplay
<1>4. CASE position' = WithAvailable([position EXCEPT !.frozen = frozen])
  <2>1. PICK p : position' = p /\ p = WithAvailable([position EXCEPT !.frozen = frozen])
    BY <1>4
  <2> QED  BY <1>1, <2>1, ReplayTypes, PromisedColumns, OrdersKeepReplay
<1> QED  BY <1>2, <1>3, <1>4 DEF Cancel

\* A fill is traded on both sides.
LEMMA FillKeepsReplay ==
    ASSUME CashInv, ReplayInv, phase = "trading", NEW p \in Position, NEW q \in Position,
           p.total = position.total, p.today = position.today,
           p.yesterday = position.yesterday, p.locked = position.locked,
           p.pending = position.pending, p.cost = position.cost,
           NEW fact \in TradeFacts, fact.day = day,
           \/ /\ fact.direction = "BUY"
              /\ IsBought(product.settlementDays, p, fact.volume, fact.turnover, q)
           \/ /\ fact.direction = "SELL"
              /\ IsSold(product.settlementDays, p, fact.volume, q),
           position' = q, trades' = Append(trades, fact),
           UNCHANGED <<product, day, phase, adjustments, subscriptions>>
    PROVE  ReplayInv'
<1>1. Follows(product.settlementDays, trades, adjustments, p, subscriptions, day)
  BY FollowsOrders DEF ReplayInv
<1>2. NothingAdded(AddedToday(adjustments, day), subscriptions)
  BY DEF ReplayInv
<1>3. PICK facts \in Seq(AdjustmentFacts), days \in {0, 1}, d \in Nat \ {0},
           ts \in Seq(TradeFacts), subs \in {subscriptions} :
         /\ facts = adjustments /\ days = product.settlementDays /\ d = day /\ ts = trades
         /\ subs = subscriptions
  BY ReplayTypes
<1>4. Follows(days, ts, facts, p, subs, d) /\ NothingAdded(AddedToday(facts, d), subs)
  BY <1>1, <1>2, <1>3
<1>5. \/ fact.direction = "BUY" /\ IsBought(days, p, fact.volume, fact.turnover, q)
      \/ fact.direction = "SELL" /\ IsSold(days, p, fact.volume, q)
  BY <1>3
<1>6. fact.day = d
  BY <1>3
<1>7. Follows(days, Append(ts, fact), facts, q, subs, d)
  BY ONLY <1>4, <1>5, <1>6, FollowsTrade
<1>8. Follows(product'.settlementDays, trades', adjustments', position', subscriptions', day')
  BY <1>3, <1>7
<1>9. NothingAdded(AddedToday(adjustments', day'), subscriptions')
  BY <1>2
<1> QED  BY <1>8, <1>9 DEF ReplayInv, Follows, UpTo, NothingAdded

LEMMA FillBuyFollows ==
    ASSUME CashInv, ReplayInv, NEW o \in Orders, NEW t \in Ticks, FillBuy(o, t),
           orders[o].status \in ActiveStatuses, UNCHANGED <<fixed, day, phase, corporate>>
    PROVE  ReplayInv'
<1>1. PICK row \in Row : row = orders[o] /\ row.direction = "BUY"
  BY RowTypes DEF FillBuy
<1>2. PICK volume \in Int : volume = Smaller(row.remaining, Quote[t].askVolume)
  BY RequestAssumption DEF Smaller, Row
<1>3. PICK turnover \in Int : turnover = Quote[t].ask * volume
  BY RequestAssumption
<1>4. PICK fee \in Int, none \in Int : fee = FillFee(o, turnover) /\ none = 0
  BY <1>1, FillFeeType
<1>5. PICK q \in Position : /\ q = Bought(position, volume, turnover)
                            /\ IsBought(product.settlementDays, position, volume, turnover, q)
  BY ReplayTypes, BoughtFields DEF IsBought
<1>6. PICK fact \in TradeFacts : /\ fact = TradeFact(o, t, volume, turnover, fee, none)
                                 /\ fact.day = day /\ fact.direction = "BUY"
                                 /\ fact.volume = volume /\ fact.turnover = turnover
  <2>1. PICK fact : fact = TradeFact(o, t, volume, turnover, fee, none)
    OBVIOUS
  <2>2. fact \in TradeFacts
    BY <1>1, <2>1, ReplayTypes DEF TradeFact, TradeFacts
  <2> QED  BY <1>1, <2>1, <2>2 DEF TradeFact
<1>7. position' = q /\ trades' = Append(trades, fact)
  BY <1>1, <1>2, <1>3, <1>4, <1>5, <1>6 DEF FillBuy
<1>8. /\ phase = "trading"
      /\ UNCHANGED <<product, day, phase, adjustments, subscriptions>>
  BY DEF CashInv, DayInv, NoActiveOrder, fixed, corporate
<1> QED  BY <1>5, <1>6, <1>7, <1>8, ReplayTypes, FillKeepsReplay

LEMMA FillSellFollows ==
    ASSUME CashInv, ReplayInv, NEW o \in Orders, NEW t \in Ticks, FillSell(o, t),
           orders[o].status \in ActiveStatuses, UNCHANGED <<fixed, day, phase, corporate>>
    PROVE  ReplayInv'
<1>1. PICK row \in Row : row = orders[o] /\ row.direction = "SELL"
  BY RowTypes DEF FillSell
<1>2. PICK volume \in Int : volume = Smaller(row.remaining, Quote[t].bidVolume)
  BY RequestAssumption DEF Smaller, Row
<1>3. PICK turnover \in Int : turnover = Quote[t].bid * volume
  BY RequestAssumption
<1>4. PICK fee \in Int, cost \in Int : fee = FillFee(o, turnover)
                                       /\ cost = CostOf(position, volume)
  BY <1>1, RowTypes, FillFeeType, CostOfType
<1>5. PICK left \in Position :
         /\ left = [position EXCEPT !.frozen = @ - volume]
         /\ left.total = position.total /\ left.today = position.today
         /\ left.yesterday = position.yesterday /\ left.locked = position.locked
         /\ left.pending = position.pending /\ left.cost = position.cost
  <2>1. PICK frozen \in Int : frozen = position.frozen - volume
    BY RowTypes DEF Position
  <2>2. [position EXCEPT !.frozen = frozen] \in Position
    BY RowTypes DEF Position
  <2> QED  BY <2>1, <2>2, RowTypes DEF Position
<1>6. PICK q \in Position : /\ q = Sold(left, volume)
                            /\ IsSold(product.settlementDays, left, volume, q)
  BY ReplayTypes, SoldFields DEF IsSold
<1>7. PICK fact \in TradeFacts : /\ fact = TradeFact(o, t, volume, turnover, fee, cost)
                                 /\ fact.day = day /\ fact.direction = "SELL"
                                 /\ fact.volume = volume
  <2>1. PICK fact : fact = TradeFact(o, t, volume, turnover, fee, cost)
    OBVIOUS
  <2>2. fact \in TradeFacts
    BY <1>1, <2>1, ReplayTypes DEF TradeFact, TradeFacts
  <2> QED  BY <1>1, <2>1, <2>2 DEF TradeFact
<1>8. position' = q /\ trades' = Append(trades, fact)
  BY <1>1, <1>2, <1>3, <1>4, <1>5, <1>6, <1>7 DEF FillSell
<1>9. /\ phase = "trading"
      /\ UNCHANGED <<product, day, phase, adjustments, subscriptions>>
  BY DEF CashInv, DayInv, NoActiveOrder, fixed, corporate
<1> QED  BY <1>5, <1>6, <1>7, <1>8, <1>9, FillKeepsReplay

\* A fact that adds pending shares only, and a cost that the live position learns later.
OnlyPending(p, q, delta) ==
    /\ delta.total = 0 /\ delta.today = 0 /\ delta.yesterday = 0 /\ delta.frozen = 0
    /\ delta.locked = 0
    /\ q.total = p.total /\ q.today = p.today /\ q.yesterday = p.yesterday
    /\ q.locked = p.locked /\ q.pending = p.pending + delta.pending

LEMMA PendingFollows ==
    ASSUME NEW days \in {0, 1}, NEW ts \in Seq(TradeFacts), NEW facts \in Seq(AdjustmentFacts),
           NEW d \in Nat \ {0}, NEW p \in Position, NEW q \in Position, NEW subs, NEW more,
           NEW fact \in AdjustmentFacts, fact.day = d, more # {},
           OnlyPending(p, q, fact.delta), Follows(days, ts, facts, p, subs, d)
    PROVE  /\ Follows(days, ts, Append(facts, fact), q, more, d)
           /\ NothingAdded(AddedToday(facts, d), subs) =>
                 NothingAdded(AddedToday(Append(facts, fact), d), more)
<1>1. /\ p.total \in Int /\ p.today \in Int /\ p.yesterday \in Int /\ p.locked \in Int
  BY DEF Position
<1>2. \A n \in Int : n = n + 0
  OBVIOUS
<1>3. /\ q.total = p.total + fact.delta.total /\ q.today = p.today + fact.delta.today
      /\ q.yesterday = p.yesterday + fact.delta.yesterday
      /\ q.locked = p.locked + fact.delta.locked
      /\ q.pending = p.pending + fact.delta.pending /\ fact.delta.frozen = 0
  BY <1>1, <1>2 DEF OnlyPending
<1>4. /\ Follows(days, ts, Append(facts, fact), q, more, d)
      /\ AddedToday(Append(facts, fact), d) = Plus(AddedToday(facts, d), fact.delta)
  BY <1>3, FollowsFact
<1>5. ASSUME NothingAdded(AddedToday(facts, d), subs)
      PROVE  NothingAdded(AddedToday(Append(facts, fact), d), more)
  <2>1. PICK added \in Position, delta \in Position :
           added = AddedToday(facts, d) /\ delta = fact.delta
    BY TodayTypes DEF AdjustmentFacts
  <2>2. PICK sum \in Position :
           /\ sum = Plus(added, delta) /\ sum.total = added.total + delta.total
           /\ sum.today = added.today + delta.today
           /\ sum.yesterday = added.yesterday + delta.yesterday
           /\ sum.locked = added.locked + delta.locked
    BY PlusFields
  <2>3. sum.total = 0 /\ sum.today = 0 /\ sum.yesterday = 0 /\ sum.locked = 0
    BY <1>5, <2>1, <2>2 DEF NothingAdded, OnlyPending
  <2> QED  BY <1>4, <2>1, <2>2, <2>3 DEF NothingAdded
<1> QED  BY <1>4, <1>5

LEMMA SubscribeFollows ==
    ASSUME CashInv, ReplayInv, NEW r \in Revisions, NEW request \in SubscriptionIds,
           NEW volume \in Volumes, Subscribe(r, request, volume)
    PROVE  ReplayInv'
<1>1. PICK held \in Int, cash \in Int : held = volume /\ cash = volume * T.price
  <2>1. volume \in Nat /\ T.price \in Nat
    BY ReplayTypes, RequestAssumption, TermsType
  <2> QED  BY <2>1
<1>2. PICK delta \in Position :
         /\ delta = [EmptyPosition EXCEPT !.pending = held, !.cost = cash]
         /\ delta.total = 0 /\ delta.today = 0 /\ delta.yesterday = 0 /\ delta.frozen = 0
         /\ delta.locked = 0 /\ delta.pending = held
  <2>1. [EmptyPosition EXCEPT !.pending = held, !.cost = cash] \in Position
    BY EmptyPositionType DEF Position
  <2> QED  BY <2>1 DEF EmptyPosition
<1>3. PICK fact \in AdjustmentFacts : /\ fact = Adjustment(r, "RIGHTS_SUBSCRIBED", delta)
                                      /\ fact.day = day /\ fact.delta = delta
  <2>1. "RIGHTS_SUBSCRIBED" \in Entries
    BY DEF Entries
  <2>2. Adjustment(r, "RIGHTS_SUBSCRIBED", delta) \in AdjustmentFacts
    BY <2>1, ReplayTypes, FactTypes
  <2> QED  BY <2>2 DEF Adjustment
<1>4. PICK pending \in Int : pending = position.pending + held
  <2>1. position.pending \in Int
    BY ReplayTypes DEF Position
  <2> QED  BY <2>1
<1>5. PICK q \in Position :
         /\ q = [position EXCEPT !.pending = pending]
         /\ q.total = position.total /\ q.today = position.today
         /\ q.yesterday = position.yesterday /\ q.locked = position.locked
         /\ q.pending = pending
  <2>1. [position EXCEPT !.pending = pending] \in Position
    BY ReplayTypes DEF Position
  <2> QED  BY <2>1, ReplayTypes DEF Position
<1>6. /\ position' = q /\ adjustments' = Append(adjustments, fact)
      /\ UNCHANGED <<product, day, phase, trades>> /\ subscriptions' # {}
  BY <1>1, <1>2, <1>3, <1>4, <1>5 DEF Subscribe, fixed
<1>7. PICK facts \in Seq(AdjustmentFacts), days \in {0, 1}, d \in Nat \ {0},
           ts \in Seq(TradeFacts), p \in Position, subs \in {subscriptions},
           more \in {subscriptions'} :
         /\ facts = adjustments /\ days = product.settlementDays /\ d = day /\ ts = trades
         /\ p = position /\ subs = subscriptions /\ more = subscriptions'
  BY ReplayTypes
<1>8. OnlyPending(p, q, fact.delta)
  <2>1. /\ q.total = p.total /\ q.today = p.today /\ q.yesterday = p.yesterday
        /\ q.locked = p.locked /\ q.pending = p.pending + held
    BY <1>4, <1>5, <1>7
  <2> QED  BY <1>2, <1>3, <2>1 DEF OnlyPending
<1>9. Follows(days, ts, facts, p, subs, d)
  BY <1>7 DEF ReplayInv
<1>10. fact.day = d /\ more # {}
  BY <1>3, <1>6, <1>7
<1>11. /\ Follows(days, ts, Append(facts, fact), q, more, d)
       /\ NothingAdded(AddedToday(facts, d), subs) =>
             NothingAdded(AddedToday(Append(facts, fact), d), more)
  BY ONLY <1>8, <1>9, <1>10, PendingFollows
<1>12. Follows(product'.settlementDays, trades', adjustments', position', subscriptions', day')
  BY <1>6, <1>7, <1>11
<1>13. phase' = "trading" => NothingAdded(AddedToday(adjustments', day'), subscriptions')
  BY <1>6, <1>7, <1>11 DEF ReplayInv
<1> QED  BY <1>12, <1>13 DEF ReplayInv, Follows, UpTo, NothingAdded

\* A step on the revisions, or of the settlement's phases, touches no facts.
LEMMA StatusStepFollows ==
    ASSUME ReplayInv, position' = position, product' = product, day' = day,
           phase' = "trading" => phase = "trading",
           UNCHANGED <<trades, adjustments, subscriptions>>
    PROVE  ReplayInv'
BY OrdersKeepReplay

LEMMA RunDueActionsFollows ==
    ASSUME CashInv, ReplayInv, RunDueActions
    PROVE  ReplayInv'
<1>1. /\ phase' = "posting" /\ NoActiveOrder
      /\ UNCHANGED <<product, day, trades, subscriptions>>
  BY DEF RunDueActions, CashInv, DayInv, fixed
<1>2. account.frozenCash = 0 /\ account.frozenCommission = 0 /\ position.frozen = 0
  BY <1>1, NothingFrozen DEF CashInv
<1>3. Books \in FollowingBooks
  <2>1. Books \in GoodBooks
    BY <1>2 DEF CashInv, BooksInv, GoodBooks, Books
  <2>2. Books.position = position /\ Books.adjustments = adjustments
    BY DEF Books
  <2> QED  BY <2>1, <2>2 DEF FollowingBooks, ReplayInv
<1>4. PICK b \in FollowingBooks : b = RunOf(Books)
  BY <1>3, ReplayTypes, RunFollows
<1>5. position' = b.position /\ adjustments' = b.adjustments
  BY <1>4 DEF RunDueActions, RunOf
<1>6. Follows(product.settlementDays, trades, b.adjustments, b.position, subscriptions, day)
  BY DEF FollowingBooks
<1>7. Follows(product'.settlementDays, trades', adjustments', position', subscriptions', day')
  BY <1>1, <1>5, <1>6
<1>8. phase' # "trading"
  BY <1>1
<1> QED  BY <1>7, <1>8 DEF ReplayInv, Follows, UpTo, NothingAdded

LEMMA PostFollows ==
    ASSUME CashInv, ReplayInv, Post
    PROVE  ReplayInv'
<1>1. PICK facts \in Seq(AdjustmentFacts), days \in {0, 1}, d \in Nat \ {0},
           ts \in Seq(TradeFacts), p \in Position, subs \in {subscriptions} :
         /\ facts = adjustments /\ days = product.settlementDays /\ d = day /\ ts = trades
         /\ p = position /\ subs = subscriptions
  BY ReplayTypes
<1>2. Follows(days, ts, facts, p, subs, d)
  BY <1>1 DEF ReplayInv
<1>3. PICK r \in Position :
         /\ r = ReplayOf(days, ts, facts, d) /\ r.total = p.total /\ r.pending = p.pending
         /\ r.frozen = 0 /\ (subs = {} => r.cost = p.cost)
         /\ NothingOn(ts, d) /\ NothingOn(facts, d) => Sane(r)
  BY <1>2, ReplayMatches
<1>4. Replay = r
  BY <1>1, <1>3, ReplayIsOf
<1>5. Sane(r)
  <2>1. CASE Authoritative
    BY <1>4, <2>1 DEF Post, Accepts
  <2>2. CASE ~Authoritative
    <3>1. ts = <<>> /\ facts = <<>>
      BY <1>1, <2>2 DEF Authoritative
    <3>2. NothingOn(ts, d) /\ NothingOn(facts, d)
      BY <3>1 DEF NothingOn
    <3> QED  BY <1>3, <3>2
  <2> QED  BY <2>1, <2>2
<1>6. PICK x \in Position : /\ x = (IF Authoritative THEN Replay ELSE position)
                            /\ x.total = r.total /\ x.pending = r.pending
                            /\ subs = {} => x.cost = r.cost
  BY <1>1, <1>3, <1>4
<1>7. UpTo(ts, d) /\ UpTo(facts, d)
  BY <1>2 DEF Follows
<1>8. /\ Follows(days, ts, facts, CarriedOver(x), subs, d + 1)
      /\ NothingAdded(AddedToday(facts, d + 1), subs)
  BY <1>3, <1>5, <1>6, <1>7, NextDayFollows
<1>9. /\ position' = CarriedOver(x) /\ day' = d + 1 /\ product' = product
      /\ trades' = ts /\ adjustments' = facts /\ subscriptions' = subs
  BY <1>1, <1>6 DEF Post, SettledPosition, CarriedOver, fixed, corporate
<1>10. Follows(product'.settlementDays, trades', adjustments', position', subscriptions', day')
  BY <1>1, <1>8, <1>9
<1>11. NothingAdded(AddedToday(adjustments', day'), subscriptions')
  BY <1>8, <1>9
<1> QED  BY <1>10, <1>11 DEF ReplayInv, Follows, UpTo, NothingAdded

LEMMA ReplayInit == Init => ReplayInv
<1> SUFFICES ASSUME Init PROVE ReplayInv
  OBVIOUS
<1>1. PICK days \in {0, 1} : days = product.settlementDays
  BY ProductsAssumption DEF Init
<1>2. PICK ts \in Seq(TradeFacts), facts \in Seq(AdjustmentFacts), d \in Nat \ {0} :
         /\ ts = <<>> /\ facts = <<>> /\ d = 1 /\ d - 1 = 0
         /\ ts = trades /\ facts = adjustments /\ d = day
  <2>1. trades = <<>> /\ adjustments = <<>> /\ day = 1
    BY DEF Init
  <2>2. trades \in Seq(TradeFacts) /\ adjustments \in Seq(AdjustmentFacts)
    BY <2>1
  <2>3. day \in Nat \ {0} /\ day - 1 = 0
    BY <2>1
  <2> QED  BY <2>1, <2>2, <2>3
<1>3. ReplayOf(days, ts, facts, d - 1) = EmptyPosition
  <2>1. 0 \in Nat
    OBVIOUS
  <2> QED  BY <1>2, <2>1, ReplayGoesOn
<1>4. NothingOn(ts, d) /\ NothingOn(facts, d) /\ UpTo(ts, d) /\ UpTo(facts, d)
  BY <1>2 DEF NothingOn, UpTo
<1>5. PICK begun \in Position : begun = RolledOver(EmptyPosition)
                                /\ IsRolledOver(EmptyPosition, begun)
  BY EmptyPositionType, RolledOverFields DEF IsRolledOver
<1>6. TradedToday(days, ts, facts, d) = begun /\ AddedToday(facts, d) = EmptyPosition
  BY <1>3, <1>4, <1>5, EmptyPositionType, NothingTraded, NothingAdjusted
  DEF TradedToday, AddedToday
<1>7. Sane(EmptyPosition) /\ EmptyPosition.frozen = 0
  BY DEF Sane, EmptyPosition
<1>8. Tracks(EmptyPosition, begun, EmptyPosition, subscriptions)
  <2>1. WellFormed(begun)
    BY <1>5 DEF IsRolledOver, WellFormed
  <2> QED  BY <1>5, <2>1 DEF IsRolledOver, Tracks, EmptyPosition
<1>9. NothingAdded(EmptyPosition, subscriptions)
  BY DEF NothingAdded, EmptyPosition
<1>10. position = EmptyPosition
  BY DEF Init
<1>11. Follows(days, ts, facts, position, subscriptions, d)
  BY <1>3, <1>4, <1>6, <1>7, <1>8, <1>10 DEF Follows
<1> QED  BY <1>1, <1>2, <1>6, <1>9, <1>11 DEF ReplayInv

LEMMA ReplayStep == CashInv /\ ReplayInv /\ [Next]_vars => ReplayInv'
<1> SUFFICES ASSUME CashInv, ReplayInv, [Next]_vars PROVE ReplayInv'
  OBVIOUS
<1>1. CASE \E o \in Orders, direction \in {"BUY", "SELL"}, limit \in LimitPrices,
              volume \in Volumes : Submit(o, direction, limit, volume)
  BY <1>1, SubmitFollows
<1>2. CASE \E o \in Orders : Cancel(o)
  BY <1>2, CancelFollows
<1>3. CASE \E o \in Orders, t \in Ticks : DeliverTick(o, t)
  BY <1>3, FillBuyFollows, FillSellFollows DEF DeliverTick
<1>4. CASE \E r \in Revisions : Import(r) \/ Confirm(r)
  BY <1>4, StatusStepFollows DEF Import, Confirm, fixed
<1>5. CASE \E r \in Revisions, request \in SubscriptionIds, volume \in Volumes :
              Subscribe(r, request, volume)
  BY <1>5, SubscribeFollows
<1>6. CASE Barrier \/ Repeat
  BY <1>6, StatusStepFollows DEF Barrier, Repeat, fixed, corporate
<1>7. CASE RunDueActions \/ Post
  BY <1>7, RunDueActionsFollows, PostFollows
<1>8. CASE UNCHANGED vars
  BY <1>8, StatusStepFollows DEF vars
<1> QED  BY <1>1, <1>2, <1>3, <1>4, <1>5, <1>6, <1>7, <1>8 DEF Next

LEMMA ReplayInvHolds == Spec => [](CashInv /\ ReplayInv)
<1>1. Init => CashInv /\ ReplayInv
  BY CashInit, ReplayInit
<1>2. CashInv /\ ReplayInv /\ [Next]_vars => (CashInv /\ ReplayInv)'
  BY CashStep, ReplayStep
<1> QED  BY <1>1, <1>2, PTL DEF Spec

LEMMA ReplaySuffices == CashInv /\ ReplayInv => ReplayIsLive
<1> SUFFICES ASSUME CashInv, ReplayInv, phase = "posting" PROVE ReplayIsLive
  BY DEF ReplayIsLive
<1>1. position.frozen = 0
  BY NothingFrozen DEF CashInv, DayInv
<1>2. PICK facts \in Seq(AdjustmentFacts), days \in {0, 1}, d \in Nat \ {0},
           ts \in Seq(TradeFacts), p \in Position, subs \in {subscriptions} :
         /\ facts = adjustments /\ days = product.settlementDays /\ d = day /\ ts = trades
         /\ p = position /\ subs = subscriptions
  BY ReplayTypes
<1>3. Follows(days, ts, facts, p, subs, d)
  BY <1>2 DEF ReplayInv
<1>4. Replay = ReplayOf(days, ts, facts, d)
  BY <1>2, ReplayIsOf
<1> QED  BY <1>1, <1>2, <1>3, <1>4, ReplayMatches DEF ReplayIsLive

\* Whatever is bought, sold, split, listed, redeemed, subscribed and carried over, on
\* any number of days: the replay of the facts that a posting is about to put in the
\* place of the live position (CashSecurityPositionReplayProjection.replay,
\* _settle_batch_from_facts) has its shares, pending shares and cost.
THEOREM ReplayIsAlwaysLive == Spec => []ReplayIsLive
BY ReplayInvHolds, ReplaySuffices, PTL

-----------------------------------------------------------------------------
(* The cash that the facts explain.                                        *)

\* What a trade adds to a sum of cash.
CashAfter(sum, trade) ==
    sum - trade.commission
    + (IF trade.direction = "SELL" THEN trade.turnover ELSE -trade.turnover)

TradeCash(ts) ==
    FoldLeft(LAMBDA sum, trade :
                sum - trade.commission
                + (IF trade.direction = "SELL" THEN trade.turnover
                   ELSE -trade.turnover), 0, ts)

LedgerCash(facts) == SumFunctionOnSet([l \in facts |-> l.cash], facts)

CashSteps(ts) == [k \in DOMAIN ts |-> [sum \in Int |-> CashAfter(sum, ts[k])]]

LEMMA CashAfterType ==
    ASSUME NEW sum \in Int, NEW trade \in TradeFacts
    PROVE  CashAfter(sum, trade) \in Int
BY DEF CashAfter, TradeFacts

LEMMA TradeCashRuns ==
    ASSUME NEW ts \in Seq(TradeFacts)
    PROVE  \E v : IsRun(v, CashSteps(ts), 0, Len(ts), Int) /\ v[Len(ts)] = TradeCash(ts)
<1>z. PICK zero \in Int : zero = 0
  OBVIOUS
<1> DEFINE D == DOMAIN ts
           Step(sum, i) == CashAfter(sum, ts[i])
           Body(g) == [s \in SUBSET D |-> IF s = {} THEN zero ELSE Step(g[s \ {Max(s)}], Max(s))]
           F == CashSteps(ts)
<1>1. TradeCash(ts) = (CHOOSE g : g = Body(g))[D]
  BY <1>z DEF TradeCash, FoldLeft, MapThenFoldSet, CashAfter
<1>n. PICK n \in Nat : n = Len(ts) /\ D = 1 .. n
  OBVIOUS
<1>2. ASSUME NEW i \in 1 .. n, NEW sum \in Int PROVE Step(sum, i) \in Int
  BY <1>n, CashAfterType
<1>3. \A i \in 1 .. n : \A sum \in Int : F[i][sum] = Step(sum, i)
  BY <1>n DEF CashSteps
<1> HIDE DEF D, Step, F
<1>4. \A s \in SUBSET (1 .. n) : s # {} => Max(s) \in 1 .. n /\ s \ {Max(s)} \in SUBSET (1 .. n)
  BY MaxBelongs
<1>5. zero \in Int /\ ClosedBy(F, n, Int)
  BY <1>2, <1>3 DEF ClosedBy
<1>6. PICK g : IsFold(g, F, zero, n, Int)
  BY ONLY <1>n, <1>5, FoldExists
<1>7. \A s \in SUBSET (1 .. n) :
         g[s] = IF s = {} THEN zero ELSE Step(g[s \ {Max(s)}], Max(s))
  BY <1>3, <1>4, <1>6 DEF FoldStep, IsFold
<1>8. g = Body(g)
  BY <1>n, <1>6, <1>7 DEF IsFold
<1> HIDE DEF Body
<1>9. PICK iter : iter = Body(iter) /\ TradeCash(ts) = iter[1 .. n]
  BY <1>1, <1>n, <1>8
<1>10. iter[{}] = zero /\ \A s \in SUBSET (1 .. n) : s # {} =>
          iter[s] = Step(iter[s \ {Max(s)}], Max(s))
  BY <1>n, <1>9 DEF Body
<1>11. Iterates(iter, F, zero, n, Int)
  BY <1>3, <1>4, <1>10 DEF Iterates
<1>12. PICK v : IsRun(v, F, zero, n, Int) /\ v[n] = iter[1 .. n]
  <2> PICK S : S = Int
    OBVIOUS
  <2>1. n \in Nat
    BY <1>n
  <2>2. zero \in S /\ ClosedBy(F, n, S) /\ Iterates(iter, F, zero, n, S)
    BY <1>5, <1>11
  <2>3. \E v : IsRun(v, F, zero, n, S) /\ v[n] = iter[1 .. n]
    BY ONLY <2>1, <2>2, FoldRuns
  <2> QED  BY <2>3
<1> QED  BY <1>z, <1>n, <1>9, <1>12 DEF F

\* The last trade is added last.
LEMMA TradeCashAppend ==
    ASSUME NEW ts \in Seq(TradeFacts), NEW fact \in TradeFacts
    PROVE  /\ TradeCash(ts) \in Int
           /\ TradeCash(Append(ts, fact)) = CashAfter(TradeCash(ts), fact)
<1>n. PICK n \in Nat : n = Len(ts) /\ DOMAIN ts = 1 .. n
  OBVIOUS
<1>1. PICK more \in Seq(TradeFacts) : more = Append(ts, fact)
  BY AppendType
<1>2. /\ Len(more) = n + 1 /\ DOMAIN more = 1 .. (n + 1) /\ more[n + 1] = fact
      /\ \A k \in 1 .. n : more[k] = ts[k]
  BY <1>n, <1>1
<1>z. PICK zero \in Int : zero = 0
  OBVIOUS
<1>3. PICK u : IsRun(u, CashSteps(ts), zero, n, Int) /\ u[n] = TradeCash(ts)
  BY <1>z, <1>n, TradeCashRuns
<1>4. PICK v : IsRun(v, CashSteps(more), zero, n + 1, Int) /\ v[n + 1] = TradeCash(more)
  BY <1>z, <1>2, TradeCashRuns
<1>5. /\ \A k \in 1 .. n : \A sum \in Int : CashSteps(ts)[k][sum] = CashSteps(more)[k][sum]
      /\ \A sum \in Int : CashSteps(more)[n + 1][sum] = CashAfter(sum, fact)
  <2>1. \A k \in 1 .. n : k \in 1 .. (n + 1)
    OBVIOUS
  <2>2. n + 1 \in 1 .. (n + 1)
    OBVIOUS
  <2> QED  BY <1>n, <1>2, <2>1, <2>2 DEF CashSteps
<1>6. v[n + 1] = CashSteps(more)[n + 1][u[n]] /\ u[n] \in Int
  <2>1. n \in Nat /\ n + 1 \in Nat /\ n <= n + 1
    OBVIOUS
  <2>2. u[n] = v[n]
    BY ONLY <1>3, <1>4, <1>5, <2>1, RunsAgree
  <2>3. n + 1 \in 1 .. (n + 1) /\ (n + 1) - 1 = n /\ n \in 0 .. n
    OBVIOUS
  <2> QED  BY <1>3, <1>4, <2>2, <2>3 DEF IsRun
<1> QED  BY <1>1, <1>3, <1>4, <1>5, <1>6

LEMMA TradeCashEmpty == TradeCash(<<>>) = 0
<1>1. <<>> \in Seq(TradeFacts) /\ Len(<<>>) = 0
  OBVIOUS
<1>2. PICK v : IsRun(v, CashSteps(<<>>), 0, Len(<<>>), Int)
               /\ v[Len(<<>>)] = TradeCash(<<>>)
  BY <1>1, TradeCashRuns
<1> QED  BY <1>1, <1>2 DEF IsRun

-----------------------------------------------------------------------------
(* The sum that ExplainedCash takes over the ledger.                       *)

CashPartial(g, s) == IF s = {} THEN 0 ELSE Sole(s).cash + g[s \ {Sole(s)}]

CashIter(facts) == CHOOSE iter : iter = [s \in SUBSET facts |-> CashPartial(iter, s)]

LEMMA SumOverIsIter ==
    ASSUME NEW facts
    PROVE  SumOver(facts, LAMBDA l : l.cash) = CashIter(facts)[facts]
BY DEF SumOver, MapThenSumSet, MapThenFoldSet, CashIter, CashPartial, Sole

LEMMA SumOverIsLedgerCash ==
    ASSUME NEW facts, IsFiniteSet(facts)
    PROVE  SumOver(facts, LAMBDA l : l.cash) = LedgerCash(facts)
<1> DEFINE f == [l \in facts |-> l.cash]
           g == Iter(f, facts)
           h == CashIter(facts)
           G == {s \in SUBSET facts : g[s] = h[s]}
<1>1. ASSUME NEW iter, NEW s \in SUBSET facts PROVE CashPartial(iter, s) = Partial(f, iter, s)
  BY SoleBelongs DEF CashPartial, Partial
<1>2. PICK iter : iter = [s \in SUBSET facts |-> Partial(f, iter, s)]
  BY IterExists
<1>3. iter = [s \in SUBSET facts |-> CashPartial(iter, s)]
  BY <1>1, <1>2
<1>4. h = [s \in SUBSET facts |-> CashPartial(h, s)]
  BY <1>3 DEF CashIter
<1>5. /\ h[{}] = 0
      /\ \A s \in SUBSET facts : s # {} => h[s] = f[Sole(s)] + h[s \ {Sole(s)}]
  <2> HIDE DEF h, f
  <2>1. \A s \in SUBSET facts : h[s] = CashPartial(h, s)
    BY <1>4
  <2>2. \A s \in SUBSET facts : h[s] = Partial(f, h, s)
    BY <1>1, <2>1
  <2> QED  BY <2>2 DEF Partial
<1>6. /\ g[{}] = 0
      /\ \A s \in SUBSET facts : s # {} => g[s] = f[Sole(s)] + g[s \ {Sole(s)}]
  BY IterUnfolds
<1> HIDE DEF f, g, h
<1>7. {} \in G
  BY <1>5, <1>6
<1>8. ASSUME NEW s \in SUBSET facts, s # {}, \A x \in s : s \ {x} \in G PROVE s \in G
  <2>1. Sole(s) \in s
    BY <1>8, SoleBelongs
  <2>2. g[s \ {Sole(s)}] = h[s \ {Sole(s)}]
    BY <1>8, <2>1
  <2> QED  BY <1>5, <1>6, <1>8, <2>2
<1>9. facts \in G
  <2> HIDE DEF G
  <2> QED  BY <1>7, <1>8, SubsetInduction
<1> QED  BY <1>9, SumIsIter, SumOverIsIter DEF LedgerCash, f, g, h

LEMMA LedgerCashType ==
    ASSUME NEW facts \in SUBSET LedgerFacts, IsFiniteSet(facts)
    PROVE  LedgerCash(facts) \in Int
<1> DEFINE f == [l \in facts |-> l.cash]
<1>1. \A l \in facts : f[l] \in Int
  BY DEF LedgerFacts
<1> HIDE DEF f
<1> QED  BY <1>1, SumType DEF LedgerCash, f

\* Facts that move no cash.
LEMMA LedgerCashSame ==
    ASSUME NEW more \in SUBSET LedgerFacts, IsFiniteSet(more), NEW facts \in SUBSET more,
           \A l \in more \ facts : l.cash = 0
    PROVE  LedgerCash(more) = LedgerCash(facts)
<1> DEFINE f == [l \in more |-> l.cash]
           g == [l \in facts |-> l.cash]
<1>1. \A l \in more : f[l] \in Int
  BY DEF LedgerFacts
<1>2. \A l \in more \ facts : f[l] = 0
  OBVIOUS
<1>3. IsFiniteSet(facts) /\ \A l \in facts : f[l] = g[l]
  BY FS_Subset
<1> HIDE DEF f, g
<1>4. SumFunctionOnSet(f, more) = SumFunctionOnSet(f, facts)
  BY <1>1, <1>2, SumSkipsNothing
<1>5. SumFunctionOnSet(f, facts) = SumFunctionOnSet(g, facts)
  BY <1>3, SumDependsOnValues
<1> QED  BY <1>4, <1>5 DEF LedgerCash, f, g

\* A fact that was not there.
LEMMA LedgerCashAdds ==
    ASSUME NEW facts \in SUBSET LedgerFacts, IsFiniteSet(facts), NEW fact \in LedgerFacts,
           fact \notin facts
    PROVE  LedgerCash(facts \cup {fact}) = LedgerCash(facts) + fact.cash
<1> DEFINE f == [l \in facts \cup {fact} |-> l.cash]
           g == [l \in facts |-> l.cash]
<1>1. \A l \in facts : f[l] \in Int /\ f[l] = g[l]
  BY DEF LedgerFacts
<1>2. f[fact] = fact.cash /\ fact.cash \in Int
  BY DEF LedgerFacts
<1> HIDE DEF f, g
<1>3. SumFunctionOnSet(f, facts \cup {fact}) = f[fact] + SumFunctionOnSet(f, facts)
  BY <1>1, <1>2, SumAdds
<1>4. SumFunctionOnSet(f, facts) = SumFunctionOnSet(g, facts)
  BY <1>1, SumDependsOnValues
<1>5. SumFunctionOnSet(f, facts) \in Int
  BY <1>1, SumType
<1> QED  BY <1>2, <1>3, <1>4, <1>5 DEF LedgerCash, f, g

-----------------------------------------------------------------------------
(* What run_due_actions does to the cash, and to the ledger.               *)

\* The cash is what the facts explain, and only what is being executed, or was, has
\* facts; each subscription has been asked for once.
Recorded(b, ts, subs) ==
    /\ IsFiniteSet(b.ledger)
    /\ b.account.cash = OpeningCash + TradeCash(ts) + LedgerCash(b.ledger)
    /\ \A l \in b.ledger : b.actions[l.revision] \in ExecutedStatuses
    /\ \A l \in b.ledger : l.entry = "RIGHTS_SUBSCRIBED" =>
          \E s \in subs : s.revision = l.revision /\ s.request = l.token

\* An operation on a revision posts facts of that revision: one that moves cash is new.
Posts(b, c, r, facts) ==
    /\ IsFiniteSet(facts)
    /\ c.ledger = b.ledger \cup facts
    /\ \A l \in facts : l.revision = r /\ l.entry # "RIGHTS_SUBSCRIBED"
    /\ facts # {} => b.actions[r] \in ExecutedStatuses
    /\ \/ c.account.cash = b.account.cash /\ \A l \in facts : l.cash = 0
       \/ \E l \in LedgerFacts : /\ facts = {l} /\ l \notin b.ledger
                                 /\ c.account.cash = b.account.cash + l.cash

Records(b, c, r) ==
    /\ \A q \in Revisions \ {r} : c.actions[q] = b.actions[q]
    /\ b.actions[r] \in ExecutedStatuses => c.actions[r] \in ExecutedStatuses
    /\ \E facts \in SUBSET LedgerFacts : Posts(b, c, r, facts)

LEMMA RecordsKeep ==
    ASSUME NEW ts \in Seq(TradeFacts), NEW subs, NEW r \in Revisions, NEW b \in GoodBooks,
           NEW c \in GoodBooks, Recorded(b, ts, subs), Records(b, c, r)
    PROVE  Recorded(c, ts, subs)
<1>1. PICK facts \in SUBSET LedgerFacts : Posts(b, c, r, facts)
  BY DEF Records
<1>2. /\ b.ledger \in SUBSET LedgerFacts /\ c.ledger \in SUBSET LedgerFacts
      /\ b.account.cash \in Int /\ c.account.cash \in Int
  BY DEF GoodBooks, BooksType, Account
<1>3. IsFiniteSet(b.ledger) /\ IsFiniteSet(c.ledger)
  <2>1. IsFiniteSet(b.ledger) /\ IsFiniteSet(facts) /\ c.ledger = b.ledger \cup facts
    BY <1>1 DEF Recorded, Posts
  <2>2. IsFiniteSet(b.ledger \cup facts)
    BY ONLY <2>1, FS_Union
  <2> QED  BY <2>1, <2>2
<1>4. c.account.cash = OpeningCash + TradeCash(ts) + LedgerCash(c.ledger)
  <2>1. PICK opening \in Int, traded \in Int, before \in Int, now \in Int :
           /\ opening = OpeningCash /\ traded = TradeCash(ts)
           /\ before = LedgerCash(b.ledger) /\ now = LedgerCash(c.ledger)
    <3>1. OpeningCash \in Int
      BY RequestAssumption
    <3>2. TradeCash(ts) \in Int
      <4>1. PICK v : IsRun(v, CashSteps(ts), 0, Len(ts), Int) /\ v[Len(ts)] = TradeCash(ts)
        BY TradeCashRuns
      <4> QED  BY <4>1 DEF IsRun
    <3> QED  BY <1>2, <1>3, <3>1, <3>2, LedgerCashType
  <2>2. CASE c.account.cash = b.account.cash /\ \A l \in facts : l.cash = 0
    <3>1. b.ledger \in SUBSET c.ledger /\ \A l \in c.ledger \ b.ledger : l.cash = 0
      BY <1>1, <2>2 DEF Posts
    <3>2. LedgerCash(c.ledger) = LedgerCash(b.ledger)
      BY <1>2, <1>3, <3>1, LedgerCashSame
    <3> QED  BY <2>2, <3>2 DEF Recorded
  <2>3. ASSUME NEW l \in LedgerFacts, facts = {l}, l \notin b.ledger,
               c.account.cash = b.account.cash + l.cash
        PROVE  c.account.cash = OpeningCash + TradeCash(ts) + LedgerCash(c.ledger)
    <3>1. c.ledger = b.ledger \cup {l}
      BY <1>1, <2>3 DEF Posts
    <3>2. now = before + l.cash
      BY <1>2, <1>3, <2>1, <2>3, <3>1, LedgerCashAdds
    <3>3. l.cash \in Int
      BY DEF LedgerFacts
    <3>4. b.account.cash = opening + traded + before
      BY <2>1 DEF Recorded
    <3>5. c.account.cash = opening + traded + now
      BY <2>3, <3>2, <3>3, <3>4
    <3> QED  BY <2>1, <3>5
  <2> QED  BY <1>1, <2>2, <2>3 DEF Posts
<1>5. \A q \in Revisions : b.actions[q] \in ExecutedStatuses => c.actions[q] \in ExecutedStatuses
  BY DEF Records
<1>6. \A l \in c.ledger : c.actions[l.revision] \in ExecutedStatuses
  <2>1. \A l \in LedgerFacts : l.revision \in Revisions
    BY DEF LedgerFacts
  <2> QED  BY <1>1, <1>2, <1>5, <2>1 DEF Posts, Recorded
<1>7. \A l \in c.ledger : l.entry = "RIGHTS_SUBSCRIBED" =>
         \E s \in subs : s.revision = l.revision /\ s.request = l.token
  BY <1>1 DEF Posts, Recorded
<1> QED  BY <1>3, <1>4, <1>6, <1>7 DEF Recorded

\* Books whose ledger and cash are as they were.
LEMMA NothingRecords ==
    ASSUME NEW r \in Revisions, NEW b, NEW c, c.ledger = b.ledger, c.account = b.account,
           \A q \in Revisions \ {r} : c.actions[q] = b.actions[q],
           b.actions[r] \in ExecutedStatuses => c.actions[r] \in ExecutedStatuses
    PROVE  Records(b, c, r)
<1>1. {} \in SUBSET LedgerFacts /\ Posts(b, c, r, {})
  BY FS_EmptySet DEF Posts
<1> QED  BY <1>1 DEF Records

\* The statuses are left alone, or a revision is completed.
Onward(b, c, r) ==
    /\ \A q \in Revisions \ {r} : c.actions[q] = b.actions[q]
    /\ c.actions[r] \in {b.actions[r], "COMPLETED"}

LEMMA CompletedRecords ==
    ASSUME NEW r \in Revisions, NEW b \in GoodFor(r)
    PROVE  Records(b, Completed(b, r), r)
<1>1. b \in BooksType
  BY DEF GoodFor, GoodBooks
<1>2. PICK c : c = Completed(b, r)
  OBVIOUS
<1>3. c.ledger = b.ledger /\ c.account = b.account /\ Onward(b, c, r)
  BY <1>1, <1>2 DEF Completed, BooksType, Onward
<1>4. "COMPLETED" \in ExecutedStatuses
  BY DEF ExecutedStatuses
<1>5. Records(b, c, r)
  BY <1>3, <1>4, NothingRecords DEF Onward
<1> QED  BY <1>2, <1>5

LEMMA CapturedRecords ==
    ASSUME NEW r \in Revisions, NEW b \in GoodFor(r)
    PROVE  Records(b, Captured(b, r), r)
<1>1. b \in BooksType
  BY DEF GoodFor, GoodBooks
<1>2. PICK c : c = Captured(b, r)
  OBVIOUS
<1>3. /\ c.ledger = b.ledger /\ c.account = b.account
      /\ \A q \in Revisions \ {r} : c.actions[q] = b.actions[q]
      /\ c.actions[r] = "ENTITLEMENT_CAPTURED"
  BY <1>1, <1>2 DEF Captured, BooksType
<1>4. c.actions[r] \in ExecutedStatuses
  BY <1>3 DEF ExecutedStatuses, ProcessableStatuses
<1>5. Records(b, c, r)
  BY <1>3, <1>4, NothingRecords
<1> QED  BY <1>2, <1>5

\* One new fact of a revision that is executed, or has been.
LEMMA FactRecords ==
    ASSUME NEW r \in Revisions, NEW b, NEW c, NEW l \in LedgerFacts, l.revision = r,
           l.entry # "RIGHTS_SUBSCRIBED", c.ledger = b.ledger \cup {l},
           b.actions[r] \in ExecutedStatuses, Onward(b, c, r),
           \/ c.account.cash = b.account.cash /\ l.cash = 0
           \/ c.account.cash = b.account.cash + l.cash /\ l \notin b.ledger
    PROVE  Records(b, c, r)
<1>1. IsFiniteSet({l})
  BY FS_Singleton
<1>2. {l} \in SUBSET LedgerFacts /\ Posts(b, c, r, {l})
  BY <1>1 DEF Posts
<1>3. "COMPLETED" \in ExecutedStatuses
  BY DEF ExecutedStatuses
<1> QED  BY <1>2, <1>3 DEF Records, Onward

LEMMA PaidRecords ==
    ASSUME product \in Products, day \in Nat, NEW r \in Revisions, NEW b \in GoodFor(r)
    PROVE  Records(b, Paid(b, r), r)
<1>b. b \in BooksType
  BY DEF GoodFor, GoodBooks
<1>1. PICK amount \in Int, owed \in Int, none \in Int :
         /\ amount = IF product.kind \in SplitKinds THEN b.entitlements[r].lieu
                     ELSE b.entitlements[r].cash
         /\ owed = -amount /\ none = 0
  BY BooksMayBeBooked DEF Entitlement
<1>2. CASE \/ product.kind \in {"STOCK_DIVIDEND", "RIGHTS_ISSUE"}
           \/ ~Entitled(b, r)
           \/ CashIsPaid(b, r)
  <2>1. Paid(b, r) = Completed(b, r)
    BY <1>2 DEF Paid
  <2> QED  BY <2>1, CompletedRecords
<1>3. CASE ~(\/ product.kind \in {"STOCK_DIVIDEND", "RIGHTS_ISSUE"}
             \/ ~Entitled(b, r)
             \/ CashIsPaid(b, r))
  <2>1. PICK l \in LedgerFacts : /\ l = LedgerFact(r, "CASH_PAID", "", amount, owed, none)
                                 /\ l.revision = r /\ l.entry = "CASH_PAID" /\ l.token = ""
                                 /\ l.cash = amount
    <3>1. "CASH_PAID" \in Entries
      BY DEF Entries
    <3>2. LedgerFact(r, "CASH_PAID", "", amount, owed, none) \in LedgerFacts
      BY <3>1, FactTypes
    <3> QED  BY <3>2 DEF LedgerFact
  <2>2. PICK c : c = Paid(b, r)
    OBVIOUS
  <2>3. /\ c.ledger = b.ledger \cup {l} /\ Onward(b, c, r)
        /\ c.account.cash = b.account.cash + amount
    BY <1>b, <1>1, <1>3, <2>1, <2>2 DEF Paid, Completed, BooksType, Account, Onward
  <2>4. l \notin b.ledger /\ b.actions[r] \in ExecutedStatuses
    BY <1>3, <2>1 DEF CashIsPaid, Posted, GoodFor, GoodBooks, OneIsLive
  <2>5. Records(b, c, r)
    BY <2>1, <2>3, <2>4, FactRecords
  <2> QED  BY <2>2, <2>5
<1> QED  BY <1>2, <1>3

LEMMA MaturedRecords ==
    ASSUME product \in Products, day \in Nat, NEW r \in Revisions, NEW b \in GoodFor(r)
    PROVE  Records(b, Matured(b, r), r)
<1>b. b \in BooksType
  BY DEF GoodFor, GoodBooks
<1>1. PICK owed \in Int, none \in Int : owed = b.entitlements[r].cash /\ none = 0
  BY BooksMayBeBooked DEF Entitlement
<1>2. CASE ~Entitled(b, r) \/ Posted(b, r, "BOND_PRINCIPAL_RECEIVABLE", "")
  <2>1. Matured(b, r) = Completed(b, r)
    BY <1>2 DEF Matured
  <2> QED  BY <2>1, CompletedRecords
<1>3. CASE ~(~Entitled(b, r) \/ Posted(b, r, "BOND_PRINCIPAL_RECEIVABLE", ""))
  <2>1. PICK l \in LedgerFacts :
           /\ l = LedgerFact(r, "BOND_PRINCIPAL_RECEIVABLE", "", none, owed, none)
           /\ l.revision = r /\ l.entry = "BOND_PRINCIPAL_RECEIVABLE" /\ l.cash = none
    <3>1. "BOND_PRINCIPAL_RECEIVABLE" \in Entries
      BY DEF Entries
    <3>2. LedgerFact(r, "BOND_PRINCIPAL_RECEIVABLE", "", none, owed, none) \in LedgerFacts
      BY <3>1, FactTypes
    <3> QED  BY <3>2 DEF LedgerFact
  <2>2. PICK c : c = Matured(b, r)
    OBVIOUS
  <2>3. /\ c.ledger = b.ledger \cup {l} /\ Onward(b, c, r)
        /\ c.account.cash = b.account.cash
    BY <1>b, <1>1, <1>3, <2>1, <2>2 DEF Matured, Completed, BooksType, Account, Onward
  <2>4. b.actions[r] \in ExecutedStatuses
    BY <1>3 DEF GoodFor, GoodBooks, OneIsLive
  <2>5. Records(b, c, r)
    BY <1>1, <2>1, <2>3, <2>4, FactRecords
  <2> QED  BY <2>2, <2>5
<1> QED  BY <1>2, <1>3

LEMMA ListedRecords ==
    ASSUME product \in Products, day \in Nat, NEW r \in Revisions, NEW b \in GoodFor(r),
           b.entitlements[r].pending > 0 => Entitled(b, r)
    PROVE  Records(b, Listed(b, r), r)
<1>b. b \in BooksType
  BY DEF GoodFor, GoodBooks
<1>e. PICK e \in Entitlement : e = b.entitlements[r]
  BY BooksMayBeBooked
<1>1. CASE e.pending <= 0 \/ Posted(b, r, "SHARES_LISTED", "")
  <2>1. Listed(b, r) = Completed(b, r)
    BY <1>1, <1>e DEF Listed
  <2> QED  BY <2>1, CompletedRecords
<1>2. CASE ~(e.pending <= 0 \/ Posted(b, r, "SHARES_LISTED", ""))
  <2>n. PICK none \in Int : none = 0
    OBVIOUS
  <2>1. PICK l \in LedgerFacts :
           /\ l = LedgerFact(r, "SHARES_LISTED", "", none, none, none)
           /\ l.revision = r /\ l.entry = "SHARES_LISTED" /\ l.cash = none
    <3>1. "SHARES_LISTED" \in Entries
      BY DEF Entries
    <3>2. LedgerFact(r, "SHARES_LISTED", "", none, none, none) \in LedgerFacts
      BY <3>1, FactTypes
    <3> QED  BY <3>2 DEF LedgerFact
  <2>2. PICK c : c = Listed(b, r)
    OBVIOUS
  <2>3. /\ c.ledger = b.ledger \cup {l} /\ Onward(b, c, r)
        /\ c.account.cash = b.account.cash
    BY <1>b, <1>e, <1>2, <2>n, <2>1, <2>2 DEF Listed, Completed, BooksType, Onward
  <2>4. b.actions[r] \in ExecutedStatuses
    <3>1. e.pending \in Int /\ ~(e.pending <= 0)
      BY <1>2, Zenon DEF Entitlement
    <3>2. Entitled(b, r)
      BY <1>e, <3>1
    <3> QED  BY <3>2 DEF GoodFor, GoodBooks, OneIsLive
  <2>5. Records(b, c, r)
    BY <2>n, <2>1, <2>3, <2>4, FactRecords
  <2> QED  BY <2>2, <2>5
<1> QED  BY <1>1, <1>2

\* Facts that move no cash.
LEMMA NotesRecord ==
    ASSUME NEW r \in Revisions, NEW b, NEW c, NEW facts \in SUBSET LedgerFacts,
           IsFiniteSet(facts),
           \A l \in facts : l.revision = r /\ l.entry # "RIGHTS_SUBSCRIBED" /\ l.cash = 0,
           c.ledger = b.ledger \cup facts, c.account.cash = b.account.cash,
           c.actions = b.actions, b.actions[r] \in ExecutedStatuses
    PROVE  Records(b, c, r)
<1>1. Posts(b, c, r, facts)
  BY DEF Posts
<1> QED  BY <1>1 DEF Records

LEMMA ExAppliedRecords ==
    ASSUME product \in Products, day \in Nat, NEW r \in Revisions, NEW b \in GoodFor(r),
           Entitled(b, r)
    PROVE  Records(b, ExApplied(b, r), r) /\ ExApplied(b, r).actions = b.actions
<1>b. b \in BooksType /\ b.actions[r] \in ExecutedStatuses
  BY DEF GoodFor, GoodBooks, OneIsLive
<1>1. PICK owed \in Int, none \in Int : owed = b.entitlements[r].cash /\ none = 0
  BY BooksMayBeBooked DEF Entitlement
<1>2. PICK c : c = ExApplied(b, r)
  OBVIOUS
<1>3. CASE product.kind \in IncomeKinds /\ ~Posted(b, r, "RECEIVABLE_CREATED", "")
  <2>1. PICK l \in LedgerFacts :
           /\ l = LedgerFact(r, "RECEIVABLE_CREATED", "", none, owed, owed)
           /\ l.revision = r /\ l.entry = "RECEIVABLE_CREATED" /\ l.cash = 0
    <3>1. "RECEIVABLE_CREATED" \in Entries
      BY DEF Entries
    <3>2. LedgerFact(r, "RECEIVABLE_CREATED", "", none, owed, owed) \in LedgerFacts
      BY <3>1, FactTypes
    <3> QED  BY <1>1, <3>2 DEF LedgerFact
  <2>2. /\ c.ledger = b.ledger \cup {l} /\ c.actions = b.actions
        /\ c.account.cash = b.account.cash
    BY <1>b, <1>1, <1>2, <1>3, <2>1 DEF ExApplied, IncomeKinds, SplitKinds, BooksType, Account
  <2>3. Records(b, c, r)
    BY <1>b, <2>1, <2>2, FS_Singleton, NotesRecord
  <2> QED  BY <1>2, <2>2, <2>3
<1>4. CASE product.kind = "STOCK_DIVIDEND" /\ ~Posted(b, r, "SHARES_PENDING", "")
  <2>1. PICK l \in LedgerFacts :
           /\ l = LedgerFact(r, "SHARES_PENDING", "", none, none, none)
           /\ l.revision = r /\ l.entry = "SHARES_PENDING" /\ l.cash = 0
    <3>1. "SHARES_PENDING" \in Entries
      BY DEF Entries
    <3>2. LedgerFact(r, "SHARES_PENDING", "", none, none, none) \in LedgerFacts
      BY <3>1, FactTypes
    <3> QED  BY <1>1, <3>2 DEF LedgerFact
  <2>2. /\ c.ledger = b.ledger \cup {l} /\ c.actions = b.actions
        /\ c.account = b.account
    BY <1>b, <1>1, <1>2, <1>4, <2>1 DEF ExApplied, IncomeKinds, SplitKinds, BooksType
  <2>3. Records(b, c, r)
    BY <1>b, <2>1, <2>2, FS_Singleton, NotesRecord
  <2> QED  BY <1>2, <2>2, <2>3
<1>5. CASE product.kind \in SplitKinds /\ ~Posted(b, r, product.kind, "")
  <2>1. PICK lost, lieu :
           /\ lost = b.position.total * T.ratio - SplitPosition(b.position).total * T.base
           /\ lieu = RoundedQuotient(lost * T.lieu, T.base)
    OBVIOUS
  <2>2. lieu \in Int
    <3>1. b.position \in Position /\ SharesAddUp(b.position) /\ b.position.frozen = 0
      BY DEF GoodFor, GoodBooks, BooksType
    <3>2. PICK p \in Position, split \in Position :
             p = b.position /\ split = SplitPosition(b.position)
      BY <3>1, SplitKeepsShares
    <3>3. /\ p.total \in Int /\ split.total \in Int /\ T.ratio \in Int /\ T.base \in Int
          /\ T.lieu \in Int
      BY TermsType DEF Position
    <3>4. PICK held \in Int, kept \in Int :
             held = p.total * T.ratio /\ kept = split.total * T.base
      BY <3>3
    <3>5. PICK n \in Int : n = (held - kept) * T.lieu
      BY <3>3
    <3>6. RoundedQuotient(n, T.base) \in Int
      BY <3>3, RoundedQuotientType
    <3> QED  BY <2>1, <3>2, <3>4, <3>5, <3>6
  <2>3. PICK l \in LedgerFacts, m \in LedgerFacts :
           /\ l = LedgerFact(r, product.kind, "", none, none, none)
           /\ l.revision = r /\ l.entry = product.kind /\ l.cash = 0
           /\ m = LedgerFact(r, "CASH_IN_LIEU", "", none, lieu, none)
           /\ m.revision = r /\ m.entry = "CASH_IN_LIEU" /\ m.cash = 0
    <3>1. product.kind \in Entries /\ "CASH_IN_LIEU" \in Entries
      BY <1>5 DEF Entries, Kinds, SplitKinds
    <3>2. /\ LedgerFact(r, product.kind, "", none, none, none) \in LedgerFacts
          /\ LedgerFact(r, "CASH_IN_LIEU", "", none, lieu, none) \in LedgerFacts
      BY <2>2, <3>1, FactTypes
    <3> QED  BY <1>1, <3>2 DEF LedgerFact
  <2>4. PICK facts \in SUBSET LedgerFacts :
           facts = {l} \cup (IF lost = 0 THEN {} ELSE {m})
    OBVIOUS
  <2>5. IsFiniteSet(facts)
    <3>1. IsFiniteSet({l}) /\ IsFiniteSet({m}) /\ IsFiniteSet({})
      BY FS_Singleton, FS_EmptySet
    <3>2. IsFiniteSet({l} \cup {m}) /\ IsFiniteSet({l} \cup {})
      BY ONLY <3>1, FS_Union
    <3> QED  BY <2>4, <3>2
  <2>6. \A f \in facts : f.revision = r /\ f.entry # "RIGHTS_SUBSCRIBED" /\ f.cash = 0
    <3>1. product.kind # "RIGHTS_SUBSCRIBED"
      BY <1>5 DEF SplitKinds
    <3> QED  BY <2>3, <2>4, <3>1
  <2>7. PICK x : /\ x = [b EXCEPT !.position = SplitPosition(b.position),
                          !.entitlements[r].lieu = IF lost # 0 THEN lieu ELSE @,
                          !.account.receivable = @ + lieu,
                          !.ledger = @ \cup {l} \cup (IF lost = 0 THEN {} ELSE {m}),
                          !.adjustments = Append(@, Adjustment(r, product.kind,
                              Minus(SplitPosition(b.position), b.position)))]
                 /\ c = x
    BY <1>1, <1>2, <1>5, <2>1, <2>3 DEF ExApplied, IncomeKinds, SplitKinds
  <2>8. /\ x.ledger = b.ledger \cup facts /\ x.actions = b.actions
        /\ x.account.cash = b.account.cash
    BY <1>b, <2>4, <2>7 DEF BooksType, Account
  <2>9. Records(b, c, r)
    BY <1>b, <2>5, <2>6, <2>7, <2>8, NotesRecord
  <2> QED  BY <1>2, <2>7, <2>8, <2>9
<1>6. CASE /\ ~(product.kind \in IncomeKinds /\ ~Posted(b, r, "RECEIVABLE_CREATED", ""))
           /\ ~(product.kind = "STOCK_DIVIDEND" /\ ~Posted(b, r, "SHARES_PENDING", ""))
           /\ ~(product.kind \in SplitKinds /\ ~Posted(b, r, product.kind, ""))
  <2>1. ExApplied(b, r) = b
    BY <1>6 DEF ExApplied
  <2> QED  BY <2>1, NothingRecords
<1> QED  BY <1>3, <1>4, <1>5, <1>6

LEMMA ExDateRecords ==
    ASSUME product \in Products, day \in Nat, NEW r \in Revisions, NEW b \in GoodFor(r)
    PROVE  Records(b, ExDate(b, r), r)
<1>1. PICK a \in GoodFor(r) : /\ a = IF Entitled(b, r) THEN ExApplied(b, r) ELSE b
                              /\ Records(b, a, r) /\ a.actions = b.actions
  BY ExAppliedIsGood, ExAppliedRecords, NothingRecords
<1>2. a \in BooksType
  BY DEF GoodFor, GoodBooks
<1>3. PICK c : c = ExDate(b, r)
  OBVIOUS
<1>4. /\ c.ledger = a.ledger /\ c.account = a.account
      /\ \A q \in Revisions \ {r} : c.actions[q] = a.actions[q]
      /\ c.actions[r] \in {"PROCESSING", "COMPLETED"}
  BY <1>1, <1>2, <1>3 DEF ExDate, Completed, BooksType
<1>5. c.actions[r] \in ExecutedStatuses
  BY <1>4 DEF ExecutedStatuses, ProcessableStatuses
<1>6. PICK facts \in SUBSET LedgerFacts : Posts(b, a, r, facts)
  BY <1>1 DEF Records
<1>7. Posts(b, c, r, facts)
  BY <1>4, <1>6 DEF Posts
<1>8. Records(b, c, r)
  BY <1>1, <1>4, <1>5, <1>7 DEF Records
<1> QED  BY <1>3, <1>8

LEMMA PerformedRecords ==
    ASSUME product \in Products, day \in Nat, NEW r \in Revisions, NEW b \in GoodFor(r), NEW step,
           b.entitlements[r].pending > 0 => Entitled(b, r)
    PROVE  Records(b, Perform(b, r, step), r)
<1>1. /\ Records(b, Captured(b, r), r) /\ Records(b, ExDate(b, r), r)
      /\ Records(b, Matured(b, r), r) /\ Records(b, Paid(b, r), r)
      /\ Records(b, Listed(b, r), r) /\ Records(b, Completed(b, r), r)
  BY CapturedRecords, ExDateRecords, MaturedRecords, PaidRecords, ListedRecords,
     CompletedRecords
<1> QED  BY <1>1 DEF Perform

-----------------------------------------------------------------------------
(* What run_due_actions does to the pending shares.                        *)

\* The pending shares of an entitlement are among those of the position.
PartOf(p, e) ==
    /\ e.shares >= 0 /\ e.pending >= 0 /\ e.pending <= p.pending
    /\ ~(e.quantity > 0) => e.pending = 0
    /\ product.kind \in SplitKinds => e.pending = 0

PendingHolds(b) ==
    /\ b.position.pending >= 0
    /\ \A r \in Revisions : PartOf(b.position, b.entitlements[r])

\* An operation on a revision changes its pending shares with the position's.
KeepsPending(b, c, r) ==
    /\ \A q \in Revisions \ {r} : c.entitlements[q] = b.entitlements[q]
    /\ c.position.pending >= 0
    /\ PartOf(c.position, c.entitlements[r])
    /\ c.position.pending = b.position.pending \/ Entitled(b, r)

LEMMA PendingMoves ==
    ASSUME NEW r \in Revisions, NEW b \in GoodFor(r), NEW c, c.position.pending \in Int,
           PendingHolds(b), KeepsPending(b, c, r)
    PROVE  PendingHolds(c)
<1>1. ASSUME NEW q \in Revisions PROVE PartOf(c.position, c.entitlements[q])
  <2>1. CASE q = r
    BY <2>1 DEF KeepsPending
  <2>2. CASE q # r
    <3>1. c.entitlements[q] = b.entitlements[q] /\ PartOf(b.position, b.entitlements[q])
      BY <2>2 DEF KeepsPending, PendingHolds
    <3>2. CASE c.position.pending = b.position.pending
      BY <3>1, <3>2 DEF PartOf
    <3>3. CASE Entitled(b, r)
      <4>1. b.entitlements[q].pending = 0
        <5>1. ~Entitled(b, q)
          BY <2>2, <3>3 DEF GoodFor, GoodBooks, OneIsLive, LiveStatuses
        <5> QED  BY <3>1, <5>1 DEF Entitled, PartOf
      <4>2. c.position.pending >= 0
        BY DEF KeepsPending
      <4> QED  BY <3>1, <4>1, <4>2 DEF PartOf
    <3> QED  BY <3>2, <3>3 DEF KeepsPending
  <2> QED  BY <2>1, <2>2
<1> QED  BY <1>1 DEF KeepsPending, PendingHolds

\* Nothing is pending that was not.
LEMMA NothingPending ==
    ASSUME NEW r \in Revisions, NEW b, NEW c, PendingHolds(b),
           c.position.pending = b.position.pending, c.entitlements = b.entitlements
    PROVE  KeepsPending(b, c, r)
BY DEF KeepsPending, PendingHolds, PartOf

LEMMA CompletedPending ==
    ASSUME NEW r \in Revisions, NEW b, NEW c \in GoodFor(r), KeepsPending(b, c, r)
    PROVE  KeepsPending(b, Completed(c, r), r)
<1>1. c \in BooksType
  BY DEF GoodFor, GoodBooks
<1>2. PICK d : d = Completed(c, r)
  OBVIOUS
<1>3. d.position = c.position /\ d.entitlements = c.entitlements
  BY <1>1, <1>2 DEF Completed, BooksType
<1>4. KeepsPending(b, d, r)
  BY <1>3 DEF KeepsPending
<1> QED  BY <1>2, <1>4

LEMMA CapturedPending ==
    ASSUME product \in Products, NEW r \in Revisions, NEW b \in GoodFor(r), PendingHolds(b)
    PROVE  KeepsPending(b, Captured(b, r), r)
<1>b. b \in BooksType
  BY DEF GoodFor, GoodBooks
<1>1. PICK c : c = Captured(b, r)
  OBVIOUS
<1>2. c.position = b.position
  BY <1>b, <1>1 DEF Captured, BooksType
<1>3. \A q \in Revisions \ {r} : c.entitlements[q] = b.entitlements[q]
  BY <1>b, <1>1 DEF Captured, BooksType
<1>4. PICK held \in Int, shares \in Int :
         held = b.position.total /\ shares = (held * T.ratio) \div T.base /\ shares >= 0
  <2>1. PICK p \in Position : p = b.position /\ SharesAddUp(p)
    BY BooksMayBeBooked DEF GoodFor, GoodBooks
  <2>2. p.total \in Int /\ p.total >= 0
    <3>1. p.today \in Int /\ p.yesterday \in Int
      BY DEF Position
    <3> QED  BY <2>1, <3>1 DEF SharesAddUp
  <2> QED  BY <2>1, <2>2, TermsType, TimesType
<1>5. \/ c.entitlements[r] = b.entitlements[r]
      \/ c.entitlements[r].shares = shares /\ c.entitlements[r].pending = 0
  <2>1. PICK cash, lieu : /\ cash = RoundedQuotient(held * T.cash, T.base)
                          /\ lieu = RoundedQuotient(((held * T.ratio) % T.base) * T.lieu, T.base)
    OBVIOUS
  <2>2. PICK fresh : fresh = [NoEntitlement EXCEPT !.quantity = held, !.cash = cash,
                                !.shares = shares, !.lieu = lieu]
    OBVIOUS
  <2>3. c.entitlements[r] \in {b.entitlements[r], fresh}
    BY <1>b, <1>1, <1>4, <2>1, <2>2 DEF Captured, BooksType
  <2>4. fresh.shares = shares /\ fresh.pending = 0
    BY <2>2 DEF NoEntitlement
  <2> QED  BY <2>3, <2>4
<1>6. b.position.pending \in Int /\ b.position.pending >= 0
  BY BooksMayBeBooked DEF Position, PendingHolds
<1>7. PartOf(c.position, c.entitlements[r])
  BY <1>2, <1>4, <1>5, <1>6 DEF PendingHolds, PartOf
<1>8. KeepsPending(b, c, r)
  BY <1>2, <1>3, <1>6, <1>7 DEF KeepsPending
<1> QED  BY <1>1, <1>8

LEMMA PaidPending ==
    ASSUME NEW r \in Revisions, NEW b \in GoodFor(r), PendingHolds(b)
    PROVE  KeepsPending(b, Paid(b, r), r)
<1>b. b \in BooksType
  BY DEF GoodFor, GoodBooks
<1>1. PICK c : c = Paid(b, r)
  OBVIOUS
<1>2. c.position = b.position /\ c.entitlements = b.entitlements
  BY <1>b, <1>1 DEF Paid, Completed, BooksType
<1>3. KeepsPending(b, c, r)
  BY <1>2, NothingPending
<1> QED  BY <1>1, <1>3

LEMMA MaturedPending ==
    ASSUME NEW r \in Revisions, NEW b \in GoodFor(r), PendingHolds(b)
    PROVE  KeepsPending(b, Matured(b, r), r)
<1>b. b \in BooksType
  BY DEF GoodFor, GoodBooks
<1>1. PICK c : c = Matured(b, r)
  OBVIOUS
<1>2. PICK rest : rest = [EmptyPosition EXCEPT !.pending = b.position.pending]
  OBVIOUS
<1>3. c.position \in {b.position, rest} /\ c.entitlements = b.entitlements
  BY <1>b, <1>1, <1>2 DEF Matured, Completed, BooksType
<1>p. rest.pending = b.position.pending
  BY <1>2 DEF EmptyPosition
<1>4. KeepsPending(b, c, r)
  BY <1>3, <1>p, NothingPending
<1> QED  BY <1>1, <1>4

LEMMA ListedPending ==
    ASSUME product \in Products, NEW r \in Revisions, NEW b \in GoodFor(r), PendingHolds(b)
    PROVE  KeepsPending(b, Listed(b, r), r)
<1>b. b \in BooksType /\ SharesAddUp(b.position)
  BY DEF GoodFor, GoodBooks
<1>e. PICK e \in Entitlement, p \in Position : e = b.entitlements[r] /\ p = b.position
  BY BooksMayBeBooked
<1>p. PartOf(p, e) /\ p.pending >= 0
  BY <1>e DEF PendingHolds
<1>1. CASE e.pending <= 0 \/ Posted(b, r, "SHARES_LISTED", "")
  <2>1. Listed(b, r) = Completed(b, r)
    BY <1>1, <1>e DEF Listed
  <2>2. KeepsPending(b, b, r)
    BY NothingPending
  <2> QED  BY <2>1, <2>2, CompletedPending
<1>2. CASE ~(e.pending <= 0 \/ Posted(b, r, "SHARES_LISTED", ""))
  <2>1. PICK pending \in Int, cost \in Int :
           pending = e.pending /\ cost = e.subscriptionCash /\ pending > 0
    <3>1. e.pending \in Int /\ e.subscriptionCash \in Int
      BY DEF Entitlement
    <3>2. ~(e.pending <= 0)
      BY <1>2, Zenon
    <3> QED  BY <3>1, <3>2
  <2>2. Entitled(b, r)
    BY <1>e, <1>p, <2>1 DEF PartOf, Entitled
  <2>3. PICK shares \in Position, q \in Position :
           shares = OfListing(pending, cost) /\ q = Plus(p, shares)
    BY <1>b, <1>e, <2>1, ListingKeepsShares
  <2>4. q.pending = p.pending - pending
    <3>1. shares.pending = -pending
      BY <2>3 DEF OfListing, EmptyPosition
    <3>2. q.pending = p.pending + shares.pending
      BY <2>3, PlusFields
    <3>3. p.pending \in Int
      BY DEF Position
    <3> QED  BY <2>1, <3>1, <3>2, <3>3
  <2>5. q.pending >= 0
    <3>1. p.pending \in Int
      BY DEF Position
    <3> QED  BY <1>p, <2>1, <2>4, <3>1 DEF PartOf
  <2>6. PICK c : c = Listed(b, r)
    OBVIOUS
  <2>7. /\ c.position = q
        /\ c.entitlements[r].shares = e.shares /\ c.entitlements[r].pending = 0
        /\ \A x \in Revisions \ {r} : c.entitlements[x] = b.entitlements[x]
    <3>1. shares = [EmptyPosition EXCEPT !.total = e.pending, !.yesterday = e.pending,
                      !.pending = -e.pending, !.cost = e.subscriptionCash]
      BY <2>1, <2>3 DEF OfListing
    <3>2. c.position = q
      BY <1>b, <1>e, <1>2, <2>3, <2>6, <3>1 DEF Listed, Completed, BooksType
    <3>3. \A x \in Revisions \ {r} : c.entitlements[x] = b.entitlements[x]
      BY <1>b, <1>e, <1>2, <2>6 DEF Listed, Completed, BooksType
    <3>4. PICK more : more = e.credited + e.pending
      OBVIOUS
    <3>5. c.entitlements[r] = [e EXCEPT !.credited = more, !.pending = 0]
      BY <1>b, <1>e, <1>2, <2>6, <3>4 DEF Listed, Completed, BooksType, Entitlement
    <3> QED  BY <3>2, <3>3, <3>5 DEF Entitlement
  <2>8. PartOf(c.position, c.entitlements[r])
    BY <1>p, <2>5, <2>7 DEF PartOf
  <2>9. KeepsPending(b, c, r)
    BY <2>2, <2>5, <2>7, <2>8 DEF KeepsPending
  <2> QED  BY <2>6, <2>9
<1> QED  BY <1>1, <1>2

LEMMA ExAppliedPending ==
    ASSUME product \in Products, NEW r \in Revisions, NEW b \in GoodFor(r), PendingHolds(b),
           Entitled(b, r)
    PROVE  KeepsPending(b, ExApplied(b, r), r)
<1>b. b \in BooksType
  BY DEF GoodFor, GoodBooks
<1>e. PICK e \in Entitlement, p \in Position : e = b.entitlements[r] /\ p = b.position
  BY BooksMayBeBooked
<1>p. PartOf(p, e) /\ p.pending >= 0 /\ e.quantity > 0
  BY <1>e DEF PendingHolds, Entitled
<1>2. PICK c : c = ExApplied(b, r)
  OBVIOUS
<1>3. CASE product.kind \in IncomeKinds /\ ~Posted(b, r, "RECEIVABLE_CREATED", "")
  <2>1. c.position = b.position /\ c.entitlements = b.entitlements
    BY <1>b, <1>2, <1>3 DEF ExApplied, IncomeKinds, SplitKinds, BooksType
  <2>2. KeepsPending(b, c, r)
    BY <2>1, NothingPending
  <2> QED  BY <1>2, <2>2
<1>4. CASE product.kind = "STOCK_DIVIDEND" /\ ~Posted(b, r, "SHARES_PENDING", "")
  <2>1. PICK held \in Int, pending \in Int :
           held = p.pending + e.shares /\ pending = e.pending + e.shares
    BY DEF Position, Entitlement
  <2>2. PICK q, f : q = [p EXCEPT !.pending = held] /\ f = [e EXCEPT !.pending = pending]
    OBVIOUS
  <2>3. /\ c.position = q /\ c.entitlements[r] = f
        /\ \A x \in Revisions \ {r} : c.entitlements[x] = b.entitlements[x]
    BY <1>b, <1>e, <1>2, <1>4, <2>1, <2>2 DEF ExApplied, IncomeKinds, SplitKinds, BooksType
  <2>4. q.pending = held /\ f.pending = pending /\ f.shares = e.shares /\ f.quantity = e.quantity
    BY <2>2 DEF Position, Entitlement
  <2>5. held >= 0 /\ pending >= 0 /\ pending <= held
    <3>1. p.pending \in Int /\ e.shares \in Int /\ e.pending \in Int
      BY DEF Position, Entitlement
    <3> QED  BY <1>p, <2>1, <3>1 DEF PartOf
  <2>6. product.kind \notin SplitKinds
    BY <1>4 DEF SplitKinds
  <2>7. PartOf(c.position, c.entitlements[r])
    BY <1>p, <2>3, <2>4, <2>5, <2>6 DEF PartOf
  <2>8. KeepsPending(b, c, r)
    BY <2>3, <2>4, <2>5, <2>7 DEF KeepsPending
  <2> QED  BY <1>2, <2>8
<1>5. CASE product.kind \in SplitKinds /\ ~Posted(b, r, product.kind, "")
  <2>1. PICK split \in Position : split = SplitPosition(p) /\ split.pending >= 0
    <3>1. SharesAddUp(p) /\ p.frozen = 0
      BY <1>e DEF GoodFor, GoodBooks
    <3>2. PICK split \in Position : split = SplitPosition(p)
      BY <3>1, SplitKeepsShares
    <3> DEFINE times(n) == (n * T.ratio) \div T.base
    <3>3. \A n \in Int : times(n) \in Int /\ (n >= 0 => times(n) >= 0)
      BY TermsType, TimesType
    <3> HIDE DEF times
    <3>4. PICK today \in Int, yesterday \in Int, total \in Int, frozen \in Int,
               barred \in Int, pending \in Int :
             /\ today = times(p.today) /\ yesterday = times(p.yesterday)
             /\ total = times(p.today) + times(p.yesterday) /\ frozen = times(p.frozen)
             /\ barred = times(p.locked) /\ pending = times(p.pending) /\ pending >= 0
      <4>1. /\ p.today \in Int /\ p.yesterday \in Int /\ p.frozen \in Int
            /\ p.locked \in Int /\ p.pending \in Int
        BY DEF Position
      <4>2. /\ times(p.today) \in Int /\ times(p.yesterday) \in Int
            /\ times(p.frozen) \in Int /\ times(p.locked) \in Int
            /\ times(p.pending) \in Int /\ times(p.pending) >= 0
        BY <1>p, <3>3, <4>1
      <4>3. times(p.today) + times(p.yesterday) \in Int
        BY <4>2
      <4> QED  BY <4>2, <4>3
    <3>5. PICK x : x = [p EXCEPT !.today = today, !.yesterday = yesterday, !.total = total,
                          !.frozen = frozen, !.locked = barred, !.pending = pending]
      OBVIOUS
    <3>6. split = WithAvailable(x)
      BY <3>2, <3>4, <3>5 DEF SplitPosition, times
    <3>7. x \in Position /\ x.pending = pending
      BY <3>5 DEF Position
    <3> QED  BY <3>2, <3>4, <3>6, <3>7, WithAvailableFields
  <2>3. PICK f : f = c.entitlements[r]
    OBVIOUS
  <2>4. /\ c.position = split
        /\ \A x \in Revisions \ {r} : c.entitlements[x] = b.entitlements[x]
    BY <1>b, <1>e, <1>2, <1>5, <2>1 DEF ExApplied, IncomeKinds, SplitKinds, BooksType
  <2>5. f.shares = e.shares /\ f.pending = e.pending /\ f.quantity = e.quantity
    <3>1. PICK lost, lieu : /\ lost = p.total * T.ratio - split.total * T.base
                            /\ lieu = RoundedQuotient(lost * T.lieu, T.base)
      OBVIOUS
    <3>2. f = [e EXCEPT !.lieu = IF lost # 0 THEN lieu ELSE @]
      BY <1>b, <1>e, <1>2, <1>5, <2>1, <2>3, <3>1
      DEF ExApplied, IncomeKinds, SplitKinds, BooksType
    <3> QED  BY <3>2 DEF Entitlement
  <2>6. e.pending = 0
    BY <1>5, <1>p DEF PartOf
  <2>7. PartOf(split, f)
    BY <1>p, <2>1, <2>5, <2>6 DEF PartOf
  <2>8. Entitled(b, r)
    OBVIOUS
  <2>9. KeepsPending(b, c, r)
    BY <2>1, <2>3, <2>4, <2>7, <2>8 DEF KeepsPending
  <2> QED  BY <1>2, <2>9
<1>6. CASE /\ ~(product.kind \in IncomeKinds /\ ~Posted(b, r, "RECEIVABLE_CREATED", ""))
           /\ ~(product.kind = "STOCK_DIVIDEND" /\ ~Posted(b, r, "SHARES_PENDING", ""))
           /\ ~(product.kind \in SplitKinds /\ ~Posted(b, r, product.kind, ""))
  <2>1. ExApplied(b, r) = b
    BY <1>6 DEF ExApplied
  <2> QED  BY <2>1, NothingPending
<1> QED  BY <1>3, <1>4, <1>5, <1>6

LEMMA ExDatePending ==
    ASSUME product \in Products, day \in Nat, NEW r \in Revisions, NEW b \in GoodFor(r),
           PendingHolds(b)
    PROVE  KeepsPending(b, ExDate(b, r), r)
<1>1. PICK a \in GoodFor(r) : /\ a = IF Entitled(b, r) THEN ExApplied(b, r) ELSE b
                              /\ KeepsPending(b, a, r)
  BY ExAppliedIsGood, ExAppliedPending, NothingPending
<1>2. a \in BooksType
  BY DEF GoodFor, GoodBooks
<1>3. PICK c : c = ExDate(b, r)
  OBVIOUS
<1>4. c.position = a.position /\ c.entitlements = a.entitlements
  BY <1>1, <1>2, <1>3 DEF ExDate, Completed, BooksType
<1>5. KeepsPending(b, c, r)
  BY <1>1, <1>4 DEF KeepsPending
<1> QED  BY <1>3, <1>5

LEMMA PerformedPending ==
    ASSUME product \in Products, day \in Nat, NEW r \in Revisions, NEW b \in GoodFor(r), NEW step,
           PendingHolds(b)
    PROVE  KeepsPending(b, Perform(b, r, step), r)
<1>1. KeepsPending(b, b, r)
  BY NothingPending
<1>2. /\ KeepsPending(b, Captured(b, r), r) /\ KeepsPending(b, ExDate(b, r), r)
      /\ KeepsPending(b, Matured(b, r), r) /\ KeepsPending(b, Paid(b, r), r)
      /\ KeepsPending(b, Listed(b, r), r) /\ KeepsPending(b, Completed(b, r), r)
  BY <1>1, CapturedPending, ExDatePending, MaturedPending, PaidPending, ListedPending,
     CompletedPending
<1> QED  BY <1>2 DEF Perform

-----------------------------------------------------------------------------
(* Books that the settlement accepts.                                      *)

SettledBooks ==
    {b \in GoodBooks : Recorded(b, trades, subscriptions) /\ PendingHolds(b)}

LEMMA SettledAreKept ==
    ASSUME product \in Products, day \in Nat, trades \in Seq(TradeFacts)
    PROVE  KeptByActions(SettledBooks)
<1>1. ASSUME NEW r \in Revisions, NEW c \in SettledBooks, c.actions[r] \in LiveStatuses,
             NEW step
      PROVE  Perform(c, r, step) \in SettledBooks
  <2>1. c \in GoodFor(r) /\ Recorded(c, trades, subscriptions) /\ PendingHolds(c)
    BY <1>1 DEF SettledBooks, GoodFor
  <2>2. PICK d \in GoodBooks : d = Perform(c, r, step)
    BY <2>1, PerformedIsGood DEF GoodFor
  <2>3. c.entitlements[r].pending > 0 => Entitled(c, r)
    <3>1. PartOf(c.position, c.entitlements[r])
      BY <2>1 DEF PendingHolds
    <3> QED  BY <3>1 DEF PartOf, Entitled
  <2>4. Records(c, d, r)
    BY <2>1, <2>2, <2>3, PerformedRecords
  <2>5. c \in GoodBooks
    BY DEF SettledBooks
  <2>6. Recorded(d, trades, subscriptions)
    BY <2>1, <2>4, <2>5, RecordsKeep
  <2>7. d.position.pending \in Int
    BY DEF GoodBooks, BooksType, Position
  <2>8. PendingHolds(d)
    BY <2>1, <2>2, <2>7, PerformedPending, PendingMoves
  <2> QED  BY <2>2, <2>6, <2>8 DEF SettledBooks
<1>2. ASSUME NEW r \in Revisions, NEW c \in SettledBooks, c.actions[r] = "CONFIRMED"
      PROVE  [c EXCEPT !.actions[r] = "MANUAL_REVIEW_REQUIRED"] \in SettledBooks
  <2>1. c \in GoodBooks /\ Recorded(c, trades, subscriptions) /\ PendingHolds(c)
    BY DEF SettledBooks
  <2>2. PICK d \in GoodBooks :
           /\ d = Reviewed(c, r) /\ d.account = c.account /\ d.position = c.position
           /\ d.entitlements = c.entitlements /\ d.ledger = c.ledger
           /\ \A q \in Revisions \ {r} : d.actions[q] = c.actions[q]
    BY <1>2, <2>1, ReviewedIsGood
  <2>3. c.actions[r] \notin ExecutedStatuses
    BY <1>2 DEF ExecutedStatuses, ProcessableStatuses
  <2>4. Recorded(d, trades, subscriptions)
    BY <2>1, <2>2, <2>3, NothingRecords, RecordsKeep
  <2>5. PendingHolds(d)
    BY <2>1, <2>2 DEF PendingHolds
  <2> QED  BY <2>2, <2>4, <2>5 DEF SettledBooks, Reviewed
<1>3. SettledBooks \subseteq GoodBooks
  BY DEF SettledBooks
<1> HIDE DEF SettledBooks
<1> QED  BY <1>1, <1>2, <1>3 DEF KeptByActions

LEMMA RunIsSettled ==
    ASSUME product \in Products, day \in Nat, trades \in Seq(TradeFacts), NEW b \in SettledBooks
    PROVE  RunOf(b) \in SettledBooks
BY SettledAreKept, RunIsKept

\* The cash is explained, and what is pending is somebody's.
SettleInv == Recorded(Books, trades, subscriptions) /\ PendingHolds(Books)

LEMMA SettleTypes ==
    ASSUME CashInv
    PROVE  /\ account \in Account /\ position \in Position /\ product \in Products
           /\ trades \in Seq(TradeFacts) /\ ledger \in SUBSET LedgerFacts /\ day \in Nat
           /\ entitlements \in [Revisions -> Entitlement]
           /\ OpeningCash \in Int
BY RequestAssumption DEF CashInv, DayInv, OrdersInv, BooksInv, Books, BooksType

LEMMA SettleNext ==
    ASSUME NEW c, c = Books', product' = product, Recorded(c, trades', subscriptions'),
           PendingHolds(c)
    PROVE  SettleInv'
BY DEF SettleInv, PendingHolds, PartOf, Recorded

\* A step that moves no cash and no pending shares, and after which what was being
\* executed still is, or has been.
LEMMA NothingSettles ==
    ASSUME SettleInv, account'.cash = account.cash, position'.pending = position.pending,
           \A r \in Revisions : actions[r] \in ExecutedStatuses =>
                                   actions'[r] \in ExecutedStatuses,
           ledger \in SUBSET LedgerFacts,
           UNCHANGED <<product, trades, entitlements, ledger, subscriptions>>
    PROVE  SettleInv'
<1>1. PICK c : c = Books'
  OBVIOUS
<1>2. /\ c.account.cash = Books.account.cash /\ c.position.pending = Books.position.pending
      /\ c.ledger = Books.ledger /\ c.entitlements = Books.entitlements
      /\ c.actions = actions'
  BY <1>1 DEF Books
<1>3. Recorded(c, trades', subscriptions')
  <2>1. \A l \in ledger : l.revision \in Revisions
    BY DEF LedgerFacts
  <2>2. \A l \in Books.ledger : c.actions[l.revision] \in ExecutedStatuses
    BY <1>2, <2>1 DEF SettleInv, Recorded, Books
  <2> QED  BY <1>2, <2>2 DEF SettleInv, Recorded
<1>4. PendingHolds(c)
  BY <1>2 DEF SettleInv, PendingHolds, PartOf
<1> QED  BY <1>1, <1>3, <1>4, SettleNext

LEMMA SubmitSettles ==
    ASSUME CashInv, SettleInv, NEW o \in Orders, NEW direction \in {"BUY", "SELL"},
           NEW limit \in LimitPrices, NEW volume \in Volumes,
           Submit(o, direction, limit, volume)
    PROVE  SettleInv'
<1>1. UNCHANGED <<product, trades, actions, entitlements, ledger, subscriptions>>
  BY DEF Submit, fixed, corporate
<1>2. account'.cash = account.cash
  BY SettleTypes DEF Submit, Frozen, Account
<1>3. PICK frozen \in Int : frozen = position.frozen + volume
  <2>1. position.frozen \in Int /\ volume \in Int
    BY SettleTypes, RequestAssumption DEF Position
  <2> QED  BY <2>1
<1>4. position' \in {position, WithAvailable([position EXCEPT !.frozen = frozen])}
  BY <1>3 DEF Submit
<1>5. position'.pending = position.pending
  BY <1>4, SettleTypes, PromisedColumns
<1> QED  BY <1>1, <1>2, <1>5, SettleTypes, NothingSettles

LEMMA CancelSettles ==
    ASSUME CashInv, SettleInv, NEW o \in Orders, Cancel(o)
    PROVE  SettleInv'
<1>1. UNCHANGED <<product, trades, actions, entitlements, ledger, subscriptions>>
  BY DEF Cancel, fixed, corporate
<1>2. account'.cash = account.cash
  BY SettleTypes DEF Cancel, Released, Frozen, Account
<1>3. PICK frozen \in Int : frozen = position.frozen - orders[o].frozenVolume
  <2>1. position.frozen \in Int /\ orders[o].frozenVolume \in Int
    BY RowTypes DEF Position, Row
  <2> QED  BY <2>1
<1>4. position' \in {position, WithAvailable([position EXCEPT !.frozen = frozen])}
  BY <1>3 DEF Cancel
<1>5. position'.pending = position.pending
  BY <1>4, SettleTypes, PromisedColumns
<1> QED  BY <1>1, <1>2, <1>5, SettleTypes, NothingSettles

\* A trade is paid by the cash.
LEMMA TradeSettles ==
    ASSUME CashInv, SettleInv, NEW fact \in TradeFacts, trades' = Append(trades, fact),
           account'.cash = CashAfter(account.cash, fact),
           position'.pending = position.pending,
           UNCHANGED <<product, actions, entitlements, ledger, subscriptions>>
    PROVE  SettleInv'
<1>1. PICK c : c = Books'
  OBVIOUS
<1>2. /\ c.account.cash = account'.cash /\ c.position.pending = Books.position.pending
      /\ c.ledger = Books.ledger /\ c.entitlements = Books.entitlements
      /\ c.actions = Books.actions
  BY <1>1 DEF Books
<1>3. account'.cash = OpeningCash + TradeCash(trades') + LedgerCash(ledger)
  <2>1. /\ trades \in Seq(TradeFacts) /\ ledger \in SUBSET LedgerFacts
        /\ IsFiniteSet(ledger) /\ OpeningCash \in Int /\ account.cash \in Int
        /\ account.cash = OpeningCash + TradeCash(trades) + LedgerCash(ledger)
    BY SettleTypes DEF SettleInv, Recorded, Books, Account
  <2>2. TradeCash(trades) \in Int /\ TradeCash(trades') = CashAfter(TradeCash(trades), fact)
    BY <2>1, TradeCashAppend
  <2>3. LedgerCash(ledger) \in Int
    BY <2>1, LedgerCashType
  <2>4. PICK fee \in Int, paid \in Int :
           \A sum : CashAfter(sum, fact) = sum - fee + paid
    <3>1. PICK fee \in Int, turnover \in Int : fee = fact.commission /\ turnover = fact.turnover
      BY DEF TradeFacts
    <3>2. PICK paid \in Int : paid = IF fact.direction = "SELL" THEN turnover ELSE -turnover
      OBVIOUS
    <3> QED  BY <3>1, <3>2 DEF CashAfter
  <2>5. PICK traded \in Int, noted \in Int, opening \in Int :
           traded = TradeCash(trades) /\ noted = LedgerCash(ledger) /\ opening = OpeningCash
    BY <2>1, <2>2, <2>3
  <2>6. (opening + traded + noted) - fee + paid = opening + (traded - fee + paid) + noted
    OBVIOUS
  <2> QED  BY <2>1, <2>2, <2>4, <2>5, <2>6
<1>4. Recorded(c, trades', subscriptions')
  <2>1. c.ledger = ledger
    BY <1>2 DEF Books
  <2> QED  BY <1>2, <1>3, <2>1 DEF SettleInv, Recorded
<1>5. PendingHolds(c)
  BY <1>2 DEF SettleInv, PendingHolds, PartOf
<1> QED  BY <1>1, <1>4, <1>5, SettleNext

LEMMA FillBuySettles ==
    ASSUME CashInv, SettleInv, NEW o \in Orders, NEW t \in Ticks, FillBuy(o, t),
           orders[o].status \in ActiveStatuses, UNCHANGED <<fixed, day, phase, corporate>>
    PROVE  SettleInv'
<1>1. PICK row \in Row : row = orders[o] /\ row.direction = "BUY"
  BY RowTypes DEF FillBuy
<1>2. PICK volume \in Int : volume = Smaller(row.remaining, Quote[t].askVolume)
  BY RequestAssumption DEF Smaller, Row
<1>3. PICK turnover \in Int : turnover = Quote[t].ask * volume
  BY RequestAssumption
<1>4. PICK fee \in Int, none \in Int : fee = FillFee(o, turnover) /\ none = 0
  BY <1>1, FillFeeType
<1>5. PICK q \in Position : q = Bought(position, volume, turnover)
                            /\ q.pending = position.pending
  BY SettleTypes, BoughtFields DEF IsBought
<1>6. PICK fact \in TradeFacts : /\ fact = TradeFact(o, t, volume, turnover, fee, none)
                                 /\ fact.direction = "BUY"
                                 /\ fact.commission = fee /\ fact.turnover = turnover
  <2>1. PICK fact : fact = TradeFact(o, t, volume, turnover, fee, none)
    OBVIOUS
  <2>2. fact \in TradeFacts
    BY <1>1, <2>1, SettleTypes DEF TradeFact, TradeFacts
  <2> QED  BY <1>1, <2>1, <2>2 DEF TradeFact
<1>7. PICK after, a : /\ after = FilledRow(row, volume, turnover, fee)
                      /\ a = Frozen(Released(account, row.frozenCash, row.frozenCommission),
                                    after.frozenCash, after.frozenCommission)
  OBVIOUS
<1>8. /\ position' = q /\ trades' = Append(trades, fact)
      /\ account' = [a EXCEPT !.available = @ - turnover - fee, !.cash = @ - turnover - fee]
  BY <1>1, <1>2, <1>3, <1>4, <1>5, <1>6, <1>7 DEF FillBuy
<1>9. account'.cash = account.cash - turnover - fee
  BY <1>7, <1>8, SettleTypes DEF Frozen, Released, Account
<1>10. account'.cash = CashAfter(account.cash, fact)
  <2>1. account.cash \in Int
    BY SettleTypes DEF Account
  <2>2. account.cash - turnover - fee = account.cash - fee + (-turnover)
    BY <2>1
  <2> QED  BY <1>6, <1>9, <2>2 DEF CashAfter
<1>11. UNCHANGED <<product, actions, entitlements, ledger, subscriptions>>
  BY DEF fixed, corporate
<1> QED  BY <1>5, <1>8, <1>10, <1>11, TradeSettles

LEMMA FillSellSettles ==
    ASSUME CashInv, SettleInv, NEW o \in Orders, NEW t \in Ticks, FillSell(o, t),
           orders[o].status \in ActiveStatuses, UNCHANGED <<fixed, day, phase, corporate>>
    PROVE  SettleInv'
<1>1. PICK row \in Row : row = orders[o] /\ row.direction = "SELL"
  BY RowTypes DEF FillSell
<1>2. PICK volume \in Int : volume = Smaller(row.remaining, Quote[t].bidVolume)
  BY RequestAssumption DEF Smaller, Row
<1>3. PICK turnover \in Int : turnover = Quote[t].bid * volume
  BY RequestAssumption
<1>4. PICK fee \in Int, cost \in Int : fee = FillFee(o, turnover)
                                       /\ cost = CostOf(position, volume)
  BY <1>1, RowTypes, FillFeeType, CostOfType
<1>5. PICK left \in Position : /\ left = [position EXCEPT !.frozen = @ - volume]
                               /\ left.pending = position.pending
  <2>1. PICK frozen \in Int : frozen = position.frozen - volume
    BY RowTypes DEF Position
  <2>2. [position EXCEPT !.frozen = frozen] \in Position
    BY RowTypes DEF Position
  <2> QED  BY <2>1, <2>2, RowTypes DEF Position
<1>6. PICK q \in Position : q = Sold(left, volume) /\ q.pending = left.pending
  BY SettleTypes, SoldFields DEF IsSold
<1>7. PICK fact \in TradeFacts : /\ fact = TradeFact(o, t, volume, turnover, fee, cost)
                                 /\ fact.direction = "SELL"
                                 /\ fact.commission = fee /\ fact.turnover = turnover
  <2>1. PICK fact : fact = TradeFact(o, t, volume, turnover, fee, cost)
    OBVIOUS
  <2>2. fact \in TradeFacts
    BY <1>1, <2>1, SettleTypes DEF TradeFact, TradeFacts
  <2> QED  BY <1>1, <2>1, <2>2 DEF TradeFact
<1>8. /\ position' = q /\ trades' = Append(trades, fact)
      /\ account' = [account EXCEPT !.available = @ + turnover - fee,
                                    !.cash = @ + turnover - fee]
  BY <1>1, <1>2, <1>3, <1>4, <1>5, <1>6, <1>7 DEF FillSell
<1>9. account'.cash = account.cash + turnover - fee
  BY <1>8, SettleTypes DEF Account
<1>10. account'.cash = CashAfter(account.cash, fact)
  <2>1. account.cash \in Int
    BY SettleTypes DEF Account
  <2>2. account.cash + turnover - fee = account.cash - fee + turnover
    BY <2>1
  <2> QED  BY <1>7, <1>9, <2>2 DEF CashAfter
<1>11. UNCHANGED <<product, actions, entitlements, ledger, subscriptions>>
  BY DEF fixed, corporate
<1> QED  BY <1>5, <1>6, <1>8, <1>10, <1>11, TradeSettles

\* An import puts nothing aside that has been executed.
LEMMA ImportSettles ==
    ASSUME CashInv, SettleInv, NEW r \in Revisions, Import(r)
    PROVE  SettleInv'
<1> DEFINE newer == {q \in Revisions : q > r /\ Imported(q)}
           older == {q \in Revisions :
                       q < r /\ Imported(q) /\ actions[q] \notin DroppedStatuses}
<1>1. /\ actions[r] = "NONE"
      /\ UNCHANGED <<product, account, position, trades, entitlements, ledger, subscriptions>>
  BY DEF Import, Imported, fixed
<1>2. actions \in [Revisions -> ActionStatuses] /\ actions[r] \notin ExecutedStatuses
  BY <1>1, ActionTypes, StatusKinds
<1>3. ASSUME NEW q \in Revisions, actions[q] \in ExecutedStatuses
      PROVE  actions'[q] \in ExecutedStatuses
  <2>1. q # r
    BY <1>2, <1>3
  <2>2. CASE \/ actions' = [actions EXCEPT ![r] = "SUPERSEDED"]
             \/ actions' = [actions EXCEPT ![r] = "MANUAL_REVIEW_REQUIRED"]
    BY <1>2, <1>3, <2>1, <2>2
  <2>3. CASE /\ ~\E x \in older : actions[x] \notin UnexecutedStatuses
             /\ actions' = [x \in Revisions |-> IF x = r THEN "DRAFT"
                                                ELSE IF x \in older THEN "SUPERSEDED"
                                                ELSE actions[x]]
    <3>1. q \notin older
      BY <1>3, <2>3, StatusKinds
    <3> HIDE DEF older
    <3> QED  BY <1>3, <2>1, <2>3, <3>1
  <2> QED  BY <2>2, <2>3 DEF Import
<1> QED  BY <1>1, <1>3, SettleTypes, NothingSettles

LEMMA ConfirmSettles ==
    ASSUME CashInv, SettleInv, NEW r \in Revisions, Confirm(r)
    PROVE  SettleInv'
<1>1. /\ actions[r] = "DRAFT" /\ actions' = [actions EXCEPT ![r] = "CONFIRMED"]
      /\ UNCHANGED <<product, account, position, trades, entitlements, ledger, subscriptions>>
  BY DEF Confirm, fixed
<1>2. "DRAFT" \notin ExecutedStatuses
  BY DEF ExecutedStatuses, ProcessableStatuses
<1>3. \A q \in Revisions : actions[q] \in ExecutedStatuses => actions'[q] \in ExecutedStatuses
  BY <1>1, <1>2, ActionTypes
<1> QED  BY <1>1, <1>3, SettleTypes, NothingSettles

\* A subscription is asked for once, so that its fact is new.
LEMMA SubscribeSettles ==
    ASSUME CashInv, SettleInv, NEW r \in Revisions, NEW request \in SubscriptionIds,
           NEW volume \in Volumes, Subscribe(r, request, volume)
    PROVE  SettleInv'
<1>1. UNCHANGED <<product, trades, actions>>
  BY DEF Subscribe, fixed
<1>2. PICK number \in Nat, cash \in Int, cost \in Int, none \in Int :
         number = volume /\ cash = volume * T.price /\ cost = -cash /\ none = 0
  <2>1. volume \in Nat /\ T.price \in Nat
    BY SettleTypes, RequestAssumption, TermsType
  <2>2. PICK cash \in Int : cash = volume * T.price
    BY <2>1
  <2>3. PICK cost \in Int, none \in Int : cost = -cash /\ none = 0
    OBVIOUS
  <2> QED  BY <2>1, <2>2, <2>3
<1>3. PICK l \in LedgerFacts :
         /\ l = LedgerFact(r, "RIGHTS_SUBSCRIBED", request, cost, none, none)
         /\ l.revision = r /\ l.entry = "RIGHTS_SUBSCRIBED" /\ l.token = request
         /\ l.cash = cost
  <2>1. "RIGHTS_SUBSCRIBED" \in Entries
    BY DEF Entries
  <2>2. LedgerFact(r, "RIGHTS_SUBSCRIBED", request, cost, none, none) \in LedgerFacts
    BY <2>1, SettleTypes DEF LedgerFact, LedgerFacts
  <2> QED  BY <2>2 DEF LedgerFact
<1>4. /\ ledger' = ledger \cup {l}
      /\ account' = [account EXCEPT !.cash = @ - cash, !.available = @ - cash]
      /\ position' = [position EXCEPT !.pending = @ + number]
      /\ subscriptions' = subscriptions \cup
            {[revision |-> r, request |-> request, volume |-> volume]}
      /\ ~\E s \in subscriptions : s.revision = r /\ s.request = request
      /\ Entitled(Books, r) /\ product.kind = "RIGHTS_ISSUE"
  BY <1>2, <1>3 DEF Subscribe
<1>5. l \notin ledger
  BY <1>3, <1>4 DEF SettleInv, Recorded, Books
<1>6. PICK c : c = Books'
  OBVIOUS
<1>7. /\ c.account = account' /\ c.position = position' /\ c.ledger = ledger'
      /\ c.entitlements = entitlements' /\ c.actions = actions
  BY <1>1, <1>6 DEF Books
<1>8. account'.cash = OpeningCash + TradeCash(trades) + LedgerCash(ledger')
  <2>1. /\ ledger \in SUBSET LedgerFacts /\ IsFiniteSet(ledger) /\ account.cash \in Int
        /\ account.cash = OpeningCash + TradeCash(trades) + LedgerCash(ledger)
    BY SettleTypes DEF SettleInv, Recorded, Books, Account
  <2>2. LedgerCash(ledger') = LedgerCash(ledger) + l.cash
    BY <1>4, <1>5, <2>1, LedgerCashAdds
  <2>3. account'.cash = account.cash - cash
    BY <1>4, SettleTypes DEF Account
  <2>4. TradeCash(trades) \in Int
    <3>1. trades \in Seq(TradeFacts)
      BY SettleTypes
    <3>2. PICK v : IsRun(v, CashSteps(trades), 0, Len(trades), Int)
                   /\ v[Len(trades)] = TradeCash(trades)
      BY <3>1, TradeCashRuns
    <3> QED  BY <3>1, <3>2 DEF IsRun
  <2>5. PICK traded \in Int, noted \in Int, opening \in Int :
           traded = TradeCash(trades) /\ noted = LedgerCash(ledger) /\ opening = OpeningCash
    BY <2>1, <2>4, LedgerCashType, SettleTypes
  <2>6. (opening + traded + noted) - cash = opening + traded + (noted + cost)
    BY <1>2
  <2> QED  BY <1>3, <2>1, <2>2, <2>3, <2>5, <2>6
<1>9. Recorded(c, trades', subscriptions')
  <2>1. IsFiniteSet(ledger')
    <3>1. IsFiniteSet(ledger) /\ IsFiniteSet({l})
      BY FS_Singleton DEF SettleInv, Recorded, Books
    <3>2. IsFiniteSet(ledger \cup {l})
      BY ONLY <3>1, FS_Union
    <3> QED  BY <1>4, <3>2
  <2>2. \A m \in ledger' : actions[m.revision] \in ExecutedStatuses
    <3>1. actions[r] \in ExecutedStatuses
      BY <1>4, ActionTypes
    <3>2. \A m \in ledger : actions[m.revision] \in ExecutedStatuses
      BY DEF SettleInv, Recorded, Books
    <3> QED  BY <1>3, <1>4, <3>1, <3>2
  <2>3. \A m \in ledger' : m.entry = "RIGHTS_SUBSCRIBED" =>
           \E s \in subscriptions' : s.revision = m.revision /\ s.request = m.token
    <3>1. \A m \in ledger : m.entry = "RIGHTS_SUBSCRIBED" =>
             \E s \in subscriptions : s.revision = m.revision /\ s.request = m.token
      BY DEF SettleInv, Recorded, Books
    <3>2. PICK s : s = [revision |-> r, request |-> request, volume |-> volume]
      OBVIOUS
    <3>3. /\ s \in subscriptions' /\ subscriptions \subseteq subscriptions'
          /\ s.revision = r /\ s.request = request
      BY <1>4, <3>2
    <3> QED  BY <1>3, <1>4, <3>1, <3>2, <3>3
  <2> QED  BY <1>1, <1>7, <1>8, <2>1, <2>2, <2>3 DEF Recorded
<1>10. PendingHolds(c)
  <2>1. PICK e \in Entitlement, p \in Position, held \in Int, pending \in Int :
           /\ e = entitlements[r] /\ p = position
           /\ held = p.pending + number /\ pending = e.pending + number
    <3>1. PICK e \in Entitlement, p \in Position : e = entitlements[r] /\ p = position
      BY SettleTypes
    <3>2. PICK held \in Int : held = p.pending + number
      BY DEF Position
    <3>3. PICK pending \in Int : pending = e.pending + number
      BY DEF Entitlement
    <3> QED  BY <3>1, <3>2, <3>3
  <2>2. PICK subscribed, total : subscribed = e.subscribed + volume
                                 /\ total = e.subscriptionCash + cash
    OBVIOUS
  <2>3. PICK f, q : /\ f = [e EXCEPT !.subscribed = subscribed, !.pending = pending,
                                     !.subscriptionCash = total]
                    /\ q = [p EXCEPT !.pending = held]
    OBVIOUS
  <2>4. entitlements' = [entitlements EXCEPT ![r] = f] /\ position' = q
    BY <1>2, <1>4, <2>1, <2>2, <2>3 DEF Subscribe
  <2>5. /\ f.pending = pending /\ f.shares = e.shares /\ f.quantity = e.quantity
        /\ q.pending = held
    BY <2>3 DEF Entitlement, Position
  <2>6. p.pending \in Int /\ e.pending \in Int /\ e.shares \in Int
    BY DEF Position, Entitlement
  <2>7. \A x \in Revisions : PartOf(p, entitlements[x])
    BY <2>1 DEF SettleInv, PendingHolds, Books
  <2>8. PartOf(p, e) /\ p.pending >= 0
    BY <2>1, <2>7 DEF SettleInv, PendingHolds, Books
  <2>9. held >= 0 /\ held >= p.pending /\ pending >= 0 /\ pending <= held
    BY <2>1, <2>6, <2>8 DEF PartOf
  <2>10. e.quantity > 0 /\ product.kind \notin SplitKinds
    BY <1>4, <2>1 DEF Entitled, Books, SplitKinds
  <2>11. PartOf(q, f)
    BY <2>5, <2>8, <2>9, <2>10 DEF PartOf
  <2>12. ASSUME NEW x \in Revisions \ {r} PROVE PartOf(q, entitlements[x])
    <3>1. PartOf(p, entitlements[x]) /\ entitlements[x] \in Entitlement
      BY <2>7, SettleTypes
    <3>2. entitlements[x].pending \in Int
      BY <3>1 DEF Entitlement
    <3> QED  BY <2>5, <2>6, <2>9, <3>1, <3>2 DEF PartOf
  <2>13. \A x \in Revisions : PartOf(q, entitlements'[x])
    BY <2>4, <2>11, <2>12, SettleTypes
  <2> QED  BY <1>7, <2>4, <2>5, <2>9, <2>13 DEF PendingHolds
<1> QED  BY <1>1, <1>6, <1>9, <1>10, SettleNext

LEMMA RunDueActionsSettles ==
    ASSUME CashInv, SettleInv, RunDueActions
    PROVE  SettleInv'
<1>1. NoActiveOrder /\ UNCHANGED <<product, trades, subscriptions>>
  BY DEF RunDueActions, CashInv, DayInv, fixed
<1>2. account.frozenCash = 0 /\ account.frozenCommission = 0 /\ position.frozen = 0
  BY <1>1, NothingFrozen DEF CashInv
<1>3. Books \in SettledBooks
  <2>1. Books \in GoodBooks
    BY <1>2 DEF CashInv, BooksInv, GoodBooks, Books
  <2> QED  BY <2>1 DEF SettledBooks, SettleInv
<1>4. PICK b \in SettledBooks : b = RunOf(Books)
  BY <1>3, SettleTypes, RunIsSettled
<1>5. Books' = b
  <2>1. /\ account' = b.account /\ position' = b.position /\ actions' = b.actions
        /\ entitlements' = b.entitlements /\ ledger' = b.ledger
        /\ adjustments' = b.adjustments
    BY <1>4 DEF RunDueActions, RunOf
  <2>2. b = [account |-> b.account, position |-> b.position, actions |-> b.actions,
             entitlements |-> b.entitlements, ledger |-> b.ledger,
             adjustments |-> b.adjustments]
    BY DEF SettledBooks, GoodBooks, BooksType
  <2> QED  BY <2>1, <2>2 DEF Books
<1>6. Recorded(b, trades', subscriptions') /\ PendingHolds(b)
  BY <1>1 DEF SettledBooks
<1> QED  BY <1>1, <1>5, <1>6, SettleNext

LEMMA PostSettles ==
    ASSUME CashInv, ReplayInv, SettleInv, Post
    PROVE  SettleInv'
<1>1. UNCHANGED <<product, trades, actions, entitlements, ledger, subscriptions>>
  BY DEF Post, fixed, corporate
<1>2. account'.cash = account.cash
  BY SettleTypes DEF Post, Account
<1>3. PICK p \in Position : /\ p = (IF Authoritative THEN Replay ELSE position)
                            /\ p.pending = position.pending
  <2>1. PICK facts \in Seq(AdjustmentFacts), days \in {0, 1}, d \in Nat \ {0},
             ts \in Seq(TradeFacts), subs \in {subscriptions} :
           /\ facts = adjustments /\ days = product.settlementDays /\ d = day /\ ts = trades
           /\ subs = subscriptions
    BY ReplayTypes
  <2>2. Follows(days, ts, facts, position, subs, d)
    BY <2>1 DEF ReplayInv
  <2>3. PICK r \in Position : r = ReplayOf(days, ts, facts, d) /\ r.pending = position.pending
    BY <2>2, SettleTypes, ReplayMatches
  <2>4. Replay = r
    BY <2>1, <2>3, ReplayIsOf
  <2> QED  BY <2>3, <2>4, SettleTypes
<1>4. position' = CarriedOver(p)
  BY <1>3 DEF Post, SettledPosition, CarriedOver
<1>5. CarriedOver(p).pending = p.pending
  <2>1. PICK total \in Int, none \in Int : total = p.total /\ none = 0
    BY DEF Position
  <2>2. PICK x \in Position : /\ x = [p EXCEPT !.today = none, !.yesterday = total,
                                               !.locked = none]
                              /\ x.pending = p.pending
    <3>1. [p EXCEPT !.today = none, !.yesterday = total, !.locked = none] \in Position
      BY DEF Position
    <3> QED  BY <3>1 DEF Position
  <2>3. CarriedOver(p) = WithAvailable(x)
    BY <2>1, <2>2 DEF CarriedOver
  <2> QED  BY <2>2, <2>3, WithAvailableFields
<1> QED  BY <1>1, <1>2, <1>3, <1>4, <1>5, SettleTypes, NothingSettles

LEMMA SettleInit == Init => SettleInv
<1> SUFFICES ASSUME Init PROVE SettleInv
  OBVIOUS
<1>1. Recorded(Books, trades, subscriptions)
  <2>1. /\ account = [cash |-> OpeningCash, available |-> OpeningCash, frozenCash |-> 0,
                      frozenCommission |-> 0, receivable |-> 0]
        /\ ledger = {} /\ trades = <<>>
    BY DEF Init
  <2>2. account.cash = OpeningCash /\ OpeningCash \in Int
    BY <2>1, RequestAssumption
  <2>3. LedgerCash({}) = 0
    BY SumEmpty DEF LedgerCash
  <2>4. account.cash = OpeningCash + TradeCash(trades) + LedgerCash(ledger)
    BY <2>1, <2>2, <2>3, TradeCashEmpty
  <2> QED  BY <2>1, <2>4, FS_EmptySet DEF Recorded, Books
<1>2. PendingHolds(Books)
  <2>1. position.pending = 0 /\ \A r \in Revisions : entitlements[r] = NoEntitlement
    BY DEF Init, EmptyPosition
  <2>2. NoEntitlement.shares = 0 /\ NoEntitlement.pending = 0
    BY DEF NoEntitlement
  <2> QED  BY <2>1, <2>2 DEF PendingHolds, PartOf, Books
<1> QED  BY <1>1, <1>2 DEF SettleInv

LEMMA SettleStep == CashInv /\ ReplayInv /\ SettleInv /\ [Next]_vars => SettleInv'
<1> SUFFICES ASSUME CashInv, ReplayInv, SettleInv, [Next]_vars PROVE SettleInv'
  OBVIOUS
<1>1. CASE \E o \in Orders, direction \in {"BUY", "SELL"}, limit \in LimitPrices,
              volume \in Volumes : Submit(o, direction, limit, volume)
  BY <1>1, SubmitSettles
<1>2. CASE \E o \in Orders : Cancel(o)
  BY <1>2, CancelSettles
<1>3. CASE \E o \in Orders, t \in Ticks : DeliverTick(o, t)
  BY <1>3, FillBuySettles, FillSellSettles DEF DeliverTick
<1>4. CASE \E r \in Revisions : Import(r) \/ Confirm(r)
  BY <1>4, ImportSettles, ConfirmSettles
<1>5. CASE \E r \in Revisions, request \in SubscriptionIds, volume \in Volumes :
              Subscribe(r, request, volume)
  BY <1>5, SubscribeSettles
<1>6. CASE Barrier \/ Repeat
  BY <1>6, SettleTypes, NothingSettles DEF Barrier, Repeat, fixed, corporate
<1>7. CASE RunDueActions \/ Post
  BY <1>7, RunDueActionsSettles, PostSettles
<1>8. CASE UNCHANGED vars
  BY <1>8, SettleTypes, NothingSettles DEF vars
<1> QED  BY <1>1, <1>2, <1>3, <1>4, <1>5, <1>6, <1>7, <1>8 DEF Next

\* A replay with the shares of a position that lives.
LEMMA SameIsSane ==
    ASSUME NEW r \in Position, NEW p \in Position, SharesAddUp(p), SameShares(r, p),
           r.total = p.total, r.frozen = 0, r.pending >= 0
    PROVE  Sane(r)
<1>1. /\ p.total \in Int /\ p.today \in Int /\ p.yesterday \in Int /\ p.locked \in Int
  BY DEF Position
<1>2. /\ r.today >= 0 /\ r.yesterday >= 0 /\ r.total = r.today + r.yesterday
      /\ r.locked = (IF product.settlementDays = 1 THEN r.today ELSE 0)
      /\ r.available = r.total - r.locked
  <2>1. r.total - 0 = r.total
    BY <1>1
  <2> QED  BY <1>1, <2>1 DEF SharesAddUp, SameShares, WellFormed
<1>3. r.total >= 0 /\ r.locked >= 0 /\ r.available >= 0
  <2>1. r.today \in Int /\ r.yesterday \in Int
    BY DEF Position
  <2> QED  BY <1>2, <2>1
<1>4. DOMAIN r = {"total", "today", "yesterday", "frozen", "locked", "available", "pending",
                  "cost"}
  BY DEF Position
<1>5. \A column \in DOMAIN r \ {"cost"} : r[column] >= 0
  BY <1>2, <1>3, <1>4
<1> QED  BY <1>2, <1>5 DEF Sane

LEMMA ReplayIsSane ==
    ASSUME CashInv, ReplayInv, SettleInv, phase = "posting"
    PROVE  Sane(Replay) /\ Replay.frozen = 0
<1>1. PICK facts \in Seq(AdjustmentFacts), days \in {0, 1}, d \in Nat \ {0},
           ts \in Seq(TradeFacts), p \in Position, subs \in {subscriptions} :
         /\ facts = adjustments /\ days = product.settlementDays /\ d = day /\ ts = trades
         /\ p = position /\ subs = subscriptions
  BY ReplayTypes
<1>2. Follows(days, ts, facts, p, subs, d)
  BY <1>1 DEF ReplayInv
<1>3. PICK r \in Position :
         /\ r = ReplayOf(days, ts, facts, d) /\ r.total = p.total /\ r.pending = p.pending
         /\ r.frozen = 0
         /\ NothingOn(ts, d) /\ NothingOn(facts, d) => Sane(r)
         /\ ~(NothingOn(ts, d) /\ NothingOn(facts, d)) => SameShares(r, p)
  BY <1>2, ReplayMatches
<1>4. Replay = r
  BY <1>1, <1>3, ReplayIsOf
<1>5. SharesAddUp(p) /\ p.pending >= 0
  BY <1>1 DEF CashInv, BooksInv, SettleInv, PendingHolds, Books
<1>6. CASE NothingOn(ts, d) /\ NothingOn(facts, d)
  BY <1>3, <1>4, <1>6
<1>7. CASE ~(NothingOn(ts, d) /\ NothingOn(facts, d))
  <2>1. SameShares(r, p)
    BY <1>3, <1>7
  <2>2. Sane(r)
    BY <1>3, <1>5, <2>1, SameIsSane
  <2> QED  BY <1>3, <1>4, <2>2
<1> QED  BY <1>6, <1>7

\* No fact is of a revision that was dropped or put aside, so that all count.
LEMMA CashIsExplained ==
    ASSUME CashInv, SettleInv
    PROVE  ReplaySafe /\ account.cash = ExplainedCash
<1> DEFINE counted == {l \in ledger : actions[l.revision] \notin
                          DroppedStatuses \cup {"MANUAL_REVIEW_REQUIRED"}}
<1>1. /\ IsFiniteSet(ledger)
      /\ account.cash = OpeningCash + TradeCash(trades) + LedgerCash(ledger)
      /\ \A l \in ledger : actions[l.revision] \in ExecutedStatuses
  BY DEF SettleInv, Recorded, Books
<1>2. \A l \in ledger : actions[l.revision] \notin
                           DroppedStatuses \cup {"MANUAL_REVIEW_REQUIRED"}
  BY <1>1, StatusKinds
<1>3. counted = ledger
  BY <1>2
<1>4. ExplainedCash = OpeningCash + TradeCash(trades)
                      + SumOver(counted, LAMBDA l : l.cash)
  BY DEF ExplainedCash, TradeCash
<1>5. SumOver(counted, LAMBDA l : l.cash) = LedgerCash(counted)
  <2>1. IsFiniteSet(counted)
    BY <1>1, <1>3
  <2> HIDE DEF counted
  <2> QED  BY <2>1, SumOverIsLedgerCash
<1>6. account.cash = ExplainedCash
  <2> HIDE DEF counted
  <2> QED  BY <1>1, <1>3, <1>4, <1>5
<1>7. ReplaySafe
  BY <1>2 DEF ReplaySafe
<1> QED  BY <1>6, <1>7

LEMMA SettleSuffices == CashInv /\ ReplayInv /\ SettleInv => SettlementAccepts
<1> SUFFICES ASSUME CashInv, ReplayInv, SettleInv, phase = "posting", IncomeToday = 0,
                    NEW quote \in FrozenQuotes
             PROVE  \/ Accepts(quote)
                    \/ quote = "OLD" /\ position.total > 0
                    \/ quote = "NONE" /\ position.total = 0 /\ trades # <<>>
  BY DEF SettlementAccepts
<1>1. account.frozenCash = 0 /\ account.frozenCommission = 0
  BY NothingFrozen DEF CashInv, DayInv
<1>2. ReplaySafe /\ account.cash = ExplainedCash
  BY CashIsExplained
<1>3. Sane(Replay) /\ Replay.frozen = 0
  BY ReplayIsSane
<1>4. SettledPosition.total = position.total
  BY ReplaySuffices DEF ReplayIsLive, SettledPosition
<1>5. quote = "NONE" => position.total = 0
  BY DEF FrozenQuotes
<1>6. quote \in {"RECENT", "OLD", "NONE"}
  BY DEF FrozenQuotes
<1> QED  BY <1>1, <1>2, <1>3, <1>4, <1>5, <1>6 DEF Accepts

\* Whatever was traded, cancelled, paid, split, redeemed, listed, subscribed or repeated
\* on the days before, and whatever the terms and the dates of the action are: on a day
\* without income the posting transaction (_settle_batch_from_facts) refuses the account
\* for none of the checks of its own rows, only for a price that is late or missing.
THEOREM SettlementAlwaysAccepts == Spec => []SettlementAccepts
<1>1. Init => CashInv /\ ReplayInv /\ SettleInv
  BY CashInit, ReplayInit, SettleInit
<1>2. CashInv /\ ReplayInv /\ SettleInv /\ [Next]_vars => (CashInv /\ ReplayInv /\ SettleInv)'
  BY CashStep, ReplayStep, SettleStep
<1>3. CashInv /\ ReplayInv /\ SettleInv => SettlementAccepts
  BY SettleSuffices
<1> QED  BY <1>1, <1>2, <1>3, PTL DEF Spec

-----------------------------------------------------------------------------
(* What an action delivers.                                                *)

\* The steps of one revision are numbered as in ActionSteps: a date has been passed on
\* day d after step n of it.
Passed(date, d, step, n) == date < d \/ (date = d /\ step <= n)

\* The entry of the fact with which an entitled account is given its claim.
ClaimEntry ==
    CASE product.kind \in IncomeKinds -> "RECEIVABLE_CREATED"
      [] product.kind = "BOND_MATURITY_REDEMPTION" -> "BOND_PRINCIPAL_RECEIVABLE"
      [] product.kind = "STOCK_DIVIDEND" -> "SHARES_PENDING"
      [] OTHER -> product.kind
ClaimStep == IF product.kind = "BOND_MATURITY_REDEMPTION" THEN 3 ELSE 2

Claimed(b, r) == Posted(b, r, ClaimEntry, "")
Shipped(b, r) == Posted(b, r, "SHARES_LISTED", "")

\* Dividends, coupons, principal and the cash of split fractions.
Splits == product.kind \in SplitKinds
AmountOf(e) == IF Splits THEN e.lieu ELSE e.cash
LieuOf(quantity) == RoundedQuotient(((quantity * T.ratio) % T.base) * T.lieu, T.base)

NoMoreOwed(b, r) == CashIsPaid(b, r) \/ (Splits /\ b.entitlements[r].lieu = 0)

CashGiven(b, r, d, n) ==
    LET e == b.entitlements[r] IN
    /\ e.credited = 0 /\ e.pending = 0 /\ e.cash >= 0 /\ e.lieu >= 0
    /\ CashIsPaid(b, r) => Claimed(b, r)
    /\ Passed(Dates.ex, d, ClaimStep, n) => Claimed(b, r)
    /\ Passed(Dates.payment, d, 4, n) => NoMoreOwed(b, r)
    /\ WholeShares => b.account.receivable =
          IF Claimed(b, r) /\ ~CashIsPaid(b, r) THEN AmountOf(e) ELSE 0
    /\ Splits /\ ~Claimed(b, r) =>
          /\ e.lieu = LieuOf(e.quantity)
          /\ Dates.record = Dates.ex =>
                n = 1 /\ d = Dates.ex /\ e.quantity = b.position.total

DividendGiven(b, r, d, n) ==
    LET e == b.entitlements[r] IN
    /\ b.account.receivable = 0
    /\ e.credited + e.pending = IF Claimed(b, r) THEN e.shares ELSE 0
    /\ Passed(Dates.ex, d, ClaimStep, n) => Claimed(b, r)
    /\ Passed(Dates.listing, d, 5, n) => e.pending = 0
    /\ Shipped(b, r) => Claimed(b, r) /\ e.pending = 0

RightsGiven(b, r, d, n) ==
    LET e == b.entitlements[r] IN
    /\ b.account.receivable = 0
    /\ e.credited + e.pending = e.subscribed /\ e.subscribed <= e.shares
    /\ e.credited >= 0 /\ e.pending >= 0
    /\ Passed(Dates.listing, d, 5, n) => e.pending = 0
    /\ Shipped(b, r) => Dates.listing <= d /\ e.pending = 0

\* What an entitled account has been given by step n of day d.
Given(b, r, d, n) ==
    CASE product.kind = "STOCK_DIVIDEND" -> DividendGiven(b, r, d, n)
      [] product.kind = "RIGHTS_ISSUE" -> RightsGiven(b, r, d, n)
      [] OTHER -> CashGiven(b, r, d, n)

\* Nothing is left to give.
Ended(b, r, d) ==
    /\ b.entitlements[r].pending = 0
    /\ product.kind = "RIGHTS_ISSUE" => Dates.subscriptionEnd < d
    /\ product.kind # "RIGHTS_ISSUE" => Claimed(b, r)
    /\ product.kind \notin {"STOCK_DIVIDEND", "RIGHTS_ISSUE"} => NoMoreOwed(b, r)

GivenTo(b, r, d, n) ==
    /\ Given(b, r, d, n)
    /\ b.actions[r] = "COMPLETED" => Ended(b, r, d)

\* Only who is entitled is given something.
Deliveries(b, d, n) ==
    /\ \A r \in Revisions : IF Entitled(b, r) THEN GivenTo(b, r, d, n)
                            ELSE b.entitlements[r] = NoEntitlement
    /\ (\A r \in Revisions : ~Entitled(b, r)) => b.account.receivable = 0

NothingToFinish(b) ==
    \A r \in Revisions : b.actions[r] \in ProcessableStatuses => ~Finished(b, r)

DeliverInv ==
    /\ schedule \in Schedules[product.kind]
    /\ Deliveries(Books, day, IF phase = "posting" THEN 6 ELSE 0)
    /\ phase = "posting" => NothingToFinish(Books)
    /\ EveryActionCompletes

-----------------------------------------------------------------------------
(* Fractions of shares.                                                    *)

LEMMA QuotientOfPositive ==
    ASSUME NEW n \in Int, n >= 0, NEW d \in Nat \ {0}
    PROVE  /\ RoundedQuotient(n, d) \in Int /\ RoundedQuotient(n, d) >= 0
           /\ n = 0 => RoundedQuotient(n, d) = 0
<1> PICK num \in Int, den \in Int : /\ num = 2 * n + d /\ den = 2 * d
                                    /\ num >= 0 /\ den > 0 /\ (n = 0 => num < den)
  OBVIOUS
<1>1. num \div den \in Int /\ num \div den >= 0
  OBVIOUS
<1>2. num < den => num \div den = 0
  OBVIOUS
<1>3. RoundedQuotient(n, d) = num \div den
  BY DEF RoundedQuotient
<1> QED  BY <1>1, <1>2, <1>3

\* Rounding down loses the remainder.
LEMMA RoundingLoses ==
    ASSUME NEW k \in Int, NEW base \in Nat \ {0}
    PROVE  /\ (k \div base) * base \in Int
           /\ k - (k \div base) * base = k % base
           /\ k \div base \in Int /\ k % base \in Int /\ k % base >= 0 /\ k % base < base
OBVIOUS

LEMMA RemainderOfMultiple ==
    ASSUME NEW m \in Int, NEW base \in Nat \ {0}
    PROVE  (m * base) % base = 0
<1> PICK k \in Int, q \in Int, rest \in Int :
       /\ k = m * base /\ q = k \div base /\ rest = k % base
       /\ k - q * base = rest /\ rest >= 0 /\ rest < base
  <2>1. PICK k \in Int : k = m * base
    OBVIOUS
  <2> QED  BY <2>1, RoundingLoses
<1>1. PICK over \in Int : over = m - q /\ over * base = rest
  <2>1. PICK over \in Int : over = m - q /\ m = over + q
    OBVIOUS
  <2>2. (over + q) * base = over * base + q * base
    OBVIOUS
  <2>3. over * base \in Int /\ q * base \in Int
    OBVIOUS
  <2> QED  BY <2>1, <2>2, <2>3
<1>2. over >= 1 => over * base >= base
  OBVIOUS
<1>3. over <= -1 => over * base <= -base
  OBVIOUS
<1>4. over = 0
  BY <1>1, <1>2, <1>3
<1> QED  BY <1>1, <1>4

\* What a split loses, from all buckets together, is less than nothing never.
LEMMA SplitLoses ==
    ASSUME product \in Products, NEW p \in Position, SharesAddUp(p), p.frozen = 0
    PROVE  LET lost == p.total * T.ratio - SplitPosition(p).total * T.base IN
           /\ lost \in Int /\ lost >= 0
           /\ lost = 0 => (p.total * T.ratio) % T.base = 0
<1> DEFINE times(n) == (n * T.ratio) \div T.base
<1>1. PICK today \in Int, yesterday \in Int, total \in Int, ratio \in Nat, base \in Nat \ {0} :
         /\ today = p.today /\ yesterday = p.yesterday /\ total = p.total
         /\ total = today + yesterday
         /\ ratio = T.ratio /\ base = T.base
  <2>1. p.today \in Int /\ p.yesterday \in Int /\ p.total \in Int
    BY DEF Position
  <2> QED  BY <2>1, TermsType DEF SharesAddUp
<1>2. PICK a \in Int, c \in Int, h \in Int : /\ a = today * ratio /\ c = yesterday * ratio
                                             /\ h = total * ratio /\ h = a + c
  <2>1. total * ratio = today * ratio + yesterday * ratio
    BY <1>1
  <2> QED  BY <2>1
<1>3. PICK i \in Int, j \in Int : i = a \div base /\ j = c \div base
  BY RoundingLoses
<1>4. SplitPosition(p).total = i + j
  <2>1. times(p.today) = i /\ times(p.yesterday) = j
    BY <1>1, <1>2, <1>3
  <2> HIDE DEF times
  <2>2. PICK x : x = [p EXCEPT !.today = times(@), !.yesterday = times(@),
                          !.total = times(p.today) + times(p.yesterday),
                          !.frozen = times(@), !.locked = times(@), !.pending = times(@)]
    OBVIOUS
  <2>3. SplitPosition(p) = WithAvailable(x)
    BY <2>2 DEF SplitPosition, times
  <2>4. x.total = i + j
    BY <2>1, <2>2 DEF Position
  <2>5. WithAvailable(x).total = x.total
    BY <2>2 DEF WithAvailable, Position
  <2> QED  BY <2>3, <2>4, <2>5
<1>5. PICK r \in Int, s \in Int : /\ a - i * base = r /\ c - j * base = s /\ r >= 0 /\ s >= 0
                                  /\ i * base \in Int /\ j * base \in Int
  <2>1. /\ a % base \in Int /\ a % base >= 0 /\ a - i * base = a % base
        /\ i * base \in Int
    BY <1>3, RoundingLoses
  <2>2. /\ c % base \in Int /\ c % base >= 0 /\ c - j * base = c % base
        /\ j * base \in Int
    BY <1>3, RoundingLoses
  <2> QED  BY <2>1, <2>2
<1>6. (i + j) * base = i * base + j * base
  OBVIOUS
<1>7. h - (i + j) * base = r + s
  BY <1>2, <1>5, <1>6
<1>8. r + s = 0 => h = (i + j) * base
  BY <1>2, <1>5, <1>6
<1>9. r + s = 0 => h % base = 0
  BY <1>8, RemainderOfMultiple
<1> HIDE DEF times
<1> QED  BY <1>1, <1>2, <1>4, <1>5, <1>7, <1>9

\* A split into whole shares leaves no fraction to pay.
LEMMA NoFraction ==
    ASSUME product \in Products, NEW quantity \in Int, (quantity * T.ratio) % T.base = 0
    PROVE  LieuOf(quantity) = 0
<1>1. T.base \in Nat \ {0} /\ T.lieu \in Int
  BY TermsType
<1>2. PICK n \in Int : n = ((quantity * T.ratio) % T.base) * T.lieu /\ n = 0
  BY <1>1
<1> QED  BY <1>1, <1>2, QuotientOfPositive DEF LieuOf

LEMMA WholeRatio ==
    ASSUME product \in Products, NEW quantity \in Int, T.ratio % T.base = 0
    PROVE  (quantity * T.ratio) % T.base = 0
<1>1. PICK ratio \in Int, base \in Nat \ {0} : ratio = T.ratio /\ base = T.base
  BY TermsType
<1>2. PICK m \in Int : m = ratio \div base /\ ratio = m * base
  <2>1. ratio \div base \in Int /\ (ratio \div base) * base \in Int
        /\ ratio - (ratio \div base) * base = 0
    BY <1>1, RoundingLoses
  <2> QED  BY <2>1
<1>3. PICK k \in Int : k = quantity * m
  OBVIOUS
<1>4. quantity * ratio = k * base
  BY <1>2, <1>3
<1> QED  BY <1>1, <1>4, RemainderOfMultiple

LEMMA LieuIsPositive ==
    ASSUME product \in Products, NEW quantity \in Int, quantity >= 0
    PROVE  LieuOf(quantity) \in Int /\ LieuOf(quantity) >= 0
<1>1. PICK ratio \in Nat, base \in Nat \ {0}, price \in Nat :
         ratio = T.ratio /\ base = T.base /\ price = T.lieu
  BY TermsType
<1>2. PICK k \in Int : k = quantity * ratio
  OBVIOUS
<1>3. PICK rest \in Nat : rest = k % base
  BY RoundingLoses
<1>4. PICK n \in Int : n = rest * price /\ n >= 0
  OBVIOUS
<1>5. RoundedQuotient(n, base) \in Int /\ RoundedQuotient(n, base) >= 0
  BY <1>4, QuotientOfPositive
<1> QED  BY <1>1, <1>2, <1>3, <1>4, <1>5 DEF LieuOf

-----------------------------------------------------------------------------
(* What the operations of run_due_actions deliver.                         *)

OnSchedule == day \in Nat /\ InOrder(product.kind, schedule)

\* Books, as far as an operation on r looks at them.
IsBooks(x, r) ==
    /\ x = [account |-> x.account, position |-> x.position, actions |-> x.actions,
            entitlements |-> x.entitlements, ledger |-> x.ledger,
            adjustments |-> x.adjustments]
    /\ x.actions \in [Revisions -> ActionStatuses]
    /\ x.entitlements[r] \in Entitlement

LEMMA KindsAreKnown ==
    ASSUME product \in Products
    PROVE  product.kind \in Kinds
BY ProductsAssumption

\* Completion is not early.
LEMMA FinishedEnds ==
    ASSUME product \in Products, OnSchedule, NEW r \in Revisions, NEW b, IsBooks(b, r),
           NEW n \in Nat, n >= 2, Entitled(b, r),
           Given(b, r, day, n), Finished(b, r)
    PROVE  Ended(b, r, day)
<1>1. PICK e \in Entitlement : e = b.entitlements[r]
  BY DEF IsBooks
<1>2. /\ e.pending \in Int /\ e.credited \in Int /\ e.shares \in Int /\ e.lieu \in Int
      /\ e.subscribed \in Int
  BY DEF Entitlement
<1>4. CASE product.kind = "STOCK_DIVIDEND"
  <2>1. DividendGiven(b, r, day, n)
    BY <1>4 DEF Given
  <2>2. day >= Dates.listing /\ e.pending = 0
    BY <1>1, <1>4 DEF Finished
  <2>3. Passed(Dates.ex, day, ClaimStep, n)
    BY <1>4, <2>2 DEF OnSchedule, InOrder, Dates, Passed, ClaimStep
  <2>4. Claimed(b, r)
    BY <2>1, <2>3 DEF DividendGiven
  <2> QED  BY <1>1, <1>4, <2>2, <2>4 DEF Ended
<1>5. CASE product.kind = "RIGHTS_ISSUE"
  <2>1. RightsGiven(b, r, day, n)
    BY <1>5 DEF Given
  <2>2. Dates.subscriptionEnd < day /\ (e.subscribed > 0 => e.pending = 0)
    BY <1>1, <1>5 DEF Finished, OnSchedule, InOrder, Dates
  <2>3. e.credited + e.pending = e.subscribed /\ e.credited >= 0 /\ e.pending >= 0
    BY <1>1, <2>1 DEF RightsGiven
  <2>4. e.pending = 0
    BY <1>2, <2>2, <2>3
  <2> QED  BY <1>1, <1>5, <2>2, <2>4 DEF Ended
<1>6. CASE product.kind \notin {"STOCK_DIVIDEND", "RIGHTS_ISSUE"}
  <2>1. CashGiven(b, r, day, n)
    BY <1>6 DEF Given
  <2>2. e.pending = 0 /\ e.lieu >= 0 /\ (CashIsPaid(b, r) => Claimed(b, r))
    BY <1>1, <2>1 DEF CashGiven
  <2>3. CASE product.kind \in SplitKinds
    <3>1. day >= Dates.ex /\ (e.lieu > 0 => CashIsPaid(b, r))
      BY <1>1, <2>3 DEF Finished
    <3>2. Passed(Dates.ex, day, ClaimStep, n)
      BY <2>3, <3>1 DEF OnSchedule, InOrder, Dates, Passed, ClaimStep, SplitKinds
    <3>3. Claimed(b, r)
      BY <2>1, <3>2 DEF CashGiven
    <3>4. CashIsPaid(b, r) \/ e.lieu = 0
      BY <1>2, <2>2, <3>1
    <3>5. NoMoreOwed(b, r)
      BY <1>1, <2>3, <3>4 DEF NoMoreOwed, Splits
    <3> QED  BY <1>1, <1>6, <2>2, <3>3, <3>5 DEF Ended
  <2>4. CASE product.kind \notin SplitKinds
    <3>1. product.kind \in IncomeKinds \cup {"BOND_MATURITY_REDEMPTION"}
      BY <1>6, <2>4, KindsAreKnown DEF Kinds
    <3>2. CashIsPaid(b, r)
      BY <3>1 DEF Finished
    <3> QED  BY <1>1, <1>6, <2>2, <3>2 DEF Ended, NoMoreOwed
  <2> QED  BY <2>3, <2>4
<1> QED  BY <1>4, <1>5, <1>6

\* What has ended needs no further step.
LEMMA EndedIsGiven ==
    ASSUME NEW r \in Revisions, NEW b, NEW d, Given(b, r, d, 0), Ended(b, r, d)
    PROVE  Given(b, r, d, 6)
<1>1. CASE product.kind = "STOCK_DIVIDEND"
  BY <1>1 DEF Given, DividendGiven, Ended
<1>2. CASE product.kind = "RIGHTS_ISSUE"
  BY <1>2 DEF Given, RightsGiven, Ended
<1>3. CASE product.kind \notin {"STOCK_DIVIDEND", "RIGHTS_ISSUE"}
  <2>1. CashGiven(b, r, d, 0) /\ Claimed(b, r) /\ NoMoreOwed(b, r)
    BY <1>3 DEF Given, Ended
  <2>2. CashGiven(b, r, d, 6)
    BY <2>1 DEF CashGiven
  <2> QED  BY <1>3, <2>2 DEF Given
<1> QED  BY <1>1, <1>2, <1>3

\* A step that is not due would have nothing to give.
LEMMA NotDueGives ==
    ASSUME product \in Products, OnSchedule, NEW r \in Revisions, NEW b, NEW k \in 1 .. 6,
           Given(b, r, day, k - 1),
           b.actions[r] \in ExecutedStatuses, ~Due(b, r, ActionSteps[k])
    PROVE  Given(b, r, day, k)
<1>1. /\ k = 2 => Dates.ex # day
      /\ k = 3 => Dates.ex # day \/ product.kind # "BOND_MATURITY_REDEMPTION"
      /\ k = 4 => Dates.payment # day
      /\ k = 5 => Dates.listing # day
  <2>1. /\ ActionSteps[2] = "ex date" /\ ActionSteps[3] = "maturity"
        /\ ActionSteps[4] = "payment" /\ ActionSteps[5] = "listing"
    BY DEF ActionSteps
  <2>2. b.actions[r] \in ProcessableStatuses \cup {"COMPLETED"}
    BY DEF ExecutedStatuses
  <2>3. CASE k = 2
    BY <2>1, <2>2, <2>3 DEF Due
  <2>4. CASE k = 3
    BY <2>1, <2>2, <2>4 DEF Due
  <2>5. CASE k = 4
    BY <2>1, <2>2, <2>5 DEF Due
  <2>6. CASE k = 5
    BY <2>1, <2>2, <2>6 DEF Due
  <2> QED  BY <2>3, <2>4, <2>5, <2>6
<1>2. CASE product.kind = "STOCK_DIVIDEND"
  <2>1. DividendGiven(b, r, day, k - 1)
    BY <1>2 DEF Given
  <2>2. /\ Passed(Dates.ex, day, ClaimStep, k) => Passed(Dates.ex, day, ClaimStep, k - 1)
        /\ Passed(Dates.listing, day, 5, k) => Passed(Dates.listing, day, 5, k - 1)
    BY <1>1, <1>2 DEF Passed, ClaimStep
  <2>3. DividendGiven(b, r, day, k)
    BY <2>1, <2>2 DEF DividendGiven
  <2> QED  BY <1>2, <2>3 DEF Given
<1>3. CASE product.kind = "RIGHTS_ISSUE"
  <2>1. RightsGiven(b, r, day, k - 1)
    BY <1>3 DEF Given
  <2>2. Passed(Dates.listing, day, 5, k) => Passed(Dates.listing, day, 5, k - 1)
    BY <1>1 DEF Passed
  <2>3. RightsGiven(b, r, day, k)
    BY <2>1, <2>2 DEF RightsGiven
  <2> QED  BY <1>3, <2>3 DEF Given
<1>4. CASE product.kind \notin {"STOCK_DIVIDEND", "RIGHTS_ISSUE"}
  <2>1. CashGiven(b, r, day, k - 1)
    BY <1>4 DEF Given
  <2>2. /\ Passed(Dates.ex, day, ClaimStep, k) => Passed(Dates.ex, day, ClaimStep, k - 1)
        /\ Passed(Dates.payment, day, 4, k) => Passed(Dates.payment, day, 4, k - 1)
    BY <1>1 DEF Passed, ClaimStep
  <2>3. Splits /\ ~Claimed(b, r) => Dates.record # Dates.ex
    <3>1. SUFFICES ASSUME Splits, ~Claimed(b, r), Dates.record = Dates.ex
                   PROVE  FALSE
      OBVIOUS
    <3>2. k - 1 = 1 /\ day = Dates.ex
      BY <2>1, <3>1 DEF CashGiven
    <3>3. k = 2
      BY <3>2
    <3> QED  BY <1>1, <3>2, <3>3
  <2>4. CashGiven(b, r, day, k)
    BY <2>1, <2>2, <2>3 DEF CashGiven
  <2> QED  BY <1>4, <2>4 DEF Given
<1> QED  BY <1>2, <1>3, <1>4

\* On the last day all dates have passed.
LEMMA LastDayFinishes ==
    ASSUME product \in Products, OnSchedule, day = LastDay, NEW r \in Revisions,
           NEW b \in BooksType, Given(b, r, day, 6), Entitled(b, r),
           b.actions[r] \in ProcessableStatuses
    PROVE  Finished(b, r)
<1>1. PICK e \in Entitlement : e = b.entitlements[r]
  BY DEF BooksType
<1>2. /\ e.pending \in Int /\ e.credited \in Int /\ e.shares \in Int /\ e.lieu \in Int
      /\ e.subscribed \in Int
  BY DEF Entitlement
<1>3. CASE product.kind = "STOCK_DIVIDEND"
  <2>1. /\ Dates.listing <= day /\ Passed(Dates.listing, day, 5, 6)
        /\ Passed(Dates.ex, day, ClaimStep, 6)
    BY <1>3 DEF OnSchedule, InOrder, Dates, Passed, ClaimStep
  <2>2. e.pending = 0 /\ e.credited + e.pending = e.shares
    BY <1>1, <1>3, <2>1 DEF Given, DividendGiven
  <2>3. e.credited >= e.shares
    BY <1>2, <2>2
  <2>4. day >= Dates.listing
    BY <2>1 DEF OnSchedule, InOrder, Dates
  <2> QED  BY <1>1, <1>3, <2>2, <2>3, <2>4 DEF Finished, IncomeKinds, SplitKinds
<1>4. CASE product.kind = "RIGHTS_ISSUE"
  <2>1. Dates.subscriptionEnd < day /\ Passed(Dates.listing, day, 5, 6)
    BY <1>4 DEF OnSchedule, InOrder, Dates, Passed
  <2>2. e.pending = 0 /\ e.credited + e.pending = e.subscribed
    BY <1>1, <1>4, <2>1 DEF Given, RightsGiven
  <2>3. e.credited >= e.subscribed
    BY <1>2, <2>2
  <2>4. day > Dates.subscriptionEnd
    BY <2>1 DEF OnSchedule, InOrder, Dates
  <2> QED  BY <1>1, <1>4, <2>2, <2>3, <2>4 DEF Finished, IncomeKinds, SplitKinds
<1>5. CASE product.kind \notin {"STOCK_DIVIDEND", "RIGHTS_ISSUE"}
  <2>1. product.kind \in IncomeKinds \cup SplitKinds \cup {"BOND_MATURITY_REDEMPTION"}
    BY <1>5, KindsAreKnown DEF Kinds
  <2>2. day >= Dates.payment /\ day >= Dates.ex /\ Passed(Dates.payment, day, 4, 6)
    BY <2>1 DEF OnSchedule, InOrder, Dates, Passed
  <2>3. NoMoreOwed(b, r)
    BY <1>5, <2>2 DEF Given, CashGiven
  <2>4. CashIsPaid(b, r) \/ (product.kind \in SplitKinds /\ e.lieu = 0)
    BY <1>1, <2>3 DEF NoMoreOwed, Splits
  <2>5. product.kind \in SplitKinds =>
           product.kind \notin IncomeKinds \cup {"BOND_MATURITY_REDEMPTION"}
    BY DEF SplitKinds, IncomeKinds
  <2>6. e.lieu > 0 => CashIsPaid(b, r) \/ product.kind \notin SplitKinds
    BY <1>2, <2>4
  <2> QED  BY <1>1, <1>5, <2>2, <2>4, <2>5, <2>6 DEF Finished
<1> QED  BY <1>3, <1>4, <1>5

\* Of the revision r the books x and c differ in its status only.
StatusOnly(x, c, r) ==
    /\ c.account = x.account /\ c.position = x.position /\ c.ledger = x.ledger
    /\ c.entitlements[r] = x.entitlements[r]

LEMMA GivenAgain ==
    ASSUME NEW r \in Revisions, NEW x, NEW c, StatusOnly(x, c, r), NEW d, NEW n
    PROVE  /\ Entitled(c, r) <=> Entitled(x, r)
           /\ Given(x, r, d, n) => Given(c, r, d, n)
           /\ Ended(x, r, d) => Ended(c, r, d)
<1>1. /\ Claimed(c, r) <=> Claimed(x, r)
      /\ CashIsPaid(c, r) <=> CashIsPaid(x, r)
      /\ Shipped(c, r) <=> Shipped(x, r)
  BY DEF StatusOnly, Claimed, CashIsPaid, Shipped, Posted
<1>2. NoMoreOwed(c, r) <=> NoMoreOwed(x, r)
  BY <1>1 DEF StatusOnly, NoMoreOwed
<1>3. DividendGiven(x, r, d, n) => DividendGiven(c, r, d, n)
  BY <1>1 DEF StatusOnly, DividendGiven
<1>4. RightsGiven(x, r, d, n) => RightsGiven(c, r, d, n)
  BY <1>1 DEF StatusOnly, RightsGiven
<1>5. CashGiven(x, r, d, n) => CashGiven(c, r, d, n)
  BY <1>1, <1>2 DEF StatusOnly, CashGiven
<1>6. Given(x, r, d, n) => Given(c, r, d, n)
  BY <1>3, <1>4, <1>5 DEF Given
<1>7. Ended(x, r, d) => Ended(c, r, d)
  BY <1>1, <1>2 DEF StatusOnly, Ended
<1> QED  BY <1>6, <1>7 DEF StatusOnly, Entitled

\* What one revision gives, if anybody is entitled under it.
OneGiven(b, r, d, n) ==
    IF Entitled(b, r) THEN GivenTo(b, r, d, n)
    ELSE b.entitlements[r] = NoEntitlement /\ b.account.receivable = 0

LEMMA CompletedFields ==
    ASSUME NEW r \in Revisions, NEW x, IsBooks(x, r)
    PROVE  LET c == Completed(x, r) IN
           /\ StatusOnly(x, c, r)
           /\ c.actions[r] = IF Finished(x, r) THEN "COMPLETED" ELSE x.actions[r]
<1>1. CASE Finished(x, r)
  <2>1. PICK c : c = [x EXCEPT !.actions[r] = "COMPLETED"]
    OBVIOUS
  <2>2. Completed(x, r) = c
    BY <1>1, <2>1 DEF Completed
  <2>3. /\ c.account = x.account /\ c.position = x.position /\ c.ledger = x.ledger
        /\ c.entitlements = x.entitlements
        /\ c.actions = [x.actions EXCEPT ![r] = "COMPLETED"]
    BY <2>1 DEF IsBooks
  <2>4. c.actions[r] = "COMPLETED"
    BY <2>3 DEF IsBooks
  <2> QED  BY <1>1, <2>2, <2>3, <2>4 DEF StatusOnly
<1>2. CASE ~Finished(x, r)
  <2>1. Completed(x, r) = x
    BY <1>2 DEF Completed
  <2> QED  BY <1>2, <2>1 DEF StatusOnly
<1> QED  BY <1>1, <1>2

\* Every operation ends with a look whether all has been given.
LEMMA CompletedGives ==
    ASSUME product \in Products, OnSchedule, NEW r \in Revisions, NEW x, IsBooks(x, r),
           NEW n \in Nat, n >= 2, OneGiven(x, r, day, n)
    PROVE  OneGiven(Completed(x, r), r, day, n)
<1>2. PICK c : c = Completed(x, r)
  OBVIOUS
<1>3. /\ StatusOnly(x, c, r)
      /\ c.actions[r] = IF Finished(x, r) THEN "COMPLETED" ELSE x.actions[r]
  BY <1>2, CompletedFields
<1>4. CASE ~Entitled(x, r)
  <2>1. ~Entitled(c, r)
    BY <1>3, <1>4, GivenAgain
  <2>2. c.entitlements[r] = NoEntitlement /\ c.account.receivable = 0
    BY <1>3, <1>4 DEF StatusOnly, OneGiven
  <2> QED  BY <1>2, <2>1, <2>2 DEF OneGiven
<1>5. CASE Entitled(x, r)
  <2>1. Given(x, r, day, n) /\ (x.actions[r] = "COMPLETED" => Ended(x, r, day))
    BY <1>5 DEF OneGiven, GivenTo
  <2>2. Finished(x, r) => Ended(x, r, day)
    BY <1>5, <2>1, FinishedEnds
  <2>3. c.actions[r] = "COMPLETED" => Ended(x, r, day)
    BY <1>3, <2>1, <2>2
  <2>4. Given(c, r, day, n) /\ (c.actions[r] = "COMPLETED" => Ended(c, r, day))
    BY <1>3, <2>1, <2>3, GivenAgain
  <2>5. Entitled(c, r)
    BY <1>3, <1>5, GivenAgain
  <2> QED  BY <1>2, <2>4, <2>5 DEF OneGiven, GivenTo
<1> QED  BY <1>4, <1>5

\* After the last look nothing is left that could be completed.
LEMMA CompletedFinishes ==
    ASSUME NEW r \in Revisions, NEW x \in BooksType
    PROVE  Completed(x, r).actions[r] \in ProcessableStatuses => ~Finished(Completed(x, r), r)
<1>1. IsBooks(x, r)
  BY DEF IsBooks, BooksType
<1>2. PICK c : c = Completed(x, r)
  OBVIOUS
<1>3. c.actions[r] = IF Finished(x, r) THEN "COMPLETED" ELSE x.actions[r]
  BY <1>1, <1>2, CompletedFields
<1>4. "COMPLETED" \notin ProcessableStatuses
  BY DEF ProcessableStatuses
<1>5. ~Finished(x, r) => c = x
  BY <1>2 DEF Completed
<1> QED  BY <1>2, <1>3, <1>4, <1>5

\* One more fact of the revision.
LEMMA PostedMore ==
    ASSUME NEW b, NEW x, NEW r, NEW l, x.ledger = b.ledger \cup {l}, l.revision = r, l.token = ""
    PROVE  \A entry : Posted(x, r, entry, "") <=> Posted(b, r, entry, "") \/ entry = l.entry
BY DEF Posted

LEMMA ClaimEntries ==
    ASSUME product \in Products
    PROVE  /\ ClaimEntry \notin {"CASH_PAID", "SHARES_LISTED", "CASH_IN_LIEU"}
           /\ ClaimStep \in {2, 3}
<1>1. product.kind \in Kinds
  BY KindsAreKnown
<1> QED  BY <1>1 DEF ClaimEntry, ClaimStep, Kinds, IncomeKinds, SplitKinds

LEMMA PaidGives ==
    ASSUME product \in Products, OnSchedule, NEW r \in Revisions, NEW b \in GoodFor(r),
           OneGiven(b, r, day, 3), Dates.payment = day
    PROVE  OneGiven(Paid(b, r), r, day, 4)
<1>b. b \in BooksType /\ IsBooks(b, r) /\ b.account \in Account
  BY DEF GoodFor, GoodBooks, BooksType, IsBooks
<1>c. ClaimStep \in {2, 3} /\ ClaimEntry \notin {"CASH_PAID", "SHARES_LISTED"}
  BY ClaimEntries
<1>1. CASE \/ product.kind \in {"STOCK_DIVIDEND", "RIGHTS_ISSUE"}
           \/ ~Entitled(b, r)
           \/ CashIsPaid(b, r)
  <2>1. Paid(b, r) = Completed(b, r)
    BY <1>1 DEF Paid
  <2>2. OneGiven(b, r, day, 4)
    <3>1. CASE ~Entitled(b, r)
      BY <3>1 DEF OneGiven
    <3>2. CASE Entitled(b, r)
      <4>1. Given(b, r, day, 3) /\ (b.actions[r] = "COMPLETED" => Ended(b, r, day))
        BY <3>2 DEF OneGiven, GivenTo
      <4>2. /\ Passed(Dates.ex, day, ClaimStep, 4) => Passed(Dates.ex, day, ClaimStep, 3)
            /\ Passed(Dates.listing, day, 5, 4) => Passed(Dates.listing, day, 5, 3)
        BY <1>c DEF Passed
      <4>3. CASE product.kind = "STOCK_DIVIDEND"
        <5>1. DividendGiven(b, r, day, 4)
          BY <4>1, <4>2, <4>3 DEF Given, DividendGiven
        <5> QED  BY <3>2, <4>1, <4>3, <5>1 DEF Given, OneGiven, GivenTo
      <4>4. CASE product.kind = "RIGHTS_ISSUE"
        <5>1. RightsGiven(b, r, day, 4)
          BY <4>1, <4>2, <4>4 DEF Given, RightsGiven
        <5> QED  BY <3>2, <4>1, <4>4, <5>1 DEF Given, OneGiven, GivenTo
      <4>5. CASE product.kind \notin {"STOCK_DIVIDEND", "RIGHTS_ISSUE"}
        <5>1. CashGiven(b, r, day, 3) /\ CashIsPaid(b, r)
          BY <1>1, <3>2, <4>1, <4>5 DEF Given
        <5>2. NoMoreOwed(b, r) /\ Claimed(b, r)
          BY <5>1 DEF NoMoreOwed, CashGiven
        <5>3. CashGiven(b, r, day, 4)
          BY <4>2, <5>1, <5>2 DEF CashGiven
        <5> QED  BY <3>2, <4>1, <4>5, <5>3 DEF Given, OneGiven, GivenTo
      <4> QED  BY <4>3, <4>4, <4>5
    <3> QED  BY <3>1, <3>2
  <2> QED  BY <1>b, <2>1, <2>2, CompletedGives
<1>2. CASE ~(\/ product.kind \in {"STOCK_DIVIDEND", "RIGHTS_ISSUE"}
             \/ ~Entitled(b, r)
             \/ CashIsPaid(b, r))
  <2>e. PICK e \in Entitlement : e = b.entitlements[r]
    BY <1>b DEF BooksType
  <2>1. PICK amount \in Int : amount = AmountOf(e)
    BY DEF AmountOf, Entitlement
  <2>2. PICK l : l = LedgerFact(r, "CASH_PAID", "", amount, -amount, 0)
    OBVIOUS
  <2>3. PICK x : x = [b EXCEPT !.account.receivable = @ - amount,
                        !.account.cash = @ + amount, !.account.available = @ + amount,
                        !.ledger = @ \cup {l}]
    OBVIOUS
  <2>4. Paid(b, r) = Completed(x, r)
    BY <1>2, <2>e, <2>1, <2>2, <2>3 DEF Paid, AmountOf, Splits
  <2>5. /\ x.actions = b.actions /\ x.entitlements = b.entitlements
        /\ x.position = b.position /\ x.ledger = b.ledger \cup {l}
        /\ x.account.receivable = b.account.receivable - amount
    BY <1>b, <2>3 DEF BooksType, Account
  <2>6. IsBooks(x, r)
    <3>1. x = [account |-> x.account, position |-> x.position, actions |-> x.actions,
               entitlements |-> x.entitlements, ledger |-> x.ledger,
               adjustments |-> x.adjustments]
      BY <1>b, <2>3 DEF BooksType
    <3> QED  BY <1>b, <2>5, <3>1 DEF IsBooks
  <2>7. l.revision = r /\ l.entry = "CASH_PAID" /\ l.token = ""
    BY <2>2 DEF LedgerFact
  <2>8. CashIsPaid(x, r) /\ (Claimed(b, r) => Claimed(x, r))
    <3>1. \A entry : Posted(x, r, entry, "") <=> Posted(b, r, entry, "") \/ entry = l.entry
      <4>1. x.ledger = b.ledger \cup {l} /\ l.revision = r /\ l.token = ""
        BY <2>5, <2>7
      <4> QED  BY ONLY <4>1, PostedMore, Zenon
    <3> QED  BY <2>7, <3>1, Zenon DEF CashIsPaid, Claimed
  <2>9. Entitled(b, r) /\ ~CashIsPaid(b, r)
        /\ product.kind \notin {"STOCK_DIVIDEND", "RIGHTS_ISSUE"}
    BY <1>2
  <2>10. CashGiven(b, r, day, 3) /\ (b.actions[r] = "COMPLETED" => Ended(b, r, day))
    BY <2>9 DEF OneGiven, GivenTo, Given
  <2>11. Claimed(b, r)
    <3>1. product.kind \in IncomeKinds \cup SplitKinds \cup {"BOND_MATURITY_REDEMPTION"}
      BY <2>9, KindsAreKnown DEF Kinds
    <3>2. Dates.ex <= day /\ Dates.ex \in Int
      BY <3>1 DEF OnSchedule, InOrder, Dates
    <3>3. Passed(Dates.ex, day, ClaimStep, 3)
      BY <1>c, <3>2 DEF Passed, OnSchedule
    <3> QED  BY <2>10, <3>3 DEF CashGiven
  <2>12. WholeShares => b.account.receivable = amount
    BY <2>e, <2>1, <2>9, <2>10, <2>11 DEF CashGiven
  <2>13. NoMoreOwed(x, r) /\ Claimed(x, r)
    BY <2>8, <2>11 DEF NoMoreOwed
  <2>14. WholeShares => x.account.receivable = 0
    BY <2>5, <2>12
  <2>15. CashGiven(x, r, day, 4)
    BY <2>5, <2>8, <2>10, <2>13, <2>14 DEF CashGiven
  <2>16. x.actions[r] = "COMPLETED" => Ended(x, r, day)
    BY <2>5, <2>10, <2>13 DEF Ended
  <2>17. Entitled(x, r)
    BY <2>5, <2>9 DEF Entitled
  <2>18. OneGiven(x, r, day, 4)
    BY <2>9, <2>15, <2>16, <2>17 DEF OneGiven, GivenTo, Given
  <2> QED  BY <2>4, <2>6, <2>18, CompletedGives
<1> QED  BY <1>1, <1>2

LEMMA MaturedGives ==
    ASSUME product \in Products, product.kind = "BOND_MATURITY_REDEMPTION", OnSchedule,
           NEW r \in Revisions, NEW b \in GoodFor(r),
           OneGiven(b, r, day, 2), Dates.ex = day
    PROVE  OneGiven(Matured(b, r), r, day, 3)
<1>b. b \in BooksType /\ IsBooks(b, r) /\ b.account \in Account
  BY DEF GoodFor, GoodBooks, BooksType, IsBooks
<1>k. /\ product.kind \notin {"STOCK_DIVIDEND", "RIGHTS_ISSUE"}
      /\ product.kind \notin SplitKinds /\ ~Splits /\ WholeShares
      /\ ClaimEntry = "BOND_PRINCIPAL_RECEIVABLE" /\ ClaimStep = 3
  BY DEF SplitKinds, IncomeKinds, Splits, WholeShares, ClaimEntry, ClaimStep
<1>d. day <= Dates.payment /\ Dates.payment \in Int /\ day \in Int
  BY DEF OnSchedule, InOrder, Dates
<1>p. Passed(Dates.payment, day, 4, 3) => Passed(Dates.payment, day, 4, 2)
  BY DEF Passed
<1>1. CASE ~Entitled(b, r) \/ Posted(b, r, "BOND_PRINCIPAL_RECEIVABLE", "")
  <2>1. Matured(b, r) = Completed(b, r)
    BY <1>1 DEF Matured
  <2>2. CASE ~Entitled(b, r)
    <3>1. OneGiven(b, r, day, 3)
      BY <2>2 DEF OneGiven
    <3> QED  BY <1>b, <2>1, <3>1, CompletedGives
  <2>3. CASE Entitled(b, r)
    <3>1. CashGiven(b, r, day, 2) /\ (b.actions[r] = "COMPLETED" => Ended(b, r, day))
      BY <1>k, <2>3 DEF OneGiven, GivenTo, Given
    <3>2. Claimed(b, r)
      BY <1>1, <1>k, <2>3 DEF Claimed
    <3>3. CashGiven(b, r, day, 3)
      BY <1>p, <3>1, <3>2 DEF CashGiven
    <3>4. OneGiven(b, r, day, 3)
      BY <1>k, <2>3, <3>1, <3>3 DEF OneGiven, GivenTo, Given
    <3> QED  BY <1>b, <2>1, <3>4, CompletedGives
  <2> QED  BY <2>2, <2>3
<1>2. CASE ~(~Entitled(b, r) \/ Posted(b, r, "BOND_PRINCIPAL_RECEIVABLE", ""))
  <2>e. PICK e \in Entitlement : e = b.entitlements[r]
    BY <1>b DEF BooksType
  <2>1. PICK amount \in Int : amount = e.cash /\ amount = AmountOf(e)
    BY <1>k DEF AmountOf, Entitlement
  <2>2. PICK l : l = LedgerFact(r, "BOND_PRINCIPAL_RECEIVABLE", "", 0, amount, 0)
    OBVIOUS
  <2>3. PICK x : x = [b EXCEPT !.account.receivable = @ + amount,
                !.position = [EmptyPosition EXCEPT !.pending = b.position.pending],
                !.ledger = @ \cup {l},
                !.adjustments = Append(@, Adjustment(r, "BOND_MATURITY_RETIRED",
                     Minus([EmptyPosition EXCEPT !.pending = b.position.pending],
                           b.position)))]
    OBVIOUS
  <2>4. Matured(b, r) = Completed(x, r)
    BY <1>2, <2>e, <2>1, <2>2, <2>3 DEF Matured
  <2>5. /\ x.actions = b.actions /\ x.entitlements = b.entitlements
        /\ x.ledger = b.ledger \cup {l}
        /\ x.account.receivable = b.account.receivable + amount
    BY <1>b, <2>3 DEF BooksType, Account
  <2>6. IsBooks(x, r)
    <3>1. x = [account |-> x.account, position |-> x.position, actions |-> x.actions,
               entitlements |-> x.entitlements, ledger |-> x.ledger,
               adjustments |-> x.adjustments]
      BY <1>b, <2>3 DEF BooksType
    <3> QED  BY <1>b, <2>5, <3>1 DEF IsBooks
  <2>7. l.revision = r /\ l.entry = "BOND_PRINCIPAL_RECEIVABLE" /\ l.token = ""
    BY <2>2 DEF LedgerFact
  <2>8. Claimed(x, r) /\ (CashIsPaid(x, r) => CashIsPaid(b, r))
    <3>1. \A entry : Posted(x, r, entry, "") <=> Posted(b, r, entry, "") \/ entry = l.entry
      <4>1. x.ledger = b.ledger \cup {l} /\ l.revision = r /\ l.token = ""
        BY <2>5, <2>7
      <4> QED  BY ONLY <4>1, PostedMore, Zenon
    <3>2. "CASH_PAID" # l.entry
      BY <2>7
    <3> QED  BY <1>k, <2>7, <3>1, <3>2, Zenon DEF CashIsPaid, Claimed
  <2>9. Entitled(b, r) /\ ~Claimed(b, r)
    BY <1>2, <1>k DEF Claimed
  <2>10. CashGiven(b, r, day, 2) /\ (b.actions[r] = "COMPLETED" => Ended(b, r, day))
    BY <1>k, <2>9 DEF OneGiven, GivenTo, Given
  <2>11. b.account.receivable = 0 /\ ~CashIsPaid(b, r)
    BY <1>k, <2>9, <2>10 DEF CashGiven
  <2>12. x.account.receivable = amount /\ ~CashIsPaid(x, r)
    BY <2>5, <2>8, <2>11
  <2>13. ~Passed(Dates.payment, day, 4, 3)
    BY <1>d DEF Passed
  <2>14. CashGiven(x, r, day, 3)
    BY <1>k, <2>e, <2>1, <2>5, <2>8, <2>10, <2>12, <2>13 DEF CashGiven
  <2>15. b.actions[r] # "COMPLETED"
    BY <1>k, <2>9, <2>10 DEF Ended
  <2>16. Entitled(x, r)
    BY <2>5, <2>9 DEF Entitled
  <2>17. OneGiven(x, r, day, 3)
    BY <1>k, <2>5, <2>14, <2>15, <2>16 DEF OneGiven, GivenTo, Given
  <2> QED  BY <2>4, <2>6, <2>17, CompletedGives
<1> QED  BY <1>1, <1>2

LEMMA ListedGives ==
    ASSUME product \in Products, OnSchedule, NEW r \in Revisions, NEW b \in GoodFor(r),
           PartOf(b.position, b.entitlements[r]), OneGiven(b, r, day, 4), Dates.listing = day
    PROVE  OneGiven(Listed(b, r), r, day, 5)
<1>b. b \in BooksType /\ IsBooks(b, r)
  BY DEF GoodFor, GoodBooks, BooksType, IsBooks
<1>c. ClaimStep \in {2, 3} /\ ClaimEntry \notin {"CASH_PAID", "SHARES_LISTED"}
  BY ClaimEntries
<1>e. PICK e \in Entitlement : e = b.entitlements[r]
  BY <1>b DEF BooksType
<1>i. /\ e.pending \in Int /\ e.credited \in Int /\ e.shares \in Int /\ e.subscribed \in Int
      /\ e.pending >= 0
  BY <1>e DEF Entitlement, PartOf
<1>p. /\ Passed(Dates.ex, day, ClaimStep, 5) => Passed(Dates.ex, day, ClaimStep, 4)
      /\ Passed(Dates.payment, day, 4, 5) => Passed(Dates.payment, day, 4, 4)
  BY <1>c DEF Passed
<1>1. CASE e.pending <= 0 \/ Shipped(b, r)
  <2>1. Listed(b, r) = Completed(b, r)
    BY <1>1, <1>e DEF Listed, Shipped
  <2>2. OneGiven(b, r, day, 5)
    <3>1. CASE ~Entitled(b, r)
      BY <3>1 DEF OneGiven
    <3>2. CASE Entitled(b, r)
      <4>1. Given(b, r, day, 4) /\ (b.actions[r] = "COMPLETED" => Ended(b, r, day))
        BY <3>2 DEF OneGiven, GivenTo
      <4>2. Given(b, r, day, 5)
        <5>1. CASE product.kind = "STOCK_DIVIDEND"
          <6>1. DividendGiven(b, r, day, 4)
            BY <4>1, <5>1 DEF Given
          <6>2. e.pending = 0
            BY <1>1, <1>e, <1>i, <6>1 DEF DividendGiven
          <6>3. DividendGiven(b, r, day, 5)
            BY <1>e, <1>p, <6>1, <6>2 DEF DividendGiven
          <6> QED  BY <5>1, <6>3 DEF Given
        <5>2. CASE product.kind = "RIGHTS_ISSUE"
          <6>1. RightsGiven(b, r, day, 4)
            BY <4>1, <5>2 DEF Given
          <6>2. e.pending = 0
            BY <1>1, <1>e, <1>i, <6>1 DEF RightsGiven
          <6>3. RightsGiven(b, r, day, 5)
            BY <1>e, <6>1, <6>2 DEF RightsGiven
          <6> QED  BY <5>2, <6>3 DEF Given
        <5>3. CASE product.kind \notin {"STOCK_DIVIDEND", "RIGHTS_ISSUE"}
          <6>1. CashGiven(b, r, day, 4)
            BY <4>1, <5>3 DEF Given
          <6>2. CashGiven(b, r, day, 5)
            BY <1>p, <6>1 DEF CashGiven
          <6> QED  BY <5>3, <6>2 DEF Given
        <5> QED  BY <5>1, <5>2, <5>3
      <4> QED  BY <3>2, <4>1, <4>2 DEF OneGiven, GivenTo
    <3> QED  BY <3>1, <3>2
  <2> QED  BY <1>b, <2>1, <2>2, CompletedGives
<1>2. CASE ~(e.pending <= 0 \/ Shipped(b, r))
  <2>0. e.pending > 0 /\ ~Shipped(b, r)
    <3>1. ~(e.pending <= 0) /\ ~Shipped(b, r)
      BY <1>2, Zenon
    <3> QED  BY <1>i, <3>1
  <2>1. Entitled(b, r)
    BY <1>e, <2>0 DEF OneGiven, NoEntitlement
  <2>2. Given(b, r, day, 4) /\ (b.actions[r] = "COMPLETED" => Ended(b, r, day))
    BY <2>1 DEF OneGiven, GivenTo
  <2>3. product.kind \in {"STOCK_DIVIDEND", "RIGHTS_ISSUE"}
    BY <1>e, <2>0, <2>2 DEF Given, CashGiven
  <2>4. b.actions[r] # "COMPLETED"
    BY <1>e, <2>0, <2>2 DEF Ended
  <2>5. PICK more \in Int : more = e.credited + e.pending
    BY <1>i
  <2>6. PICK l : l = LedgerFact(r, "SHARES_LISTED", "", 0, 0, 0)
    OBVIOUS
  <2>s. PICK shares : shares = [EmptyPosition EXCEPT !.total = e.pending, !.yesterday = e.pending,
                     !.pending = -e.pending, !.cost = e.subscriptionCash]
    OBVIOUS
  <2>7. PICK x : x = [b EXCEPT !.position = Plus(@, shares),
                    !.entitlements[r].credited = @ + e.pending,
                    !.entitlements[r].pending = 0,
                    !.ledger = @ \cup {l},
                    !.adjustments = Append(@, Adjustment(r, "SHARES_LISTED", shares))]
    OBVIOUS
  <2>8. Listed(b, r) = Completed(x, r)
    BY <1>2, <1>e, <2>6, <2>s, <2>7 DEF Listed, Shipped
  <2>f. PICK f : f = [e EXCEPT !.credited = more, !.pending = 0]
    OBVIOUS
  <2>9. /\ x.actions = b.actions /\ x.account = b.account
        /\ x.ledger = b.ledger \cup {l} /\ x.entitlements[r] = f
    BY <1>b, <1>e, <2>5, <2>7, <2>f DEF BooksType, Entitlement
  <2>10. /\ f \in Entitlement /\ f.pending = 0 /\ f.credited = more /\ f.shares = e.shares
         /\ f.subscribed = e.subscribed /\ f.quantity = e.quantity
    <3>1. PICK none \in Int : none = 0
      OBVIOUS
    <3>2. f = [e EXCEPT !.credited = more, !.pending = none]
      BY <2>f, <3>1
    <3>3. f = [quantity |-> e.quantity, cash |-> e.cash, shares |-> e.shares, lieu |-> e.lieu,
               subscribed |-> e.subscribed, pending |-> none, credited |-> more,
               subscriptionCash |-> e.subscriptionCash]
      BY <3>2 DEF Entitlement
    <3>4. f \in Entitlement
      BY <3>3 DEF Entitlement
    <3> QED  BY <3>1, <3>3, <3>4
  <2>11. IsBooks(x, r)
    <3>1. x = [account |-> x.account, position |-> x.position, actions |-> x.actions,
               entitlements |-> x.entitlements, ledger |-> x.ledger,
               adjustments |-> x.adjustments]
      BY <1>b, <2>7 DEF BooksType
    <3> QED  BY <1>b, <2>9, <2>10, <3>1 DEF IsBooks
  <2>12. l.revision = r /\ l.entry = "SHARES_LISTED" /\ l.token = ""
    BY <2>6 DEF LedgerFact
  <2>13. Claimed(x, r) <=> Claimed(b, r)
    <3>1. \A entry : Posted(x, r, entry, "") <=> Posted(b, r, entry, "") \/ entry = l.entry
      <4>1. x.ledger = b.ledger \cup {l} /\ l.revision = r /\ l.token = ""
        BY <2>9, <2>12
      <4> QED  BY ONLY <4>1, PostedMore, Zenon
    <3>2. ClaimEntry # l.entry
      BY <1>c, <2>12
    <3> QED  BY <3>1, <3>2, Zenon DEF Claimed
  <2>14. Entitled(x, r)
    BY <1>e, <2>1, <2>9, <2>10 DEF Entitled
  <2>15. CASE product.kind = "STOCK_DIVIDEND"
    <3>1. DividendGiven(b, r, day, 4)
      BY <2>2, <2>15 DEF Given
    <3>2. Dates.ex <= day /\ Dates.ex \in Int
      BY <2>15 DEF OnSchedule, InOrder, Dates
    <3>3. Passed(Dates.ex, day, ClaimStep, 4)
      BY <1>c, <3>2 DEF Passed, OnSchedule
    <3>4. Claimed(b, r) /\ Claimed(x, r)
      BY <2>13, <3>1, <3>3 DEF DividendGiven
    <3>5. more = e.shares
      BY <1>e, <2>5, <3>1, <3>4 DEF DividendGiven
    <3>6. f.credited + f.pending = f.shares
      BY <1>i, <2>5, <2>10, <3>5
    <3>7. DividendGiven(x, r, day, 5)
      BY <2>9, <2>10, <3>1, <3>4, <3>6 DEF DividendGiven
    <3> QED  BY <2>4, <2>8, <2>9, <2>11, <2>14, <2>15, <3>7, CompletedGives
             DEF OneGiven, GivenTo, Given
  <2>16. CASE product.kind = "RIGHTS_ISSUE"
    <3>1. RightsGiven(b, r, day, 4)
      BY <2>2, <2>16 DEF Given
    <3>2. e.credited + e.pending = e.subscribed /\ e.subscribed <= e.shares /\ e.credited >= 0
      BY <1>e, <3>1 DEF RightsGiven
    <3>3. f.credited + f.pending = f.subscribed /\ f.subscribed <= f.shares /\ f.credited >= 0
      BY <1>i, <2>0, <2>5, <2>10, <3>2
    <3>4. Dates.listing <= day
      BY DEF OnSchedule
    <3>5. RightsGiven(x, r, day, 5)
      BY <2>9, <2>10, <3>1, <3>3, <3>4 DEF RightsGiven
    <3> QED  BY <2>4, <2>8, <2>9, <2>11, <2>14, <2>16, <3>5, CompletedGives
             DEF OneGiven, GivenTo, Given
  <2> QED  BY <2>3, <2>15, <2>16
<1> QED  BY <1>1, <1>2

LEMMA IncomeGives ==
    ASSUME product \in Products, product.kind \in IncomeKinds, OnSchedule, Dates.ex = day,
           NEW r \in Revisions, NEW b \in GoodFor(r), Entitled(b, r), ~Claimed(b, r),
           CashGiven(b, r, day, 1)
    PROVE  Entitled(ExApplied(b, r), r) /\ CashGiven(ExApplied(b, r), r, day, 2)
<1>b. b \in BooksType /\ b.account \in Account
  BY DEF GoodFor, GoodBooks, BooksType
<1>k. /\ ~Splits /\ WholeShares /\ product.kind \notin SplitKinds \cup {"STOCK_DIVIDEND"}
      /\ ClaimEntry = "RECEIVABLE_CREATED"
  BY DEF SplitKinds, IncomeKinds, Splits, WholeShares, ClaimEntry
<1>e. PICK e \in Entitlement : e = b.entitlements[r]
  BY <1>b DEF BooksType
<1>1. PICK amount \in Int : amount = e.cash /\ amount = AmountOf(e)
  BY <1>k DEF AmountOf, Entitlement
<1>2. PICK l : l = LedgerFact(r, "RECEIVABLE_CREATED", "", 0, amount, amount)
  OBVIOUS
<1>3. PICK x : x = [b EXCEPT !.account.receivable = @ + amount, !.ledger = @ \cup {l}]
  OBVIOUS
<1>4. ExApplied(b, r) = x
  <2>1. x = [b EXCEPT !.account.receivable = @ + b.entitlements[r].cash, !.ledger = @ \cup
               {LedgerFact(r, "RECEIVABLE_CREATED", "", 0, b.entitlements[r].cash,
                           b.entitlements[r].cash)}]
    BY <1>e, <1>1, <1>2, <1>3
  <2>2. ~Posted(b, r, "RECEIVABLE_CREATED", "")
    BY <1>k DEF Claimed
  <2> QED  BY <1>k, <2>1, <2>2 DEF ExApplied
<1>5. /\ x.entitlements = b.entitlements /\ x.ledger = b.ledger \cup {l}
      /\ x.account.receivable = b.account.receivable + amount
  BY <1>b, <1>3 DEF BooksType, Account
<1>6. l.revision = r /\ l.entry = "RECEIVABLE_CREATED" /\ l.token = ""
  BY <1>2 DEF LedgerFact
<1>7. Claimed(x, r) /\ (CashIsPaid(x, r) => CashIsPaid(b, r))
  <2>1. \A entry : Posted(x, r, entry, "") <=> Posted(b, r, entry, "") \/ entry = l.entry
    <3>1. x.ledger = b.ledger \cup {l} /\ l.revision = r /\ l.token = ""
      BY <1>5, <1>6
    <3> QED  BY ONLY <3>1, PostedMore, Zenon
  <2>2. "CASH_PAID" # l.entry
    BY <1>6
  <2> QED  BY <1>k, <1>6, <2>1, <2>2, Zenon DEF CashIsPaid, Claimed
<1>8. b.account.receivable = 0 /\ ~CashIsPaid(b, r)
  BY <1>k DEF CashGiven
<1>9. x.account.receivable = amount /\ ~CashIsPaid(x, r)
  BY <1>5, <1>7, <1>8
<1>10. ~Passed(Dates.payment, day, 4, 2)
  BY DEF OnSchedule, InOrder, Dates, Passed
<1>11. CashGiven(x, r, day, 2)
  BY <1>k, <1>e, <1>1, <1>5, <1>7, <1>9, <1>10 DEF CashGiven
<1>12. Entitled(x, r)
  BY <1>5 DEF Entitled
<1> QED  BY <1>4, <1>11, <1>12

LEMMA DividendGives ==
    ASSUME product \in Products, product.kind = "STOCK_DIVIDEND", OnSchedule, Dates.ex = day,
           NEW r \in Revisions, NEW b \in GoodFor(r), Entitled(b, r), ~Claimed(b, r),
           DividendGiven(b, r, day, 1)
    PROVE  Entitled(ExApplied(b, r), r) /\ DividendGiven(ExApplied(b, r), r, day, 2)
<1>b. b \in BooksType
  BY DEF GoodFor, GoodBooks, BooksType
<1>k. ClaimEntry = "SHARES_PENDING" /\ product.kind \notin IncomeKinds \cup SplitKinds
  BY DEF SplitKinds, IncomeKinds, ClaimEntry
<1>e. PICK e \in Entitlement : e = b.entitlements[r]
  BY <1>b DEF BooksType
<1>1. PICK pending \in Int : pending = e.pending + e.shares
  BY DEF Entitlement
<1>2. PICK l : l = LedgerFact(r, "SHARES_PENDING", "", 0, 0, 0)
  OBVIOUS
<1>3. PICK x : x = [b EXCEPT !.position.pending = @ + e.shares,
                  !.entitlements[r].pending = @ + e.shares,
                  !.ledger = @ \cup {l},
                  !.adjustments = Append(@, Adjustment(r, "SHARES_PENDING",
                       [EmptyPosition EXCEPT !.pending = e.shares]))]
  OBVIOUS
<1>4. ExApplied(b, r) = x
  BY <1>e, <1>k, <1>2, <1>3 DEF ExApplied, Claimed
<1>f. PICK f : f = [e EXCEPT !.pending = pending]
  OBVIOUS
<1>5. /\ x.account = b.account /\ x.ledger = b.ledger \cup {l} /\ x.entitlements[r] = f
  BY <1>b, <1>e, <1>1, <1>3, <1>f DEF BooksType
<1>6. /\ f.pending = pending /\ f.credited = e.credited /\ f.shares = e.shares
      /\ f.quantity = e.quantity
  BY <1>f DEF Entitlement
<1>7. l.revision = r /\ l.entry = "SHARES_PENDING" /\ l.token = ""
  BY <1>2 DEF LedgerFact
<1>8. Claimed(x, r) /\ (Shipped(x, r) => Shipped(b, r))
  <2>1. \A entry : Posted(x, r, entry, "") <=> Posted(b, r, entry, "") \/ entry = l.entry
    <3>1. x.ledger = b.ledger \cup {l} /\ l.revision = r /\ l.token = ""
      BY <1>5, <1>7
    <3> QED  BY ONLY <3>1, PostedMore, Zenon
  <2>2. "SHARES_LISTED" # l.entry
    BY <1>7
  <2> QED  BY <1>k, <1>7, <2>1, <2>2, Zenon DEF Shipped, Claimed
<1>9. e.credited + e.pending = 0 /\ b.account.receivable = 0 /\ ~Shipped(b, r)
  BY <1>e DEF DividendGiven
<1>10. f.credited + f.pending = f.shares
  <2>1. e.credited \in Int /\ e.pending \in Int /\ e.shares \in Int
    BY DEF Entitlement
  <2> QED  BY <1>1, <1>6, <1>9, <2>1
<1>11. ~Passed(Dates.listing, day, 5, 2)
  BY DEF OnSchedule, InOrder, Dates, Passed
<1>12. DividendGiven(x, r, day, 2)
  BY <1>5, <1>8, <1>9, <1>10, <1>11 DEF DividendGiven
<1>13. Entitled(x, r)
  BY <1>e, <1>5, <1>6 DEF Entitled
<1> QED  BY <1>4, <1>12, <1>13

LEMMA SplitGives ==
    ASSUME product \in Products, product.kind \in SplitKinds, OnSchedule, Dates.ex = day,
           NEW r \in Revisions, NEW b \in GoodFor(r), Entitled(b, r), ~Claimed(b, r),
           CashGiven(b, r, day, 1)
    PROVE  Entitled(ExApplied(b, r), r) /\ CashGiven(ExApplied(b, r), r, day, 2)
<1>b. /\ b \in BooksType /\ b.account \in Account /\ b.position \in Position
      /\ SharesAddUp(b.position) /\ b.position.frozen = 0
  BY DEF GoodFor, GoodBooks, BooksType
<1>k. /\ Splits /\ product.kind \notin IncomeKinds \cup {"STOCK_DIVIDEND"}
      /\ ClaimEntry = product.kind /\ product.kind \notin {"CASH_PAID", "CASH_IN_LIEU"}
  BY DEF SplitKinds, IncomeKinds, Splits, ClaimEntry
<1>e. PICK e \in Entitlement, p \in Position : e = b.entitlements[r] /\ p = b.position
  BY <1>b DEF BooksType
<1>s. PICK split : split = SplitPosition(p)
  OBVIOUS
<1>1. PICK lost \in Int : /\ lost = p.total * T.ratio - split.total * T.base /\ lost >= 0
                          /\ lost = 0 => (p.total * T.ratio) % T.base = 0
  BY <1>b, <1>e, <1>s, SplitLoses
<1>2. PICK lieu \in Int : /\ lieu = RoundedQuotient(lost * T.lieu, T.base) /\ lieu >= 0
                          /\ lost = 0 => lieu = 0
  <2>1. PICK base \in Nat \ {0}, price \in Nat : base = T.base /\ price = T.lieu
    BY TermsType
  <2>2. PICK n \in Int : n = lost * price /\ n >= 0 /\ (lost = 0 => n = 0)
    BY <1>1
  <2>3. /\ RoundedQuotient(n, base) \in Int /\ RoundedQuotient(n, base) >= 0
        /\ n = 0 => RoundedQuotient(n, base) = 0
    BY <2>2, QuotientOfPositive
  <2> QED  BY <2>1, <2>2, <2>3
<1>3. PICK left \in Int : left = IF lost # 0 THEN lieu ELSE e.lieu
  BY DEF Entitlement
<1>4. left >= 0 /\ e.lieu = LieuOf(e.quantity)
  BY <1>k, <1>e, <1>2, <1>3 DEF CashGiven
<1>5. WholeShares => left = lieu
  <2>1. ASSUME WholeShares, lost = 0 PROVE e.lieu = 0
    <3>1. e.quantity \in Int
      BY DEF Entitlement
    <3>2. CASE T.ratio % T.base = 0
      <4>1. (e.quantity * T.ratio) % T.base = 0
        BY <3>1, <3>2, WholeRatio
      <4> QED  BY <1>4, <3>1, <4>1, NoFraction
    <3>3. CASE Dates.record = Dates.ex
      <4>1. e.quantity = p.total
        BY <1>k, <1>e, <3>3 DEF CashGiven
      <4>2. (e.quantity * T.ratio) % T.base = 0
        BY <1>1, <2>1, <4>1
      <4> QED  BY <1>4, <3>1, <4>2, NoFraction
    <3> QED  BY <1>k, <2>1, <3>2, <3>3 DEF WholeShares
  <2> QED  BY <1>2, <1>3, <2>1
<1>6. PICK l, m : /\ l = LedgerFact(r, product.kind, "", 0, 0, 0)
                  /\ m = LedgerFact(r, "CASH_IN_LIEU", "", 0, lieu, 0)
  OBVIOUS
<1>7. PICK facts : facts = {l} \cup (IF lost = 0 THEN {} ELSE {m})
  OBVIOUS
<1>8. PICK x : x = [b EXCEPT !.position = split,
                  !.entitlements[r].lieu = left,
                  !.account.receivable = @ + lieu,
                  !.ledger = @ \cup facts,
                  !.adjustments = Append(@, Adjustment(r, product.kind, Minus(split, p)))]
  OBVIOUS
<1>9. ExApplied(b, r) = x
  <2>1. left = IF lost # 0 THEN lieu ELSE b.entitlements[r].lieu
    BY <1>e, <1>3
  <2>2. b.ledger \cup facts
        = b.ledger \cup {l} \cup (IF lost = 0 THEN {} ELSE {m})
    BY <1>7
  <2>3. x = [b EXCEPT !.position = split,
               !.entitlements[r].lieu = IF lost # 0 THEN lieu ELSE @,
               !.account.receivable = @ + lieu,
               !.ledger = @ \cup {l} \cup (IF lost = 0 THEN {} ELSE {m}),
               !.adjustments = Append(@, Adjustment(r, product.kind, Minus(split, p)))]
    BY <1>b, <1>8, <2>1, <2>2 DEF BooksType
  <2>4. ~Posted(b, r, product.kind, "")
    BY <1>k DEF Claimed
  <2> QED  BY <1>k, <1>e, <1>s, <1>1, <1>2, <1>6, <2>3, <2>4 DEF ExApplied
<1>f. PICK f : f = [e EXCEPT !.lieu = left]
  OBVIOUS
<1>10. /\ x.ledger = b.ledger \cup facts /\ x.entitlements[r] = f
       /\ x.account.receivable = b.account.receivable + lieu
  BY <1>b, <1>e, <1>8, <1>f DEF BooksType, Account
<1>11. /\ f.lieu = left /\ f.credited = e.credited /\ f.pending = e.pending
       /\ f.cash = e.cash /\ f.quantity = e.quantity
  BY <1>f DEF Entitlement
<1>12. /\ l.revision = r /\ l.entry = product.kind /\ l.token = ""
       /\ m.entry = "CASH_IN_LIEU"
  BY <1>6 DEF LedgerFact
<1>13. Claimed(x, r)
  BY <1>k, <1>7, <1>10, <1>12 DEF Claimed, Posted
<1>14. CashIsPaid(x, r) => CashIsPaid(b, r)
  BY <1>k, <1>7, <1>10, <1>12 DEF CashIsPaid, Posted
<1>15. ~CashIsPaid(b, r)
  BY DEF CashGiven
<1>16. WholeShares => x.account.receivable = AmountOf(f)
  <2>1. WholeShares => b.account.receivable = 0
    BY DEF CashGiven
  <2>2. WholeShares => x.account.receivable = left
    BY <1>5, <1>10, <2>1
  <2> QED  BY <1>k, <1>11, <2>2 DEF AmountOf
<1>17. ~Passed(Dates.payment, day, 4, 2)
  BY <1>k DEF OnSchedule, InOrder, Dates, Passed
<1>18. CashGiven(x, r, day, 2)
  BY <1>e, <1>4, <1>10, <1>11, <1>13, <1>14, <1>15, <1>16, <1>17 DEF CashGiven
<1>19. Entitled(x, r)
  BY <1>e, <1>10, <1>11 DEF Entitled
<1> QED  BY <1>9, <1>18, <1>19

LEMMA ExAppliedGives ==
    ASSUME product \in Products, OnSchedule, Dates.ex = day,
           NEW r \in Revisions, NEW b \in GoodFor(r), Entitled(b, r), Given(b, r, day, 1)
    PROVE  Entitled(ExApplied(b, r), r) /\ Given(ExApplied(b, r), r, day, 2)
<1>p. /\ Passed(Dates.listing, day, 5, 2) => Passed(Dates.listing, day, 5, 1)
      /\ Passed(Dates.payment, day, 4, 2) => Passed(Dates.payment, day, 4, 1)
      /\ ~Passed(Dates.ex, day, 3, 2)
  BY DEF OnSchedule, InOrder, Dates, Passed
<1>1. CASE product.kind = "STOCK_DIVIDEND"
  <2>1. DividendGiven(b, r, day, 1)
    BY <1>1 DEF Given
  <2>2. CASE ~Claimed(b, r)
    BY <1>1, <2>1, <2>2, DividendGives DEF Given
  <2>3. CASE Claimed(b, r)
    <3>1. ClaimEntry = "SHARES_PENDING" /\ product.kind \notin IncomeKinds \cup SplitKinds
      BY <1>1 DEF SplitKinds, IncomeKinds, ClaimEntry
    <3>2. ExApplied(b, r) = b
      BY <1>1, <2>3, <3>1 DEF ExApplied, Claimed
    <3>3. DividendGiven(b, r, day, 2)
      BY <1>p, <2>1, <2>3 DEF DividendGiven
    <3> QED  BY <1>1, <3>2, <3>3 DEF Given
  <2> QED  BY <2>2, <2>3
<1>2. CASE product.kind = "RIGHTS_ISSUE"
  <2>1. RightsGiven(b, r, day, 1)
    BY <1>2 DEF Given
  <2>2. product.kind \notin IncomeKinds \cup SplitKinds \cup {"STOCK_DIVIDEND"}
    BY <1>2 DEF SplitKinds, IncomeKinds
  <2>3. ExApplied(b, r) = b
    BY <2>2 DEF ExApplied
  <2>4. RightsGiven(b, r, day, 2)
    BY <1>p, <2>1 DEF RightsGiven
  <2> QED  BY <1>2, <2>3, <2>4 DEF Given
<1>3. CASE product.kind = "BOND_MATURITY_REDEMPTION"
  <2>1. CashGiven(b, r, day, 1)
    BY <1>3 DEF Given
  <2>2. /\ product.kind \notin IncomeKinds \cup SplitKinds \cup {"STOCK_DIVIDEND"}
        /\ ClaimStep = 3 /\ ~Splits
    BY <1>3 DEF SplitKinds, IncomeKinds, ClaimStep, Splits
  <2>3. ExApplied(b, r) = b
    BY <2>2 DEF ExApplied
  <2>4. CashGiven(b, r, day, 2)
    BY <1>p, <2>1, <2>2 DEF CashGiven
  <2> QED  BY <1>3, <2>3, <2>4 DEF Given
<1>4. CASE product.kind \in IncomeKinds \cup SplitKinds
  <2>k. product.kind \notin {"STOCK_DIVIDEND", "RIGHTS_ISSUE", "BOND_MATURITY_REDEMPTION"}
    BY <1>4 DEF SplitKinds, IncomeKinds
  <2>1. CashGiven(b, r, day, 1)
    BY <2>k DEF Given
  <2>2. CASE ~Claimed(b, r)
    BY <1>4, <2>k, <2>1, <2>2, IncomeGives, SplitGives DEF Given
  <2>3. CASE Claimed(b, r)
    <3>1. /\ product.kind \in IncomeKinds => Posted(b, r, "RECEIVABLE_CREATED", "")
          /\ product.kind \in SplitKinds => Posted(b, r, product.kind, "")
      BY <2>3, <2>k DEF SplitKinds, IncomeKinds, ClaimEntry, Claimed
    <3>2. ExApplied(b, r) = b
      BY <2>k, <3>1 DEF ExApplied
    <3>3. CashGiven(b, r, day, 2)
      BY <1>p, <2>1, <2>3 DEF CashGiven
    <3> QED  BY <2>k, <3>2, <3>3 DEF Given
  <2> QED  BY <2>2, <2>3
<1> QED  BY <1>1, <1>2, <1>3, <1>4, KindsAreKnown DEF Kinds

LEMMA ExDateGives ==
    ASSUME product \in Products, OnSchedule, Dates.ex = day,
           NEW r \in Revisions, NEW b \in GoodFor(r), OneGiven(b, r, day, 1)
    PROVE  OneGiven(ExDate(b, r), r, day, 2)
<1>1. PICK a \in GoodFor(r) : a = IF Entitled(b, r) THEN ExApplied(b, r) ELSE b
  BY ExAppliedIsGood DEF OnSchedule
<1>a. a \in BooksType
  BY DEF GoodFor, GoodBooks
<1>s. PICK status : status = "PROCESSING"
  OBVIOUS
<1>2. PICK x : x = [a EXCEPT !.actions[r] = status]
  OBVIOUS
<1>3. ExDate(b, r) = Completed(x, r)
  BY <1>1, <1>s, <1>2 DEF ExDate
<1>4. /\ x.account = a.account /\ x.position = a.position /\ x.ledger = a.ledger
      /\ x.entitlements = a.entitlements /\ x.actions = [a.actions EXCEPT ![r] = status]
      /\ x = [account |-> x.account, position |-> x.position, actions |-> x.actions,
              entitlements |-> x.entitlements, ledger |-> x.ledger,
              adjustments |-> x.adjustments]
  BY <1>a, <1>2 DEF BooksType
<1>5. x.actions \in [Revisions -> ActionStatuses] /\ x.actions[r] = status
  <2>1. status \in ActionStatuses
    BY <1>s DEF ActionStatuses, LiveStatuses, ExecutedStatuses, ProcessableStatuses
  <2> QED  BY <1>a, <1>4, <2>1 DEF BooksType
<1>6. IsBooks(x, r)
  BY <1>a, <1>4, <1>5 DEF IsBooks, BooksType
<1>7. StatusOnly(a, x, r)
  BY <1>4 DEF StatusOnly
<1>8. OneGiven(x, r, day, 2)
  <2>1. CASE ~Entitled(b, r)
    <3>1. ~Entitled(x, r) /\ x.entitlements[r] = NoEntitlement /\ x.account.receivable = 0
      BY <1>1, <1>4, <2>1 DEF OneGiven, Entitled
    <3> QED  BY <3>1 DEF OneGiven
  <2>2. CASE Entitled(b, r)
    <3>1. Entitled(a, r) /\ Given(a, r, day, 2)
      BY <1>1, <2>2, ExAppliedGives DEF OneGiven, GivenTo
    <3>2. Entitled(x, r) /\ Given(x, r, day, 2)
      BY <1>7, <3>1, GivenAgain
    <3> QED  BY <1>s, <1>5, <3>2 DEF OneGiven, GivenTo
  <2> QED  BY <2>1, <2>2
<1>9. OneGiven(Completed(x, r), r, day, 2)
  BY <1>6, <1>8, CompletedGives
<1> QED  BY <1>3, <1>9

\* A captured revision has no facts yet.
LEMMA CapturedGives ==
    ASSUME product \in Products, OnSchedule, Dates.record = day,
           NEW r \in Revisions, NEW b \in SettledBooks, b.actions[r] = "CONFIRMED",
           OneGiven(b, r, day, 0)
    PROVE  OneGiven(Captured(b, r), r, day, 1)
<1>b. b \in BooksType /\ SharesAddUp(b.position) /\ b.position \in Position /\ OneIsLive(b)
  BY DEF SettledBooks, GoodBooks, BooksType
<1>u. "CONFIRMED" \notin ExecutedStatuses
  BY DEF ExecutedStatuses, ProcessableStatuses
<1>n. ~Entitled(b, r) /\ b.entitlements[r] = NoEntitlement /\ b.account.receivable = 0
  BY <1>b, <1>u DEF OneIsLive, OneGiven
<1>f. \A entry : ~Posted(b, r, entry, "")
  BY <1>u DEF SettledBooks, Recorded, Posted
<1>1. PICK held \in Int : held = b.position.total /\ held >= 0
  <2>1. b.position.today \in Int /\ b.position.yesterday \in Int
    BY <1>b DEF Position
  <2> QED  BY <1>b, <2>1 DEF SharesAddUp
<1>2. PICK cash \in Int : cash = RoundedQuotient(held * T.cash, T.base) /\ cash >= 0
  <2>1. PICK base \in Nat \ {0}, price \in Nat : base = T.base /\ price = T.cash
    BY TermsType
  <2>2. PICK n \in Int : n = held * price /\ n >= 0
    BY <1>1
  <2>3. RoundedQuotient(n, base) \in Int /\ RoundedQuotient(n, base) >= 0
    BY <2>2, QuotientOfPositive
  <2> QED  BY <2>1, <2>2, <2>3
<1>3. PICK shares \in Int : shares = (held * T.ratio) \div T.base /\ shares >= 0
  BY <1>1, TermsType, TimesType
<1>4. PICK lieu \in Int : lieu = LieuOf(held) /\ lieu >= 0
  BY <1>1, LieuIsPositive
<1>5. PICK status : status = "ENTITLEMENT_CAPTURED"
  OBVIOUS
<1>6. PICK fresh : fresh = [NoEntitlement EXCEPT !.quantity = held, !.cash = cash,
                              !.shares = shares, !.lieu = lieu]
  OBVIOUS
<1>7. PICK e : e = IF held = 0 THEN NoEntitlement ELSE fresh
  OBVIOUS
<1>8. PICK c : c = [b EXCEPT !.actions[r] = status, !.entitlements[r] = e]
  OBVIOUS
<1>9. Captured(b, r) = c
  <2>1. e = IF held = 0 \/ Entitled(b, r) THEN b.entitlements[r]
            ELSE [NoEntitlement EXCEPT
                    !.quantity = held,
                    !.cash = RoundedQuotient(held * T.cash, T.base),
                    !.shares = (held * T.ratio) \div T.base,
                    !.lieu = RoundedQuotient(((held * T.ratio) % T.base) * T.lieu, T.base)]
    BY <1>n, <1>2, <1>3, <1>4, <1>6, <1>7 DEF LieuOf
  <2>2. b.entitlements \in [Revisions -> Entitlement]
    BY <1>b DEF BooksType
  <2>3. c = [b EXCEPT !.actions[r] = status, !.entitlements[r] =
               IF held = 0 \/ Entitled(b, r) THEN @
               ELSE [NoEntitlement EXCEPT
                    !.quantity = held,
                    !.cash = RoundedQuotient(held * T.cash, T.base),
                    !.shares = (held * T.ratio) \div T.base,
                    !.lieu = RoundedQuotient(((held * T.ratio) % T.base) * T.lieu, T.base)]]
    BY <1>b, <1>8, <2>1, <2>2 DEF BooksType
  <2> QED  BY <1>1, <1>5, <2>3 DEF Captured
<1>10. /\ c.account = b.account /\ c.position = b.position /\ c.ledger = b.ledger
       /\ c.entitlements[r] = e /\ c.actions[r] = status
  BY <1>b, <1>8 DEF BooksType
<1>11. CASE held = 0
  <2>1. e = NoEntitlement /\ ~Entitled(c, r)
    BY <1>7, <1>10, <1>11 DEF Entitled, NoEntitlement
  <2> QED  BY <1>n, <1>9, <1>10, <2>1 DEF OneGiven
<1>12. CASE held > 0
  <2>1. /\ e.quantity = held /\ e.cash = cash /\ e.shares = shares /\ e.lieu = lieu
        /\ e.subscribed = 0 /\ e.pending = 0 /\ e.credited = 0
    BY <1>6, <1>7, <1>12 DEF NoEntitlement
  <2>2. Entitled(c, r) /\ c.actions[r] # "COMPLETED"
    BY <1>5, <1>10, <1>12, <2>1 DEF Entitled
  <2>3. ~Claimed(c, r) /\ ~CashIsPaid(c, r) /\ ~Shipped(c, r)
    BY <1>f, <1>10 DEF Claimed, CashIsPaid, Shipped, Posted
  <2>4. CASE product.kind = "STOCK_DIVIDEND"
    <3>1. ~Passed(Dates.ex, day, ClaimStep, 1)
      BY <2>4 DEF OnSchedule, InOrder, Dates, Passed, ClaimStep
    <3>2. DividendGiven(c, r, day, 1)
      BY <1>n, <1>10, <2>1, <2>3, <3>1 DEF DividendGiven
    <3> QED  BY <1>9, <2>2, <2>4, <3>2 DEF OneGiven, GivenTo, Given
  <2>5. CASE product.kind = "RIGHTS_ISSUE"
    <3>1. RightsGiven(c, r, day, 1)
      BY <1>n, <1>3, <1>10, <2>1, <2>3 DEF RightsGiven
    <3> QED  BY <1>9, <2>2, <2>5, <3>1 DEF OneGiven, GivenTo, Given
  <2>6. CASE product.kind \notin {"STOCK_DIVIDEND", "RIGHTS_ISSUE"}
    <3>1. ~Passed(Dates.ex, day, ClaimStep, 1) /\ ~Passed(Dates.payment, day, 4, 1)
      <4>1. product.kind \in IncomeKinds \cup SplitKinds \cup {"BOND_MATURITY_REDEMPTION"}
        BY <2>6, KindsAreKnown DEF Kinds
      <4> QED  BY <4>1 DEF OnSchedule, InOrder, Dates, Passed, ClaimStep
    <3>2. CashGiven(c, r, day, 1)
      BY <1>n, <1>1, <1>2, <1>4, <1>10, <2>1, <2>3, <3>1 DEF CashGiven
    <3> QED  BY <1>9, <2>2, <2>6, <3>2 DEF OneGiven, GivenTo, Given
  <2> QED  BY <2>4, <2>5, <2>6
<1> QED  BY <1>1, <1>11, <1>12

LEMMA StepGives ==
    ASSUME product \in Products, OnSchedule, NEW r \in Revisions, NEW k \in 1 .. 6,
           NEW b \in SettledBooks, b.actions[r] \in LiveStatuses, OneGiven(b, r, day, k - 1)
    PROVE  OneGiven(StepOn(b, r, ActionSteps[k]), r, day, k)
<1>b. b \in GoodFor(r) /\ b \in BooksType /\ OneIsLive(b)
  BY DEF SettledBooks, GoodFor, GoodBooks
<1>s. /\ ActionSteps[1] = "capture" /\ ActionSteps[2] = "ex date" /\ ActionSteps[3] = "maturity"
      /\ ActionSteps[4] = "payment" /\ ActionSteps[5] = "listing" /\ ActionSteps[6] = "completion"
  BY DEF ActionSteps
<1>1. CASE ~Due(b, r, ActionSteps[k])
  <2>1. StepOn(b, r, ActionSteps[k]) = b
    BY <1>1 DEF StepOn
  <2>2. CASE ~Entitled(b, r)
    BY <2>1, <2>2 DEF OneGiven
  <2>3. CASE Entitled(b, r)
    <3>1. b.actions[r] \in ExecutedStatuses
      BY <1>b, <2>3 DEF OneIsLive
    <3>2. Given(b, r, day, k)
      BY <1>1, <2>3, <3>1, NotDueGives DEF OneGiven, GivenTo
    <3> QED  BY <2>1, <2>3, <3>2 DEF OneGiven, GivenTo
  <2> QED  BY <2>2, <2>3
<1>2. CASE Due(b, r, ActionSteps[k])
  <2>1. StepOn(b, r, ActionSteps[k]) = Perform(b, r, ActionSteps[k])
    BY <1>2 DEF StepOn
  <2>2. CASE k = 1
    <3>1. Perform(b, r, ActionSteps[k]) = Captured(b, r)
      BY <1>s, <2>2 DEF Perform
    <3>2. b.actions[r] = "CONFIRMED" /\ Dates.record = day
      BY <1>s, <1>2, <2>2 DEF Due
    <3>3. OneGiven(b, r, day, 0)
      BY <2>2
    <3> QED  BY <2>1, <2>2, <3>1, <3>2, <3>3, CapturedGives
  <2>3. CASE k = 2
    <3>1. Perform(b, r, ActionSteps[k]) = ExDate(b, r)
      BY <1>s, <2>3 DEF Perform
    <3>2. Dates.ex = day
      BY <1>s, <1>2, <2>3 DEF Due
    <3>3. OneGiven(b, r, day, 1)
      BY <2>3
    <3> QED  BY <1>b, <2>1, <2>3, <3>1, <3>2, <3>3, ExDateGives
  <2>4. CASE k = 3
    <3>1. Perform(b, r, ActionSteps[k]) = Matured(b, r)
      BY <1>s, <2>4 DEF Perform
    <3>2. Dates.ex = day /\ product.kind = "BOND_MATURITY_REDEMPTION"
      BY <1>s, <1>2, <2>4 DEF Due
    <3>3. OneGiven(b, r, day, 2)
      BY <2>4
    <3> QED  BY <1>b, <2>1, <2>4, <3>1, <3>2, <3>3, MaturedGives
  <2>5. CASE k = 4
    <3>1. Perform(b, r, ActionSteps[k]) = Paid(b, r)
      BY <1>s, <2>5 DEF Perform
    <3>2. Dates.payment = day
      BY <1>s, <1>2, <2>5 DEF Due
    <3>3. OneGiven(b, r, day, 3)
      BY <2>5
    <3> QED  BY <1>b, <2>1, <2>5, <3>1, <3>2, <3>3, PaidGives
  <2>6. CASE k = 5
    <3>1. Perform(b, r, ActionSteps[k]) = Listed(b, r)
      BY <1>s, <2>6 DEF Perform
    <3>2. Dates.listing = day
      BY <1>s, <1>2, <2>6 DEF Due
    <3>3. OneGiven(b, r, day, 4)
      BY <2>6
    <3>4. PartOf(b.position, b.entitlements[r])
      BY DEF SettledBooks, PendingHolds
    <3> QED  BY <1>b, <2>1, <2>6, <3>1, <3>2, <3>3, <3>4, ListedGives
  <2>7. CASE k = 6
    <3>1. Perform(b, r, ActionSteps[k]) = Completed(b, r)
      BY <1>s, <2>7 DEF Perform
    <3>2. OneGiven(b, r, day, 5)
      BY <2>7
    <3>3. Given(b, r, day, 5) => Given(b, r, day, 6)
      <4>1. DividendGiven(b, r, day, 5) => DividendGiven(b, r, day, 6)
        BY DEF DividendGiven, Passed, ClaimStep
      <4>2. RightsGiven(b, r, day, 5) => RightsGiven(b, r, day, 6)
        BY DEF RightsGiven, Passed
      <4>3. CashGiven(b, r, day, 5) => CashGiven(b, r, day, 6)
        BY DEF CashGiven, Passed, ClaimStep
      <4> QED  BY <4>1, <4>2, <4>3 DEF Given
    <3>4. OneGiven(b, r, day, 6)
      BY <3>2, <3>3 DEF OneGiven, GivenTo
    <3>5. IsBooks(b, r)
      BY <1>b DEF IsBooks, BooksType
    <3> QED  BY <2>1, <2>7, <3>1, <3>4, <3>5, CompletedGives
  <2> QED  BY <2>2, <2>3, <2>4, <2>5, <2>6, <2>7
<1> QED  BY <1>1, <1>2

\* The entitlements and the statuses of all other revisions are left alone.
Elsewhere(b, c, r) ==
    \A q \in Revisions \ {r} : c.entitlements[q] = b.entitlements[q] /\ c.actions[q] = b.actions[q]

LEMMA StepElsewhere ==
    ASSUME product \in Products, day \in Nat, NEW r \in Revisions, NEW b \in SettledBooks,
           b.actions[r] \in LiveStatuses, NEW step
    PROVE  Elsewhere(b, StepOn(b, r, step), r)
<1>1. b \in GoodFor(r) /\ PendingHolds(b)
  BY DEF SettledBooks, GoodFor
<1>2. b.entitlements[r].pending > 0 => Entitled(b, r)
  BY <1>1 DEF PendingHolds, PartOf, Entitled
<1>3. KeepsPending(b, Perform(b, r, step), r)
  BY <1>1, PerformedPending
<1>4. Records(b, Perform(b, r, step), r)
  BY <1>1, <1>2, PerformedRecords
<1> QED  BY <1>3, <1>4 DEF Elsewhere, StepOn, KeepsPending, Records

\* The whole run over a live revision gives what the day owes.
LEMMA StepsGive ==
    ASSUME product \in Products, OnSchedule, trades \in Seq(TradeFacts),
           NEW r \in Revisions, NEW b \in SettledBooks, b.actions[r] \in LiveStatuses,
           OneGiven(b, r, day, 0)
    PROVE  /\ OneGiven(StepsOf(b, r), r, day, 6)
           /\ StepsOf(b, r).actions[r] \in ProcessableStatuses => ~Finished(StepsOf(b, r), r)
           /\ Elsewhere(b, StepsOf(b, r), r)
<1>1. PICK v : /\ v[0] = b /\ v[6] = StepsOf(b, r)
               /\ \A k \in 0 .. 6 : v[k] \in SettledBooks /\ v[k].actions[r] \in LiveStatuses
               /\ \A k \in 1 .. 6 : v[k] = StepOn(v[k - 1], r, ActionSteps[k])
  BY SettledAreKept, StepsRun DEF OnSchedule
<1>2. ASSUME NEW k \in 1 .. 6, OneGiven(v[k - 1], r, day, k - 1), Elsewhere(b, v[k - 1], r)
      PROVE  OneGiven(v[k], r, day, k) /\ Elsewhere(b, v[k], r)
  <2>1. k - 1 \in 0 .. 6
    OBVIOUS
  <2>2. PICK q \in SettledBooks : q = v[k - 1] /\ q.actions[r] \in LiveStatuses
    BY <1>1, <2>1
  <2>3. OneGiven(StepOn(q, r, ActionSteps[k]), r, day, k)
    BY <1>2, <2>2, StepGives
  <2>4. v[k] = StepOn(q, r, ActionSteps[k])
    BY <1>1, <2>2
  <2>5. Elsewhere(q, StepOn(q, r, ActionSteps[k]), r)
    BY <2>2, StepElsewhere DEF OnSchedule
  <2> QED  BY <1>2, <2>2, <2>3, <2>4, <2>5 DEF Elsewhere
<1>3. OneGiven(v[1], r, day, 1) /\ Elsewhere(b, v[1], r)
  <2>1. 1 \in 1 .. 6 /\ OneGiven(v[1 - 1], r, day, 1 - 1) /\ Elsewhere(b, v[1 - 1], r)
    BY <1>1 DEF Elsewhere
  <2> QED  BY <1>2, <2>1
<1>4. OneGiven(v[2], r, day, 2) /\ Elsewhere(b, v[2], r)
  BY <1>2, <1>3
<1>5. OneGiven(v[3], r, day, 3) /\ Elsewhere(b, v[3], r)
  BY <1>2, <1>4
<1>6. OneGiven(v[4], r, day, 4) /\ Elsewhere(b, v[4], r)
  BY <1>2, <1>5
<1>7. OneGiven(v[5], r, day, 5) /\ Elsewhere(b, v[5], r)
  BY <1>2, <1>6
<1>8. OneGiven(v[6], r, day, 6) /\ Elsewhere(b, v[6], r)
  BY <1>2, <1>7
<1>9. v[6].actions[r] \in ProcessableStatuses => ~Finished(v[6], r)
  <2>1. PICK q \in BooksType : q = v[5]
    BY <1>1 DEF SettledBooks, GoodBooks
  <2>2. v[6] = Completed(q, r)
    <3>1. 6 \in 1 .. 6 /\ 6 - 1 = 5
      OBVIOUS
    <3>2. v[6] = StepOn(q, r, ActionSteps[6])
      BY <1>1, <2>1, <3>1
    <3>3. ActionSteps[6] = "completion"
      BY DEF ActionSteps
    <3> QED  BY <3>2, <3>3 DEF StepOn, Perform, Due
  <2> QED  BY <2>1, <2>2, CompletedFinishes
<1> QED  BY <1>1, <1>8, <1>9

\* The settlement of the day has given what the day owes.
DayGiven(b) == Deliveries(b, day, 6) /\ NothingToFinish(b)

LEMMA RevisionGives ==
    ASSUME product \in Products, OnSchedule, trades \in Seq(TradeFacts),
           NEW r \in Revisions, NEW b \in SettledBooks, b.actions[r] \in LiveStatuses,
           Deliveries(b, day, 0)
    PROVE  DayGiven(RunRevision(b, r)) /\ Elsewhere(b, RunRevision(b, r), r)
<1>b. b \in GoodBooks /\ OneIsLive(b)
  BY DEF SettledBooks, GoodBooks
<1>o. \A q \in Revisions \ {r} : /\ b.entitlements[q] = NoEntitlement /\ ~Entitled(b, q)
                                 /\ b.actions[q] \notin LiveStatuses
  <2>1. SUFFICES ASSUME NEW q \in Revisions \ {r}
                 PROVE  /\ b.entitlements[q] = NoEntitlement /\ ~Entitled(b, q)
                        /\ b.actions[q] \notin LiveStatuses
    OBVIOUS
  <2>2. b.actions[q] \notin LiveStatuses /\ ~Entitled(b, q)
    BY <1>b DEF OneIsLive, LiveStatuses
  <2> QED  BY <2>2 DEF Deliveries
<1>g. OneGiven(b, r, day, 0)
  BY <1>o DEF Deliveries, OneGiven
<1>1. ASSUME NEW c, Elsewhere(b, c, r), OneGiven(c, r, day, 6),
             c.actions[r] \in ProcessableStatuses => ~Finished(c, r)
      PROVE  DayGiven(c)
  <2>1. \A q \in Revisions \ {r} : /\ c.entitlements[q] = NoEntitlement /\ ~Entitled(c, q)
                                   /\ c.actions[q] \notin LiveStatuses
    BY <1>1, <1>o DEF Elsewhere, Entitled
  <2>2. Deliveries(c, day, 6)
    BY <1>1, <2>1 DEF Deliveries, OneGiven
  <2>3. NothingToFinish(c)
    BY <1>1, <2>1 DEF NothingToFinish, LiveStatuses, ExecutedStatuses
  <2> QED  BY <2>2, <2>3 DEF DayGiven
<1>0. RunRevision(b, r) =
        CASE b.actions[r] \notin UnexecutedStatuses \cup ProcessableStatuses -> b
          [] b.actions[r] = "CONFIRMED" /\ Dates.record < day -> Reviewed(b, r)
          [] OTHER -> StepsOf(b, r)
  BY DEF RunRevision, StepsOf, Reviewed
<1>2. CASE b.actions[r] \notin UnexecutedStatuses \cup ProcessableStatuses
  <2>1. RunRevision(b, r) = b
    <3>1. b.actions[r] = "CONFIRMED" => b.actions[r] \in UnexecutedStatuses
      BY DEF UnexecutedStatuses
    <3> QED  BY <1>0, <1>2, <3>1
  <2>2. b.actions[r] = "COMPLETED"
    BY <1>2 DEF LiveStatuses, ExecutedStatuses
  <2>3. OneGiven(b, r, day, 6)
    BY <1>g, <2>2, EndedIsGiven DEF OneGiven, GivenTo
  <2>4. Elsewhere(b, b, r)
    BY DEF Elsewhere
  <2> QED  BY <1>1, <1>2, <2>1, <2>3, <2>4
<1>3. CASE b.actions[r] = "CONFIRMED" /\ Dates.record < day
  <2>1. RunRevision(b, r) = Reviewed(b, r)
    BY <1>0, <1>3 DEF UnexecutedStatuses
  <2>2. PICK c : c = Reviewed(b, r)
    OBVIOUS
  <2>3. /\ c.account = b.account /\ c.entitlements = b.entitlements
        /\ \A q \in Revisions \ {r} : c.actions[q] = b.actions[q]
    BY <1>b, <1>3, <2>2, ReviewedIsGood
  <2>4. Elsewhere(b, c, r)
    BY <2>3 DEF Elsewhere
  <2>5. ~Entitled(b, r)
    BY <1>b, <1>3 DEF OneIsLive, ExecutedStatuses, ProcessableStatuses
  <2>6. OneGiven(c, r, day, 6)
    BY <1>g, <2>3, <2>5 DEF OneGiven, Entitled
  <2>7. c.actions[r] \notin ProcessableStatuses
    <3>1. PICK status : status = "MANUAL_REVIEW_REQUIRED"
      OBVIOUS
    <3>2. c.actions = [b.actions EXCEPT ![r] = status]
      BY <1>b, <2>2, <3>1 DEF Reviewed, GoodBooks, BooksType
    <3>3. c.actions[r] = status
      BY <1>b, <3>2 DEF GoodBooks, BooksType
    <3> QED  BY <3>1, <3>3 DEF ProcessableStatuses
  <2> QED  BY <1>1, <2>1, <2>2, <2>4, <2>6, <2>7
<1>4. CASE /\ b.actions[r] \in UnexecutedStatuses \cup ProcessableStatuses
           /\ ~(b.actions[r] = "CONFIRMED" /\ Dates.record < day)
  <2>1. RunRevision(b, r) = StepsOf(b, r)
    BY <1>0, <1>4
  <2> QED  BY <1>1, <1>g, <2>1, StepsGive
<1> QED  BY <1>2, <1>3, <1>4

\* However many revisions there are, only one of them is live.
LEMMA RunGives ==
    ASSUME product \in Products, OnSchedule, trades \in Seq(TradeFacts), NEW b \in SettledBooks,
           Deliveries(b, day, 0)
    PROVE  DayGiven(RunOf(b))
<1>1. PICK v : /\ v[0] = b /\ v[RevisionCount] = RunOf(b)
               /\ \A k \in 0 .. RevisionCount : v[k] \in SettledBooks
               /\ \A k \in Revisions : v[k] = RunRevision(v[k - 1], k)
  BY SettledAreKept, RevisionsRun DEF OnSchedule
<1>b. OneIsLive(b)
  BY DEF SettledBooks, GoodBooks
<1>n. RevisionCount \in Nat /\ Revisions = 1 .. RevisionCount
  BY ActionAssumption DEF Revisions
<1> DEFINE Live(r) == b.actions[r] \in LiveStatuses
           So(k) == /\ (\E r \in 1 .. k : Live(r)) => DayGiven(v[k])
                    /\ (\A r \in 1 .. k : ~Live(r)) => v[k] = b
                    /\ \A q \in Revisions : q > k => v[k].actions[q] = b.actions[q]
           G == {k \in Nat : k <= RevisionCount => So(k)}
<1>2. So(0)
  BY <1>1
<1>3. ASSUME NEW k \in Nat, k + 1 <= RevisionCount, So(k) PROVE So(k + 1)
  <2>1. PICK m \in Revisions : m = k + 1 /\ m - 1 = k
    BY <1>3, <1>n
  <2>2. k \in 0 .. RevisionCount
    BY <1>3, <1>n
  <2>3. PICK c \in SettledBooks : c = v[k] /\ v[m] = RunRevision(c, m)
    BY <1>1, <2>1, <2>2
  <2>4. c.actions[m] = b.actions[m]
    BY <1>3, <2>1, <2>3
  <2>5. CASE ~Live(m)
    <3>1. RunRevision(c, m) = c
      <4>1. c.actions[m] \notin UnexecutedStatuses \cup ProcessableStatuses
        BY <2>4, <2>5 DEF LiveStatuses, ExecutedStatuses
      <4>2. c.actions[m] # "CONFIRMED"
        BY <4>1 DEF UnexecutedStatuses
      <4>3. RunRevision(c, m) =
              CASE c.actions[m] \notin UnexecutedStatuses \cup ProcessableStatuses -> c
                [] c.actions[m] = "CONFIRMED" /\ Dates.record < day -> Reviewed(c, m)
                [] OTHER -> StepsOf(c, m)
        BY DEF RunRevision, StepsOf, Reviewed
      <4> QED  BY <4>1, <4>2, <4>3
    <3>2. v[m] = v[k]
      BY <2>3, <3>1
    <3>3. (\E r \in 1 .. m : Live(r)) => \E r \in 1 .. k : Live(r)
      BY <2>1, <2>5
    <3>4. (\A r \in 1 .. m : ~Live(r)) => \A r \in 1 .. k : ~Live(r)
      BY <2>1
    <3>5. \A q \in Revisions : q > m => v[m].actions[q] = b.actions[q]
      BY <1>3, <2>1, <3>2 DEF Revisions
    <3> HIDE DEF Live
    <3> QED  BY <1>3, <2>1, <3>2, <3>3, <3>4, <3>5
  <2>6. CASE Live(m)
    <3>1. \A r \in 1 .. k : ~Live(r)
      BY <1>b, <1>n, <2>1, <2>6 DEF OneIsLive
    <3>2. c = b
      BY <1>3, <2>3, <3>1
    <3>3. DayGiven(v[m]) /\ Elsewhere(b, v[m], m)
      BY <2>3, <2>6, <3>2, RevisionGives
    <3>4. \E r \in 1 .. m : Live(r)
      BY <1>n, <2>6
    <3>5. \A q \in Revisions : q > m => v[m].actions[q] = b.actions[q]
      BY <3>3, <1>n DEF Elsewhere
    <3> HIDE DEF Live
    <3> QED  BY <2>1, <3>3, <3>4, <3>5
  <2> QED  BY <2>5, <2>6
<1>4. So(RevisionCount)
  <2> HIDE DEF So
  <2>1. 0 \in G /\ \A k \in Nat : k \in G => k + 1 \in G
    BY <1>2, <1>3, <1>n
  <2> HIDE DEF G
  <2>2. Nat \subseteq G
    BY <2>1, NatSetInduction
  <2> QED  BY <1>n, <2>2 DEF G
<1>5. CASE \E r \in Revisions : Live(r)
  BY <1>1, <1>n, <1>4, <1>5
<1>6. CASE \A r \in Revisions : ~Live(r)
  <2>1. RunOf(b) = b
    BY <1>1, <1>n, <1>4, <1>6
  <2>2. \A r \in Revisions : ~Entitled(b, r) /\ b.actions[r] \notin ProcessableStatuses
    BY <1>b, <1>6 DEF OneIsLive, LiveStatuses, ExecutedStatuses
  <2>3. DayGiven(b)
    BY <2>2 DEF Deliveries, DayGiven, NothingToFinish
  <2> QED  BY <2>1, <2>3
<1> QED  BY <1>5, <1>6

-----------------------------------------------------------------------------
(* What an action delivers, through every step.                            *)

\* The books b and c have given the same under r.
SameFacts(b, c, r) ==
    /\ c.account.receivable = b.account.receivable
    /\ c.entitlements[r] = b.entitlements[r]
    /\ c.ledger = b.ledger

\* Which shares are held counts on the ex day only, between two operations.
LEMMA GivenElsewhere ==
    ASSUME NEW r \in Revisions, NEW b, NEW c, SameFacts(b, c, r), NEW d, NEW n \in {0, 6}
    PROVE  /\ Entitled(c, r) <=> Entitled(b, r)
           /\ Given(b, r, d, n) => Given(c, r, d, n)
           /\ Ended(b, r, d) => Ended(c, r, d)
<1>1. /\ Claimed(c, r) <=> Claimed(b, r)
      /\ CashIsPaid(c, r) <=> CashIsPaid(b, r)
      /\ Shipped(c, r) <=> Shipped(b, r)
  BY DEF SameFacts, Claimed, CashIsPaid, Shipped, Posted
<1>2. NoMoreOwed(c, r) <=> NoMoreOwed(b, r)
  BY <1>1 DEF SameFacts, NoMoreOwed
<1>3. DividendGiven(b, r, d, n) => DividendGiven(c, r, d, n)
  BY <1>1 DEF SameFacts, DividendGiven
<1>4. RightsGiven(b, r, d, n) => RightsGiven(c, r, d, n)
  BY <1>1 DEF SameFacts, RightsGiven
<1>5. CashGiven(b, r, d, n) => CashGiven(c, r, d, n)
  <2>1. n # 1
    OBVIOUS
  <2> QED  BY <1>1, <1>2, <2>1 DEF SameFacts, CashGiven
<1>6. Given(b, r, d, n) => Given(c, r, d, n)
  BY <1>3, <1>4, <1>5 DEF Given
<1>7. Ended(b, r, d) => Ended(c, r, d)
  BY <1>1, <1>2 DEF SameFacts, Ended
<1> QED  BY <1>6, <1>7 DEF SameFacts, Entitled

\* What has been given by the end of a day is enough at its beginning, when the run is
\* repeated, and at the beginning of the next day.
LEMMA GivenStill ==
    ASSUME OnSchedule, NEW r \in Revisions, NEW b, NEW d \in {day, day + 1}
    PROVE  /\ Given(b, r, day, 6) => Given(b, r, d, 0)
           /\ Ended(b, r, day) => Ended(b, r, d)
<1>1. PICK ex \in Int, payment \in Int, listing \in Int, last \in Int :
         /\ ex = Dates.ex /\ payment = Dates.payment /\ listing = Dates.listing
         /\ last = Dates.subscriptionEnd
  BY DEF OnSchedule, InOrder, Dates
<1>2. day \in Nat /\ ClaimStep \in {2, 3}
  BY DEF OnSchedule, ClaimStep
<1>3. /\ Passed(ex, d, ClaimStep, 0) => Passed(ex, day, ClaimStep, 6)
      /\ Passed(payment, d, 4, 0) => Passed(payment, day, 4, 6)
      /\ Passed(listing, d, 5, 0) => Passed(listing, day, 5, 6)
      /\ listing <= day => listing <= d
      /\ last < day => last < d
  BY <1>1, <1>2 DEF Passed
<1>4. DividendGiven(b, r, day, 6) => DividendGiven(b, r, d, 0)
  BY <1>1, <1>3 DEF DividendGiven
<1>5. RightsGiven(b, r, day, 6) => RightsGiven(b, r, d, 0)
  BY <1>1, <1>3 DEF RightsGiven
<1>6. CashGiven(b, r, day, 6) => CashGiven(b, r, d, 0)
  <2>1. 6 # 1
    OBVIOUS
  <2> QED  BY <1>1, <1>3, <2>1 DEF CashGiven
<1>7. Given(b, r, day, 6) => Given(b, r, d, 0)
  BY <1>4, <1>5, <1>6 DEF Given
<1>8. Ended(b, r, day) => Ended(b, r, d)
  BY <1>1, <1>3 DEF Ended
<1> QED  BY <1>7, <1>8

\* The books c of an unchanged schedule, seen from the next state.
LEMMA DeliverNext ==
    ASSUME NEW c, c = Books', product' = product, schedule' = schedule,
           schedule \in Schedules[product.kind],
           Deliveries(c, day', IF phase' = "posting" THEN 6 ELSE 0),
           phase' = "posting" => day' = day /\ NothingToFinish(c),
           day' > LastDay =>
              \A r \in Revisions : Entitled(c, r) => c.actions[r] = "COMPLETED"
    PROVE  DeliverInv'
<1>1. ASSUME NEW r \in Revisions, NEW d, NEW n
      PROVE  /\ Given(c, r, d, n)' <=> Given(c, r, d, n)
             /\ Ended(c, r, d)' <=> Ended(c, r, d)
  <2>1. /\ Claimed(c, r)' <=> Claimed(c, r)
        /\ CashIsPaid(c, r)' <=> CashIsPaid(c, r)
        /\ Shipped(c, r)' <=> Shipped(c, r)
    BY DEF Claimed, CashIsPaid, Shipped, Posted, ClaimEntry
  <2>2. NoMoreOwed(c, r)' <=> NoMoreOwed(c, r)
    BY <2>1 DEF NoMoreOwed, Splits
  <2>3. DividendGiven(c, r, d, n)' <=> DividendGiven(c, r, d, n)
    BY <2>1 DEF DividendGiven, Passed, Dates, ClaimStep
  <2>4. RightsGiven(c, r, d, n)' <=> RightsGiven(c, r, d, n)
    BY <2>1 DEF RightsGiven, Passed, Dates
  <2>5. CashGiven(c, r, d, n)' <=> CashGiven(c, r, d, n)
    BY <2>1, <2>2 DEF CashGiven, Passed, Dates, ClaimStep, WholeShares, T, Splits, AmountOf, LieuOf
  <2>6. Given(c, r, d, n)' <=> Given(c, r, d, n)
    BY <2>3, <2>4, <2>5 DEF Given
  <2>7. Ended(c, r, d)' <=> Ended(c, r, d)
    BY <2>1, <2>2 DEF Ended, Dates
  <2> QED  BY <2>6, <2>7
<1> PICK d, n : d = day' /\ n = IF phase' = "posting" THEN 6 ELSE 0
  OBVIOUS
<1>2. Deliveries(c, d, n)'
  BY <1>1 DEF Deliveries, GivenTo, Entitled
<1>3. phase' = "posting" => NothingToFinish(c)'
  <2>1. ASSUME day' = day, NEW r \in Revisions PROVE Finished(c, r)' <=> Finished(c, r)
    BY <2>1 DEF Finished, CashIsPaid, Posted, Entitled, Dates
  <2> QED  BY <2>1 DEF NothingToFinish
<1>4. EveryActionCompletes'
  <2>1. c.actions = actions' /\ c.entitlements = entitlements'
    BY DEF Books
  <2> QED  BY <2>1 DEF EveryActionCompletes, Entitled, Books
<1> QED  BY <1>2, <1>3, <1>4 DEF DeliverInv

LEMMA DatesInOrder ==
    ASSUME SchedulesInOrder, CashInv, DeliverInv
    PROVE  OnSchedule
BY SettleTypes, KindsAreKnown DEF OnSchedule, SchedulesInOrder, DeliverInv

\* A step that gives nothing, and leaves alone the status of what is being executed or
\* has been.
LEMMA NothingDelivers ==
    ASSUME SchedulesInOrder, CashInv, DeliverInv,
           UNCHANGED <<product, schedule, day, entitlements, ledger>>,
           account'.receivable = account.receivable,
           \A r \in Revisions : actions[r] \in ExecutedStatuses \/ actions'[r] \in ExecutedStatuses
                                   => actions'[r] = actions[r],
           phase' = "posting" => phase = "posting"
    PROVE  DeliverInv'
<1>1. PICK b, c : b = Books /\ c = Books'
  OBVIOUS
<1>2. PICK n \in {0, 6}, m \in {0, 6} :
         /\ n = (IF phase = "posting" THEN 6 ELSE 0)
         /\ m = (IF phase' = "posting" THEN 6 ELSE 0)
  OBVIOUS
<1>3. /\ c.account.receivable = b.account.receivable /\ c.ledger = b.ledger
      /\ c.entitlements = b.entitlements
      /\ \A r \in Revisions : b.actions[r] \in ExecutedStatuses \/ c.actions[r] \in ExecutedStatuses
                                 => c.actions[r] = b.actions[r]
  BY <1>1 DEF Books
<1>4. Deliveries(b, day, n)
  BY <1>1, <1>2 DEF DeliverInv
<1>5. ASSUME NEW r \in Revisions PROVE SameFacts(b, c, r)
  BY <1>3 DEF SameFacts
<1>6. "COMPLETED" \in ExecutedStatuses /\ ProcessableStatuses \subseteq ExecutedStatuses
  BY DEF ExecutedStatuses
<1>7. Deliveries(c, day, m)
  <2>1. ASSUME NEW r \in Revisions
        PROVE  IF Entitled(c, r) THEN GivenTo(c, r, day, m)
               ELSE c.entitlements[r] = NoEntitlement
    <3>1. CASE ~Entitled(b, r)
      BY <1>3, <1>4, <3>1 DEF Deliveries, Entitled
    <3>2. CASE Entitled(b, r)
      <4>1. Given(b, r, day, n) /\ (b.actions[r] = "COMPLETED" => Ended(b, r, day))
        BY <1>4, <3>2 DEF Deliveries, GivenTo
      <4>2. Given(b, r, day, m)
        <5>1. n = m \/ (n = 6 /\ m = 0)
          BY <1>2
        <5> QED  BY <4>1, <5>1, DatesInOrder, GivenStill
      <4>3. Given(c, r, day, m) /\ (Ended(b, r, day) => Ended(c, r, day))
        BY <1>5, <4>2, GivenElsewhere
      <4>4. c.actions[r] = "COMPLETED" => b.actions[r] = "COMPLETED"
        BY <1>3, <1>6
      <4> QED  BY <1>3, <3>2, <4>1, <4>3, <4>4 DEF GivenTo, Entitled
    <3> QED  BY <3>1, <3>2
  <2>2. (\A r \in Revisions : ~Entitled(c, r)) => c.account.receivable = 0
    BY <1>3, <1>4 DEF Deliveries, Entitled
  <2> QED  BY <2>1, <2>2 DEF Deliveries
<1>8. phase' = "posting" => NothingToFinish(c)
  <2>1. SUFFICES ASSUME phase' = "posting", NEW r \in Revisions,
                        c.actions[r] \in ProcessableStatuses
                 PROVE  ~Finished(c, r)
    BY DEF NothingToFinish
  <2>2. b.actions[r] = c.actions[r]
    BY <1>3, <1>6, <2>1
  <2>3. ~Finished(b, r)
    BY <1>1, <2>1, <2>2 DEF DeliverInv, NothingToFinish
  <2> QED  BY <1>3, <2>2, <2>3 DEF Finished, CashIsPaid, Posted, Entitled
<1>9. ASSUME day > LastDay, NEW r \in Revisions, Entitled(c, r)
      PROVE  c.actions[r] = "COMPLETED"
  <2>1. b.actions[r] = "COMPLETED"
    BY <1>1, <1>3, <1>9 DEF DeliverInv, EveryActionCompletes, Entitled, Books
  <2> QED  BY <1>3, <1>6, <2>1
<1>10. schedule \in Schedules[product.kind]
  BY DEF DeliverInv
<1>11. /\ product' = product /\ schedule' = schedule /\ day' = day /\ c = Books'
       /\ Deliveries(c, day', IF phase' = "posting" THEN 6 ELSE 0)
       /\ phase' = "posting" => day' = day /\ NothingToFinish(c)
       /\ day' > LastDay => \A r \in Revisions : Entitled(c, r) => c.actions[r] = "COMPLETED"
  BY <1>1, <1>2, <1>7, <1>8, <1>9
<1> QED  BY ONLY <1>10, <1>11, DeliverNext

LEMMA ImportDelivers ==
    ASSUME SchedulesInOrder, CashInv, DeliverInv, NEW r \in Revisions, Import(r)
    PROVE  DeliverInv'
<1> DEFINE newer == {q \in Revisions : q > r /\ Imported(q)}
           older == {q \in Revisions :
                       q < r /\ Imported(q) /\ actions[q] \notin DroppedStatuses}
<1>1. /\ actions[r] = "NONE"
      /\ UNCHANGED <<product, schedule, day, phase, account, entitlements, ledger>>
  BY DEF Import, Imported, fixed
<1>2. actions \in [Revisions -> ActionStatuses] /\ actions[r] \notin ExecutedStatuses
  BY <1>1, ActionTypes, StatusKinds
<1>s. {"SUPERSEDED", "MANUAL_REVIEW_REQUIRED", "DRAFT"} \cap ExecutedStatuses = {}
  BY DEF ExecutedStatuses, ProcessableStatuses
<1>3. ASSUME NEW q \in Revisions,
             actions[q] \in ExecutedStatuses \/ actions'[q] \in ExecutedStatuses
      PROVE  actions'[q] = actions[q]
  <2>2. CASE \/ actions' = [actions EXCEPT ![r] = "SUPERSEDED"]
             \/ actions' = [actions EXCEPT ![r] = "MANUAL_REVIEW_REQUIRED"]
    BY <1>2, <1>3, <1>s, <2>2
  <2>3. CASE /\ ~\E x \in older : actions[x] \notin UnexecutedStatuses
             /\ actions' = [x \in Revisions |-> IF x = r THEN "DRAFT"
                                                ELSE IF x \in older THEN "SUPERSEDED"
                                                ELSE actions[x]]
    <3>1. q \in older => actions[q] \notin ExecutedStatuses
      BY <2>3, StatusKinds
    <3> HIDE DEF older
    <3> QED  BY <1>2, <1>3, <1>s, <2>3, <3>1
  <2> QED  BY <2>2, <2>3 DEF Import
<1> QED  BY <1>1, <1>3, NothingDelivers

LEMMA ConfirmDelivers ==
    ASSUME SchedulesInOrder, CashInv, DeliverInv, NEW r \in Revisions, Confirm(r)
    PROVE  DeliverInv'
<1>1. /\ actions[r] = "DRAFT" /\ actions' = [actions EXCEPT ![r] = "CONFIRMED"]
      /\ UNCHANGED <<product, schedule, day, phase, account, entitlements, ledger>>
  BY DEF Confirm, fixed
<1>2. "DRAFT" \notin ExecutedStatuses /\ "CONFIRMED" \notin ExecutedStatuses
  BY DEF ExecutedStatuses, ProcessableStatuses
<1>3. \A q \in Revisions :
         actions[q] \in ExecutedStatuses \/ actions'[q] \in ExecutedStatuses
            => actions'[q] = actions[q]
  BY <1>1, <1>2, ActionTypes
<1> QED  BY <1>1, <1>3, NothingDelivers

\* What is owed does not change with an order.
LEMMA OrdersDeliver ==
    ASSUME SchedulesInOrder, CashInv, DeliverInv,
           \/ \E o \in Orders, direction \in {"BUY", "SELL"}, limit \in LimitPrices,
                 volume \in Volumes : Submit(o, direction, limit, volume)
           \/ \E o \in Orders : Cancel(o)
           \/ \E o \in Orders, t \in Ticks : DeliverTick(o, t)
           \/ Barrier \/ Repeat \/ UNCHANGED vars
    PROVE  DeliverInv'
<1>1. /\ UNCHANGED <<product, schedule, day, actions, entitlements, ledger>>
      /\ phase' = "posting" => phase = "posting"
  BY DEF Submit, Cancel, DeliverTick, Barrier, Repeat, vars, fixed, corporate
<1>a. account \in Account
  BY SettleTypes
<1>2. account'.receivable = account.receivable
  <2>1. ASSUME NEW o, NEW direction, NEW limit, NEW volume, Submit(o, direction, limit, volume)
        PROVE  account'.receivable = account.receivable
    BY <1>a, <2>1 DEF Submit, Frozen, Account
  <2>2. ASSUME NEW o, Cancel(o) PROVE account'.receivable = account.receivable
    BY <1>a, <2>2 DEF Cancel, Released, Frozen, Account
  <2>3. ASSUME NEW o, NEW t, FillBuy(o, t) PROVE account'.receivable = account.receivable
    <3> DEFINE row == orders[o]
               volume == Smaller(row.remaining, Quote[t].askVolume)
               turnover == Quote[t].ask * volume
               fee == FillFee(o, turnover)
               after == FilledRow(row, volume, turnover, fee)
               a == Frozen(Released(account, row.frozenCash, row.frozenCommission),
                           after.frozenCash, after.frozenCommission)
    <3>1. account' = [a EXCEPT !.available = @ - turnover - fee, !.cash = @ - turnover - fee]
      BY <2>3 DEF FillBuy
    <3> HIDE DEF row, volume, turnover, fee, after
    <3>2. a.receivable = account.receivable /\ DOMAIN a = DOMAIN account
      BY <1>a DEF Released, Frozen, Account
    <3> HIDE DEF a
    <3> QED  BY <1>a, <3>1, <3>2 DEF Account
  <2>4. ASSUME NEW o, NEW t, FillSell(o, t) PROVE account'.receivable = account.receivable
    BY <1>a, <2>4 DEF FillSell, Account
  <2>5. ASSUME Barrier \/ Repeat \/ UNCHANGED vars PROVE account'.receivable = account.receivable
    BY <2>5 DEF Barrier, Repeat, vars
  <2> QED  BY <2>1, <2>2, <2>3, <2>4, <2>5 DEF DeliverTick
<1> QED  BY <1>1, <1>2, NothingDelivers

LEMMA RunDueActionsDelivers ==
    ASSUME SchedulesInOrder, CashInv, SettleInv, DeliverInv, RunDueActions
    PROVE  DeliverInv'
<1>1. /\ NoActiveOrder /\ phase = "acting" /\ phase' = "posting" /\ day <= LastDay
      /\ UNCHANGED <<product, schedule, day>>
  BY DEF RunDueActions, CashInv, DayInv, fixed
<1>2. account.frozenCash = 0 /\ account.frozenCommission = 0 /\ position.frozen = 0
  BY <1>1, NothingFrozen DEF CashInv
<1>3. Books \in SettledBooks
  <2>1. Books \in GoodBooks
    BY <1>2 DEF CashInv, BooksInv, GoodBooks, Books
  <2> QED  BY <2>1 DEF SettledBooks, SettleInv
<1>4. Deliveries(Books, day, 0)
  BY <1>1 DEF DeliverInv
<1>5. PICK b \in SettledBooks : b = RunOf(Books) /\ DayGiven(b)
  BY <1>3, <1>4, SettleTypes, DatesInOrder, RunIsSettled, RunGives
<1>6. Books' = b
  <2>1. /\ account' = b.account /\ position' = b.position /\ actions' = b.actions
        /\ entitlements' = b.entitlements /\ ledger' = b.ledger
        /\ adjustments' = b.adjustments
    BY <1>5 DEF RunDueActions, RunOf
  <2>2. b = [account |-> b.account, position |-> b.position, actions |-> b.actions,
             entitlements |-> b.entitlements, ledger |-> b.ledger,
             adjustments |-> b.adjustments]
    BY DEF SettledBooks, GoodBooks, BooksType
  <2> QED  BY <2>1, <2>2 DEF Books
<1>7. /\ product' = product /\ schedule' = schedule /\ schedule \in Schedules[product.kind]
      /\ b = Books'
      /\ Deliveries(b, day', IF phase' = "posting" THEN 6 ELSE 0)
      /\ phase' = "posting" => day' = day /\ NothingToFinish(b)
      /\ day' > LastDay => \A r \in Revisions : Entitled(b, r) => b.actions[r] = "COMPLETED"
  <2>1. day \in Int /\ LastDay \in Int /\ ~(day > LastDay)
    BY <1>1, SettleTypes, ActionAssumption
  <2> QED  BY <1>1, <1>5, <1>6, <2>1 DEF DayGiven, DeliverInv
<1> QED  BY ONLY <1>7, DeliverNext

\* On the last day all is finished, and what is finished has been completed.
LEMMA PostDelivers ==
    ASSUME SchedulesInOrder, CashInv, DeliverInv, Post
    PROVE  DeliverInv'
<1>1. /\ phase = "posting" /\ phase' = "trading" /\ day' = day + 1 /\ day <= LastDay
      /\ UNCHANGED <<product, schedule, actions, entitlements, ledger>>
  BY DEF Post, CashInv, DayInv, fixed, corporate
<1>2. account'.receivable = account.receivable
  BY SettleTypes DEF Post, Account
<1>3. PICK b, c : b \in BooksType /\ b = Books /\ c = Books'
  BY DEF CashInv, BooksInv
<1>4. /\ c.account.receivable = b.account.receivable /\ c.ledger = b.ledger
      /\ c.entitlements = b.entitlements /\ c.actions = b.actions
  BY <1>1, <1>2, <1>3 DEF Books
<1>5. Deliveries(b, day, 6) /\ NothingToFinish(b)
  BY <1>1, <1>3 DEF DeliverInv
<1>6. OneIsLive(b)
  BY <1>3 DEF CashInv, BooksInv
<1>d. OnSchedule
  BY DatesInOrder
<1>7. PICK d \in {day, day + 1} : d = day + 1
  OBVIOUS
<1>8. Deliveries(c, d, 0)
  <2>1. ASSUME NEW r \in Revisions
        PROVE  IF Entitled(c, r) THEN GivenTo(c, r, d, 0)
               ELSE c.entitlements[r] = NoEntitlement
    <3>1. CASE ~Entitled(b, r)
      BY <1>4, <1>5, <3>1 DEF Deliveries, Entitled
    <3>2. CASE Entitled(b, r)
      <4>1. Given(b, r, day, 6) /\ (b.actions[r] = "COMPLETED" => Ended(b, r, day))
        BY <1>5, <3>2 DEF Deliveries, GivenTo
      <4>2. Given(b, r, d, 0) /\ (b.actions[r] = "COMPLETED" => Ended(b, r, d))
        BY <1>d, <4>1, GivenStill
      <4>3. SameFacts(b, c, r) /\ 0 \in {0, 6}
        BY <1>4 DEF SameFacts
      <4>4. Given(c, r, d, 0) /\ (Ended(b, r, d) => Ended(c, r, d))
        BY <4>2, <4>3, GivenElsewhere
      <4> QED  BY <1>4, <3>2, <4>2, <4>4 DEF GivenTo, Entitled
    <3> QED  BY <3>1, <3>2
  <2>2. (\A r \in Revisions : ~Entitled(c, r)) => c.account.receivable = 0
    BY <1>4, <1>5 DEF Deliveries, Entitled
  <2> QED  BY <2>1, <2>2 DEF Deliveries
<1>9. ASSUME d > LastDay, NEW r \in Revisions, Entitled(c, r)
      PROVE  c.actions[r] = "COMPLETED"
  <2>1. day = LastDay
    BY <1>1, <1>7, <1>9, SettleTypes, ActionAssumption
  <2>2. Entitled(b, r) /\ Given(b, r, day, 6)
    BY <1>4, <1>5, <1>9 DEF Deliveries, GivenTo, Entitled
  <2>3. b.actions[r] \in ExecutedStatuses
    BY <1>6, <2>2 DEF OneIsLive
  <2>4. b.actions[r] \notin ProcessableStatuses
    BY <1>d, <1>3, <1>5, <2>1, <2>2, LastDayFinishes, SettleTypes DEF NothingToFinish
  <2> QED  BY <1>4, <2>3, <2>4 DEF ExecutedStatuses
<1>10. /\ product' = product /\ schedule' = schedule /\ schedule \in Schedules[product.kind]
       /\ c = Books'
       /\ Deliveries(c, day', IF phase' = "posting" THEN 6 ELSE 0)
       /\ phase' = "posting" => day' = day /\ NothingToFinish(c)
       /\ day' > LastDay => \A r \in Revisions : Entitled(c, r) => c.actions[r] = "COMPLETED"
  BY <1>1, <1>3, <1>7, <1>8, <1>9 DEF DeliverInv
<1> QED  BY ONLY <1>10, DeliverNext

\* A subscription comes before the listing, and so before everything has been given.
LEMMA SubscribeDelivers ==
    ASSUME SchedulesInOrder, CashInv, DeliverInv, NEW r \in Revisions,
           NEW request \in SubscriptionIds, NEW volume \in Volumes, Subscribe(r, request, volume)
    PROVE  DeliverInv'
<1>1. /\ product.kind = "RIGHTS_ISSUE" /\ day <= Dates.subscriptionEnd
      /\ UNCHANGED <<product, schedule, day, phase, actions>>
  BY DEF Subscribe, fixed
<1>2. PICK listing \in Int, last \in Int :
         /\ listing = Dates.listing /\ last = Dates.subscriptionEnd
         /\ day <= last /\ last < listing /\ listing <= LastDay
  BY <1>1, DatesInOrder DEF OnSchedule, InOrder, Dates
<1>d. day \in Int /\ LastDay \in Int /\ day < listing /\ ~(day > LastDay)
  BY <1>2, SettleTypes, ActionAssumption
<1>3. PICK b, c : b \in BooksType /\ b = Books /\ c = Books' /\ OneIsLive(b)
  BY DEF CashInv, BooksInv
<1>e. PICK e \in Entitlement : e = b.entitlements[r] /\ e = entitlements[r]
  BY <1>3 DEF BooksType, Books
<1>4. PICK number \in Nat, cash \in Int : number = volume /\ cash = volume * T.price
  <2>1. volume \in Nat /\ T.price \in Nat
    BY SettleTypes, RequestAssumption, TermsType
  <2>2. PICK cash \in Int : cash = volume * T.price
    BY <2>1
  <2> QED  BY <2>1, <2>2
<1>5. PICK subscribed \in Int, pending \in Int, paid \in Int :
         /\ subscribed = e.subscribed + number /\ pending = e.pending + number
         /\ paid = e.subscriptionCash + cash
  BY DEF Entitlement
<1>6. PICK f : f = [e EXCEPT !.subscribed = subscribed, !.pending = pending,
                             !.subscriptionCash = paid]
  OBVIOUS
<1>7. /\ f.subscribed = subscribed /\ f.pending = pending /\ f.credited = e.credited
      /\ f.shares = e.shares /\ f.quantity = e.quantity
  BY <1>6 DEF Entitlement
<1>8. entitlements' = [entitlements EXCEPT ![r] = f]
  <2>1. f = [e EXCEPT !.subscribed = @ + volume, !.pending = @ + volume,
                      !.subscriptionCash = @ + volume * T.price]
    BY <1>4, <1>5, <1>6 DEF Entitlement
  <2> QED  BY <1>e, <2>1 DEF Subscribe
<1>9. account'.receivable = account.receivable
  BY SettleTypes DEF Subscribe, Account
<1>10. PICK l : /\ ledger' = ledger \cup {l}
                /\ l.revision = r /\ l.entry = "RIGHTS_SUBSCRIBED"
  <2>1. PICK l : l = LedgerFact(r, "RIGHTS_SUBSCRIBED", request, -(volume * T.price), 0, 0)
    OBVIOUS
  <2>2. ledger' = ledger \cup {l}
    BY <2>1 DEF Subscribe
  <2> QED  BY <2>1, <2>2 DEF LedgerFact
<1>11. /\ c.account.receivable = b.account.receivable /\ c.ledger = b.ledger \cup {l}
       /\ c.actions = b.actions /\ c.entitlements[r] = f
       /\ \A q \in Revisions \ {r} : c.entitlements[q] = b.entitlements[q]
  <2>1. entitlements \in [Revisions -> Entitlement]
    BY SettleTypes
  <2> QED  BY <1>1, <1>3, <1>8, <1>9, <1>10, <2>1 DEF Books
<1>12. PICK n \in {0, 6} : n = IF phase = "posting" THEN 6 ELSE 0
  OBVIOUS
<1>13. Deliveries(b, day, n) /\ Entitled(b, r)
  BY <1>3, <1>12 DEF DeliverInv, Subscribe
<1>14. RightsGiven(b, r, day, n) /\ (b.actions[r] = "COMPLETED" => Ended(b, r, day))
  BY <1>1, <1>13 DEF Deliveries, GivenTo, Given
<1>15. b.actions[r] # "COMPLETED"
  BY <1>1, <1>2, <1>d, <1>14 DEF Ended
<1>16. ~Passed(listing, day, 5, n)
  BY <1>d DEF Passed
<1>17. ~Shipped(c, r)
  <2>1. ~Shipped(b, r)
    BY <1>2, <1>d, <1>14 DEF RightsGiven
  <2> QED  BY <1>10, <1>11, <2>1 DEF Shipped, Posted
<1>18. RightsGiven(c, r, day, n)
  <2>1. /\ e.credited + e.pending = e.subscribed /\ e.credited >= 0 /\ e.pending >= 0
        /\ b.account.receivable = 0
    BY <1>e, <1>14 DEF RightsGiven
  <2>2. number <= e.shares - e.subscribed
    BY <1>4, <1>e DEF Subscribe
  <2>3. /\ e.credited \in Int /\ e.pending \in Int /\ e.subscribed \in Int /\ e.shares \in Int
    BY DEF Entitlement
  <2>4. /\ f.credited + f.pending = f.subscribed /\ f.subscribed <= f.shares
        /\ f.credited >= 0 /\ f.pending >= 0
    BY <1>5, <1>7, <2>1, <2>2, <2>3
  <2> QED  BY <1>2, <1>11, <1>16, <1>17, <2>1, <2>4 DEF RightsGiven
<1>19. Entitled(c, r) /\ GivenTo(c, r, day, n)
  BY <1>1, <1>e, <1>7, <1>11, <1>13, <1>15, <1>18 DEF Entitled, GivenTo, Given
<1>20. Deliveries(c, day, n)
  <2>1. ASSUME NEW q \in Revisions \ {r}
        PROVE  ~Entitled(c, q) /\ c.entitlements[q] = NoEntitlement
    <3>1. ~Entitled(b, q)
      BY <1>3, <1>13 DEF OneIsLive, LiveStatuses
    <3> QED  BY <1>11, <1>13, <3>1 DEF Deliveries, Entitled
  <2> QED  BY <1>19, <2>1 DEF Deliveries
<1>21. NothingToFinish(c)
  <2>1. ~(day > Dates.subscriptionEnd)
    BY <1>2, <1>d
  <2> QED  BY <1>1, <2>1 DEF NothingToFinish, Finished
<1>22. /\ product' = product /\ schedule' = schedule /\ schedule \in Schedules[product.kind]
       /\ c = Books'
       /\ Deliveries(c, day', IF phase' = "posting" THEN 6 ELSE 0)
       /\ phase' = "posting" => day' = day /\ NothingToFinish(c)
       /\ day' > LastDay => \A q \in Revisions : Entitled(c, q) => c.actions[q] = "COMPLETED"
  BY <1>1, <1>3, <1>d, <1>12, <1>20, <1>21 DEF DeliverInv
<1> QED  BY ONLY <1>22, DeliverNext

LEMMA DeliverInit == Init => DeliverInv
<1> SUFFICES ASSUME Init PROVE DeliverInv
  OBVIOUS
<1>1. /\ schedule \in Schedules[product.kind] /\ phase = "trading" /\ day = 1
      /\ account.receivable = 0
      /\ \A r \in Revisions : entitlements[r] = NoEntitlement
  BY DEF Init
<1>2. NoEntitlement.quantity = 0
  BY DEF NoEntitlement
<1>3. \A r \in Revisions : ~Entitled(Books, r) /\ Books.entitlements[r] = NoEntitlement
  BY <1>1, <1>2 DEF Entitled, Books
<1>4. Deliveries(Books, day, 0)
  BY <1>1, <1>3 DEF Deliveries, Books
<1>5. EveryActionCompletes
  BY <1>3 DEF EveryActionCompletes
<1> QED  BY <1>1, <1>4, <1>5 DEF DeliverInv

LEMMA DeliverStep ==
    ASSUME SchedulesInOrder
    PROVE  CashInv /\ SettleInv /\ DeliverInv /\ [Next]_vars => DeliverInv'
<1> SUFFICES ASSUME CashInv, SettleInv, DeliverInv, [Next]_vars PROVE DeliverInv'
  OBVIOUS
<1>1. CASE \/ \E o \in Orders, direction \in {"BUY", "SELL"}, limit \in LimitPrices,
                 volume \in Volumes : Submit(o, direction, limit, volume)
           \/ \E o \in Orders : Cancel(o)
           \/ \E o \in Orders, t \in Ticks : DeliverTick(o, t)
           \/ Barrier \/ Repeat \/ UNCHANGED vars
  BY ONLY <1>1, SchedulesInOrder, CashInv, DeliverInv, OrdersDeliver
<1>2. CASE \E r \in Revisions : Import(r) \/ Confirm(r)
  BY <1>2, ImportDelivers, ConfirmDelivers
<1>3. CASE \E r \in Revisions, request \in SubscriptionIds, volume \in Volumes :
              Subscribe(r, request, volume)
  BY <1>3, SubscribeDelivers
<1>4. CASE RunDueActions
  BY <1>4, RunDueActionsDelivers
<1>5. CASE Post
  BY <1>5, PostDelivers
<1> QED  BY <1>1, <1>2, <1>3, <1>4, <1>5 DEF Next

LEMMA DeliverSuffices ==
    ASSUME SchedulesInOrder
    PROVE  CashInv /\ SettleInv /\ DeliverInv => DeliveredOnce /\ EveryActionCompletes
<1> SUFFICES ASSUME CashInv, SettleInv, DeliverInv PROVE DeliveredOnce
  BY DEF DeliverInv
<1>1. PICK n \in {0, 6} : n = IF phase = "posting" THEN 6 ELSE 0
  OBVIOUS
<1>2. PICK b \in BooksType : b = Books /\ OneIsLive(b) /\ PendingHolds(b) /\ Deliveries(b, day, n)
  BY <1>1 DEF CashInv, BooksInv, SettleInv, DeliverInv
<1>k. product.kind \in Kinds
  BY SettleTypes, KindsAreKnown
<1>3. b.account = account /\ b.entitlements = entitlements /\ b.actions = actions
  BY <1>2 DEF Books
<1>o. OnSchedule
  BY DatesInOrder
<1>4. WholeShares => account.receivable >= 0
  <2>1. CASE \A r \in Revisions : ~Entitled(b, r)
    BY <1>2, <1>3, <2>1 DEF Deliveries
  <2>2. CASE \E r \in Revisions : Entitled(b, r)
    <3>1. PICK r \in Revisions : Entitled(b, r)
      BY <2>2
    <3>2. Given(b, r, day, n)
      BY <1>2, <3>1 DEF Deliveries, GivenTo
    <3>3. CASE product.kind = "STOCK_DIVIDEND"
      BY <1>3, <3>2, <3>3 DEF Given, DividendGiven
    <3>4. CASE product.kind = "RIGHTS_ISSUE"
      BY <1>3, <3>2, <3>4 DEF Given, RightsGiven
    <3>5. CASE product.kind \notin {"STOCK_DIVIDEND", "RIGHTS_ISSUE"}
      <4>1. CashGiven(b, r, day, n)
        BY <3>2, <3>5 DEF Given
      <4> QED  BY <1>3, <4>1 DEF CashGiven, AmountOf
    <3> QED  BY <3>3, <3>4, <3>5
  <2> QED  BY <2>1, <2>2
<1>5. ASSUME NEW r \in Revisions
      PROVE  /\ entitlements[r].credited + entitlements[r].pending
                   <= Larger(entitlements[r].shares, 0)
             /\ actions[r] = "COMPLETED" =>
                   /\ entitlements[r].pending = 0
                   /\ product.kind = "STOCK_DIVIDEND" =>
                         entitlements[r].credited = entitlements[r].shares
                   /\ product.kind = "RIGHTS_ISSUE" =>
                         entitlements[r].credited = entitlements[r].subscribed
  <2>1. PICK e \in Entitlement : e = b.entitlements[r] /\ e = entitlements[r] /\ e.shares >= 0
    BY <1>2, <1>3 DEF BooksType, PendingHolds, PartOf
  <2>2. /\ e.credited \in Int /\ e.pending \in Int /\ e.shares \in Int /\ e.subscribed \in Int
    BY DEF Entitlement
  <2>3. Larger(e.shares, 0) = e.shares
    BY <2>1, <2>2 DEF Larger
  <2>4. CASE ~Entitled(b, r)
    <3>1. e = NoEntitlement
      BY <1>2, <2>1, <2>4 DEF Deliveries
    <3>2. e.credited = 0 /\ e.pending = 0 /\ e.shares = 0 /\ e.subscribed = 0
      BY <3>1 DEF NoEntitlement
    <3> QED  BY <2>1, <2>3, <3>2
  <2>5. CASE Entitled(b, r)
    <3>1. Given(b, r, day, n) /\ (b.actions[r] = "COMPLETED" => Ended(b, r, day))
      BY <1>2, <2>5 DEF Deliveries, GivenTo
    <3>2. CASE product.kind = "STOCK_DIVIDEND"
      <4>1. /\ e.credited + e.pending = IF Claimed(b, r) THEN e.shares ELSE 0
            /\ b.actions[r] = "COMPLETED" => e.pending = 0 /\ Claimed(b, r)
        BY <2>1, <3>1, <3>2 DEF Given, DividendGiven, Ended
      <4>2. e.credited + e.pending <= e.shares
        BY <2>1, <2>2, <4>1
      <4>3. b.actions[r] = "COMPLETED" => e.pending = 0 /\ e.credited = e.shares
        BY <2>2, <4>1
      <4> QED  BY <1>3, <2>1, <2>3, <3>2, <4>2, <4>3
    <3>3. CASE product.kind = "RIGHTS_ISSUE"
      <4>1. /\ e.credited + e.pending = e.subscribed /\ e.subscribed <= e.shares
            /\ b.actions[r] = "COMPLETED" => e.pending = 0
        BY <2>1, <3>1, <3>3 DEF Given, RightsGiven, Ended
      <4>2. /\ e.credited + e.pending <= e.shares
            /\ b.actions[r] = "COMPLETED" => e.pending = 0 /\ e.credited = e.subscribed
        BY <2>2, <4>1
      <4> QED  BY <1>3, <2>1, <2>3, <3>3, <4>2
    <3>4. CASE product.kind \notin {"STOCK_DIVIDEND", "RIGHTS_ISSUE"}
      <4>1. e.credited = 0 /\ e.pending = 0
        BY <2>1, <3>1, <3>4 DEF Given, CashGiven
      <4> QED  BY <2>1, <2>3, <3>4, <4>1
    <3> QED  BY <3>2, <3>3, <3>4
  <2> QED  BY <2>4, <2>5
<1> QED  BY <1>4, <1>5 DEF DeliveredOnce

\* Of all revisions of an action, however they are imported and confirmed, one takes
\* effect at most; and if the payment and the listing are not announced for days before
\* those they follow from, what it owes is delivered once and to the end, whatever is
\* traded, subscribed or repeated meanwhile (run_due_actions, _maybe_mark_completed).
THEOREM ActionsAlwaysTakeEffectOnce ==
    ASSUME SchedulesInOrder PROVE Spec => []ActionsTakeEffectOnce
<1> DEFINE I == CashInv /\ ReplayInv /\ SettleInv /\ DeliverInv
<1>1. Init => I
  BY CashInit, ReplayInit, SettleInit, DeliverInit
<1>2. I /\ [Next]_vars => I'
  BY CashStep, ReplayStep, SettleStep, DeliverStep
<1>3. I => DeliveredOnce /\ EveryActionCompletes
  BY DeliverSuffices
<1>4. Spec => []OneRevisionExecutes
  BY OneRevisionEverExecutes
<1> HIDE DEF I
<1>5. DeliveredOnce /\ EveryActionCompletes /\ OneRevisionExecutes => ActionsTakeEffectOnce
  BY DEF ActionsTakeEffectOnce
<1> QED  BY <1>1, <1>2, <1>3, <1>4, <1>5, PTL DEF Spec

=============================================================================
