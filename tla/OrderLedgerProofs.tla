-------------------------- MODULE OrderLedgerProofs --------------------------
(***************************************************************************)
(* Theorems about orders: the ledger of their money and lots, for every    *)
(* set of clients, requests, ticks and rates, on both sides; and, at the   *)
(* end, the index of those that are active, for any number of orders,      *)
(* contracts and consumers, slow ones included, with rebuilds, failures    *)
(* and crashes at any time.                                                *)
(*                                                                         *)
(* Two facts about the index survive them all: the contract of an indexed  *)
(* order is subscribed to, which every script keeps for itself, and only   *)
(* an order that has ended leaves the index, which rests on what a         *)
(* consumer or a rebuild still knows between reading a row and acting: a   *)
(* row that has been seen ended stays ended.  A third needs a single       *)
(* consumer, as deployed, and no rebuild: with nothing under way for an    *)
(* order, the index shows it as its row is, because an order whose row has *)
(* changed has news that is not yet read: an event to be published, or a   *)
(* message to be delivered (again) or left as dead letter.                 *)
(***************************************************************************)
EXTENDS OrderLedgerRefinement, ActiveOrderIndex, Sums, SequenceTheorems

-----------------------------------------------------------------------------
(* Arithmetic.                                                             *)

LEMMA TotalType == ASSUME NEW f PROVE Total(f) \in Int
<1> DEFINE sum == SumFunctionOnSet(f, DOMAIN f)
<1>1. Total(f) = IF sum \in Int THEN sum ELSE 0
  BY Zenon DEF Total
<1> HIDE DEF sum
<1> QED BY <1>1

LEMMA RoundedQuotientType ==
    ASSUME NEW num \in Int, NEW den \in Int
    PROVE  RoundedQuotient(num, den) \in Int
BY DEF RoundedQuotient

\* Half-up rounding of a proper part never exceeds the whole amount.
LEMMA RoundedPart ==
    ASSUME NEW amount \in Nat, NEW part \in Nat, NEW whole \in Nat, part < whole
    PROVE  RoundedQuotient(amount * part, whole) \in 0 .. amount
<1> DEFINE x == 2 * (amount * part) + whole
           y == 2 * whole
           q == x \div y
<1>1. whole > 0 /\ y > 0 /\ amount * part \in Nat /\ x \in Nat /\ y \in Nat
  OBVIOUS
<1>2. RoundedQuotient(amount * part, whole) = q
  BY <1>1 DEF RoundedQuotient
<1>3. q \in Int /\ y * q <= x /\ x < y * q + y
  BY <1>1
<1>4. q >= 0
  BY <1>1
<1>5. amount * part <= amount * (whole - 1)
  OBVIOUS
<1>6. x < y * (amount + 1)
  <2>1. x <= 2 * (amount * (whole - 1)) + whole
    BY <1>5, <1>1
  <2>2. 2 * (amount * (whole - 1)) + whole = 2 * (amount * whole) - 2 * amount + whole
    OBVIOUS
  <2>3. y * (amount + 1) = 2 * (amount * whole) + 2 * whole
    OBVIOUS
  <2> QED BY <2>1, <2>2, <2>3, <1>1
<1>7. q <= amount
  <2>1. SUFFICES ASSUME q >= amount + 1 PROVE FALSE
    BY <1>3
  <2>2. y * q >= y * (amount + 1)
    BY <2>1, <1>1, <1>3
  <2> QED BY <2>2, <1>3, <1>6
<1> QED BY <1>2, <1>3, <1>4, <1>7

LEMMA PartOfType ==
    ASSUME NEW amount \in Int, NEW part \in Int, NEW whole \in Int
    PROVE  PartOf(amount, part, whole) \in Int
<1>1. amount * part \in Int OBVIOUS
<1> QED BY <1>1, RoundedQuotientType DEF PartOf

\* A fill of part of an order takes part of its reserve; the last takes it all.
LEMMA PartOfBounded ==
    ASSUME NEW amount \in Nat, NEW whole \in Nat \ {0}, NEW part \in 1 .. whole
    PROVE  /\ PartOf(amount, part, whole) \in 0 .. amount
           /\ part = whole => PartOf(amount, part, whole) = amount
BY RoundedPart DEF PartOf

LEMMA CommissionType ==
    ASSUME NEW flag \in OffsetFlags, NEW price \in Int, NEW volume \in Int
    PROVE  Commission(flag, price, volume) \in Int
<1>1. FeeRate[flag] \in Int /\ Scale \in Int
  BY RateAssumption
<1>2. price * volume * FeeRate[flag] \in Int
  BY <1>1
<1> QED BY <1>1, <1>2, RoundedQuotientType DEF Commission

LEMMA OpenMarginType ==
    ASSUME NEW price \in Nat, NEW volume \in Nat
    PROVE  OpenMargin(price, volume) \in Nat
<1>1. price * volume * MarginRate \in Nat /\ Scale \in Nat \ {0}
  BY RateAssumption
<1>2. \A num \in Nat, den \in Nat \ {0} : RoundedQuotient(num, den) \in Nat
  BY DEF RoundedQuotient
<1> QED BY <1>1, <1>2 DEF OpenMargin

LEMMA AtType ==
    ASSUME NEW f, NEW x, \A y \in DOMAIN f : f[y] \in Int
    PROVE  At(f, x) \in Int
BY DEF At

LEMMA FifoSplitType ==
    ASSUME NEW capacity, NEW volume \in Int,
           \A d \in DOMAIN capacity : capacity[d] \in Int
    PROVE  /\ DOMAIN FifoSplit(capacity, volume) = DOMAIN capacity
           /\ \A d \in DOMAIN capacity : FifoSplit(capacity, volume)[d] \in Int
BY TotalType DEF FifoSplit, Smaller

LEMMA BucketSharesType ==
    ASSUME NEW price \in Int, NEW lots
    PROVE  /\ DOMAIN BucketShares(price, lots) = DOMAIN lots
           /\ \A d \in DOMAIN lots : BucketShares(price, lots)[d] \in Int
<1> DEFINE Volume(D)  == Total([d \in D |-> lots[d]])
           Bucket(d)  == {e \in DOMAIN lots : ResolvedFlag(e) = ResolvedFlag(d)}
           Before(d)  == {e \in Bucket(d) : Precedes(e, d)}
           Fee(d)     == Commission(ResolvedFlag(d), price, Volume(Bucket(d)))
           UpTo(d, D) == RoundedQuotient(Fee(d) * Volume(D), Volume(Bucket(d)))
<1>1. \A D : Volume(D) \in Int
  BY TotalType
<1>2. \A d : Fee(d) \in Int
  <2>1. \A d : ResolvedFlag(d) \in OffsetFlags
    BY DEF ResolvedFlag, OffsetFlags
  <2> QED BY <2>1, <1>1, CommissionType
<1> HIDE DEF Volume, Fee
<1>3. \A d, D : UpTo(d, D) \in Int
  <2>1. \A d, D : Fee(d) * Volume(D) \in Int
    BY <1>1, <1>2
  <2> QED BY <2>1, <1>1, RoundedQuotientType
<1>4. BucketShares(price, lots) =
        [d \in DOMAIN lots |-> UpTo(d, Before(d) \cup {d}) - UpTo(d, Before(d))]
  BY DEF BucketShares, Volume, Fee
<1> HIDE DEF UpTo, Before
<1> QED BY <1>3, <1>4

-----------------------------------------------------------------------------
(* Every step keeps the types.  What a fold over lots returns is known to  *)
(* be an integer, and that is all the money columns need.                  *)

LEMMA DetailRows ==
    ASSUME details \in Seq(Detail), NEW f, f \in [DOMAIN details -> Detail]
    PROVE  f \in Seq(Detail) /\ DOMAIN f = DOMAIN details
<1>1. Len(details) \in Nat /\ DOMAIN details = 1 .. Len(details)
  BY LenProperties
<1>2. f \in [1 .. Len(details) -> Detail]
  BY <1>1
<1> QED BY <1>1, <1>2, SeqDef

LEMMA HeldType ==
    ASSUME TypeOK, NEW o \in ClientIds
    PROVE  /\ DOMAIN Held(o) = DOMAIN allocations[o]
           /\ DOMAIN HeldCommission(o) = DOMAIN allocations[o]
           /\ \A d \in DOMAIN Held(o) : Held(o)[d] \in Int
           /\ \A d \in DOMAIN HeldCommission(o) : HeldCommission(o)[d] \in Int
<1>1. \A d \in DOMAIN allocations[o] : allocations[o][d] \in Allocation
  BY DEF TypeOK
<1> QED BY <1>1 DEF Held, HeldCommission, Allocation

LEMMA RequestType ==
    ASSUME NEW r \in Requests
    PROVE  r.offset \in OffsetFlags /\ r.limit \in Nat \ {0} /\ r.volume \in Nat \ {0}
BY RequestsAssumption

LEMMA RiskAvailableType == ASSUME TypeOK PROVE RiskAvailable \in Int
BY DEF TypeOK, Account, RiskAvailable

LEMMA FillVolumeType ==
    ASSUME TypeOK, NEW m \in commands, orders[m.order].remaining > 0
    PROVE  /\ m.order \in ClientIds /\ m.tick \in Ticks
           /\ orders[m.order] \in Order
           /\ FillVolume(m) \in 1 .. orders[m.order].remaining
<1>1. m.order \in ClientIds /\ m.tick \in Ticks /\ m.volume \in Nat \ {0}
  BY DEF TypeOK
<1>2. orders[m.order] \in Order
  BY <1>1 DEF TypeOK
<1> QED BY <1>1, <1>2 DEF FillVolume, Smaller, Order

LEMMA PriceType ==
    ASSUME NEW o, NEW t \in Ticks PROVE FillPrice(o, t) \in Nat
BY QuoteAssumption DEF FillPrice

LEMMA TypeInit == Init => TypeOK
<1> SUFFICES ASSUME Init PROVE TypeOK
  OBVIOUS
<1> DEFINE margin == Total([d \in DOMAIN OpeningDetails |-> OpeningDetails[d].margin])
<1>1. margin \in Int
  BY TotalType
<1> HIDE DEF margin
<1>2. TotalOf(OpeningDetails, IsYesterday) \in Int
  BY TotalType DEF TotalOf
<1>3. orders \in [ClientIds -> Order]
  BY DEF Init, Order, NoOrder, Statuses, OffsetFlags
<1>4. account \in Account
  BY <1>1, OpeningAssumption DEF Init, Account, margin
<1>5. position \in Position
  BY <1>1, <1>2 DEF Init, Position, margin
<1>6. /\ DOMAIN allocations = ClientIds
      /\ \A c \in ClientIds :
            allocations[c] \in [DOMAIN allocations[c] -> Allocation]
            /\ DOMAIN allocations[c] \subseteq DOMAIN details
  BY DEF Init
<1> QED BY <1>3, <1>4, <1>5, <1>6, OpeningAssumption DEF Init, TypeOK

\* Rows stay rows when these columns are assigned integers.
LEMMA ReserveColumns ==
    ASSUME account \in Account,
           NEW available \in Int, NEW risk \in Int, NEW margin \in Int, NEW fee \in Int
    PROVE  /\ [account EXCEPT !.available = available, !.riskAvailable = risk,
                               !.frozenMargin = margin, !.frozenCommission = fee]
                  \in Account
           /\ [account EXCEPT !.available = available, !.riskAvailable = risk,
                               !.frozenCommission = fee] \in Account
BY DEF Account

LEMMA FillColumns ==
    ASSUME account \in Account,
           NEW cash \in Int, NEW available \in Int, NEW frozen \in Int, NEW used \in Int,
           NEW fee \in Int, NEW paid \in Int, NEW pnl \in Int
    PROVE  /\ [account EXCEPT !.cash = cash, !.available = available,
                               !.frozenMargin = frozen, !.usedMargin = used,
                               !.frozenCommission = fee, !.usedCommission = paid]
                  \in Account
           /\ [account EXCEPT !.cash = cash, !.available = available,
                               !.usedMargin = used, !.frozenCommission = fee,
                               !.usedCommission = paid, !.closePnl = pnl] \in Account
BY DEF Account

LEMMA DetailColumns ==
    ASSUME NEW row \in Detail, NEW left \in Int, NEW frozen \in Int, NEW margin \in Int
    PROVE  /\ [row EXCEPT !.frozen = frozen] \in Detail
           /\ [row EXCEPT !.remaining = left, !.frozen = frozen, !.margin = margin]
                 \in Detail
BY DEF Detail

LEMMA AllocationColumns ==
    ASSUME NEW row \in Allocation, NEW left \in Int, NEW out \in Int, NEW fee \in Int
    PROVE  /\ [row EXCEPT !.remaining = left, !.consumed = out, !.commission = fee]
                 \in Allocation
           /\ [row EXCEPT !.released = out, !.remaining = left, !.commission = fee]
                 \in Allocation
BY DEF Allocation

LEMMA PositionColumns ==
    ASSUME position \in Position,
           NEW lots \in Int, NEW today \in Int, NEW margin \in Int, NEW frozen \in Int
    PROVE  /\ [position EXCEPT !.frozen = frozen] \in Position
           /\ [position EXCEPT !.total = lots, !.today = today, !.usedMargin = margin]
                 \in Position
BY DEF Position

LEMMA NewOrderType ==
    ASSUME NEW r \in Requests, NEW margin \in Int, NEW commission \in Int, NEW lots \in Int
    PROVE  NewOrder(r, margin, commission, lots) \in Order
<1>1. NoOrder \in Order
  BY DEF NoOrder, Order, Statuses, OffsetFlags
<1>2. ASSUME NEW row \in Order, NEW status \in Statuses, NEW offset \in OffsetFlags,
             NEW limit \in Nat, NEW total \in Nat
      PROVE  [row EXCEPT !.status = status, !.offset = offset, !.limit = limit,
                         !.total = total, !.remaining = total, !.frozenMargin = margin,
                         !.frozenCommission = commission, !.frozenPosition = lots]
                \in Order
  BY DEF Order
<1>3. "ACCEPTED" \in Statuses
  BY DEF Statuses, ActiveStatuses
<1> QED BY <1>1, <1>2, <1>3, RequestType DEF NewOrder

LEMMA FilledType ==
    ASSUME NEW order \in Order, NEW volume \in 1 .. order.remaining,
           NEW margin \in Int, NEW commission \in Int, NEW lots \in Int
    PROVE  Filled(order, volume, margin, commission, lots) \in Order
<1>1. ASSUME NEW status \in Statuses, NEW traded \in Nat, NEW remaining \in Nat,
             NEW x \in Int, NEW y \in Int, NEW z \in Int
      PROVE  [order EXCEPT !.traded = traded, !.remaining = remaining, !.status = status,
                           !.frozenMargin = x, !.frozenCommission = y,
                           !.frozenPosition = z] \in Order
  BY DEF Order
<1>2. /\ order.traded + volume \in Nat /\ order.remaining - volume \in Nat
      /\ order.frozenMargin - margin \in Int
      /\ order.frozenCommission - commission \in Int
      /\ order.frozenPosition - lots \in Int
  BY DEF Order
<1>3. (IF order.remaining = volume THEN "FILLED" ELSE "PARTIALLY_FILLED") \in Statuses
  BY DEF Statuses, ActiveStatuses, TerminalStatuses
<1> QED BY <1>1, <1>2, <1>3 DEF Filled

LEMMA CancelledType ==
    ASSUME NEW order \in Order PROVE Cancelled(order) \in Order
<1> DEFINE status == IF order.traded = 0 THEN "CANCELLED" ELSE "PARTIALLY_CANCELLED"
<1>1. ASSUME NEW final \in Statuses, NEW cancelled \in Nat
      PROVE  [order EXCEPT !.cancelled = cancelled, !.remaining = 0, !.frozenMargin = 0,
                           !.frozenCommission = 0, !.frozenPosition = 0,
                           !.status = final] \in Order
  <2>1. ASSUME NEW left \in Nat, NEW x \in Int, NEW y \in Int, NEW z \in Int
        PROVE  [order EXCEPT !.cancelled = cancelled, !.remaining = left,
                             !.frozenMargin = x, !.frozenCommission = y,
                             !.frozenPosition = z, !.status = final] \in Order
    BY DEF Order
  <2>2. 0 \in Nat /\ 0 \in Int
    OBVIOUS
  <2> QED BY <2>1, <2>2, Zenon
<1>2. order.cancelled + order.remaining \in Nat
  BY DEF Order
<1>3. status \in Statuses
  BY DEF Statuses, CancelledStatuses, TerminalStatuses
<1>4. Cancelled(order) =
        [order EXCEPT !.cancelled = @ + order.remaining, !.remaining = 0,
                      !.frozenMargin = 0, !.frozenCommission = 0,
                      !.frozenPosition = 0, !.status = status]
  BY DEF Cancelled
<1> HIDE DEF status
<1> QED BY <1>1, <1>2, <1>3, <1>4

LEMMA TypeAcceptOpen ==
    ASSUME TypeOK, NEW c \in ClientIds, NEW r \in Requests, r.offset = "OPEN",
           AcceptOpen(c, r), UNCHANGED commands, submissions' \subseteq submissions
    PROVE  TypeOK'
<1>1. r.limit \in Nat /\ r.volume \in Nat
  BY RequestType
<1> DEFINE margin == OpenMargin(r.limit, r.volume)
           commission == Commission("OPEN", r.limit, r.volume)
<1>2. margin \in Int /\ commission \in Int
  <2>1. "OPEN" \in OffsetFlags
    BY DEF OffsetFlags
  <2>2. margin \in Nat
    BY <1>1, OpenMarginType
  <2>3. commission \in Int
    <3> r.limit \in Int /\ r.volume \in Int
      BY <1>1
    <3> QED BY <2>1, CommissionType
  <2> QED BY <2>2, <2>3
<1> HIDE DEF margin, commission
<1>3. account' \in Account
  <2>1. /\ account \in Account
        /\ account' = [account EXCEPT
                          !.available        = @ - (margin + commission),
                          !.riskAvailable    = RiskAvailable - (margin + commission),
                          !.frozenMargin     = @ + margin,
                          !.frozenCommission = @ + commission]
    BY DEF AcceptOpen, TypeOK, margin, commission
  <2>2. /\ account.available - (margin + commission) \in Int
        /\ RiskAvailable - (margin + commission) \in Int
        /\ account.frozenMargin + margin \in Int
        /\ account.frozenCommission + commission \in Int
    BY <1>2, <2>1, RiskAvailableType DEF Account
  <2> QED BY <2>1, <2>2, ReserveColumns
<1>4. NewOrder(r, margin, commission, 0) \in Order
  BY <1>2, NewOrderType
<1>5. orders' \in [ClientIds -> Order]
  BY <1>4 DEF AcceptOpen, TypeOK, margin, commission
<1> QED BY <1>3, <1>5 DEF AcceptOpen, TypeOK

LEMMA TypeAcceptClose ==
    ASSUME TypeOK, NEW c \in ClientIds, NEW r \in Requests,
           AcceptClose(c, r), UNCHANGED commands, submissions' \subseteq submissions
    PROVE  TypeOK'
<1>1. r.limit \in Nat /\ r.volume \in Nat
  BY RequestType
<1> DEFINE plan == ClosePlan(r)
           shares == BucketShares(r.limit, plan)
           commission == Total(shares)
<1>2. commission \in Int
  BY TotalType
<1>3. DOMAIN plan \subseteq DOMAIN details /\ \A d \in DOMAIN plan : plan[d] \in Int
  <2>1. \A d \in DOMAIN FreeLots(r) : d \in DOMAIN details /\ FreeLots(r)[d] \in Int
    <3>1. \A d \in DOMAIN details : details[d] \in Detail
      BY ElementOfSeq, LenProperties DEF TypeOK
    <3> QED BY <3>1 DEF FreeLots, Candidates, Free, Detail
  <2>2. /\ DOMAIN FifoSplit(FreeLots(r), r.volume) = DOMAIN FreeLots(r)
        /\ \A d \in DOMAIN FreeLots(r) : FifoSplit(FreeLots(r), r.volume)[d] \in Int
    BY <2>1, <1>1, FifoSplitType
  <2> QED BY <2>1, <2>2 DEF ClosePlan
<1>4. DOMAIN shares = DOMAIN plan /\ \A d \in DOMAIN plan : shares[d] \in Int
  BY <1>1, BucketSharesType
<1> HIDE DEF plan, shares, commission
<1>5. account' \in Account
  <2>1. /\ account \in Account
        /\ account' = [account EXCEPT !.available        = @ - commission,
                                      !.riskAvailable    = @ - commission,
                                      !.frozenCommission = @ + commission]
    BY DEF AcceptClose, TypeOK, plan, shares, commission
  <2>2. /\ account.available - commission \in Int
        /\ account.riskAvailable - commission \in Int
        /\ account.frozenCommission + commission \in Int
    BY <1>2, <2>1 DEF Account
  <2> QED BY <2>1, <2>2, ReserveColumns
<1>6. orders' \in [ClientIds -> Order]
  <2>1. NewOrder(r, 0, commission, r.volume) \in Order
    BY <1>1, <1>2, NewOrderType
  <2> QED BY <2>1 DEF AcceptClose, TypeOK, plan, shares, commission
<1>7. position' \in Position
  <2>1. position \in Position /\ position' = [position EXCEPT !.frozen = @ + r.volume]
    BY DEF AcceptClose, TypeOK
  <2>2. position.frozen + r.volume \in Int
    BY <1>1, <2>1 DEF Position
  <2> QED BY <2>1, <2>2, PositionColumns
<1>8. details' \in Seq(Detail) /\ DOMAIN details' = DOMAIN details
  <2>1. details' = [d \in DOMAIN details |->
                       [details[d] EXCEPT !.frozen = @ + At(plan, d)]]
    BY DEF AcceptClose, plan
  <2>2. \A d \in DOMAIN details : details[d] \in Detail /\ At(plan, d) \in Int
    BY <1>3, AtType, ElementOfSeq, LenProperties DEF TypeOK
  <2>3. \A d \in DOMAIN details : details[d].frozen + At(plan, d) \in Int
    BY <2>2 DEF Detail
  <2>4. details' \in [DOMAIN details -> Detail]
    BY <2>1, <2>2, <2>3, DetailColumns
  <2> QED BY <2>4, DetailRows DEF TypeOK
<1>9. /\ DOMAIN allocations' = ClientIds
      /\ \A d \in ClientIds :
            allocations'[d] \in [DOMAIN allocations'[d] -> Allocation]
            /\ DOMAIN allocations'[d] \subseteq DOMAIN details'
  <2> DEFINE entries == [d \in DOMAIN plan |->
                         [original |-> plan[d], remaining |-> plan[d],
                          consumed |-> 0, released |-> 0, commission |-> shares[d]]]
  <2>1. allocations' = [allocations EXCEPT ![c] = entries]
    BY DEF AcceptClose, plan, shares
  <2>2. entries \in [DOMAIN plan -> Allocation]
    BY <1>3, <1>4 DEF Allocation
  <2> HIDE DEF entries
  <2> QED BY <2>1, <2>2, <1>3, <1>8 DEF TypeOK
<1> QED BY <1>5, <1>6, <1>7, <1>8, <1>9 DEF AcceptClose, TypeOK

LEMMA TypeSettleOpen ==
    ASSUME TypeOK, NEW m \in commands, orders[m.order].remaining > 0,
           SettleOpen(m), commands' \subseteq commands, UNCHANGED submissions
    PROVE  TypeOK'
<1> DEFINE o == m.order
           volume == FillVolume(m)
           price == FillPrice(o, m.tick)
           margin == PartOf(orders[o].frozenMargin, volume, orders[o].remaining)
           released == PartOf(orders[o].frozenCommission, volume, orders[o].remaining)
           commission == Commission("OPEN", price, volume)
<1>1. /\ o \in ClientIds /\ m.tick \in Ticks /\ orders[o] \in Order
      /\ volume \in 1 .. orders[o].remaining
  BY FillVolumeType
<1>2. price \in Nat
  BY <1>1, PriceType
<1>3. margin \in Int /\ released \in Int
  <2>1. /\ orders[o].frozenMargin \in Int /\ orders[o].frozenCommission \in Int
        /\ orders[o].remaining \in Int /\ volume \in Int
    BY <1>1 DEF Order
  <2> QED BY <2>1, PartOfType
<1>4. commission \in Int
  <2>1. "OPEN" \in OffsetFlags /\ volume \in Int /\ price \in Int
    BY <1>1, <1>2 DEF OffsetFlags, Order
  <2> QED BY <2>1, CommissionType
<1>5. /\ orders' = [orders EXCEPT ![o] = Filled(@, volume, margin, released, 0)]
      /\ account' = OpenFillAccount(margin, released, commission)
      /\ position' = [position EXCEPT !.total = @ + volume, !.today = @ + volume,
                                      !.usedMargin = @ + margin]
      /\ details' = Append(details,
                       [today |-> TRUE, price |-> price, base |-> price,
                        original |-> volume, remaining |-> volume,
                        frozen |-> 0, margin |-> margin])
      /\ trades' = trades \cup
            {[order |-> o, tick |-> m.tick, volume |-> volume, margin |-> margin,
              commission |-> commission, closePnl |-> 0]}
      /\ UNCHANGED allocations
  BY DEF SettleOpen
<1>v. volume \in Int
  BY <1>1 DEF Order
<1> HIDE DEF o, volume, price, margin, released, commission
<1>6. orders' \in [ClientIds -> Order]
  <2>1. Filled(orders[o], volume, margin, released, 0) \in Order
    BY <1>1, <1>3, FilledType
  <2> QED BY <2>1, <1>5 DEF TypeOK
<1>7. account' \in Account
  <2>1. account \in Account
    BY DEF TypeOK
  <2>2. /\ account.cash - commission \in Int
        /\ account.available + released - commission \in Int
        /\ account.frozenMargin - margin \in Int
        /\ account.usedMargin + margin \in Int
        /\ account.frozenCommission - released \in Int
        /\ account.usedCommission + commission \in Int
    BY <1>3, <1>4, <2>1 DEF Account
  <2> QED BY <1>5, <2>1, <2>2, FillColumns DEF OpenFillAccount
<1>8. position' \in Position
  <2>1. position \in Position
    BY DEF TypeOK
  <2>2. /\ position.total + volume \in Int /\ position.today + volume \in Int
        /\ position.usedMargin + margin \in Int
    BY <1>3, <1>v, <2>1 DEF Position
  <2> QED BY <1>5, <2>1, <2>2, PositionColumns
<1>9. details' \in Seq(Detail) /\ DOMAIN details \subseteq DOMAIN details'
  <2> DEFINE row == [today |-> TRUE, price |-> price, base |-> price,
                     original |-> volume, remaining |-> volume,
                     frozen |-> 0, margin |-> margin]
  <2>1. row \in Detail
    BY <1>2, <1>3, <1>v DEF Detail
  <2>2. details \in Seq(Detail) /\ details' = Append(details, row)
    BY <1>5 DEF TypeOK
  <2> HIDE DEF row
  <2>3. Len(details') = Len(details) + 1 /\ details' \in Seq(Detail)
    BY <2>1, <2>2, AppendProperties
  <2> QED BY <2>2, <2>3, LenProperties
<1>10. trades' \subseteq Trade
  BY <1>1, <1>3, <1>4, <1>5, <1>v DEF TypeOK, Trade
<1>11. /\ DOMAIN allocations' = ClientIds
       /\ \A d \in ClientIds :
             allocations'[d] \in [DOMAIN allocations'[d] -> Allocation]
             /\ DOMAIN allocations'[d] \subseteq DOMAIN details'
  BY <1>5, <1>9 DEF TypeOK
<1> QED BY <1>6, <1>7, <1>8, <1>9, <1>10, <1>11 DEF TypeOK

\* What a close fill takes and gives back are integers, allocation by allocation.
LEMMA CloseFillTypes ==
    ASSUME TypeOK, NEW o \in ClientIds, NEW volume \in Int
    PROVE  /\ DOMAIN Consumption(o, volume) = DOMAIN allocations[o]
           /\ DOMAIN ReleasedMargin(o, volume) = DOMAIN allocations[o]
           /\ DOMAIN ReleasedCommission(o, volume) = DOMAIN allocations[o]
           /\ \A d \in DOMAIN allocations[o] :
                 /\ Consumption(o, volume)[d] \in Int
                 /\ ReleasedMargin(o, volume)[d] \in Int
                 /\ ReleasedCommission(o, volume)[d] \in Int
<1> DEFINE taken == Consumption(o, volume)
<1>1. DOMAIN taken = DOMAIN allocations[o] /\ \A d \in DOMAIN taken : taken[d] \in Int
  BY HeldType, FifoSplitType DEF Consumption
<1>2. \A d \in DOMAIN allocations[o] :
         /\ d \in DOMAIN details /\ details[d] \in Detail
         /\ allocations[o][d] \in Allocation
  BY ElementOfSeq, LenProperties DEF TypeOK
<1> HIDE DEF taken
<1>3. \A d \in DOMAIN allocations[o] :
         /\ PartOf(details[d].margin, taken[d], details[d].remaining) \in Int
         /\ PartOf(allocations[o][d].commission, taken[d], allocations[o][d].remaining)
               \in Int
  <2> SUFFICES ASSUME NEW d \in DOMAIN allocations[o]
               PROVE  /\ PartOf(details[d].margin, taken[d], details[d].remaining) \in Int
                      /\ PartOf(allocations[o][d].commission, taken[d],
                                allocations[o][d].remaining) \in Int
    OBVIOUS
  <2>1. /\ details[d].margin \in Int /\ details[d].remaining \in Int
        /\ allocations[o][d].commission \in Int /\ allocations[o][d].remaining \in Int
        /\ taken[d] \in Int
    BY <1>1, <1>2 DEF Detail, Allocation
  <2> QED BY <2>1, PartOfType
<1>4. /\ ReleasedMargin(o, volume) =
            [d \in DOMAIN taken |->
                IF taken[d] = 0 THEN 0
                ELSE PartOf(details[d].margin, taken[d], details[d].remaining)]
      /\ ReleasedCommission(o, volume) =
            [d \in DOMAIN taken |->
                IF taken[d] = 0 THEN 0
                ELSE PartOf(allocations[o][d].commission, taken[d],
                            allocations[o][d].remaining)]
  BY DEF ReleasedMargin, ReleasedCommission, taken
<1>5. 0 \in Int
  OBVIOUS
<1> QED BY <1>1, <1>3, <1>4, <1>5 DEF taken

LEMMA TypeSettleClose ==
    ASSUME TypeOK, NEW m \in commands, orders[m.order].remaining > 0,
           SettleClose(m), commands' \subseteq commands, UNCHANGED submissions
    PROVE  TypeOK'
<1> DEFINE o == m.order
           volume == FillVolume(m)
           price == FillPrice(o, m.tick)
           taken == Consumption(o, volume)
           used == [d \in {d \in DOMAIN taken : taken[d] > 0} |-> taken[d]]
           freed == ReleasedMargin(o, volume)
           paidBack == ReleasedCommission(o, volume)
           margin == Total(freed)
           released == Total(paidBack)
           fee == Total(BucketShares(price, used))
           pnl == Total([d \in DOMAIN taken |->
                            PnlSign * taken[d] * (price - details[d].base)])
<1>1. /\ o \in ClientIds /\ m.tick \in Ticks /\ orders[o] \in Order
      /\ volume \in 1 .. orders[o].remaining
  BY FillVolumeType
<1>2. volume \in Int
  BY <1>1 DEF Order
<1>3. margin \in Int /\ released \in Int /\ fee \in Int /\ pnl \in Int
  BY TotalType
<1>4. /\ DOMAIN taken = DOMAIN allocations[o]
      /\ DOMAIN freed = DOMAIN allocations[o]
      /\ DOMAIN paidBack = DOMAIN allocations[o]
      /\ \A d \in DOMAIN allocations[o] :
            taken[d] \in Int /\ freed[d] \in Int /\ paidBack[d] \in Int
  BY <1>1, <1>2, CloseFillTypes
<1>5. /\ details' = [d \in DOMAIN details |->
                        [details[d] EXCEPT !.remaining = @ - At(taken, d),
                                           !.frozen    = @ - At(taken, d),
                                           !.margin    = @ - At(freed, d)]]
      /\ allocations' = [allocations EXCEPT ![o] =
                            [d \in DOMAIN taken |->
                                [allocations[o][d] EXCEPT
                                    !.remaining  = @ - taken[d],
                                    !.consumed   = @ + taken[d],
                                    !.commission = @ - paidBack[d]]]]
      /\ orders' = [orders EXCEPT ![o] = Filled(@, volume, 0, released, volume)]
      /\ account' = CloseFillAccount(margin, released, fee, pnl)
      /\ position' = PositionAfterClose(details', volume, margin)
      /\ trades' = trades \cup
            {[order |-> o, tick |-> m.tick, volume |-> volume, margin |-> margin,
              commission |-> fee, closePnl |-> pnl]}
  BY DEF SettleClose
<1> HIDE DEF o, volume, price, taken, used, freed, paidBack, margin, released, fee, pnl
<1>6. orders' \in [ClientIds -> Order]
  <2>1. Filled(orders[o], volume, 0, released, volume) \in Order
    BY <1>1, <1>2, <1>3, FilledType
  <2> QED BY <2>1, <1>5 DEF TypeOK
<1>7. account' \in Account
  <2>1. account \in Account
    BY DEF TypeOK
  <2>2. /\ account.cash + pnl - fee \in Int
        /\ account.available + released - fee + margin + pnl \in Int
        /\ account.usedMargin - margin \in Int
        /\ account.frozenCommission - released \in Int
        /\ account.usedCommission + fee \in Int
        /\ account.closePnl + pnl \in Int
    BY <1>3, <2>1 DEF Account
  <2> QED BY <1>5, <2>1, <2>2, FillColumns DEF CloseFillAccount
<1>8. position' \in Position
  <2>1. /\ position.total - volume \in Int /\ position.frozen - volume \in Int
        /\ position.usedMargin - margin \in Int
    BY <1>2, <1>3 DEF TypeOK, Position
  <2> DEFINE today == TotalOf(details', IsToday)
             yesterday == TotalOf(details', IsYesterday)
             left == IF position.total = volume THEN 0 ELSE position.usedMargin - margin
  <2>2. today \in Int /\ yesterday \in Int
    BY TotalType DEF TotalOf
  <2>3. left \in Int
    BY <2>1
  <2>4. position' = [total |-> position.total - volume, today |-> today,
                     yesterday |-> yesterday, frozen |-> position.frozen - volume,
                     usedMargin |-> left]
    BY <1>5, Zenon DEF PositionAfterClose
  <2> HIDE DEF today, yesterday, left
  <2> QED BY <2>1, <2>2, <2>3, <2>4 DEF Position
<1>9. details' \in Seq(Detail) /\ DOMAIN details' = DOMAIN details
  <2>1. \A d \in DOMAIN details :
           /\ details[d] \in Detail
           /\ details[d].remaining - At(taken, d) \in Int
           /\ details[d].frozen - At(taken, d) \in Int
           /\ details[d].margin - At(freed, d) \in Int
    <3> SUFFICES ASSUME NEW d \in DOMAIN details
                 PROVE  /\ details[d] \in Detail
                        /\ details[d].remaining - At(taken, d) \in Int
                        /\ details[d].frozen - At(taken, d) \in Int
                        /\ details[d].margin - At(freed, d) \in Int
      OBVIOUS
    <3>1. At(taken, d) \in Int /\ At(freed, d) \in Int
      BY <1>4, AtType
    <3>2. details[d] \in Detail
      BY ElementOfSeq, LenProperties DEF TypeOK
    <3> QED BY <3>1, <3>2 DEF Detail
  <2>2. details' \in [DOMAIN details -> Detail]
    BY <1>5, <2>1, DetailColumns
  <2> QED BY <2>2, DetailRows DEF TypeOK
<1>10. /\ DOMAIN allocations' = ClientIds
       /\ \A c \in ClientIds :
             allocations'[c] \in [DOMAIN allocations'[c] -> Allocation]
             /\ DOMAIN allocations'[c] \subseteq DOMAIN details'
  <2> DEFINE entries == [d \in DOMAIN taken |->
                         [allocations[o][d] EXCEPT !.remaining  = @ - taken[d],
                                                   !.consumed   = @ + taken[d],
                                                   !.commission = @ - paidBack[d]]]
  <2>1. allocations' = [allocations EXCEPT ![o] = entries]
    BY <1>5
  <2>2. \A d \in DOMAIN allocations[o] :
           /\ allocations[o][d] \in Allocation
           /\ allocations[o][d].remaining - taken[d] \in Int
           /\ allocations[o][d].consumed + taken[d] \in Int
           /\ allocations[o][d].commission - paidBack[d] \in Int
    BY <1>1, <1>4 DEF TypeOK, Allocation
  <2>3. entries \in [DOMAIN allocations[o] -> Allocation]
    BY <1>4, <2>2, AllocationColumns
  <2> HIDE DEF entries
  <2> QED BY <1>1, <1>9, <2>1, <2>3 DEF TypeOK
<1>11. trades' \subseteq Trade
  <2> DEFINE trade == [order |-> o, tick |-> m.tick, volume |-> volume,
                       margin |-> margin, commission |-> fee, closePnl |-> pnl]
  <2>1. trade \in Trade
    BY <1>1, <1>2, <1>3 DEF Trade
  <2>2. trades' = trades \cup {trade}
    BY <1>5
  <2> HIDE DEF trade
  <2> QED BY <2>1, <2>2 DEF TypeOK
<1> QED BY <1>6, <1>7, <1>8, <1>9, <1>10, <1>11 DEF TypeOK

LEMMA TypeCancel ==
    ASSUME TypeOK, NEW o \in ClientIds, Cancel(o) PROVE TypeOK'
<1> DEFINE order == orders[o]
<1>1. order \in Order
  BY DEF TypeOK
<1>2. /\ account' = [account EXCEPT
                        !.available = @ + order.frozenMargin + order.frozenCommission,
                        !.riskAvailable = @ + order.frozenMargin + order.frozenCommission,
                        !.frozenMargin     = @ - order.frozenMargin,
                        !.frozenCommission = @ - order.frozenCommission]
      /\ UNCHANGED <<details, allocations, position>> \/ ReleaseAllocations(o)
      /\ orders' = [orders EXCEPT ![o] = Cancelled(@)]
      /\ UNCHANGED <<trades, submissions, commands>>
  BY DEF Cancel
<1>3. orders' \in [ClientIds -> Order]
  BY <1>1, <1>2, CancelledType DEF TypeOK
<1>4. account' \in Account
  <2>1. account \in Account
    BY DEF TypeOK
  <2>2. /\ account.available + order.frozenMargin + order.frozenCommission \in Int
        /\ account.riskAvailable + order.frozenMargin + order.frozenCommission \in Int
        /\ account.frozenMargin - order.frozenMargin \in Int
        /\ account.frozenCommission - order.frozenCommission \in Int
    BY <1>1, <2>1 DEF Account, Order
  <2> HIDE DEF order
  <2> QED BY <1>2, <2>1, <2>2, ReserveColumns
<1>5. CASE UNCHANGED <<details, allocations, position>>
  BY <1>2, <1>3, <1>4, <1>5 DEF TypeOK
<1>6. CASE ReleaseAllocations(o)
  <2>1. position' \in Position
    <3>1. /\ position \in Position
          /\ position' = [position EXCEPT !.frozen = @ - order.remaining]
      BY <1>6 DEF ReleaseAllocations, TypeOK
    <3>2. position.frozen - order.remaining \in Int
      BY <1>1, <3>1 DEF Position, Order
    <3> HIDE DEF order
    <3> QED BY <3>1, <3>2, PositionColumns
  <2>2. details' \in Seq(Detail) /\ DOMAIN details' = DOMAIN details
    <3>1. details' = [d \in DOMAIN details |->
                         [details[d] EXCEPT !.frozen = @ - At(Held(o), d)]]
      BY <1>6 DEF ReleaseAllocations
    <3>2. \A d : At(Held(o), d) \in Int
      BY HeldType, AtType
    <3>3. \A d \in DOMAIN details :
             details[d] \in Detail /\ details[d].frozen - At(Held(o), d) \in Int
      <4>1. \A d \in DOMAIN details : details[d] \in Detail
        BY ElementOfSeq, LenProperties DEF TypeOK
      <4> QED BY <4>1, <3>2 DEF Detail
    <3>4. details' \in [DOMAIN details -> Detail]
      BY <3>1, <3>3, DetailColumns
    <3> QED BY <3>4, DetailRows DEF TypeOK
  <2>3. /\ DOMAIN allocations' = ClientIds
        /\ \A c \in ClientIds :
              allocations'[c] \in [DOMAIN allocations'[c] -> Allocation]
              /\ DOMAIN allocations'[c] \subseteq DOMAIN details'
    <3> DEFINE entries == [d \in DOMAIN allocations[o] |->
                           [allocations[o][d] EXCEPT !.released   = @ + Held(o)[d],
                                                     !.remaining  = 0,
                                                     !.commission = 0]]
    <3>1. allocations' = [allocations EXCEPT ![o] = entries]
      BY <1>6 DEF ReleaseAllocations
    <3>2. \A d \in DOMAIN allocations[o] :
             /\ allocations[o][d] \in Allocation
             /\ allocations[o][d].released + Held(o)[d] \in Int
      <4>1. \A d \in DOMAIN allocations[o] : allocations[o][d] \in Allocation
        BY DEF TypeOK
      <4> QED BY <4>1, HeldType DEF Allocation
    <3>3. entries \in [DOMAIN allocations[o] -> Allocation]
      <4>1. 0 \in Int
        OBVIOUS
      <4> QED BY <3>2, <4>1, AllocationColumns
    <3> HIDE DEF entries
    <3> QED BY <2>2, <3>1, <3>3 DEF TypeOK
  <2> QED BY <1>2, <1>3, <1>4, <2>1, <2>2, <2>3 DEF TypeOK
<1> QED BY <1>2, <1>5, <1>6

LEMMA TypeNext == TypeOK /\ [Next]_vars => TypeOK'
<1> SUFFICES ASSUME TypeOK, [Next]_vars PROVE TypeOK'
  OBVIOUS
<1>1. ASSUME NEW c \in ClientIds, NEW r \in Requests, LookupMisses(c, r) PROVE TypeOK'
  BY <1>1 DEF LookupMisses, ledger, TypeOK
<1>2. ASSUME NEW s \in submissions, AcceptSubmission(s) PROVE TypeOK'
  <2>1. s.client \in ClientIds /\ s.request \in Requests
    BY DEF TypeOK
  <2>2. submissions' \subseteq submissions /\ UNCHANGED commands
    BY <1>2 DEF AcceptSubmission
  <2>3. CASE s.request.offset = "OPEN"
    BY <1>2, <2>1, <2>2, <2>3, TypeAcceptOpen DEF AcceptSubmission
  <2>4. CASE s.request.offset # "OPEN"
    BY <1>2, <2>1, <2>2, <2>4, TypeAcceptClose DEF AcceptSubmission
  <2> QED BY <2>3, <2>4
<1>3. ASSUME NEW s \in submissions, DropSubmission(s) PROVE TypeOK'
  BY <1>3 DEF DropSubmission, ledger, TypeOK
<1>4. ASSUME NEW o \in ClientIds, NEW t \in Ticks, Match(o, t) PROVE TypeOK'
  <2>1. orders[o].remaining \in Nat /\ QuotedVolume(o, t) \in Nat
    BY QuoteAssumption DEF TypeOK, Order, QuotedVolume
  <2>2. Smaller(orders[o].remaining, QuotedVolume(o, t)) \in Nat \ {0}
    BY <1>4, <2>1 DEF Match, Smaller
  <2>3. commands' \subseteq [order : ClientIds, tick : Ticks, volume : Nat \ {0}]
    BY <1>4, <2>2 DEF Match, TypeOK
  <2> QED BY <1>4, <2>3 DEF Match, ledger, TypeOK
<1>5. ASSUME NEW m \in commands, DropCommand(m) PROVE TypeOK'
  BY <1>5 DEF DropCommand, ledger, TypeOK
<1>6. ASSUME NEW m \in commands, Settle(m) PROVE TypeOK'
  <2>1. m.order \in ClientIds /\ orders[m.order].remaining > 0
    BY <1>6 DEF Settle, Matchable, TypeOK
  <2>2. commands' \subseteq commands /\ UNCHANGED submissions
    BY <1>6 DEF Settle
  <2>3. CASE IsOpen(m.order)
    BY <1>6, <2>1, <2>2, <2>3, TypeSettleOpen DEF Settle
  <2>4. CASE ~IsOpen(m.order)
    BY <1>6, <2>1, <2>2, <2>4, TypeSettleClose DEF Settle
  <2> QED BY <2>3, <2>4
<1>7. ASSUME NEW o \in ClientIds, Cancel(o) PROVE TypeOK'
  BY <1>7, TypeCancel
<1>8. CASE UNCHANGED vars
  BY <1>8 DEF vars, TypeOK
<1> QED BY <1>1, <1>2, <1>3, <1>4, <1>5, <1>6, <1>7, <1>8 DEF Next

\* Every row the three handlers write has the types its columns are declared
\* with, whatever they read, round and divide.
THEOREM TypeCorrect == Spec => []TypeOK
<1>1. Init => TypeOK
  BY TypeInit
<1>2. TypeOK /\ [Next]_vars => TypeOK'
  BY TypeNext
<1> QED BY <1>1, <1>2, PTL DEF Spec

-----------------------------------------------------------------------------
(* Money.                                                                  *)

LEMMA FundInit == Init => FundIdentity
<1> SUFFICES ASSUME Init PROVE FundIdentity
  OBVIOUS
<1> DEFINE margin == Total([d \in DOMAIN OpeningDetails |-> OpeningDetails[d].margin])
<1>1. margin \in Int
  BY TotalType
<1>2. account = [cash |-> OpeningCash, available |-> OpeningCash - margin,
                 riskAvailable |-> OpeningCash - margin,
                 frozenMargin |-> 0, frozenCommission |-> 0,
                 usedMargin |-> margin, usedCommission |-> 0, closePnl |-> 0]
  BY DEF Init
<1> HIDE DEF margin
<1> QED BY <1>1, <1>2, OpeningAssumption DEF FundIdentity

LEMMA FundNext == TypeOK /\ FundIdentity /\ [Next]_vars => FundIdentity'
<1> SUFFICES ASSUME TypeOK, FundIdentity, [Next]_vars PROVE FundIdentity'
  OBVIOUS
<1>a. account \in Account
  BY DEF TypeOK
<1>1. ASSUME UNCHANGED account PROVE FundIdentity'
  BY <1>1 DEF FundIdentity
<1>2. ASSUME NEW c \in ClientIds, NEW r \in Requests, AcceptOpen(c, r) PROVE FundIdentity'
  <2> DEFINE margin == OpenMargin(r.limit, r.volume)
             commission == Commission("OPEN", r.limit, r.volume)
  <2>1. margin \in Int /\ commission \in Int
    <3>1. r.limit \in Nat /\ r.volume \in Nat /\ r.limit \in Int /\ r.volume \in Int
      BY RequestType
    <3>2. "OPEN" \in OffsetFlags
      BY DEF OffsetFlags
    <3>3. margin \in Nat
      BY <3>1, OpenMarginType
    <3>4. commission \in Int
      BY <3>1, <3>2, CommissionType
    <3> QED BY <3>3, <3>4
  <2>2. account' = [account EXCEPT
                       !.available        = @ - (margin + commission),
                       !.riskAvailable    = RiskAvailable - (margin + commission),
                       !.frozenMargin     = @ + margin,
                       !.frozenCommission = @ + commission]
    BY <1>2 DEF AcceptOpen
  <2> HIDE DEF margin, commission
  <2>3. /\ account'.available = account.available - (margin + commission)
        /\ account'.frozenMargin = account.frozenMargin + margin
        /\ account'.frozenCommission = account.frozenCommission + commission
        /\ account'.cash = account.cash /\ account'.usedMargin = account.usedMargin
    BY <1>a, <2>2 DEF Account
  <2> QED BY <1>a, <2>1, <2>3 DEF FundIdentity, Account
<1>3. ASSUME NEW c \in ClientIds, NEW r \in Requests, AcceptClose(c, r) PROVE FundIdentity'
  <2> DEFINE commission == CloseCommission(r)
  <2>1. commission \in Int
    BY TotalType DEF CloseCommission
  <2>2. account' = [account EXCEPT !.available        = @ - commission,
                                   !.riskAvailable    = @ - commission,
                                   !.frozenCommission = @ + commission]
    BY <1>3 DEF AcceptClose, CloseCommission
  <2> HIDE DEF commission
  <2>3. /\ account'.available = account.available - commission
        /\ account'.frozenCommission = account.frozenCommission + commission
        /\ account'.frozenMargin = account.frozenMargin
        /\ account'.cash = account.cash /\ account'.usedMargin = account.usedMargin
    BY <1>a, <2>2 DEF Account
  <2> QED BY <1>a, <2>1, <2>3 DEF FundIdentity, Account
<1>4. ASSUME NEW margin \in Int, NEW released \in Int, NEW commission \in Int,
             account' = OpenFillAccount(margin, released, commission)
      PROVE  FundIdentity'
  <2>1. /\ account'.available = account.available + released - commission
        /\ account'.frozenMargin = account.frozenMargin - margin
        /\ account'.usedMargin = account.usedMargin + margin
        /\ account'.frozenCommission = account.frozenCommission - released
        /\ account'.cash = account.cash - commission
    BY <1>a, <1>4 DEF OpenFillAccount, Account
  <2> QED BY <1>a, <2>1 DEF FundIdentity, Account
<1>5. ASSUME NEW margin \in Int, NEW released \in Int, NEW fee \in Int, NEW pnl \in Int,
             account' = CloseFillAccount(margin, released, fee, pnl)
      PROVE  FundIdentity'
  <2>1. /\ account'.available = account.available + released - fee + margin + pnl
        /\ account'.frozenMargin = account.frozenMargin
        /\ account'.usedMargin = account.usedMargin - margin
        /\ account'.frozenCommission = account.frozenCommission - released
        /\ account'.cash = account.cash + pnl - fee
    BY <1>a, <1>5 DEF CloseFillAccount, Account
  <2> QED BY <1>a, <2>1 DEF FundIdentity, Account
<1>6. ASSUME NEW m \in commands, Settle(m) PROVE FundIdentity'
  <2>1. /\ m.order \in ClientIds /\ m.tick \in Ticks /\ orders[m.order] \in Order
        /\ FillVolume(m) \in 1 .. orders[m.order].remaining
    <3>1. orders[m.order].remaining > 0
      BY <1>6 DEF Settle, Matchable
    <3> QED BY <3>1, FillVolumeType
  <2>2. FillVolume(m) \in Int /\ FillPrice(m.order, m.tick) \in Int
    BY <2>1, PriceType DEF Order
  <2>3. CASE SettleOpen(m)
    <3> DEFINE row == orders[m.order]
               margin == PartOf(row.frozenMargin, FillVolume(m), row.remaining)
               released == PartOf(row.frozenCommission, FillVolume(m), row.remaining)
               commission == Commission("OPEN", FillPrice(m.order, m.tick), FillVolume(m))
    <3>1. account' = OpenFillAccount(margin, released, commission)
      BY <2>3 DEF SettleOpen
    <3>2. margin \in Int /\ released \in Int
      <4>1. row.frozenMargin \in Int /\ row.frozenCommission \in Int /\ row.remaining \in Int
        BY <2>1 DEF Order
      <4> QED BY <2>2, <4>1, PartOfType
    <3>3. commission \in Int
      <4>1. "OPEN" \in OffsetFlags
        BY DEF OffsetFlags
      <4> QED BY <2>2, <4>1, CommissionType
    <3> HIDE DEF margin, released, commission
    <3> QED BY <1>4, <3>1, <3>2, <3>3
  <2>4. CASE SettleClose(m)
    <3>1. \E margin, released, fee, pnl \in Int :
             account' = CloseFillAccount(margin, released, fee, pnl)
      <4>1. PICK f, g, h, k : account' = CloseFillAccount(Total(f), Total(g), Total(h), Total(k))
        BY <2>4, Zenon DEF SettleClose
      <4> QED BY <4>1, TotalType
    <3> QED BY <1>5, <3>1
  <2> QED BY <1>6, <2>3, <2>4 DEF Settle
<1>7. ASSUME NEW o \in ClientIds, Cancel(o) PROVE FundIdentity'
  <2> DEFINE margin == orders[o].frozenMargin
             commission == orders[o].frozenCommission
  <2>1. margin \in Int /\ commission \in Int
    BY DEF TypeOK, Order
  <2>2. account' = [account EXCEPT
                       !.available        = @ + margin + commission,
                       !.riskAvailable    = @ + margin + commission,
                       !.frozenMargin     = @ - margin,
                       !.frozenCommission = @ - commission]
    BY <1>7 DEF Cancel
  <2> HIDE DEF margin, commission
  <2>3. /\ account'.available = account.available + margin + commission
        /\ account'.frozenMargin = account.frozenMargin - margin
        /\ account'.frozenCommission = account.frozenCommission - commission
        /\ account'.cash = account.cash /\ account'.usedMargin = account.usedMargin
    BY <1>a, <2>2 DEF Account
  <2> QED BY <1>a, <2>1, <2>3 DEF FundIdentity, Account
<1>8. ASSUME NEW s \in submissions, AcceptSubmission(s) PROVE FundIdentity'
  BY <1>2, <1>3, <1>8 DEF AcceptSubmission, TypeOK
<1> QED
  BY <1>1, <1>6, <1>7, <1>8
     DEF Next, vars, LookupMisses, DropSubmission, Match, DropCommand, ledger

\* No sequence of acceptances, fills and cancellations creates or loses money,
\* however margins and commissions round.
THEOREM FundsAddUp == Spec => []FundIdentity
<1>1. Init => TypeOK /\ FundIdentity
  BY TypeInit, FundInit
<1>2. TypeOK /\ FundIdentity /\ [Next]_vars => TypeOK' /\ FundIdentity'
  BY TypeNext, FundNext
<1> QED BY <1>1, <1>2, PTL DEF Spec

-----------------------------------------------------------------------------
(* What any step does to the order rows: it accepts one, fills one or      *)
(* cancels one.                                                            *)

RowAccepted(c) ==
    /\ orders[c].status = "NONE"
    /\ \E r \in Requests, margin \in Nat, commission \in Int, lots \in Int :
          /\ r.offset # "OPEN" => margin = 0
          /\ orders' = [orders EXCEPT ![c] = NewOrder(r, margin, commission, lots)]

RowFilled(c) ==
    /\ Matchable(c)
    /\ \E volume \in 1 .. orders[c].remaining, margin \in 0 .. orders[c].frozenMargin,
          commission \in Int, lots \in Int :
          /\ volume = orders[c].remaining => margin = orders[c].frozenMargin
          /\ orders' = [orders EXCEPT ![c] = Filled(@, volume, margin, commission, lots)]

RowCancelled(c) ==
    /\ Active(c) /\ orders[c].remaining > 0
    /\ orders' = [orders EXCEPT ![c] = Cancelled(@)]

OtherAllocationsKept(c) ==
    \A d \in ClientIds \ {c} : allocations'[d] = allocations[d]

RowStep(c) ==
    /\ RowAccepted(c) \/ RowFilled(c) \/ RowCancelled(c)
    /\ OtherAllocationsKept(c)

\* What the rows must satisfy for a step to be one of these.
ReserveOK ==
    \A c \in ClientIds :
        LET order == orders[c]
        IN  /\ order.frozenMargin >= 0
            /\ ~IsOpen(c) => order.frozenMargin = 0
            /\ order.status \in TerminalStatuses => order.frozenMargin = 0
            /\ order.status = "NONE" =>
                  /\ order.total = 0 /\ order.traded = 0 /\ order.remaining = 0
                  /\ order.cancelled = 0 /\ order.frozenMargin = 0

LEMMA NewOrderColumns ==
    ASSUME NEW r \in Requests, NEW margin, NEW commission, NEW lots,
           NEW order, order = NewOrder(r, margin, commission, lots)
    PROVE  /\ order.status = "ACCEPTED" /\ order.offset = r.offset
           /\ order.limit = r.limit /\ order.total = r.volume
           /\ order.traded = 0 /\ order.remaining = r.volume /\ order.cancelled = 0
           /\ order.frozenMargin = margin
BY DEF NewOrder, NoOrder

LEMMA FilledColumns ==
    ASSUME NEW old \in Order, NEW volume, NEW margin, NEW commission, NEW lots,
           NEW order, order = Filled(old, volume, margin, commission, lots)
    PROVE  /\ order.status = IF old.remaining = volume THEN "FILLED" ELSE "PARTIALLY_FILLED"
           /\ order.offset = old.offset /\ order.limit = old.limit
           /\ order.total = old.total /\ order.cancelled = old.cancelled
           /\ order.traded = old.traded + volume
           /\ order.remaining = old.remaining - volume
           /\ order.frozenMargin = old.frozenMargin - margin
BY DEF Filled, Order

LEMMA CancelledColumns ==
    ASSUME NEW old \in Order, NEW order, order = Cancelled(old)
    PROVE  /\ order.status = IF old.traded = 0 THEN "CANCELLED" ELSE "PARTIALLY_CANCELLED"
           /\ order.offset = old.offset /\ order.limit = old.limit
           /\ order.total = old.total /\ order.traded = old.traded
           /\ order.cancelled = old.cancelled + old.remaining
           /\ order.remaining = 0 /\ order.frozenMargin = 0
BY DEF Cancelled, Order

LEMMA StepsAreRowSteps ==
    ASSUME TypeOK, ReserveOK, [Next]_vars
    PROVE  UNCHANGED <<orders, allocations>> \/ \E c \in ClientIds : RowStep(c)
<1>1. ASSUME NEW s \in submissions, AcceptSubmission(s) PROVE RowStep(s.client)
  <2> DEFINE c == s.client
             r == s.request
  <2>1. c \in ClientIds /\ r \in Requests /\ orders[c].status = "NONE"
    BY <1>1 DEF AcceptSubmission, AlreadyExists, TypeOK
  <2>2. CASE r.offset = "OPEN"
    <3> DEFINE margin == OpenMargin(r.limit, r.volume)
               commission == Commission("OPEN", r.limit, r.volume)
    <3>1. margin \in Nat /\ commission \in Int
      <4>1. r.limit \in Nat /\ r.volume \in Nat /\ r.limit \in Int /\ r.volume \in Int
        BY <2>1, RequestType
      <4>2. "OPEN" \in OffsetFlags
        BY DEF OffsetFlags
      <4>3. margin \in Nat
        BY <4>1, OpenMarginType
      <4>4. commission \in Int
        BY <4>1, <4>2, CommissionType
      <4> QED BY <4>3, <4>4
    <3>2. /\ orders' = [orders EXCEPT ![c] = NewOrder(r, margin, commission, 0)]
          /\ UNCHANGED allocations
      BY <1>1, <2>2 DEF AcceptSubmission, AcceptOpen
    <3> DEFINE lots == 0
    <3>3. lots \in Int /\ orders' = [orders EXCEPT ![c] = NewOrder(r, margin, commission, lots)]
      BY <3>2
    <3> HIDE DEF c, r, margin, commission, lots
    <3>4. RowAccepted(c)
      BY <2>1, <2>2, <3>1, <3>3 DEF RowAccepted
    <3> QED BY <3>2, <3>4 DEF RowStep, OtherAllocationsKept, c
  <2>3. CASE r.offset # "OPEN"
    <3> DEFINE commission == CloseCommission(r)
    <3>1. commission \in Int
      BY TotalType DEF CloseCommission
    <3>2. orders' = [orders EXCEPT ![c] = NewOrder(r, 0, commission, r.volume)]
      BY <1>1, <2>3 DEF AcceptSubmission, AcceptClose, CloseCommission
    <3>3. \E entries : allocations' = [allocations EXCEPT ![c] = entries]
      BY <1>1, <2>3, Zenon DEF AcceptSubmission, AcceptClose
    <3>4. OtherAllocationsKept(c)
      BY <2>1, <3>3 DEF OtherAllocationsKept, TypeOK
    <3>5. r.volume \in Int
      BY <2>1, RequestType
    <3> HIDE DEF c, r, commission
    <3>6. RowAccepted(c)
      BY <2>1, <2>3, <3>1, <3>2, <3>5 DEF RowAccepted
    <3> QED BY <3>4, <3>6 DEF RowStep, c
  <2> QED BY <2>2, <2>3
<1>2. ASSUME NEW m \in commands, Settle(m) PROVE RowStep(m.order)
  <2> DEFINE o == m.order
             row == orders[o]
             volume == FillVolume(m)
  <2>0. Matchable(o) /\ row.remaining > 0
    BY <1>2 DEF Settle, Matchable
  <2>1. o \in ClientIds /\ row \in Order /\ volume \in 1 .. row.remaining
    BY <2>0, FillVolumeType
  <2>2. volume \in Int /\ row.frozenMargin \in Nat /\ row.frozenCommission \in Int
        /\ row.remaining \in Nat \ {0}
    BY <2>0, <2>1 DEF Order, ReserveOK
  <2>3. CASE SettleOpen(m)
    <3> DEFINE margin == PartOf(row.frozenMargin, volume, row.remaining)
               released == PartOf(row.frozenCommission, volume, row.remaining)
    <3>1. /\ margin \in 0 .. row.frozenMargin
          /\ volume = row.remaining => margin = row.frozenMargin
      BY <2>1, <2>2, PartOfBounded
    <3>2. released \in Int
      <4>1. row.remaining \in Int
        BY <2>2
      <4> QED BY <2>2, <4>1, PartOfType
    <3> DEFINE lots == 0
    <3>3. /\ orders' = [orders EXCEPT ![o] = Filled(@, volume, margin, released, lots)]
          /\ lots \in Int
          /\ UNCHANGED allocations
      BY <2>3 DEF SettleOpen
    <3> HIDE DEF margin, released, volume, lots
    <3>4. RowFilled(o)
      BY <2>0, <2>1, <3>1, <3>2, <3>3 DEF RowFilled
    <3> QED BY <3>3, <3>4 DEF RowStep, OtherAllocationsKept
  <2>4. CASE SettleClose(m) /\ ~IsOpen(o)
    <3> DEFINE margin == 0
    <3>1. row.frozenMargin = margin /\ margin \in 0 .. row.frozenMargin
      BY <2>1, <2>4 DEF ReserveOK
    <3>2. PICK released \in Int :
             orders' = [orders EXCEPT ![o] = Filled(@, volume, margin, released, volume)]
      BY <2>4, TotalType DEF SettleClose
    <3>3. \E entries : allocations' = [allocations EXCEPT ![o] = entries]
      BY <2>4, Zenon DEF SettleClose
    <3>4. OtherAllocationsKept(o)
      BY <2>1, <3>3 DEF OtherAllocationsKept, TypeOK
    <3> HIDE DEF volume, margin
    <3>5. RowFilled(o)
      BY <2>0, <2>1, <2>2, <3>1, <3>2 DEF RowFilled
    <3> QED BY <3>4, <3>5 DEF RowStep
  <2> QED BY <1>2, <2>3, <2>4 DEF Settle
<1>3. ASSUME NEW o \in ClientIds, Cancel(o) PROVE RowStep(o)
  <2>1. RowCancelled(o)
    BY <1>3 DEF Cancel, CancelConsistent, RowCancelled
  <2>2. UNCHANGED allocations \/ \E entries : allocations' = [allocations EXCEPT ![o] = entries]
    BY <1>3, Zenon DEF Cancel, ReleaseAllocations
  <2> QED BY <2>1, <2>2 DEF RowStep, OtherAllocationsKept, TypeOK
<1> QED
  BY <1>1, <1>2, <1>3
     DEF Next, vars, LookupMisses, DropSubmission, Match, DropCommand, ledger, TypeOK

-----------------------------------------------------------------------------
(* Order rows: balance, finality, one order per key.                       *)

\* The inductive invariant of the order rows.
RowInv == TypeOK /\ ReserveOK /\ OrderBalance

LEMMA RowInvInit == Init => RowInv
<1> SUFFICES ASSUME Init PROVE RowInv
  OBVIOUS
<1>1. TypeOK
  BY TypeInit
<1>2. \A c \in ClientIds : orders[c] = NoOrder
  BY DEF Init
<1>3. ReserveOK /\ OrderBalance
  BY <1>2 DEF ReserveOK, OrderBalance, NoOrder, Active, IsOpen, ActiveStatuses,
              CancelledStatuses, TerminalStatuses
<1> QED BY <1>1, <1>3 DEF RowInv

\* What ReserveOK and OrderBalance say of one row.
RowOK(order) ==
    /\ order.frozenMargin >= 0
    /\ order.offset # "OPEN" => order.frozenMargin = 0
    /\ order.status \in TerminalStatuses => order.frozenMargin = 0
    /\ order.status = "NONE" =>
          /\ order.total = 0 /\ order.traded = 0 /\ order.remaining = 0
          /\ order.cancelled = 0 /\ order.frozenMargin = 0
    /\ order.total = order.traded + order.remaining + order.cancelled
    /\ order.status \in ActiveStatuses => order.remaining > 0 /\ order.cancelled = 0
    /\ order.status = "ACCEPTED" => order.traded = 0
    /\ order.status = "FILLED" => order.traded = order.total
    /\ order.status \in CancelledStatuses => order.remaining = 0 /\ order.cancelled > 0
    /\ order.status = "CANCELLED" <=> order.cancelled > 0 /\ order.traded = 0

LEMMA RowOKSplit ==
    (ReserveOK /\ OrderBalance) <=> \A c \in ClientIds : RowOK(orders[c])
BY Zenon DEF ReserveOK, OrderBalance, RowOK, Active, IsOpen

LEMMA RowOKStep ==
    ASSUME RowInv, NEW c \in ClientIds,
           RowAccepted(c) \/ RowFilled(c) \/ RowCancelled(c)
    PROVE  /\ RowOK(orders'[c])
           /\ \A d \in ClientIds \ {c} : orders'[d] = orders[d]
<1> DEFINE old == orders[c]
<1>1. old \in Order /\ RowOK(old) /\ orders \in [ClientIds -> Order]
  BY RowOKSplit DEF RowInv, TypeOK
<1>2. CASE RowAccepted(c)
  <2>1. PICK r \in Requests, margin \in Nat, commission \in Int, lots \in Int :
           /\ r.offset # "OPEN" => margin = 0
           /\ orders' = [orders EXCEPT ![c] = NewOrder(r, margin, commission, lots)]
    BY <1>2 DEF RowAccepted
  <2>2. orders'[c] = NewOrder(r, margin, commission, lots)
    BY <1>1, <2>1
  <2>3. /\ orders'[c].status = "ACCEPTED" /\ orders'[c].offset = r.offset
        /\ orders'[c].total = r.volume
        /\ orders'[c].traded = 0 /\ orders'[c].remaining = r.volume
        /\ orders'[c].cancelled = 0 /\ orders'[c].frozenMargin = margin
    BY <2>2, NewOrderColumns
  <2>4. r.volume \in Nat \ {0}
    BY RequestType
  <2>5. RowOK(orders'[c])
    BY <2>1, <2>3, <2>4 DEF RowOK, ActiveStatuses, CancelledStatuses, TerminalStatuses
  <2> QED BY <1>1, <2>1, <2>5
<1>3. CASE RowFilled(c)
  <2>1. PICK volume \in 1 .. old.remaining, margin \in 0 .. old.frozenMargin,
             commission \in Int, lots \in Int :
           /\ volume = old.remaining => margin = old.frozenMargin
           /\ orders' = [orders EXCEPT ![c] = Filled(@, volume, margin, commission, lots)]
    BY <1>3 DEF RowFilled
  <2>2. orders'[c] = Filled(old, volume, margin, commission, lots)
    BY <1>1, <2>1
  <2>3. /\ orders'[c].status =
              IF old.remaining = volume THEN "FILLED" ELSE "PARTIALLY_FILLED"
        /\ orders'[c].offset = old.offset
        /\ orders'[c].total = old.total /\ orders'[c].cancelled = old.cancelled
        /\ orders'[c].traded = old.traded + volume
        /\ orders'[c].remaining = old.remaining - volume
        /\ orders'[c].frozenMargin = old.frozenMargin - margin
    BY <1>1, <2>2, FilledColumns
  <2>4. /\ old.status \in ActiveStatuses /\ old.remaining \in Nat /\ old.traded \in Nat
        /\ old.total \in Nat /\ old.cancelled \in Nat /\ old.frozenMargin \in Nat
    BY <1>1, <1>3 DEF RowFilled, Matchable, Active, Order, RowOK
  <2>5. /\ old.cancelled = 0 /\ old.total = old.traded + old.remaining
        /\ old.remaining > 0
        /\ old.offset # "OPEN" => old.frozenMargin = 0
    BY <1>1, <2>4 DEF RowOK
  <2>6. volume \in Nat /\ volume > 0 /\ volume <= old.remaining
        /\ margin \in Nat /\ margin <= old.frozenMargin
    BY <2>1, <2>4
  <2>7. RowOK(orders'[c])
    <3>1. CASE volume = old.remaining
      BY <2>1, <2>3, <2>4, <2>5, <2>6, <3>1
         DEF RowOK, ActiveStatuses, CancelledStatuses, TerminalStatuses
    <3>2. CASE volume # old.remaining
      BY <2>1, <2>3, <2>4, <2>5, <2>6, <3>2
         DEF RowOK, ActiveStatuses, CancelledStatuses, TerminalStatuses
    <3> QED BY <3>1, <3>2
  <2> QED BY <1>1, <2>1, <2>7
<1>4. CASE RowCancelled(c)
  <2>1. orders'[c] = Cancelled(old) /\ old.status \in ActiveStatuses /\ old.remaining > 0
    BY <1>1, <1>4 DEF RowCancelled, Active
  <2>2. /\ orders'[c].status =
              IF old.traded = 0 THEN "CANCELLED" ELSE "PARTIALLY_CANCELLED"
        /\ orders'[c].total = old.total /\ orders'[c].traded = old.traded
        /\ orders'[c].cancelled = old.cancelled + old.remaining
        /\ orders'[c].remaining = 0 /\ orders'[c].frozenMargin = 0
    BY <1>1, <2>1, CancelledColumns
  <2>3. /\ old.remaining \in Nat /\ old.traded \in Nat
        /\ old.total \in Nat /\ old.cancelled \in Nat
    BY <1>1 DEF Order
  <2>4. RowOK(orders'[c])
    BY <1>1, <2>1, <2>2, <2>3 DEF RowOK, ActiveStatuses, CancelledStatuses, TerminalStatuses
  <2> QED BY <1>1, <1>4, <2>4 DEF RowCancelled
<1> QED BY <1>2, <1>3, <1>4

LEMMA RowInvNext == RowInv /\ [Next]_vars => RowInv'
<1> SUFFICES ASSUME RowInv, [Next]_vars PROVE RowInv'
  OBVIOUS
<1>1. TypeOK /\ ReserveOK
  BY DEF RowInv
<1>2. TypeOK'
  BY <1>1, TypeNext
<1>3. \A c \in ClientIds : RowOK(orders[c])
  BY RowOKSplit DEF RowInv
<1>4. \A c \in ClientIds : RowOK(orders'[c])
  <2>1. CASE UNCHANGED orders
    BY <1>3, <2>1
  <2>2. ASSUME NEW c \in ClientIds, RowStep(c) PROVE \A d \in ClientIds : RowOK(orders'[d])
    BY <1>3, <2>2, RowOKStep DEF RowStep
  <2> QED BY <1>1, <2>1, <2>2, StepsAreRowSteps
<1>5. ReserveOK' /\ OrderBalance'
  BY <1>4, Zenon DEF ReserveOK, OrderBalance, RowOK, Active, IsOpen
<1> QED BY <1>2, <1>5 DEF RowInv

LEMMA RowInvHolds == Spec => []RowInv
<1> QED BY RowInvInit, RowInvNext, PTL DEF Spec

\* Total = traded + remaining + cancelled, and the status says which of them are
\* zero, after every acceptance, partial fill and cancellation.
THEOREM OrdersBalance == Spec => []OrderBalance
<1>1. RowInv => OrderBalance
  BY DEF RowInv
<1> QED BY <1>1, RowInvHolds, PTL

\* A filled or cancelled order is never written again, and neither are its
\* freeze allocations.
THEOREM FinishedOrdersStayFinished == Spec => TerminalIsFinal
<1>1. ASSUME RowInv, [Next]_vars
      PROVE  [\A c \in ClientIds : orders[c].status \in TerminalStatuses =>
                 orders'[c] = orders[c] /\ allocations'[c] = allocations[c]]_vars
  <2>1. CASE UNCHANGED <<orders, allocations>>
    BY <2>1
  <2>2. ASSUME NEW c \in ClientIds, RowStep(c), NEW d \in ClientIds,
               orders[d].status \in TerminalStatuses
        PROVE  orders'[d] = orders[d] /\ allocations'[d] = allocations[d]
    <3>1. orders[c].status \in ActiveStatuses \cup {"NONE"}
      BY <2>2 DEF RowStep, RowAccepted, RowFilled, RowCancelled, Matchable, Active
    <3>2. d # c
      BY <2>2, <3>1 DEF ActiveStatuses, TerminalStatuses, CancelledStatuses
    <3> QED BY <1>1, <2>2, <3>2, RowOKStep DEF RowStep, OtherAllocationsKept
  <2> QED BY <1>1, <2>1, <2>2, StepsAreRowSteps DEF RowInv
<1> QED BY <1>1, RowInvHolds, PTL DEF Spec, TerminalIsFinal

\* However often a request is retried, its key names the order it was first
\* accepted as.
THEOREM KeysNameOneOrder == Spec => KeyNamesOneOrder
<1> DEFINE Kept(c) == orders[c].status # "NONE" =>
              /\ orders'[c].status # "NONE"
              /\ orders'[c].offset = orders[c].offset
              /\ orders'[c].limit = orders[c].limit
              /\ orders'[c].total = orders[c].total
              /\ orders'[c].traded >= orders[c].traded
              /\ orders'[c].remaining <= orders[c].remaining
<1>1. ASSUME RowInv, [Next]_vars PROVE [\A c \in ClientIds : Kept(c)]_vars
  <2>0. \A d \in ClientIds : orders[d].traded \in Nat /\ orders[d].remaining \in Nat
    BY <1>1 DEF RowInv, TypeOK, Order
  <2>1. ASSUME NEW d \in ClientIds, orders'[d] = orders[d] PROVE Kept(d)
    BY <2>0, <2>1
  <2>2. ASSUME NEW c \in ClientIds, RowFilled(c) PROVE Kept(c)
    <3>0. PICK volume \in 1 .. orders[c].remaining :
             \E margin, commission, lots :
                orders'[c] = Filled(orders[c], volume, margin, commission, lots)
      BY <1>1, <2>2 DEF RowFilled, RowInv, TypeOK
    <3>1. PICK margin, commission, lots :
             orders'[c] = Filled(orders[c], volume, margin, commission, lots)
      BY <3>0
    <3>2. orders[c] \in Order
      BY <1>1 DEF RowInv, TypeOK
    <3>3. /\ orders'[c].status \in {"FILLED", "PARTIALLY_FILLED"}
          /\ orders'[c].offset = orders[c].offset
          /\ orders'[c].limit = orders[c].limit
          /\ orders'[c].total = orders[c].total
          /\ orders'[c].traded = orders[c].traded + volume
          /\ orders'[c].remaining = orders[c].remaining - volume
      BY <3>1, <3>2, FilledColumns
    <3> QED BY <2>0, <3>1, <3>3
  <2>3. ASSUME NEW c \in ClientIds, RowCancelled(c) PROVE Kept(c)
    <3>1. orders[c] \in Order /\ orders'[c] = Cancelled(orders[c])
      BY <1>1, <2>3 DEF RowCancelled, RowInv, TypeOK
    <3>2. /\ orders'[c].status \in {"CANCELLED", "PARTIALLY_CANCELLED"}
          /\ orders'[c].offset = orders[c].offset
          /\ orders'[c].limit = orders[c].limit
          /\ orders'[c].total = orders[c].total
          /\ orders'[c].traded = orders[c].traded
          /\ orders'[c].remaining = 0
      BY <3>1, CancelledColumns
    <3> QED BY <2>0, <3>2
  <2>4. ASSUME NEW c \in ClientIds, RowAccepted(c) PROVE Kept(c)
    BY <2>4 DEF RowAccepted
  <2>5. ASSUME NEW c \in ClientIds, RowStep(c) PROVE \A d \in ClientIds : Kept(d)
    <3> HIDE DEF Kept
    <3>1. Kept(c)
      BY <2>2, <2>3, <2>4, <2>5 DEF RowStep
    <3>2. \A d \in ClientIds \ {c} : orders'[d] = orders[d]
      BY <1>1, <2>5, RowOKStep DEF RowStep
    <3> QED BY <2>1, <3>1, <3>2
  <2>6. CASE UNCHANGED orders
    <3> HIDE DEF Kept
    <3> QED BY <2>1, <2>6
  <2> HIDE DEF Kept
  <2> QED BY <1>1, <2>5, <2>6, StepsAreRowSteps DEF RowInv
<1> QED BY <1>1, RowInvHolds, PTL DEF Spec, KeyNamesOneOrder

-----------------------------------------------------------------------------
(* Trades and the lifecycle.                                               *)

\* A redelivered tick, a second worker or a stale match never books a second
\* trade for the same order and market event.
THEOREM MatchesSettleOnce == Spec => []EachMatchSettledOnce
<1>1. Init => EachMatchSettledOnce
  BY DEF Init, EachMatchSettledOnce
<1>2. ASSUME EachMatchSettledOnce, [Next]_vars PROVE EachMatchSettledOnce'
  <2>1. CASE UNCHANGED trades
    BY <1>2, <2>1 DEF EachMatchSettledOnce
  <2>2. ASSUME NEW m \in commands, Settle(m) PROVE EachMatchSettledOnce'
    <3>1. \A a \in trades : ~(a.order = m.order /\ a.tick = m.tick)
      BY <2>2 DEF Settle, Settled
    <3>2. PICK volume, margin, commission, pnl :
             trades' = trades \cup
                {[order |-> m.order, tick |-> m.tick, volume |-> volume,
                  margin |-> margin, commission |-> commission, closePnl |-> pnl]}
      BY <2>2, Zenon DEF Settle, SettleOpen, SettleClose
    <3> DEFINE trade == [order |-> m.order, tick |-> m.tick, volume |-> volume,
                         margin |-> margin, commission |-> commission, closePnl |-> pnl]
    <3>3. trades' = trades \cup {trade} /\ trade.order = m.order /\ trade.tick = m.tick
      BY <3>2
    <3> HIDE DEF trade
    <3> QED BY <1>2, <3>1, <3>3 DEF EachMatchSettledOnce
  <2>3. ASSUME NEW s \in submissions, AcceptSubmission(s) PROVE UNCHANGED trades
    BY <2>3 DEF AcceptSubmission, AcceptOpen, AcceptClose
  <2>4. ASSUME NEW o \in ClientIds, Cancel(o) PROVE UNCHANGED trades
    BY <2>4 DEF Cancel
  <2> QED
    BY <1>2, <2>1, <2>2, <2>3, <2>4
       DEF Next, vars, ledger, LookupMisses, DropSubmission, Match, DropCommand
<1> QED BY <1>1, <1>2, PTL DEF Spec

LEMMA LifecycleInit == Init => Lifecycle!Init
BY DEF Init, Lifecycle!Init, Lifecycle!Blank, EntryOf, PhaseOf, NoOrder,
       ActiveStatuses

LEMMA LifecycleNext ==
    ASSUME RowInv, [Next]_vars
    PROVE  [Lifecycle!Next]_[c \in ClientIds |-> EntryOf(orders[c])]
<1> DEFINE book == [c \in ClientIds |-> EntryOf(orders[c])]
<1>1. CASE UNCHANGED orders
  BY <1>1
<1>2. ASSUME NEW c \in ClientIds, RowStep(c) PROVE Lifecycle!Next
  <2> DEFINE old == orders[c]
             new == orders'[c]
  <2>1. /\ old \in Order /\ RowOK(old) /\ orders \in [ClientIds -> Order]
        /\ \A d \in ClientIds \ {c} : orders'[d] = orders[d]
    BY <1>2, RowOKSplit, RowOKStep DEF RowInv, TypeOK, RowStep
  <2>2. book' = [book EXCEPT ![c] = EntryOf(new)]
    BY <2>1
  <2>3. CASE RowAccepted(c)
    <3>1. PICK r \in Requests, margin \in Nat, commission \in Int, lots \in Int :
             new = NewOrder(r, margin, commission, lots)
      BY <2>1, <2>3 DEF RowAccepted
    <3>2. new.status = "ACCEPTED" /\ new.traded = 0 /\ new.remaining = r.volume
          /\ new.frozenMargin = margin
      BY <3>1, NewOrderColumns
    <3>3. r.volume \in Nat \ {0}
      BY RequestType
    <3>4. EntryOf(new) = [phase |-> "working", left |-> r.volume, done |-> 0,
                          margin |-> margin]
      BY <3>2 DEF EntryOf, PhaseOf, ActiveStatuses
    <3>5. EntryOf(new) \in
             [phase : {"working"}, left : Nat \ {0}, done : {0}, margin : Nat]
      BY <3>3, <3>4
    <3>6. book[c].phase = "none"
      BY <2>3 DEF RowAccepted, EntryOf, PhaseOf, ActiveStatuses
    <3>7. Lifecycle!Accept(c)
      BY <2>2, <3>5, <3>6 DEF Lifecycle!Accept
    <3> QED BY <3>7 DEF Lifecycle!Next
  <2>4. CASE RowFilled(c)
    <3>1. PICK volume \in 1 .. old.remaining, margin \in 0 .. old.frozenMargin,
               commission \in Int, lots \in Int :
             /\ volume = old.remaining => margin = old.frozenMargin
             /\ new = Filled(old, volume, margin, commission, lots)
      BY <2>1, <2>4 DEF RowFilled
    <3>2. /\ new.status = IF old.remaining = volume THEN "FILLED" ELSE "PARTIALLY_FILLED"
          /\ new.traded = old.traded + volume
          /\ new.remaining = old.remaining - volume
          /\ new.frozenMargin = old.frozenMargin - margin
      BY <2>1, <3>1, FilledColumns
    <3>3. book[c] = [phase |-> "working", left |-> old.remaining, done |-> old.traded,
                     margin |-> old.frozenMargin]
      BY <2>4 DEF RowFilled, Matchable, Active, EntryOf, PhaseOf, ActiveStatuses
    <3>4. EntryOf(new) =
             [phase  |-> IF volume = old.remaining THEN "filled" ELSE "working",
              left   |-> old.remaining - volume,
              done   |-> old.traded + volume,
              margin |-> old.frozenMargin - margin]
      BY <3>2 DEF EntryOf, PhaseOf, ActiveStatuses
    <3>5. Lifecycle!Fill(c)
      <4>1. /\ book[c].phase = "working" /\ book[c].left = old.remaining
            /\ book[c].done = old.traded /\ book[c].margin = old.frozenMargin
        BY <3>3
      <4> HIDE DEF book
      <4>2. /\ volume \in 1 .. book[c].left /\ margin \in 0 .. book[c].margin
            /\ volume = book[c].left => margin = book[c].margin
            /\ book' = [book EXCEPT ![c] =
                  [phase  |-> IF volume = book[c].left THEN "filled" ELSE "working",
                   left   |-> book[c].left - volume,
                   done   |-> book[c].done + volume,
                   margin |-> book[c].margin - margin]]
        BY <2>2, <3>1, <3>4, <4>1
      <4> QED BY <4>1, <4>2 DEF Lifecycle!Fill, book
    <3> QED BY <3>5 DEF Lifecycle!Next
  <2>5. CASE RowCancelled(c)
    <3>1. new = Cancelled(old) /\ old.status \in ActiveStatuses
      BY <2>1, <2>5 DEF RowCancelled, Active
    <3>2. /\ new.status = IF old.traded = 0 THEN "CANCELLED" ELSE "PARTIALLY_CANCELLED"
          /\ new.traded = old.traded /\ new.remaining = 0 /\ new.frozenMargin = 0
      BY <2>1, <3>1, CancelledColumns
    <3>3. book[c] = [phase |-> "working", left |-> old.remaining, done |-> old.traded,
                     margin |-> old.frozenMargin]
      BY <3>1 DEF EntryOf, PhaseOf, ActiveStatuses
    <3>4. EntryOf(new) = [phase |-> "cancelled", left |-> 0, done |-> old.traded,
                          margin |-> 0]
      BY <3>2 DEF EntryOf, PhaseOf, ActiveStatuses
    <3>5. book' = [book EXCEPT ![c] = [phase |-> "cancelled", left |-> 0,
                                       done |-> book[c].done, margin |-> 0]]
      <4>1. book[c].done = old.traded
        BY <3>3
      <4> HIDE DEF book
      <4> QED BY <2>2, <3>4, <4>1
    <3>6. Lifecycle!Cancel(c)
      BY <3>3, <3>5 DEF Lifecycle!Cancel
    <3> QED BY <3>6 DEF Lifecycle!Next
  <2> QED BY <1>2, <2>3, <2>4, <2>5 DEF RowStep
<1> QED BY <1>1, <1>2, StepsAreRowSteps DEF RowInv

\* Order entry, settlement and cancellation implement the order lifecycle:
\* fills within the remainder and the reserve, one end, an empty reserve at it.
THEOREM LedgerImplementsLifecycle == Spec => ImplementsLifecycle
BY RowInvHolds, LifecycleInit, LifecycleNext, PTL
   DEF Spec, ImplementsLifecycle, Lifecycle!Spec


-----------------------------------------------------------------------------
(* The inductive invariant of the money and lots that orders freeze.       *)

\* A freeze allocation: what it took is held, used or given back, and an
\* allocation that holds no lots holds no commission.
AllocationOK(row) ==
    /\ row.original > 0 /\ row.remaining >= 0 /\ row.commission >= 0
    /\ row.original = row.remaining + row.consumed + row.released
    /\ row.remaining = 0 => row.commission = 0

HeldBy(entries) == [d \in DOMAIN entries |-> entries[d].remaining]
FeesOf(entries) == [d \in DOMAIN entries |-> entries[d].commission]

\* What an order row says of its allocations, alive or finished: the lots it has
\* still to close are the lots they hold, its reserve the commission they hold.
FreezeOK(order, entries) ==
    /\ order.frozenCommission >= 0
    /\ order.status \in {"NONE"} \cup TerminalStatuses => order.frozenCommission = 0
    /\ order.status = "NONE" => order.offset = "OPEN"
    /\ order.offset = "OPEN" => DOMAIN entries = {} /\ order.frozenPosition = 0
    /\ order.offset # "OPEN" =>
          /\ DOMAIN entries # {}
          /\ \A d \in DOMAIN entries : AllocationOK(entries[d])
          /\ order.frozenPosition = order.remaining
          /\ Total(HeldBy(entries)) = order.remaining
          /\ Total(FeesOf(entries)) = order.frozenCommission

FreezesOK == \A c \in ClientIds : FreezeOK(orders[c], allocations[c])

\* The account's frozen columns, and the position's, are the sums of the orders'.
ReservesAddUp ==
    /\ account.frozenMargin = Total([c \in ClientIds |-> orders[c].frozenMargin])
    /\ account.frozenCommission = Total([c \in ClientIds |-> orders[c].frozenCommission])
    /\ position.frozen = Total([c \in ClientIds |-> orders[c].frozenPosition])

\* A detail's frozen lots are what the allocations hold of it.
LotsAddUp ==
    /\ \A d \in DOMAIN details :
          /\ details[d].frozen = Total([c \in ClientIds |-> At(HeldBy(allocations[c]), d)])
          /\ details[d].frozen <= details[d].remaining
    /\ position.frozen = Total([d \in DOMAIN details |-> details[d].frozen])

LedgerInv ==
    /\ RowInv
    /\ FundIdentity
    /\ FreezesOK
    /\ ReservesAddUp
    /\ LotsAddUp
    /\ PositionIsItsDetails

-----------------------------------------------------------------------------
(* Totals.                                                                 *)

LEMMA TotalIsSum ==
    ASSUME NEW f, IsFiniteSet(DOMAIN f), \A x \in DOMAIN f : f[x] \in Int
    PROVE  Total(f) = SumFunctionOnSet(f, DOMAIN f)
<1> DEFINE sum == SumFunctionOnSet(f, DOMAIN f)
<1>1. sum \in Int
  BY SumType
<1>2. Total(f) = IF sum \in Int THEN sum ELSE 0
  BY Zenon DEF Total
<1> HIDE DEF sum
<1>3. Total(f) = sum
  BY <1>1, <1>2
<1> QED BY <1>3 DEF sum

\* The total depends on the values only.
LEMMA TotalDependsOnValues ==
    ASSUME NEW f, NEW g, DOMAIN f = DOMAIN g, IsFiniteSet(DOMAIN f),
           \A x \in DOMAIN f : f[x] \in Int /\ g[x] = f[x]
    PROVE  Total(g) = Total(f)
<1>1. Total(f) = SumFunctionOnSet(f, DOMAIN f) /\ Total(g) = SumFunctionOnSet(g, DOMAIN f)
  BY TotalIsSum
<1>2. SumFunctionOnSet(f, DOMAIN f) = SumFunctionOnSet(g, DOMAIN f)
  BY SumDependsOnValues
<1> QED BY <1>1, <1>2

LEMMA TotalChanges ==
    ASSUME NEW f, NEW g, DOMAIN f = DOMAIN g, IsFiniteSet(DOMAIN f),
           \A x \in DOMAIN f : f[x] \in Int,
           NEW e \in DOMAIN f, g[e] \in Int, \A x \in DOMAIN f \ {e} : g[x] = f[x]
    PROVE  Total(g) = Total(f) + (g[e] - f[e])
<1> DEFINE d == g[e] - f[e]
<1>1. d \in Int /\ g[e] = f[e] + d
  OBVIOUS
<1>2. \A x \in DOMAIN f : g[x] \in Int
  OBVIOUS
<1>3. Total(f) = SumFunctionOnSet(f, DOMAIN f) /\ Total(g) = SumFunctionOnSet(g, DOMAIN f)
  BY <1>2, TotalIsSum
<1> HIDE DEF d
<1>4. SumFunctionOnSet(g, DOMAIN f) = SumFunctionOnSet(f, DOMAIN f) + d
  BY <1>1, SumChanges
<1> QED BY <1>3, <1>4 DEF d

LEMMA TotalExtends ==
    ASSUME NEW f, NEW g, IsFiniteSet(DOMAIN f), NEW e, e \notin DOMAIN f,
           DOMAIN g = DOMAIN f \cup {e}, g[e] \in Int,
           \A x \in DOMAIN f : f[x] \in Int /\ g[x] = f[x]
    PROVE  Total(g) = Total(f) + g[e]
<1>1. IsFiniteSet(DOMAIN g) /\ \A x \in DOMAIN g : g[x] \in Int
  BY FS_AddElement
<1>2. Total(f) = SumFunctionOnSet(f, DOMAIN f) /\ Total(g) = SumFunctionOnSet(g, DOMAIN g)
  BY <1>1, TotalIsSum
<1>3. SumFunctionOnSet(g, DOMAIN f \cup {e}) = g[e] + SumFunctionOnSet(g, DOMAIN f)
  BY SumAdds
<1>4. SumFunctionOnSet(f, DOMAIN f) = SumFunctionOnSet(g, DOMAIN f)
  BY SumDependsOnValues
<1>5. Total(f) \in Int
  BY TotalType
<1> QED BY <1>2, <1>3, <1>4, <1>5

\* What is spread over some of the elements adds up to as much over all of them.
LEMMA TotalAt ==
    ASSUME NEW S, IsFiniteSet(S), NEW f, DOMAIN f \subseteq S,
           \A x \in DOMAIN f : f[x] \in Int
    PROVE  Total([x \in S |-> At(f, x)]) = Total(f)
<1> DEFINE g == [x \in S |-> At(f, x)]
<1>1. IsFiniteSet(DOMAIN f) /\ DOMAIN f \in SUBSET S
  BY FS_Subset
<1>2. \A x \in S : g[x] \in Int
  BY AtType
<1>3. DOMAIN g = S /\ \A x \in DOMAIN f : g[x] = f[x]
  BY DEF At
<1>4. \A x \in S \ DOMAIN f : g[x] = 0
  BY DEF At
<1> HIDE DEF g
<1>5. Total(g) = SumFunctionOnSet(g, S) /\ Total(f) = SumFunctionOnSet(f, DOMAIN f)
  BY <1>1, <1>2, <1>3, TotalIsSum
<1>6. SumFunctionOnSet(g, S) = SumFunctionOnSet(g, DOMAIN f)
  BY <1>1, <1>2, <1>4, SumSkipsNothing
<1>7. SumFunctionOnSet(f, DOMAIN f) = SumFunctionOnSet(g, DOMAIN f)
  BY <1>1, <1>3, SumDependsOnValues
<1> QED BY <1>5, <1>6, <1>7 DEF g

LEMMA TotalGrows ==
    ASSUME NEW f, NEW g, NEW h, IsFiniteSet(DOMAIN f), DOMAIN h = DOMAIN f,
           DOMAIN g \subseteq DOMAIN f, \A x \in DOMAIN g : g[x] \in Int,
           \A x \in DOMAIN f : f[x] \in Int /\ h[x] = f[x] + At(g, x)
    PROVE  Total(h) = Total(f) + Total(g)
<1> DEFINE k == [x \in DOMAIN f |-> At(g, x)]
<1>1. Total(k) = Total(g)
  BY TotalAt
<1>2. DOMAIN k = DOMAIN f /\ \A x \in DOMAIN f : k[x] \in Int /\ h[x] = f[x] + k[x]
  BY AtType
<1> HIDE DEF k
<1>3. \A x \in DOMAIN f : h[x] \in Int
  BY <1>2
<1>4. /\ Total(f) = SumFunctionOnSet(f, DOMAIN f) /\ Total(h) = SumFunctionOnSet(h, DOMAIN f)
      /\ Total(k) = SumFunctionOnSet(k, DOMAIN f)
  BY <1>2, <1>3, TotalIsSum
<1>5. SumFunctionOnSet(h, DOMAIN f) = SumFunctionOnSet(f, DOMAIN f) + SumFunctionOnSet(k, DOMAIN f)
  BY <1>2, SumOfSums
<1> QED BY <1>1, <1>4, <1>5

LEMMA TotalShrinks ==
    ASSUME NEW f, NEW g, NEW h, IsFiniteSet(DOMAIN f), DOMAIN h = DOMAIN f,
           DOMAIN g \subseteq DOMAIN f, \A x \in DOMAIN g : g[x] \in Int,
           \A x \in DOMAIN f : f[x] \in Int /\ h[x] = f[x] - At(g, x)
    PROVE  Total(h) = Total(f) - Total(g)
<1>0. \A x : At(g, x) \in Int
  BY AtType
<1>1. \A x \in DOMAIN f : h[x] \in Int /\ f[x] = h[x] + At(g, x)
  BY <1>0
<1>2. Total(f) = Total(h) + Total(g)
  BY <1>1, TotalGrows
<1>3. Total(f) \in Int /\ Total(h) \in Int /\ Total(g) \in Int
  BY TotalType
<1> QED BY <1>2, <1>3

LEMMA TotalOfNaturals ==
    ASSUME NEW f, IsFiniteSet(DOMAIN f), \A x \in DOMAIN f : f[x] \in Nat
    PROVE  /\ Total(f) \in Nat
           /\ \A x \in DOMAIN f : f[x] <= Total(f)
           /\ Total(f) = 0 <=> \A x \in DOMAIN f : f[x] = 0
<1>1. Total(f) = SumFunctionOnSet(f, DOMAIN f)
  BY TotalIsSum
<1>2. Total(f) \in Nat
  BY <1>1, SumOfNaturals
<1>3. \A x \in DOMAIN f : f[x] <= Total(f)
  BY <1>1, SumCoversElements
<1>4. (\A x \in DOMAIN f : f[x] = 0) => Total(f) = 0
  BY <1>1, SumOfNothing
<1> QED BY <1>2, <1>3, <1>4

\* No element larger, and not fewer of them: the total is not larger.
LEMMA TotalIsMonotone ==
    ASSUME NEW f, NEW g, IsFiniteSet(DOMAIN g), DOMAIN f \subseteq DOMAIN g,
           \A x \in DOMAIN f : f[x] \in Int /\ f[x] <= g[x],
           \A x \in DOMAIN g : g[x] \in Nat
    PROVE  Total(f) <= Total(g)
<1>1. IsFiniteSet(DOMAIN f) /\ DOMAIN f \in SUBSET DOMAIN g
  BY FS_Subset
<1>2. Total(f) = SumFunctionOnSet(f, DOMAIN f) /\ Total(g) = SumFunctionOnSet(g, DOMAIN g)
  BY <1>1, TotalIsSum
<1>3. SumFunctionOnSet(f, DOMAIN f) <= SumFunctionOnSet(g, DOMAIN f)
  BY <1>1, SumIsMonotone
<1>4. SumFunctionOnSet(g, DOMAIN f) <= SumFunctionOnSet(g, DOMAIN g)
  BY <1>1, SumOfPart
<1>5. /\ SumFunctionOnSet(f, DOMAIN f) \in Int /\ SumFunctionOnSet(g, DOMAIN f) \in Int
      /\ SumFunctionOnSet(g, DOMAIN g) \in Int
  BY <1>1, SumType
<1> QED BY <1>2, <1>3, <1>4, <1>5

-----------------------------------------------------------------------------
(* First in, first out.                                                    *)

LEMMA DetailRow ==
    ASSUME TypeOK, NEW d \in DOMAIN details
    PROVE  d \in Nat /\ details[d] \in Detail
BY ElementOfSeq, LenProperties DEF TypeOK

\* The order in which details are gone through is a strict total order.
LEMMA PrecedesIsAnOrder ==
    ASSUME TypeOK, NEW a \in DOMAIN details, NEW b \in DOMAIN details,
           NEW c \in DOMAIN details
    PROVE  /\ ~Precedes(a, a)
           /\ a # b => Precedes(a, b) \/ Precedes(b, a)
           /\ Precedes(a, b) => ~Precedes(b, a)
           /\ Precedes(a, b) /\ Precedes(b, c) => Precedes(a, c)
<1>1. a \in Int /\ b \in Int /\ c \in Int
  BY DetailRow
<1> DEFINE late(d) == details[d].today
<1>2. ASSUME NEW e \in {a, b, c}, NEW d \in {a, b, c}
      PROVE  /\ late(e) = late(d) => (Precedes(e, d) <=> e < d)
             /\ late(e) # late(d) => (Precedes(e, d) <=> late(d))
             /\ late(e) # late(d) => (late(d) <=> ~late(e))
  <2>1. \A row \in Detail : row.today \in BOOLEAN
    BY DEF Detail
  <2>2. late(e) \in BOOLEAN /\ late(d) \in BOOLEAN
    BY <2>1, DetailRow
  <2>3. late(e) = late(d) => Precedes(e, d) = (e < d)
    BY Zenon DEF Precedes
  <2>4. late(e) # late(d) => Precedes(e, d) = late(d)
    BY Zenon DEF Precedes
  <2> HIDE DEF late
  <2> QED BY <2>2, <2>3, <2>4, Zenon
<1> HIDE DEF late
<1>3. a \in {a, b, c} /\ b \in {a, b, c} /\ c \in {a, b, c}
  OBVIOUS
<1>4. ~Precedes(a, a)
  BY <1>1, <1>2, <1>3
<1>5. a # b => Precedes(a, b) \/ Precedes(b, a)
  <2>1. a # b => a < b \/ b < a
    BY <1>1
  <2> QED BY <1>2, <1>3, <2>1, Zenon
<1>6. Precedes(a, b) => ~Precedes(b, a)
  <2>1. ~(a < b /\ b < a)
    BY <1>1
  <2> QED BY <1>2, <1>3, <2>1, Zenon
<1>7. Precedes(a, b) /\ Precedes(b, c) => Precedes(a, c)
  <2>1. a < b /\ b < c => a < c
    BY <1>1
  <2>2. CASE late(a) = late(b)
    BY <1>2, <1>3, <2>1, <2>2, Zenon
  <2>3. CASE late(a) # late(b)
    BY <1>2, <1>3, <2>1, <2>3, Zenon
  <2> QED BY <2>2, <2>3
<1> QED BY <1>4, <1>5, <1>6, <1>7

LEMMA LastOfSome ==
    ASSUME TypeOK, NEW K, K \subseteq DOMAIN details, IsFiniteSet(K), K # {}
    PROVE  \E x \in K : \A y \in K \ {x} : Precedes(y, x)
<1> DEFINE Last(R) == \E x \in R : \A y \in R \ {x} : Precedes(y, x)
           G == {R \in SUBSET K : R # {} => Last(R)}
<1>1. {} \in G
  OBVIOUS
<1>2. ASSUME NEW R \in SUBSET K, R # {}, \A x \in R : R \ {x} \in G
      PROVE  R \in G
  <2>1. PICK x \in R : TRUE
    BY <1>2
  <2>2. CASE R \ {x} = {}
    <3>1. Last(R)
      BY <2>1, <2>2
    <3> QED BY <3>1
  <2>3. CASE R \ {x} # {}
    <3>1. PICK z \in R \ {x} : \A y \in (R \ {x}) \ {z} : Precedes(y, z)
      BY <1>2, <2>3
    <3>2. x \in DOMAIN details /\ z \in DOMAIN details /\ x # z /\ R \subseteq DOMAIN details
      BY <3>1
    <3>3. CASE Precedes(x, z)
      <4>1. \A y \in R \ {z} : Precedes(y, z)
        BY <3>1, <3>3
      <4>2. z \in R
        OBVIOUS
      <4> QED BY <4>1, <4>2
    <3>4. CASE Precedes(z, x)
      <4>1. \A y \in R \ {x} : y = z \/ Precedes(y, z)
        BY <3>1
      <4>2. \A y \in R \ {x} : Precedes(y, x)
        BY <3>2, <3>4, <4>1, PrecedesIsAnOrder
      <4> QED BY <4>2
    <3> QED BY <3>2, <3>3, <3>4, PrecedesIsAnOrder
  <2> QED BY <2>2, <2>3
<1> HIDE DEF G
<1>3. \A R \in SUBSET K : R \in G
  BY <1>1, <1>2, SubsetInduction
<1> QED BY <1>3 DEF G

\* A split takes from each detail no more than it can give, and together what
\* was asked for if there is as much.
LEMMA FifoTakes ==
    ASSUME TypeOK, NEW capacity, IsFiniteSet(DOMAIN capacity),
           DOMAIN capacity \subseteq DOMAIN details,
           \A d \in DOMAIN capacity : capacity[d] \in Nat, NEW volume \in Nat
    PROVE  /\ DOMAIN FifoSplit(capacity, volume) = DOMAIN capacity
           /\ \A d \in DOMAIN capacity : FifoSplit(capacity, volume)[d] \in 0 .. capacity[d]
           /\ Total(FifoSplit(capacity, volume)) = Smaller(volume, Total(capacity))
<1> DEFINE K == DOMAIN capacity
           split == FifoSplit(capacity, volume)
           Earlier(d) == {e \in K : Precedes(e, d)}
           Before(d) == Total([e \in Earlier(d) |-> capacity[e]])
           Sum(R) == SumFunctionOnSet(capacity, R)
           Got(R) == SumFunctionOnSet(split, R)
<1>1. \A R \in SUBSET K : IsFiniteSet(R) /\ Sum(R) \in Nat
  BY FS_Subset, SumOfNaturals
<1>2. \A d \in K : Before(d) = Sum(Earlier(d))
  <2> SUFFICES ASSUME NEW d \in K PROVE Before(d) = Sum(Earlier(d))
    OBVIOUS
  <2> DEFINE f == [e \in Earlier(d) |-> capacity[e]]
  <2>1. DOMAIN f = Earlier(d) /\ Earlier(d) \in SUBSET K
        /\ \A e \in Earlier(d) : f[e] \in Int /\ f[e] = capacity[e]
    OBVIOUS
  <2>2. IsFiniteSet(Earlier(d))
    BY <1>1, <2>1
  <2> HIDE DEF f
  <2>3. Total(f) = SumFunctionOnSet(f, Earlier(d))
    BY <2>1, <2>2, TotalIsSum
  <2>4. SumFunctionOnSet(f, Earlier(d)) = SumFunctionOnSet(capacity, Earlier(d))
    BY <2>1, <2>2, SumDependsOnValues
  <2> QED BY <2>3, <2>4 DEF f
<1>3. /\ DOMAIN split = K
      /\ \A d \in K : split[d] = IF volume <= Before(d) THEN 0
                                 ELSE Smaller(capacity[d], volume - Before(d))
  BY DEF FifoSplit
<1> HIDE DEF split, Before
<1>4. \A d \in K : Before(d) \in Nat
  BY <1>1, <1>2
<1>5. \A d \in K : split[d] \in 0 .. capacity[d]
  BY <1>3, <1>4 DEF Smaller
<1> DEFINE Lower(R) == \A d \in R, e \in K : Precedes(e, d) => e \in R
           G == {R \in SUBSET K : Lower(R) => Got(R) = Smaller(volume, Sum(R))}
<1>6. {} \in G
  <2>1. Got({}) = 0 /\ Sum({}) = 0
    BY SumEmpty
  <2> QED BY <2>1 DEF Smaller
<1>7. ASSUME NEW R \in SUBSET K, R # {}, \A x \in R : R \ {x} \in G, Lower(R)
      PROVE  Got(R) = Smaller(volume, Sum(R))
  <2>1. PICK x \in R : \A y \in R \ {x} : Precedes(y, x)
    <3>1. R \subseteq DOMAIN details /\ IsFiniteSet(R)
      BY <1>1
    <3> QED BY <1>7, <3>1, LastOfSome
  <2>2. x \in K /\ x \in DOMAIN details /\ R \subseteq DOMAIN details
    OBVIOUS
  <2>3. Earlier(x) = R \ {x}
    <3>1. Earlier(x) \subseteq R \ {x}
      BY <1>7, <2>2, PrecedesIsAnOrder
    <3>2. R \ {x} \subseteq Earlier(x)
      BY <2>1
    <3> QED BY <3>1, <3>2
  <2>4. Lower(R \ {x})
    <3> SUFFICES ASSUME NEW d \in R \ {x}, NEW e \in K, Precedes(e, d)
                 PROVE  e \in R \ {x}
      OBVIOUS
    <3>1. e \in R
      BY <1>7
    <3>2. Precedes(d, x) /\ d \in DOMAIN details /\ e \in DOMAIN details
      BY <2>1, <2>2
    <3>3. e # x
      BY <2>2, <3>2, PrecedesIsAnOrder
    <3> QED BY <3>1, <3>3
  <2>5. Got(R \ {x}) = Smaller(volume, Sum(R \ {x}))
    BY <1>7, <2>4
  <2>6. Before(x) = Sum(R \ {x})
    BY <1>2, <2>2, <2>3
  <2>7. Got(R) = split[x] + Got(R \ {x}) /\ Sum(R) = capacity[x] + Sum(R \ {x})
    <3>1. IsFiniteSet(R) /\ \A y \in R : capacity[y] \in Int /\ split[y] \in Int
      BY <1>1, <1>5
    <3> QED BY <3>1, SumTakesOut
  <2>8. Sum(R \ {x}) \in Nat /\ capacity[x] \in Nat
    BY <1>1
  <2>9. split[x] = IF volume <= Before(x) THEN 0
                   ELSE Smaller(capacity[x], volume - Before(x))
    BY <1>3, <2>2
  <2> HIDE DEF Sum, Got
  <2> QED BY <2>5, <2>6, <2>7, <2>8, <2>9 DEF Smaller
<1>8. \A R \in SUBSET K : R \in G
  <2>1. \A R \in SUBSET K : R # {} /\ (\A x \in R : R \ {x} \in G) => R \in G
    BY <1>7
  <2> HIDE DEF G
  <2> QED BY <1>6, <2>1, SubsetInduction
<1>9. Got(K) = Smaller(volume, Sum(K))
  BY <1>8
<1>10. Total(split) = Got(K) /\ Total(capacity) = Sum(K)
  <2>1. \A d \in K : split[d] \in Int
    BY <1>5
  <2> QED BY <1>3, <2>1, TotalIsSum
<1> QED BY <1>3, <1>5, <1>9, <1>10 DEF split

LEMMA SomeDetails ==
    ASSUME TypeOK, NEW S, S \subseteq DOMAIN details
    PROVE  IsFiniteSet(S) /\ IsFiniteSet(DOMAIN details) /\ S \subseteq Nat
<1>1. Len(details) \in Nat /\ DOMAIN details = 1 .. Len(details)
  BY LenProperties DEF TypeOK
<1>2. IsFiniteSet(1 .. Len(details))
  BY <1>1, FS_Interval
<1> QED BY <1>1, <1>2, FS_Subset

-----------------------------------------------------------------------------
(* Fees and their shares are never negative.                               *)

LEMMA RoundedQuotientIsMonotone ==
    ASSUME NEW a \in Nat, NEW b \in Nat, a <= b, NEW den \in Nat
    PROVE  /\ RoundedQuotient(a, den) \in Nat /\ RoundedQuotient(b, den) \in Nat
           /\ RoundedQuotient(a, den) <= RoundedQuotient(b, den)
<1>1. CASE den = 0
  BY <1>1 DEF RoundedQuotient
<1>2. CASE den # 0
  <2> DEFINE y == 2 * den
             p == (2 * a + den) \div y
             q == (2 * b + den) \div y
  <2>1. y \in Nat /\ y > 0 /\ 2 * a + den \in Nat /\ 2 * b + den \in Nat
        /\ 2 * a + den <= 2 * b + den
    BY <1>2
  <2>2. p \in Int /\ y * p <= 2 * a + den /\ 2 * a + den < y * p + y
    BY <2>1
  <2>3. q \in Int /\ y * q <= 2 * b + den /\ 2 * b + den < y * q + y
    BY <2>1
  <2>4. p >= 0 /\ q >= 0
    BY <2>1
  <2>5. p <= q
    <3> HIDE DEF p, q, y
    <3>1. SUFFICES ASSUME p >= q + 1 PROVE FALSE
      BY <2>2, <2>3
    <3>2. y * p >= y * (q + 1)
      BY <2>1, <2>2, <2>3, <3>1
    <3>3. y * (q + 1) = y * q + y
      BY <2>1, <2>3
    <3>4. y * p \in Int /\ y * q \in Int
      BY <2>1, <2>2, <2>3
    <3> QED BY <2>1, <2>2, <2>3, <3>2, <3>3, <3>4
  <2>6. RoundedQuotient(a, den) = p /\ RoundedQuotient(b, den) = q
    BY <1>2 DEF RoundedQuotient
  <2> HIDE DEF p, q
  <2> QED BY <2>2, <2>3, <2>4, <2>5, <2>6
<1> QED BY <1>1, <1>2

LEMMA CommissionIsNatural ==
    ASSUME NEW flag \in OffsetFlags, NEW price \in Nat, NEW volume \in Nat
    PROVE  Commission(flag, price, volume) \in Nat
<1>1. FeeRate[flag] \in Nat /\ Scale \in Nat
  BY RateAssumption
<1>2. price * volume * FeeRate[flag] \in Nat
  BY <1>1
<1> DEFINE num == price * volume * FeeRate[flag]
<1>3. num \in Nat /\ num <= num
  BY <1>2
<1> HIDE DEF num
<1>4. RoundedQuotient(num, Scale) \in Nat
  BY <1>1, <1>3, RoundedQuotientIsMonotone
<1> QED BY <1>4 DEF Commission, num

LEMMA BucketSharesAreNatural ==
    ASSUME TypeOK, NEW price \in Nat, NEW lots, DOMAIN lots \subseteq DOMAIN details,
           \A d \in DOMAIN lots : lots[d] \in Nat
    PROVE  /\ DOMAIN BucketShares(price, lots) = DOMAIN lots
           /\ \A d \in DOMAIN lots : BucketShares(price, lots)[d] \in Nat
<1> DEFINE Volume(D)  == Total([d \in D |-> lots[d]])
           Bucket(d)  == {e \in DOMAIN lots : ResolvedFlag(e) = ResolvedFlag(d)}
           Before(d)  == {e \in Bucket(d) : Precedes(e, d)}
           Fee(d)     == Commission(ResolvedFlag(d), price, Volume(Bucket(d)))
           UpTo(d, D) == RoundedQuotient(Fee(d) * Volume(D), Volume(Bucket(d)))
<1>1. BucketShares(price, lots) =
        [d \in DOMAIN lots |-> UpTo(d, Before(d) \cup {d}) - UpTo(d, Before(d))]
  BY DEF BucketShares, Volume, Fee
<1>2. \A D \in SUBSET DOMAIN lots : Volume(D) \in Nat
  <2> SUFFICES ASSUME NEW D \in SUBSET DOMAIN lots PROVE Volume(D) \in Nat
    OBVIOUS
  <2> DEFINE f == [d \in D |-> lots[d]]
  <2>1. IsFiniteSet(DOMAIN f) /\ \A d \in DOMAIN f : f[d] \in Nat
    BY SomeDetails
  <2> HIDE DEF f
  <2>2. Total(f) \in Nat
    BY <2>1, TotalOfNaturals
  <2> QED BY <2>2 DEF f
<1>3. \A d \in DOMAIN lots : Volume(Before(d)) <= Volume(Before(d) \cup {d})
  <2> SUFFICES ASSUME NEW d \in DOMAIN lots
               PROVE  Volume(Before(d)) <= Volume(Before(d) \cup {d})
    OBVIOUS
  <2> DEFINE f == [e \in Before(d) |-> lots[e]]
             g == [e \in Before(d) \cup {d} |-> lots[e]]
  <2>1. Before(d) \cup {d} \subseteq DOMAIN details
    OBVIOUS
  <2>2. IsFiniteSet(DOMAIN g) /\ \A e \in DOMAIN g : g[e] \in Nat
    BY <2>1, SomeDetails
  <2>3. DOMAIN f \subseteq DOMAIN g /\ \A e \in DOMAIN f : f[e] \in Int /\ f[e] <= g[e]
    OBVIOUS
  <2> HIDE DEF f, g
  <2>4. Total(f) <= Total(g)
    BY <2>2, <2>3, TotalIsMonotone
  <2> QED BY <2>4 DEF f, g
<1> HIDE DEF Volume
<1>4. \A d \in DOMAIN lots : Fee(d) \in Nat
  <2>1. \A d : ResolvedFlag(d) \in OffsetFlags
    BY DEF ResolvedFlag, OffsetFlags
  <2>2. \A d \in DOMAIN lots : Volume(Bucket(d)) \in Nat
    BY <1>2
  <2> QED BY <2>1, <2>2, CommissionIsNatural
<1> HIDE DEF Fee
<1>5. \A d \in DOMAIN lots : UpTo(d, Before(d) \cup {d}) - UpTo(d, Before(d)) \in Nat
  <2> SUFFICES ASSUME NEW d \in DOMAIN lots
               PROVE  UpTo(d, Before(d) \cup {d}) - UpTo(d, Before(d)) \in Nat
    OBVIOUS
  <2> DEFINE less == Volume(Before(d))
             more == Volume(Before(d) \cup {d})
             whole == Volume(Bucket(d))
             fee == Fee(d)
  <2>1. less \in Nat /\ more \in Nat /\ whole \in Nat /\ fee \in Nat
    BY <1>2, <1>4
  <2>2. less <= more
    BY <1>3
  <2> HIDE DEF less, more, whole, fee
  <2>3. fee * less \in Nat /\ fee * more \in Nat /\ fee * less <= fee * more
    BY <2>1, <2>2
  <2>4. /\ RoundedQuotient(fee * less, whole) \in Nat
        /\ RoundedQuotient(fee * more, whole) \in Nat
        /\ RoundedQuotient(fee * less, whole) <= RoundedQuotient(fee * more, whole)
    BY <2>1, <2>3, RoundedQuotientIsMonotone
  <2>5. /\ UpTo(d, Before(d) \cup {d}) = RoundedQuotient(fee * more, whole)
        /\ UpTo(d, Before(d)) = RoundedQuotient(fee * less, whole)
    BY DEF less, more, whole, fee
  <2> HIDE DEF UpTo
  <2> QED BY <2>4, <2>5
<1> HIDE DEF UpTo, Before
<1> QED BY <1>1, <1>5

-----------------------------------------------------------------------------
(* What the invariant says of one order, one allocation, one detail.       *)

LEMMA InvRows ==
    ASSUME LedgerInv, NEW c \in ClientIds
    PROVE  /\ orders[c] \in Order /\ RowOK(orders[c]) /\ FreezeOK(orders[c], allocations[c])
           /\ DOMAIN allocations[c] \subseteq DOMAIN details
           /\ IsFiniteSet(DOMAIN allocations[c])
           /\ \A d \in DOMAIN allocations[c] :
                 allocations[c][d] \in Allocation /\ AllocationOK(allocations[c][d])
<1>1. TypeOK /\ orders[c] \in Order /\ DOMAIN allocations[c] \subseteq DOMAIN details
  BY DEF LedgerInv, RowInv, TypeOK
<1>2. RowOK(orders[c])
  BY RowOKSplit DEF LedgerInv, RowInv
<1>3. FreezeOK(orders[c], allocations[c])
  BY DEF LedgerInv, FreezesOK
<1>4. IsFiniteSet(DOMAIN allocations[c])
  BY <1>1, SomeDetails
<1>5. \A d \in DOMAIN allocations[c] : allocations[c][d] \in Allocation
  BY <1>1 DEF TypeOK
<1>6. \A d \in DOMAIN allocations[c] : AllocationOK(allocations[c][d])
  BY <1>3 DEF FreezeOK
<1> QED BY <1>1, <1>2, <1>3, <1>4, <1>5, <1>6

LEMMA HeldIsNatural ==
    ASSUME LedgerInv, NEW c \in ClientIds
    PROVE  /\ DOMAIN HeldBy(allocations[c]) = DOMAIN allocations[c]
           /\ DOMAIN FeesOf(allocations[c]) = DOMAIN allocations[c]
           /\ \A d \in DOMAIN allocations[c] :
                 HeldBy(allocations[c])[d] \in Nat /\ FeesOf(allocations[c])[d] \in Nat
           /\ \A d : At(HeldBy(allocations[c]), d) \in Nat
<1>1. /\ DOMAIN HeldBy(allocations[c]) = DOMAIN allocations[c]
      /\ DOMAIN FeesOf(allocations[c]) = DOMAIN allocations[c]
  BY DEF HeldBy, FeesOf
<1>2. \A d \in DOMAIN allocations[c] :
         HeldBy(allocations[c])[d] \in Nat /\ FeesOf(allocations[c])[d] \in Nat
  BY InvRows DEF HeldBy, FeesOf, Allocation, AllocationOK
<1>3. \A d : At(HeldBy(allocations[c]), d) \in Nat
  BY <1>1, <1>2 DEF At
<1> QED BY <1>1, <1>2, <1>3

\* No allocation holds more of a detail than is frozen of it, and no more is
\* frozen than is there.
LEMMA FrozenCovers ==
    ASSUME LedgerInv, NEW d \in DOMAIN details
    PROVE  /\ details[d] \in Detail /\ details[d].frozen \in Nat
           /\ details[d].frozen <= details[d].remaining
           /\ \A c \in ClientIds : At(HeldBy(allocations[c]), d) <= details[d].frozen
<1> DEFINE f == [c \in ClientIds |-> At(HeldBy(allocations[c]), d)]
<1>1. DOMAIN f = ClientIds /\ \A c \in ClientIds : f[c] \in Nat
  BY HeldIsNatural
<1>2. details[d].frozen = Total(f) /\ details[d].frozen <= details[d].remaining
  BY DEF LedgerInv, LotsAddUp
<1> HIDE DEF f
<1>3. Total(f) \in Nat /\ \A c \in ClientIds : f[c] <= Total(f)
  BY <1>1, ClientsAssumption, TotalOfNaturals
<1>4. details[d] \in Detail
  BY DetailRow DEF LedgerInv, RowInv
<1> QED BY <1>2, <1>3, <1>4 DEF f

\* No order has more frozen for it than the account and the position have.
LEMMA ReservesCover ==
    ASSUME LedgerInv, NEW c \in ClientIds
    PROVE  /\ orders[c].frozenMargin \in Nat /\ orders[c].frozenCommission \in Nat
           /\ orders[c].frozenPosition \in Nat
           /\ orders[c].frozenMargin <= account.frozenMargin
           /\ orders[c].frozenCommission <= account.frozenCommission
           /\ orders[c].frozenPosition <= position.frozen
<1>1. \A x \in ClientIds : /\ orders[x].frozenMargin \in Nat
                           /\ orders[x].frozenCommission \in Nat
                           /\ orders[x].frozenPosition \in Nat
  <2> SUFFICES ASSUME NEW x \in ClientIds
               PROVE  /\ orders[x].frozenMargin \in Nat
                      /\ orders[x].frozenCommission \in Nat
                      /\ orders[x].frozenPosition \in Nat
    OBVIOUS
  <2>1. orders[x] \in Order /\ RowOK(orders[x]) /\ FreezeOK(orders[x], allocations[x])
    BY InvRows
  <2> QED BY <2>1 DEF Order, RowOK, FreezeOK
<1> DEFINE f == [x \in ClientIds |-> orders[x].frozenMargin]
           g == [x \in ClientIds |-> orders[x].frozenCommission]
           h == [x \in ClientIds |-> orders[x].frozenPosition]
<1>2. /\ account.frozenMargin = Total(f) /\ account.frozenCommission = Total(g)
      /\ position.frozen = Total(h)
  BY DEF LedgerInv, ReservesAddUp
<1>3. /\ DOMAIN f = ClientIds /\ DOMAIN g = ClientIds /\ DOMAIN h = ClientIds
      /\ \A x \in ClientIds : f[x] \in Nat /\ g[x] \in Nat /\ h[x] \in Nat
  BY <1>1
<1>4. f[c] = orders[c].frozenMargin /\ g[c] = orders[c].frozenCommission
      /\ h[c] = orders[c].frozenPosition
  OBVIOUS
<1> HIDE DEF f, g, h
<1>5. f[c] <= Total(f) /\ g[c] <= Total(g) /\ h[c] <= Total(h)
  BY <1>3, ClientsAssumption, TotalOfNaturals
<1> QED BY <1>1, <1>2, <1>4, <1>5

\* Margins of details add up to what the position and the account use.
LEMMA MarginsAddUp ==
    ASSUME LedgerInv
    PROVE  /\ IsFiniteSet(DOMAIN details)
           /\ \A d \in DOMAIN details : details[d].margin \in Nat
           /\ position.usedMargin = Total([d \in DOMAIN details |-> details[d].margin])
           /\ account.usedMargin = position.usedMargin
<1>1. IsFiniteSet(DOMAIN details)
  BY SomeDetails DEF LedgerInv, RowInv
<1>2. \A d \in DOMAIN details : details[d].margin \in Nat
  BY FrozenCovers DEF LedgerInv, PositionIsItsDetails, Detail
<1> QED BY <1>1, <1>2 DEF LedgerInv, PositionIsItsDetails

\* What a close fill of some volume takes and gives back.
LEMMA CloseFillBounds ==
    ASSUME LedgerInv, NEW o \in ClientIds, ~IsOpen(o),
           NEW volume \in 1 .. orders[o].remaining
    PROVE  LET entries == allocations[o]
               taken == Consumption(o, volume)
               freed == ReleasedMargin(o, volume)
               paid == ReleasedCommission(o, volume)
           IN  /\ DOMAIN taken = DOMAIN entries /\ DOMAIN freed = DOMAIN entries
               /\ DOMAIN paid = DOMAIN entries
               /\ Total(taken) = volume
               /\ \A d \in DOMAIN entries :
                     /\ taken[d] \in 0 .. entries[d].remaining
                     /\ freed[d] \in 0 .. details[d].margin
                     /\ taken[d] = details[d].remaining => freed[d] = details[d].margin
                     /\ paid[d] \in 0 .. entries[d].commission
                     /\ taken[d] = entries[d].remaining => paid[d] = entries[d].commission
<1> DEFINE entries == allocations[o]
           taken == Consumption(o, volume)
           freed == ReleasedMargin(o, volume)
           paid == ReleasedCommission(o, volume)
<1>1. /\ orders[o] \in Order /\ FreezeOK(orders[o], entries)
      /\ DOMAIN entries \subseteq DOMAIN details /\ IsFiniteSet(DOMAIN entries)
      /\ \A d \in DOMAIN entries : entries[d] \in Allocation /\ AllocationOK(entries[d])
  BY InvRows
<1>2. Held(o) = HeldBy(entries)
  BY DEF Held, HeldBy
<1>3. /\ DOMAIN Held(o) = DOMAIN entries
      /\ \A d \in DOMAIN entries : Held(o)[d] \in Nat /\ Held(o)[d] = entries[d].remaining
  BY <1>2, HeldIsNatural DEF HeldBy
<1>4. Total(Held(o)) = orders[o].remaining /\ orders[o].remaining \in Nat
  BY <1>1, <1>2 DEF FreezeOK, IsOpen, Order
<1>5. /\ DOMAIN taken = DOMAIN entries
      /\ \A d \in DOMAIN entries : taken[d] \in 0 .. Held(o)[d]
      /\ Total(taken) = Smaller(volume, Total(Held(o)))
  <2>1. TypeOK /\ volume \in Nat
    BY <1>4 DEF LedgerInv, RowInv
  <2> QED BY <1>1, <1>3, <2>1, FifoTakes DEF Consumption
<1>6. Total(taken) = volume
  BY <1>4, <1>5 DEF Smaller
<1>7. /\ DOMAIN freed = DOMAIN entries /\ DOMAIN paid = DOMAIN entries
      /\ \A d \in DOMAIN entries :
            /\ freed[d] = IF taken[d] = 0 THEN 0
                          ELSE PartOf(details[d].margin, taken[d], details[d].remaining)
            /\ paid[d] = IF taken[d] = 0 THEN 0
                         ELSE PartOf(entries[d].commission, taken[d], entries[d].remaining)
  BY <1>5, Zenon DEF ReleasedMargin, ReleasedCommission
<1> HIDE DEF taken, freed, paid
<1>8. ASSUME NEW d \in DOMAIN entries
      PROVE  /\ freed[d] \in 0 .. details[d].margin
             /\ taken[d] = details[d].remaining => freed[d] = details[d].margin
             /\ paid[d] \in 0 .. entries[d].commission
             /\ taken[d] = entries[d].remaining => paid[d] = entries[d].commission
  <2>1. d \in DOMAIN details /\ entries[d] \in Allocation /\ AllocationOK(entries[d])
    BY <1>1
  <2>2. At(HeldBy(entries), d) = entries[d].remaining
    BY <1>2, <1>3 DEF At
  <2>3. details[d] \in Detail /\ entries[d].remaining <= details[d].remaining
        /\ details[d].remaining \in Nat /\ entries[d].remaining \in Nat
    BY <2>1, <2>2, FrozenCovers DEF Detail, Allocation, AllocationOK
  <2>4. /\ details[d].margin \in Nat /\ entries[d].commission \in Nat
        /\ details[d].remaining = 0 => details[d].margin = 0
        /\ entries[d].remaining = 0 => entries[d].commission = 0
    BY <2>1, MarginsAddUp DEF LedgerInv, PositionIsItsDetails, Allocation, AllocationOK
  <2>5. taken[d] \in 0 .. entries[d].remaining
    BY <1>3, <1>5
  <2>6. CASE taken[d] = 0
    BY <1>7, <2>3, <2>4, <2>6
  <2>7. CASE taken[d] # 0
    <3>1. /\ taken[d] \in 1 .. entries[d].remaining /\ taken[d] \in 1 .. details[d].remaining
          /\ entries[d].remaining \in Nat \ {0} /\ details[d].remaining \in Nat \ {0}
      BY <2>3, <2>5, <2>7
    <3> DEFINE part == taken[d]
               most == details[d].remaining
               held == entries[d].remaining
               margin == details[d].margin
               fee == entries[d].commission
    <3>2. /\ part \in 1 .. held /\ part \in 1 .. most /\ held \in Nat \ {0}
          /\ most \in Nat \ {0} /\ margin \in Nat /\ fee \in Nat
      BY <2>4, <3>1
    <3>3. freed[d] = PartOf(margin, part, most) /\ paid[d] = PartOf(fee, part, held)
      BY <1>7, <2>7
    <3> HIDE DEF part, most, held, margin, fee
    <3>4. /\ PartOf(margin, part, most) \in 0 .. margin
          /\ part = most => PartOf(margin, part, most) = margin
          /\ PartOf(fee, part, held) \in 0 .. fee
          /\ part = held => PartOf(fee, part, held) = fee
      BY <3>2, PartOfBounded
    <3> QED BY <3>3, <3>4 DEF part, most, held, margin, fee
  <2> QED BY <2>6, <2>7
<1>9. \A d \in DOMAIN entries : taken[d] \in 0 .. entries[d].remaining
  BY <1>3, <1>5
<1> QED BY <1>5, <1>6, <1>7, <1>8, <1>9, Zenon DEF taken, freed, paid

-----------------------------------------------------------------------------
(* The consistency checks of the handlers cannot fail.                     *)

LEMMA OpenFillsPass ==
    ASSUME LedgerInv, NEW o \in ClientIds, NEW volume \in 1 .. orders[o].remaining
    PROVE  OpenFillConsistent(o, volume)
<1> DEFINE margin == orders[o].frozenMargin
           fee == orders[o].frozenCommission
           whole == orders[o].remaining
<1>1. /\ margin \in Nat /\ fee \in Nat /\ whole \in Nat \ {0} /\ volume \in 1 .. whole
      /\ margin <= account.frozenMargin /\ fee <= account.frozenCommission
  BY ReservesCover, InvRows DEF Order
<1>2. account.frozenMargin \in Int /\ account.frozenCommission \in Int
  BY DEF LedgerInv, RowInv, TypeOK, Account
<1>3. OpenFillConsistent(o, volume) <=>
         /\ account.frozenMargin >= PartOf(margin, volume, whole)
         /\ account.frozenCommission >= PartOf(fee, volume, whole)
  BY DEF OpenFillConsistent
<1> HIDE DEF margin, fee, whole
<1>4. PartOf(margin, volume, whole) \in 0 .. margin /\ PartOf(fee, volume, whole) \in 0 .. fee
  BY <1>1, PartOfBounded
<1> QED BY <1>1, <1>2, <1>3, <1>4

LEMMA CloseFillsPass ==
    ASSUME LedgerInv, NEW o \in ClientIds, ~IsOpen(o),
           NEW volume \in 1 .. orders[o].remaining
    PROVE  CloseFillConsistent(o, volume)
<1> DEFINE entries == allocations[o]
           freed == ReleasedMargin(o, volume)
           paid == ReleasedCommission(o, volume)
           margins == [d \in DOMAIN details |-> details[d].margin]
<1>1. /\ orders[o] \in Order /\ FreezeOK(orders[o], entries)
      /\ DOMAIN entries \subseteq DOMAIN details /\ IsFiniteSet(DOMAIN entries)
      /\ \A d \in DOMAIN entries : entries[d] \in Allocation /\ AllocationOK(entries[d])
  BY InvRows
<1>2. /\ DOMAIN freed = DOMAIN entries /\ DOMAIN paid = DOMAIN entries
      /\ \A d \in DOMAIN entries : /\ freed[d] \in 0 .. details[d].margin
                                /\ paid[d] \in 0 .. entries[d].commission
  BY CloseFillBounds
<1>3. /\ Held(o) = HeldBy(entries) /\ HeldCommission(o) = FeesOf(entries)
  BY DEF Held, HeldCommission, HeldBy, FeesOf
<1>4. /\ DOMAIN entries # {}
      /\ Total(Held(o)) = orders[o].remaining
      /\ orders[o].frozenPosition = orders[o].remaining
      /\ Total(HeldCommission(o)) = orders[o].frozenCommission
  BY <1>1, <1>3 DEF FreezeOK, IsOpen
<1>5. \A d \in DOMAIN entries :
         /\ entries[d].original = entries[d].remaining + entries[d].consumed + entries[d].released
         /\ entries[d].original > 0
         /\ entries[d].remaining >= 0
         /\ entries[d].remaining <= details[d].frozen
         /\ entries[d].remaining <= details[d].remaining
  <2> SUFFICES ASSUME NEW d \in DOMAIN entries
               PROVE  /\ entries[d].original =
                            entries[d].remaining + entries[d].consumed + entries[d].released
                      /\ entries[d].original > 0
                      /\ entries[d].remaining >= 0
                      /\ entries[d].remaining <= details[d].frozen
                      /\ entries[d].remaining <= details[d].remaining
    OBVIOUS
  <2>1. entries[d] \in Allocation /\ AllocationOK(entries[d]) /\ d \in DOMAIN details
    BY <1>1
  <2>2. At(HeldBy(entries), d) = entries[d].remaining
    BY DEF At, HeldBy
  <2>3. /\ entries[d].remaining <= details[d].frozen
        /\ details[d].frozen <= details[d].remaining
        /\ details[d] \in Detail
    BY <2>1, <2>2, FrozenCovers
  <2>4. entries[d].remaining <= details[d].remaining
    BY <2>1, <2>3 DEF Detail, Allocation
  <2> QED BY <2>1, <2>3, <2>4 DEF AllocationOK
<1>6. account.usedMargin >= Total(freed) /\ position.usedMargin >= Total(freed)
  <2>1. /\ DOMAIN margins = DOMAIN details /\ IsFiniteSet(DOMAIN margins)
        /\ \A d \in DOMAIN details : margins[d] \in Nat /\ margins[d] = details[d].margin
        /\ position.usedMargin = Total(margins) /\ account.usedMargin = position.usedMargin
    BY MarginsAddUp
  <2> HIDE DEF margins, freed
  <2>2. \A d \in DOMAIN freed : freed[d] \in Int /\ freed[d] <= margins[d]
    BY <1>1, <1>2, <2>1
  <2>3. Total(freed) <= Total(margins)
    BY <1>1, <1>2, <2>1, <2>2, TotalIsMonotone
  <2>4. Total(freed) \in Int /\ Total(margins) \in Int
    BY TotalType
  <2> QED BY <2>1, <2>3, <2>4
<1>7. account.frozenCommission >= Total(paid)
  <2> DEFINE fees == FeesOf(entries)
  <2>1. /\ DOMAIN fees = DOMAIN entries
        /\ \A d \in DOMAIN entries : fees[d] \in Nat /\ fees[d] = entries[d].commission
    BY HeldIsNatural DEF FeesOf
  <2>2. Total(fees) = orders[o].frozenCommission
        /\ orders[o].frozenCommission <= account.frozenCommission
    BY <1>3, <1>4, ReservesCover
  <2> HIDE DEF fees, paid
  <2>3. \A d \in DOMAIN paid : paid[d] \in Int /\ paid[d] <= fees[d]
    BY <1>2, <2>1
  <2>4. Total(paid) <= Total(fees)
    BY <1>1, <1>2, <2>1, <2>3, TotalIsMonotone
  <2>5. Total(paid) \in Int /\ Total(fees) \in Int /\ account.frozenCommission \in Int
    BY TotalType DEF LedgerInv, RowInv, TypeOK, Account
  <2> QED BY <2>2, <2>4, <2>5
<1>8. position.frozen >= volume
  <2>1. orders[o].remaining <= position.frozen
    BY <1>4, ReservesCover
  <2>2. position.frozen \in Int /\ orders[o].remaining \in Nat
    BY <1>1 DEF LedgerInv, RowInv, TypeOK, Position, Order
  <2> QED BY <2>1, <2>2
<1> QED BY <1>4, <1>5, <1>6, <1>7, <1>8, Zenon DEF CloseFillConsistent

LEMMA CancelsPass ==
    ASSUME LedgerInv, NEW o \in ClientIds, Active(o)
    PROVE  CancelConsistent(o)
<1> DEFINE order == orders[o]
<1>1. /\ order \in Order /\ RowOK(order) /\ FreezeOK(order, allocations[o])
  BY InvRows
<1>2. order.remaining > 0
  BY <1>1 DEF RowOK, Active
<1>3. account.frozenMargin >= order.frozenMargin
      /\ account.frozenCommission >= order.frozenCommission
  <2>1. account.frozenMargin \in Int /\ account.frozenCommission \in Int
    BY DEF LedgerInv, RowInv, TypeOK, Account
  <2>2. /\ order.frozenMargin \in Nat /\ order.frozenMargin <= account.frozenMargin
        /\ order.frozenCommission \in Nat
        /\ order.frozenCommission <= account.frozenCommission
    BY ReservesCover
  <2> HIDE DEF order
  <2> QED BY <2>1, <2>2
<1>4. CASE IsOpen(o)
  <2>1. order.frozenPosition = 0
    BY <1>1, <1>4 DEF FreezeOK, IsOpen
  <2> QED BY <1>2, <1>3, <1>4, <2>1 DEF CancelConsistent
<1>5. CASE ~IsOpen(o)
  <2>1. order.frozenMargin = 0
    BY <1>1, <1>5 DEF RowOK, IsOpen
  <2>2. 1 \in 1 .. order.remaining
    BY <1>1, <1>2 DEF Order
  <2>3. CloseFillConsistent(o, 1)
    BY <1>5, <2>2, CloseFillsPass
  <2>4. /\ DOMAIN allocations[o] # {}
        /\ \A d \in DOMAIN allocations[o] :
              /\ allocations[o][d].original = allocations[o][d].remaining
                    + allocations[o][d].consumed + allocations[o][d].released
              /\ allocations[o][d].remaining <= details[d].frozen
              /\ allocations[o][d].remaining <= details[d].remaining
        /\ Total(Held(o)) = order.remaining
        /\ order.frozenPosition = order.remaining
        /\ Total(HeldCommission(o)) = order.frozenCommission
    BY <2>3, Zenon DEF CloseFillConsistent
  <2>5. \A d \in DOMAIN allocations[o] :
           /\ details[d].frozen >= allocations[o][d].remaining
           /\ details[d].remaining >= allocations[o][d].remaining
    <3>1. \A d \in DOMAIN allocations[o] :
             allocations[o][d] \in Allocation /\ d \in DOMAIN details
      BY InvRows
    <3>2. \A d \in DOMAIN details : details[d] \in Detail
      BY FrozenCovers
    <3> QED BY <2>4, <3>1, <3>2 DEF Allocation, Detail
  <2>6. position.frozen >= order.remaining
    <3>1. position.frozen \in Int /\ order.remaining \in Nat
      BY <1>1 DEF LedgerInv, RowInv, TypeOK, Position, Order
    <3>2. order.frozenPosition <= position.frozen
      BY ReservesCover
    <3> HIDE DEF order
    <3> QED BY <2>4, <3>1, <3>2
  <2> QED BY <1>2, <1>3, <1>5, <2>1, <2>4, <2>5, <2>6, Zenon DEF CancelConsistent
<1> QED BY <1>4, <1>5

LEMMA InvNeverStuck == LedgerInv => ActiveOrderNeverStuck
BY OpenFillsPass, CloseFillsPass, CancelsPass, Zenon DEF ActiveOrderNeverStuck

LEMMA InvReconciles == LedgerInv => RowsReconcile
<1> SUFFICES ASSUME LedgerInv PROVE RowsReconcile
  OBVIOUS
<1>1. FrozenFundsBelongToOrders
  <2>1. \A c \in ClientIds :
           /\ orders[c].frozenMargin >= 0 /\ orders[c].frozenCommission >= 0
           /\ orders[c].status \in TerminalStatuses =>
                 orders[c].frozenMargin = 0 /\ orders[c].frozenCommission = 0
    BY InvRows DEF RowOK, FreezeOK
  <2> QED BY <2>1 DEF LedgerInv, ReservesAddUp, FrozenFundsBelongToOrders
<1>2. FrozenLotsBelongToOrders
  <2>1. \A c \in ClientIds : Held(c) = HeldBy(allocations[c])
    BY DEF Held, HeldBy
  <2>2. \A d \in DOMAIN details :
           /\ details[d].frozen = Total([c \in ClientIds |-> At(Held(c), d)])
           /\ 0 <= details[d].frozen /\ details[d].frozen <= details[d].remaining
    <3> SUFFICES ASSUME NEW d \in DOMAIN details
                 PROVE  /\ details[d].frozen = Total([c \in ClientIds |-> At(Held(c), d)])
                        /\ 0 <= details[d].frozen
                        /\ details[d].frozen <= details[d].remaining
      OBVIOUS
    <3>1. [c \in ClientIds |-> At(Held(c), d)] =
             [c \in ClientIds |-> At(HeldBy(allocations[c]), d)]
      BY <2>1
    <3>2. details[d].frozen = Total([c \in ClientIds |-> At(HeldBy(allocations[c]), d)])
      BY DEF LedgerInv, LotsAddUp
    <3>3. 0 <= details[d].frozen /\ details[d].frozen <= details[d].remaining
      BY FrozenCovers
    <3> QED BY <3>1, <3>2, <3>3
  <2>3. ASSUME NEW c \in ClientIds, orders[c].status \in TerminalStatuses
        PROVE  /\ orders[c].frozenPosition = 0
               /\ \A d \in DOMAIN allocations[c] :
                     allocations[c][d].remaining = 0 /\ allocations[c][d].commission = 0
    <3>1. /\ orders[c] \in Order /\ RowOK(orders[c])
          /\ FreezeOK(orders[c], allocations[c])
          /\ IsFiniteSet(DOMAIN allocations[c])
          /\ \A d \in DOMAIN allocations[c] : AllocationOK(allocations[c][d])
      BY InvRows
    <3>2. orders[c].remaining = 0
      BY <2>3, <3>1 DEF RowOK, Order, TerminalStatuses, CancelledStatuses
    <3>3. CASE orders[c].offset = "OPEN"
      BY <3>1, <3>3 DEF FreezeOK
    <3>4. CASE orders[c].offset # "OPEN"
      <4> DEFINE held == HeldBy(allocations[c])
      <4>1. /\ DOMAIN held = DOMAIN allocations[c]
            /\ \A d \in DOMAIN allocations[c] : held[d] \in Nat
        BY HeldIsNatural
      <4>2. Total(held) = 0 /\ orders[c].frozenPosition = 0
        BY <3>1, <3>2, <3>4 DEF FreezeOK
      <4>3. \A d \in DOMAIN allocations[c] : held[d] = allocations[c][d].remaining
        BY DEF HeldBy
      <4> HIDE DEF held
      <4>4. \A d \in DOMAIN allocations[c] : held[d] = 0
        BY <3>1, <4>1, <4>2, TotalOfNaturals
      <4> QED BY <3>1, <4>2, <4>3, <4>4 DEF AllocationOK
    <3> QED BY <3>3, <3>4
  <2> QED BY <2>2, <2>3 DEF LedgerInv, ReservesAddUp, LotsAddUp, FrozenLotsBelongToOrders
<1> QED BY <1>1, <1>2 DEF LedgerInv, RowsReconcile

-----------------------------------------------------------------------------
(* How the sums move when one order, or one detail, changes.               *)

LEMMA NewOrderFreeze ==
    ASSUME NEW r \in Requests, NEW margin, NEW commission, NEW lots,
           NEW order, order = NewOrder(r, margin, commission, lots)
    PROVE  order.frozenCommission = commission /\ order.frozenPosition = lots
BY DEF NewOrder, NoOrder

LEMMA FilledFreeze ==
    ASSUME NEW old \in Order, NEW volume, NEW margin, NEW commission, NEW lots,
           NEW order, order = Filled(old, volume, margin, commission, lots)
    PROVE  /\ order.frozenCommission = old.frozenCommission - commission
           /\ order.frozenPosition = old.frozenPosition - lots
BY DEF Filled, Order

LEMMA CancelledFreeze ==
    ASSUME NEW old \in Order, NEW order, order = Cancelled(old)
    PROVE  order.frozenCommission = 0 /\ order.frozenPosition = 0
BY DEF Cancelled, Order

LEMMA OneOrderMoves ==
    ASSUME NEW a \in [ClientIds -> Order], NEW b \in [ClientIds -> Order],
           NEW c \in ClientIds, \A x \in ClientIds \ {c} : b[x] = a[x]
    PROVE  /\ Total([x \in ClientIds |-> b[x].frozenMargin]) =
                 Total([x \in ClientIds |-> a[x].frozenMargin])
                    + (b[c].frozenMargin - a[c].frozenMargin)
           /\ Total([x \in ClientIds |-> b[x].frozenCommission]) =
                 Total([x \in ClientIds |-> a[x].frozenCommission])
                    + (b[c].frozenCommission - a[c].frozenCommission)
           /\ Total([x \in ClientIds |-> b[x].frozenPosition]) =
                 Total([x \in ClientIds |-> a[x].frozenPosition])
                    + (b[c].frozenPosition - a[c].frozenPosition)
<1> DEFINE Margin(s) == [x \in ClientIds |-> s[x].frozenMargin]
           Fee(s) == [x \in ClientIds |-> s[x].frozenCommission]
           Lots(s) == [x \in ClientIds |-> s[x].frozenPosition]
<1>1. \A s \in [ClientIds -> Order] : \A x \in ClientIds :
         /\ s[x].frozenMargin \in Int /\ s[x].frozenCommission \in Int
         /\ s[x].frozenPosition \in Int
  BY DEF Order
<1>2. /\ DOMAIN Margin(a) = ClientIds /\ DOMAIN Margin(b) = ClientIds
      /\ DOMAIN Fee(a) = ClientIds /\ DOMAIN Fee(b) = ClientIds
      /\ DOMAIN Lots(a) = ClientIds /\ DOMAIN Lots(b) = ClientIds
      /\ \A x \in ClientIds : /\ Margin(a)[x] \in Int /\ Margin(b)[x] \in Int
                              /\ Fee(a)[x] \in Int /\ Fee(b)[x] \in Int
                              /\ Lots(a)[x] \in Int /\ Lots(b)[x] \in Int
      /\ \A x \in ClientIds \ {c} : /\ Margin(b)[x] = Margin(a)[x]
                                    /\ Fee(b)[x] = Fee(a)[x]
                                    /\ Lots(b)[x] = Lots(a)[x]
  BY <1>1
<1>3. /\ Margin(a)[c] = a[c].frozenMargin /\ Margin(b)[c] = b[c].frozenMargin
      /\ Fee(a)[c] = a[c].frozenCommission /\ Fee(b)[c] = b[c].frozenCommission
      /\ Lots(a)[c] = a[c].frozenPosition /\ Lots(b)[c] = b[c].frozenPosition
  OBVIOUS
<1> HIDE DEF Margin, Fee, Lots
<1>4. /\ Total(Margin(b)) = Total(Margin(a)) + (Margin(b)[c] - Margin(a)[c])
      /\ Total(Fee(b)) = Total(Fee(a)) + (Fee(b)[c] - Fee(a)[c])
      /\ Total(Lots(b)) = Total(Lots(a)) + (Lots(b)[c] - Lots(a)[c])
  BY <1>2, ClientsAssumption, TotalChanges
<1> QED BY <1>3, <1>4 DEF Margin, Fee, Lots

\* The account and the position freeze as much more, or less, as the one order
\* that a step writes.
LEMMA ReservesMove ==
    ASSUME TypeOK, TypeOK', ReservesAddUp, NEW c \in ClientIds,
           \A x \in ClientIds \ {c} : orders'[x] = orders[x],
           account'.frozenMargin = account.frozenMargin
              + (orders'[c].frozenMargin - orders[c].frozenMargin),
           account'.frozenCommission = account.frozenCommission
              + (orders'[c].frozenCommission - orders[c].frozenCommission),
           position'.frozen = position.frozen
              + (orders'[c].frozenPosition - orders[c].frozenPosition)
    PROVE  ReservesAddUp'
<1> DEFINE a == orders
           b == orders'
<1>1. a \in [ClientIds -> Order] /\ b \in [ClientIds -> Order]
  BY DEF TypeOK
<1>2. \A x \in ClientIds \ {c} : b[x] = a[x]
  OBVIOUS
<1> HIDE DEF a, b
<1>3. /\ Total([x \in ClientIds |-> b[x].frozenMargin]) =
            Total([x \in ClientIds |-> a[x].frozenMargin])
               + (b[c].frozenMargin - a[c].frozenMargin)
      /\ Total([x \in ClientIds |-> b[x].frozenCommission]) =
            Total([x \in ClientIds |-> a[x].frozenCommission])
               + (b[c].frozenCommission - a[c].frozenCommission)
      /\ Total([x \in ClientIds |-> b[x].frozenPosition]) =
            Total([x \in ClientIds |-> a[x].frozenPosition])
               + (b[c].frozenPosition - a[c].frozenPosition)
  BY <1>1, <1>2, OneOrderMoves
<1> QED BY <1>3 DEF ReservesAddUp, a, b

\* The same for lots: each detail by what the order holds more, or less, of it,
\* the position by what it holds more, or less, in all.
LEMMA LotsMove ==
    ASSUME LedgerInv, TypeOK', NEW c \in ClientIds, NEW old, NEW new,
           old = HeldBy(allocations[c]), new = HeldBy(allocations'[c]),
           \A x \in ClientIds \ {c} : allocations'[x] = allocations[x],
           DOMAIN new \subseteq DOMAIN details, \A d \in DOMAIN new : new[d] \in Nat,
           DOMAIN details' = DOMAIN details,
           \A d \in DOMAIN details :
              /\ details'[d].frozen = details[d].frozen + (At(new, d) - At(old, d))
              /\ details'[d].frozen <= details'[d].remaining,
           position'.frozen = position.frozen + (Total(new) - Total(old))
    PROVE  LotsAddUp'
<1>0. TypeOK /\ IsFiniteSet(DOMAIN details)
  BY SomeDetails DEF LedgerInv, RowInv
<1>1. \A d : At(new, d) \in Int /\ At(old, d) \in Nat
  <2>1. \A d : At(new, d) \in Int
    BY AtType
  <2> QED BY <2>1, HeldIsNatural
<1>2. ASSUME NEW d \in DOMAIN details
      PROVE  details'[d].frozen = Total([x \in ClientIds |-> At(HeldBy(allocations'[x]), d)])
  <2> DEFINE f == [x \in ClientIds |-> At(HeldBy(allocations[x]), d)]
             g == [x \in ClientIds |-> At(HeldBy(allocations'[x]), d)]
  <2>1. /\ DOMAIN f = ClientIds /\ DOMAIN g = ClientIds
        /\ \A x \in ClientIds : f[x] \in Int
    <3>1. \A x \in ClientIds : At(HeldBy(allocations[x]), d) \in Nat
      BY HeldIsNatural
    <3> QED BY <3>1
  <2>2. \A x \in ClientIds \ {c} : g[x] = f[x]
    OBVIOUS
  <2>3. f[c] = At(old, d) /\ g[c] = At(new, d)
    OBVIOUS
  <2>4. details[d].frozen = Total(f)
    BY DEF LedgerInv, LotsAddUp
  <2> HIDE DEF f, g
  <2>5. Total(g) = Total(f) + (g[c] - f[c])
    BY <1>1, <2>1, <2>2, <2>3, ClientsAssumption, TotalChanges
  <2>6. details'[d].frozen = Total(g)
    BY <2>3, <2>4, <2>5
  <2> QED BY <2>6 DEF g
<1>3. position'.frozen = Total([d \in DOMAIN details |-> details'[d].frozen])
  <2> DEFINE f == [d \in DOMAIN details |-> details[d].frozen]
             k == [d \in DOMAIN details |-> details[d].frozen + At(new, d)]
             h == [d \in DOMAIN details |-> details'[d].frozen]
  <2>1. /\ DOMAIN f = DOMAIN details /\ DOMAIN k = DOMAIN details
        /\ DOMAIN h = DOMAIN details
        /\ \A d \in DOMAIN details : f[d] \in Int
    BY FrozenCovers
  <2>2. \A d \in DOMAIN details : k[d] = f[d] + At(new, d)
    OBVIOUS
  <2>3. \A d \in DOMAIN details : k[d] \in Int
    BY <1>1, <2>1, <2>2
  <2>4. \A d \in DOMAIN details : h[d] = k[d] - At(old, d)
    <3>1. \A d \in DOMAIN details : h[d] = f[d] + (At(new, d) - At(old, d))
      OBVIOUS
    <3> HIDE DEF f, k, h
    <3> QED BY <1>1, <2>1, <2>2, <3>1
  <2>5. position.frozen = Total(f)
    BY DEF LedgerInv, LotsAddUp
  <2> HIDE DEF f, k, h
  <2>6. \A d \in DOMAIN new : new[d] \in Int
    OBVIOUS
  <2>7. Total(k) = Total(f) + Total(new)
    BY <1>0, <2>1, <2>2, <2>6, TotalGrows
  <2>8. DOMAIN old \subseteq DOMAIN details /\ \A d \in DOMAIN old : old[d] \in Int
    BY InvRows, HeldIsNatural
  <2>9. Total(h) = Total(k) - Total(old)
    BY <1>0, <2>1, <2>3, <2>4, <2>8, TotalShrinks
  <2>10. Total(f) \in Int /\ Total(new) \in Int /\ Total(old) \in Int
    BY TotalType
  <2>11. position'.frozen = Total(h)
    BY <2>5, <2>7, <2>9, <2>10
  <2> QED BY <2>11 DEF h
<1> QED BY <1>2, <1>3 DEF LotsAddUp

-----------------------------------------------------------------------------
(* How the position follows its details.                                   *)

LotsOf(ds) == [d \in DOMAIN ds |-> ds[d].remaining]
MarginsOf(ds) == [d \in DOMAIN ds |-> ds[d].margin]
Today(ds) == TotalOf(ds, IsToday)
Yesterday(ds) == TotalOf(ds, IsYesterday)

LEMMA DetailSeq ==
    ASSUME NEW ds \in Seq(Detail)
    PROVE  IsFiniteSet(DOMAIN ds) /\ \A d \in DOMAIN ds : ds[d] \in Detail
<1>1. Len(ds) \in Nat /\ DOMAIN ds = 1 .. Len(ds)
  BY LenProperties
<1>2. IsFiniteSet(1 .. Len(ds))
  BY <1>1, FS_Interval
<1> QED BY <1>1, <1>2, ElementOfSeq

\* Today's lots and yesterday's are all the lots.
LEMMA LotsSplitByDay ==
    ASSUME NEW ds \in Seq(Detail)
    PROVE  Today(ds) + Yesterday(ds) = Total(LotsOf(ds))
<1> DEFINE f == [d \in DOMAIN ds |-> IF IsToday(ds[d]) THEN ds[d].remaining ELSE 0]
           g == [d \in DOMAIN ds |-> IF IsYesterday(ds[d]) THEN ds[d].remaining ELSE 0]
           h == LotsOf(ds)
<1>1. Today(ds) = Total(f) /\ Yesterday(ds) = Total(g)
  BY DEF TotalOf, Today, Yesterday
<1>2. IsFiniteSet(DOMAIN ds) /\ \A d \in DOMAIN ds : ds[d] \in Detail
  BY DetailSeq
<1>3. /\ DOMAIN f = DOMAIN ds /\ DOMAIN g = DOMAIN ds /\ DOMAIN h = DOMAIN ds
      /\ \A d \in DOMAIN ds : f[d] \in Int /\ g[d] \in Int /\ h[d] = f[d] + g[d]
  <2>1. DOMAIN f = DOMAIN ds /\ DOMAIN g = DOMAIN ds /\ DOMAIN h = DOMAIN ds
    BY DEF LotsOf
  <2>2. ASSUME NEW d \in DOMAIN ds
        PROVE  f[d] \in Int /\ g[d] \in Int /\ h[d] = f[d] + g[d]
    <3>1. PICK r \in Detail : r = ds[d]
      BY <1>2
    <3>2. r.remaining \in Int /\ (IsToday(r) <=> ~IsYesterday(r))
      BY DEF IsToday, IsYesterday, Detail
    <3>3. /\ f[d] = IF IsToday(r) THEN r.remaining ELSE 0
          /\ g[d] = IF IsYesterday(r) THEN r.remaining ELSE 0
          /\ h[d] = r.remaining
      BY <3>1 DEF LotsOf
    <3> QED BY <3>2, <3>3
  <2> QED BY <2>1, <2>2
<1>4. \A d \in DOMAIN ds : h[d] \in Int
  BY <1>3
<1> HIDE DEF f, g, h
<1>5. /\ Total(f) = SumFunctionOnSet(f, DOMAIN ds) /\ Total(g) = SumFunctionOnSet(g, DOMAIN ds)
      /\ Total(h) = SumFunctionOnSet(h, DOMAIN ds)
  BY <1>2, <1>3, <1>4, TotalIsSum
<1>6. SumFunctionOnSet(h, DOMAIN ds) = SumFunctionOnSet(f, DOMAIN ds) + SumFunctionOnSet(g, DOMAIN ds)
  BY <1>2, <1>3, SumOfSums
<1> QED BY <1>1, <1>5, <1>6 DEF h

\* Freezing and releasing lots moves none.
LEMMA SameLots ==
    ASSUME NEW ds \in Seq(Detail), NEW es \in Seq(Detail), DOMAIN es = DOMAIN ds,
           \A d \in DOMAIN ds : /\ es[d].today = ds[d].today
                                /\ es[d].remaining = ds[d].remaining
                                /\ es[d].margin = ds[d].margin
    PROVE  /\ Today(es) = Today(ds)
           /\ Yesterday(es) = Yesterday(ds)
           /\ Total(MarginsOf(es)) = Total(MarginsOf(ds))
<1>1. [d \in DOMAIN es |-> IF IsToday(es[d]) THEN es[d].remaining ELSE 0] =
         [d \in DOMAIN ds |-> IF IsToday(ds[d]) THEN ds[d].remaining ELSE 0]
  BY DEF IsToday
<1>2. [d \in DOMAIN es |-> IF IsYesterday(es[d]) THEN es[d].remaining ELSE 0] =
         [d \in DOMAIN ds |-> IF IsYesterday(ds[d]) THEN ds[d].remaining ELSE 0]
  BY DEF IsYesterday
<1>3. MarginsOf(es) = MarginsOf(ds)
  BY DEF MarginsOf
<1> QED BY <1>1, <1>2, <1>3, Zenon DEF TotalOf, Today, Yesterday

\* An open fill appends a detail of today's.
LEMMA AppendAddsOne ==
    ASSUME NEW ds \in Seq(Detail), NEW row \in Detail, NEW es, es = Append(ds, row)
    PROVE  /\ es \in Seq(Detail) /\ Len(ds) + 1 \notin DOMAIN ds
           /\ DOMAIN es = DOMAIN ds \cup {Len(ds) + 1}
           /\ es[Len(ds) + 1] = row /\ \A d \in DOMAIN ds : es[d] = ds[d]
<1> DEFINE n == Len(ds) + 1
<1>1. /\ es \in Seq(Detail) /\ Len(es) = n
      /\ \A i \in 1 .. Len(ds) : es[i] = ds[i]
      /\ es[n] = row
  BY AppendProperties
<1>2. /\ Len(ds) \in Nat /\ DOMAIN ds = 1 .. Len(ds) /\ DOMAIN es = 1 .. n
  BY <1>1, LenProperties
<1>3. n \notin DOMAIN ds /\ DOMAIN es = DOMAIN ds \cup {n}
  BY <1>2
<1> QED BY <1>1, <1>2, <1>3

LEMMA OneMoreDetail ==
    ASSUME NEW ds \in Seq(Detail), NEW es, NEW n, n \notin DOMAIN ds,
           DOMAIN es = DOMAIN ds \cup {n}, \A d \in DOMAIN ds : es[d] = ds[d],
           NEW row \in Detail, IsToday(row), es[n] = row
    PROVE  /\ Today(es) = Today(ds) + row.remaining
           /\ Yesterday(es) = Yesterday(ds)
           /\ Total(MarginsOf(es)) = Total(MarginsOf(ds)) + row.margin
<1>1. es[n] = row
  OBVIOUS
<1>3. n \notin DOMAIN ds /\ DOMAIN es = DOMAIN ds \cup {n}
  OBVIOUS
<1>4. \A d \in DOMAIN ds : es[d] = ds[d] /\ ds[d] \in Detail
  BY DetailSeq
<1>5. IsFiniteSet(DOMAIN ds)
  BY DetailSeq
<1>6. ASSUME NEW f, NEW g, DOMAIN f = DOMAIN ds, DOMAIN g = DOMAIN es, g[n] \in Int,
             \A d \in DOMAIN ds : f[d] \in Int /\ g[d] = f[d]
      PROVE  Total(g) = Total(f) + g[n]
  BY <1>3, <1>5, <1>6, TotalExtends
<1>7. Today(es) = Today(ds) + row.remaining
  <2> DEFINE f == [d \in DOMAIN ds |-> IF IsToday(ds[d]) THEN ds[d].remaining ELSE 0]
             g == [d \in DOMAIN es |-> IF IsToday(es[d]) THEN es[d].remaining ELSE 0]
  <2>1. g[n] = row.remaining /\ row.remaining \in Int
    BY <1>1, <1>3 DEF IsToday, Detail
  <2>2. ASSUME NEW d \in DOMAIN ds PROVE f[d] \in Int /\ g[d] = f[d]
    <3>1. es[d] = ds[d] /\ d \in DOMAIN es /\ ds[d].remaining \in Int
      BY <1>3, <1>4 DEF Detail
    <3>2. g[d] = f[d]
      BY <3>1, Zenon
    <3> QED BY <3>1, <3>2
  <2>3. Today(es) = Total(g) /\ Today(ds) = Total(f)
    BY DEF TotalOf, Today, Yesterday
  <2>4. DOMAIN f = DOMAIN ds /\ DOMAIN g = DOMAIN es
    OBVIOUS
  <2> HIDE DEF f, g
  <2>5. Total(g) = Total(f) + g[n]
    BY <1>6, <2>1, <2>2, <2>4
  <2> QED BY <2>1, <2>3, <2>5
<1>8. Yesterday(es) = Yesterday(ds)
  <2> DEFINE f == [d \in DOMAIN ds |-> IF IsYesterday(ds[d]) THEN ds[d].remaining ELSE 0]
             g == [d \in DOMAIN es |-> IF IsYesterday(es[d]) THEN es[d].remaining ELSE 0]
  <2>1. g[n] = 0
    BY <1>1, <1>3 DEF IsYesterday, IsToday
  <2>2. ASSUME NEW d \in DOMAIN ds PROVE f[d] \in Int /\ g[d] = f[d]
    <3>1. es[d] = ds[d] /\ d \in DOMAIN es /\ ds[d].remaining \in Int
      BY <1>3, <1>4 DEF Detail
    <3>2. g[d] = f[d]
      BY <3>1, Zenon
    <3> QED BY <3>1, <3>2
  <2>3. Yesterday(es) = Total(g) /\ Yesterday(ds) = Total(f)
    BY DEF TotalOf, Today, Yesterday
  <2>4. DOMAIN f = DOMAIN ds /\ DOMAIN g = DOMAIN es
    OBVIOUS
  <2> HIDE DEF f, g
  <2>5. Total(g) = Total(f) + g[n]
    <3>1. g[n] \in Int
      BY <2>1
    <3>2. \A d \in DOMAIN ds : f[d] \in Int /\ g[d] = f[d]
      BY <2>2
    <3> QED BY <1>6, <2>4, <3>1, <3>2
  <2>6. Total(f) \in Int
    BY TotalType
  <2> QED BY <2>1, <2>3, <2>5, <2>6
<1>9. Total(MarginsOf(es)) = Total(MarginsOf(ds)) + row.margin
  <2> DEFINE f == MarginsOf(ds)
             g == MarginsOf(es)
  <2>1. g[n] = row.margin /\ row.margin \in Int
    BY <1>1, <1>3 DEF MarginsOf, Detail
  <2>2. \A d \in DOMAIN ds : f[d] \in Int /\ g[d] = f[d]
    BY <1>3, <1>4 DEF MarginsOf, Detail
  <2>3. DOMAIN f = DOMAIN ds /\ DOMAIN g = DOMAIN es
    BY DEF MarginsOf
  <2> HIDE DEF f, g
  <2>4. Total(g) = Total(f) + g[n]
    BY <1>6, <2>1, <2>2, <2>3
  <2> QED BY <2>1, <2>4 DEF f, g
<1> QED BY <1>7, <1>8, <1>9

-----------------------------------------------------------------------------
(* The ledger invariant holds at the start of the day.                     *)

LEMMA LedgerInvInit == Init => LedgerInv
<1> SUFFICES ASSUME Init PROVE LedgerInv
  OBVIOUS
<1>1. RowInv /\ FundIdentity
  BY RowInvInit, FundInit
<1>2. /\ \A c \in ClientIds : orders[c] = NoOrder /\ allocations[c] = <<>>
      /\ details = OpeningDetails
      /\ account.frozenMargin = 0 /\ account.frozenCommission = 0 /\ position.frozen = 0
      /\ position.total = position.yesterday /\ position.today = 0
      /\ position.yesterday = TotalOf(details, IsYesterday)
      /\ position.usedMargin = Total(MarginsOf(details))
      /\ account.usedMargin = position.usedMargin
  BY DEF Init, MarginsOf
<1>3. /\ NoOrder.frozenMargin = 0 /\ NoOrder.frozenCommission = 0
      /\ NoOrder.frozenPosition = 0 /\ NoOrder.offset = "OPEN"
  BY DEF NoOrder
<1>4. DOMAIN <<>> = {}
  OBVIOUS
<1>5. FreezesOK
  BY <1>2, <1>3, <1>4 DEF FreezesOK, FreezeOK
<1>6. ReservesAddUp
  <2> DEFINE f == [c \in ClientIds |-> orders[c].frozenMargin]
             g == [c \in ClientIds |-> orders[c].frozenCommission]
             h == [c \in ClientIds |-> orders[c].frozenPosition]
  <2>1. /\ DOMAIN f = ClientIds /\ DOMAIN g = ClientIds /\ DOMAIN h = ClientIds
        /\ \A c \in ClientIds : f[c] = 0 /\ g[c] = 0 /\ h[c] = 0
    BY <1>2, <1>3
  <2> HIDE DEF f, g, h
  <2>2. Total(f) = 0 /\ Total(g) = 0 /\ Total(h) = 0
    BY <2>1, ClientsAssumption, TotalOfNaturals
  <2> QED BY <1>2, <2>2 DEF ReservesAddUp, f, g, h
<1>7. OpeningDetails \in Seq(Detail)
  BY OpeningAssumption
<1>8. \A d \in DOMAIN details :
         /\ details[d] \in Detail /\ details[d].today = FALSE /\ details[d].frozen = 0
         /\ details[d].remaining >= 0 /\ details[d].margin >= 0
         /\ details[d].remaining = 0 => details[d].margin = 0
  BY <1>2, <1>7, OpeningAssumption, DetailSeq DEF Detail
<1>9. IsFiniteSet(DOMAIN details)
  BY <1>2, <1>7, DetailSeq
<1>10. LotsAddUp
  <2>1. ASSUME NEW d
        PROVE  Total([c \in ClientIds |-> At(HeldBy(allocations[c]), d)]) = 0
    <3> DEFINE f == [c \in ClientIds |-> At(HeldBy(allocations[c]), d)]
    <3>1. DOMAIN f = ClientIds /\ \A c \in ClientIds : f[c] = 0
      BY <1>2, <1>4 DEF At, HeldBy
    <3> HIDE DEF f
    <3>2. Total(f) = 0
      BY <3>1, ClientsAssumption, TotalOfNaturals
    <3> QED BY <3>2 DEF f
  <2> DEFINE f == [d \in DOMAIN details |-> details[d].frozen]
  <2>2. DOMAIN f = DOMAIN details /\ \A d \in DOMAIN details : f[d] = 0
    BY <1>8
  <2> HIDE DEF f
  <2>3. Total(f) = 0
    BY <1>9, <2>2, TotalOfNaturals
  <2> QED BY <1>2, <1>8, <2>1, <2>3 DEF LotsAddUp, f, Detail
<1>11. PositionIsItsDetails
  <2> DEFINE f == [d \in DOMAIN details |-> IF IsToday(details[d]) THEN details[d].remaining
                                            ELSE 0]
  <2>1. DOMAIN f = DOMAIN details /\ \A d \in DOMAIN details : f[d] = 0
    BY <1>8 DEF IsToday
  <2>2. TotalOf(details, IsToday) = Total(f)
    BY DEF TotalOf
  <2> HIDE DEF f
  <2>3. Total(f) = 0
    BY <1>9, <2>1, TotalOfNaturals
  <2>4. TotalOf(details, IsYesterday) \in Int
    BY TotalType DEF TotalOf
  <2>5. position.total = position.today + position.yesterday
    BY <1>2, <2>4
  <2> QED BY <1>2, <1>8, <2>2, <2>3, <2>5, Zenon DEF PositionIsItsDetails, MarginsOf
<1> QED BY <1>1, <1>5, <1>6, <1>10, <1>11 DEF LedgerInv

-----------------------------------------------------------------------------
(* Every step keeps it.  A step writes one order row; the conjuncts about  *)
(* the others follow from OneOrder.                                        *)

\* The four conjuncts a step has to keep besides the rows and the fund identity.
FreezeInv == FreezesOK /\ ReservesAddUp /\ LotsAddUp /\ PositionIsItsDetails

LEMMA FreezesMove ==
    ASSUME LedgerInv, NEW c \in ClientIds,
           \A x \in ClientIds \ {c} : orders'[x] = orders[x] /\ allocations'[x] = allocations[x],
           FreezeOK(orders'[c], allocations'[c])
    PROVE  FreezesOK'
<1>1. \A x \in ClientIds : FreezeOK(orders[x], allocations[x])
  BY DEF LedgerInv, FreezesOK
<1>2. \A x \in ClientIds : FreezeOK(orders'[x], allocations'[x])
  BY <1>1, Zenon
<1> QED BY <1>2, Zenon DEF FreezesOK

LEMMA FreezeAcceptOpen ==
    ASSUME LedgerInv, TypeOK', NEW c \in ClientIds, NEW r \in Requests, r.offset = "OPEN",
           orders[c].status = "NONE", AcceptOpen(c, r)
    PROVE  FreezeInv'
<1> DEFINE margin == OpenMargin(r.limit, r.volume)
           commission == Commission("OPEN", r.limit, r.volume)
           new == NewOrder(r, margin, commission, 0)
<1>1. margin \in Nat /\ commission \in Nat
  <2>1. r.limit \in Nat /\ r.volume \in Nat /\ "OPEN" \in OffsetFlags
    BY RequestType DEF OffsetFlags
  <2> QED BY <2>1, OpenMarginType, CommissionIsNatural
<1>2. /\ orders' = [orders EXCEPT ![c] = new]
      /\ account' = [account EXCEPT
                        !.available        = @ - (margin + commission),
                        !.riskAvailable    = RiskAvailable - (margin + commission),
                        !.frozenMargin     = @ + margin,
                        !.frozenCommission = @ + commission]
      /\ UNCHANGED <<allocations, position, details>>
  BY DEF AcceptOpen
<1>3. /\ new.status = "ACCEPTED" /\ new.offset = "OPEN" /\ new.frozenMargin = margin
      /\ new.frozenCommission = commission /\ new.frozenPosition = 0
  BY NewOrderColumns, NewOrderFreeze
<1> HIDE DEF margin, commission, new
<1>4. /\ orders[c] \in Order /\ RowOK(orders[c]) /\ FreezeOK(orders[c], allocations[c])
      /\ orders \in [ClientIds -> Order] /\ account \in Account /\ position \in Position
  BY InvRows DEF LedgerInv, RowInv, TypeOK
<1>5. /\ orders'[c] = new /\ \A x \in ClientIds \ {c} : orders'[x] = orders[x]
  BY <1>2, <1>4
<1>6. /\ orders[c].frozenMargin = 0 /\ orders[c].frozenCommission = 0
      /\ orders[c].frozenPosition = 0 /\ DOMAIN allocations[c] = {}
  BY <1>4 DEF RowOK, FreezeOK
<1>7. FreezeOK(orders'[c], allocations'[c])
  BY <1>1, <1>2, <1>3, <1>5, <1>6 DEF FreezeOK, TerminalStatuses, CancelledStatuses
<1>8. FreezesOK'
  BY <1>2, <1>5, <1>7, FreezesMove
<1>9. /\ account'.frozenMargin = account.frozenMargin + margin
      /\ account'.frozenCommission = account.frozenCommission + commission
      /\ account'.usedMargin = account.usedMargin
  BY <1>2, <1>4 DEF Account
<1>10. ReservesAddUp'
  <2>1. /\ account'.frozenMargin = account.frozenMargin
              + (orders'[c].frozenMargin - orders[c].frozenMargin)
        /\ account'.frozenCommission = account.frozenCommission
              + (orders'[c].frozenCommission - orders[c].frozenCommission)
        /\ position'.frozen = position.frozen
              + (orders'[c].frozenPosition - orders[c].frozenPosition)
    BY <1>1, <1>2, <1>3, <1>4, <1>5, <1>6, <1>9 DEF Account, Position
  <2> QED BY <1>5, <2>1, ReservesMove DEF LedgerInv, RowInv
<1>11. LotsAddUp'
  BY <1>2 DEF LedgerInv, LotsAddUp
<1>12. PositionIsItsDetails'
  BY <1>2, <1>9, Zenon DEF LedgerInv, PositionIsItsDetails
<1> QED BY <1>8, <1>10, <1>11, <1>12 DEF FreezeInv

\* The lots a close order freezes: as many as it asks for, none that is not free.
LEMMA ClosePlanTakes ==
    ASSUME LedgerInv, NEW r \in Requests, CanFreezeClose(r)
    PROVE  /\ DOMAIN ClosePlan(r) \subseteq DOMAIN details /\ DOMAIN ClosePlan(r) # {}
           /\ IsFiniteSet(DOMAIN ClosePlan(r))
           /\ \A d \in DOMAIN ClosePlan(r) :
                 /\ ClosePlan(r)[d] \in Nat /\ ClosePlan(r)[d] > 0
                 /\ ClosePlan(r)[d] <= details[d].remaining - details[d].frozen
           /\ Total(ClosePlan(r)) = r.volume
<1> DEFINE free == FreeLots(r)
           taken == FifoSplit(free, r.volume)
           plan == ClosePlan(r)
<1>0. TypeOK /\ r.volume \in Nat \ {0}
  BY RequestType DEF LedgerInv, RowInv
<1>1. DOMAIN free \subseteq DOMAIN details /\ IsFiniteSet(DOMAIN free)
  <2>1. DOMAIN free \subseteq DOMAIN details
    BY DEF FreeLots, Candidates
  <2> QED BY <1>0, <2>1, SomeDetails
<1>2. \A d \in DOMAIN free : free[d] \in Nat /\ free[d] = details[d].remaining - details[d].frozen
  <2> SUFFICES ASSUME NEW d \in DOMAIN free
               PROVE  free[d] \in Nat /\ free[d] = details[d].remaining - details[d].frozen
    OBVIOUS
  <2>1. details[d] \in Detail
    BY <1>1, FrozenCovers
  <2>2. free[d] = details[d].remaining - details[d].frozen /\ free[d] > 0
    BY DEF FreeLots, Candidates, Free
  <2> HIDE DEF free
  <2> QED BY <2>1, <2>2 DEF Detail
<1> HIDE DEF free
<1>3. /\ DOMAIN taken = DOMAIN free
      /\ \A d \in DOMAIN free : taken[d] \in 0 .. free[d]
      /\ Total(taken) = Smaller(r.volume, Total(free))
  BY <1>0, <1>1, <1>2, FifoTakes
<1>4. Total(free) >= r.volume /\ Total(free) \in Int
  BY TotalType DEF CanFreezeClose, free
<1>5. Total(taken) = r.volume
  BY <1>0, <1>3, <1>4 DEF Smaller
<1>6. plan = [d \in {d \in DOMAIN taken : taken[d] > 0} |-> taken[d]]
  BY DEF ClosePlan, free
<1> HIDE DEF taken, plan
<1>7. /\ DOMAIN plan \subseteq DOMAIN free /\ IsFiniteSet(DOMAIN plan)
      /\ \A d \in DOMAIN plan : plan[d] = taken[d] /\ taken[d] > 0
      /\ \A d \in DOMAIN free \ DOMAIN plan : ~(taken[d] > 0)
  <2>1. DOMAIN plan \subseteq DOMAIN free
    BY <1>3, <1>6
  <2>2. IsFiniteSet(DOMAIN plan)
    BY <1>1, <2>1, FS_Subset
  <2> QED BY <1>3, <1>6, <2>1, <2>2
<1>8. \A d \in DOMAIN plan :
         plan[d] \in Nat /\ plan[d] > 0 /\ plan[d] <= details[d].remaining - details[d].frozen
  BY <1>2, <1>3, <1>7
<1>9. Total(plan) = r.volume
  <2>1. \A d \in DOMAIN free : taken[d] = 0 + At(plan, d)
    BY <1>2, <1>3, <1>7 DEF At
  <2> DEFINE zero == [d \in DOMAIN free |-> 0]
  <2>2. DOMAIN zero = DOMAIN free /\ \A d \in DOMAIN free : zero[d] = 0
    OBVIOUS
  <2> HIDE DEF zero
  <2>3. Total(zero) = 0
    BY <1>1, <2>2, TotalOfNaturals
  <2>4. \A d \in DOMAIN plan : plan[d] \in Int
    BY <1>8
  <2>5. \A d \in DOMAIN free : zero[d] \in Int /\ taken[d] = zero[d] + At(plan, d)
    BY <2>1, <2>2
  <2>6. Total(taken) = Total(zero) + Total(plan)
    BY <1>1, <1>3, <1>7, <2>2, <2>4, <2>5, TotalGrows
  <2>7. Total(plan) \in Int
    BY TotalType
  <2> QED BY <1>5, <2>3, <2>6, <2>7
<1>10. DOMAIN plan # {}
  <2>1. SUFFICES ASSUME DOMAIN plan = {} PROVE FALSE
    OBVIOUS
  <2>2. Total(plan) = 0
    BY <1>7, <2>1, TotalOfNaturals
  <2> QED BY <1>0, <1>9, <2>2
<1> QED BY <1>1, <1>7, <1>8, <1>9, <1>10 DEF plan

\* Freezing and releasing lots leaves the position as its details have it.
LEMMA PositionStays ==
    ASSUME LedgerInv, TypeOK', DOMAIN details' = DOMAIN details,
           \A d \in DOMAIN details :
              /\ details'[d].today = details[d].today
              /\ details'[d].remaining = details[d].remaining
              /\ details'[d].margin = details[d].margin,
           position'.total = position.total, position'.today = position.today,
           position'.yesterday = position.yesterday,
           position'.usedMargin = position.usedMargin,
           account'.usedMargin = account.usedMargin
    PROVE  PositionIsItsDetails'
<1> DEFINE ds == details
           es == details'
<1>1. ds \in Seq(Detail) /\ es \in Seq(Detail) /\ DOMAIN es = DOMAIN ds
      /\ \A d \in DOMAIN ds : /\ es[d].today = ds[d].today
                              /\ es[d].remaining = ds[d].remaining
                              /\ es[d].margin = ds[d].margin
  BY DEF LedgerInv, RowInv, TypeOK
<1> HIDE DEF ds, es
<1>2. /\ Today(es) = Today(ds)
      /\ Yesterday(es) = Yesterday(ds)
      /\ Total(MarginsOf(es)) = Total(MarginsOf(ds))
  BY <1>1, SameLots
<1>3. /\ position.total = position.today + position.yesterday
      /\ position.today = Today(ds)
      /\ position.yesterday = Yesterday(ds)
      /\ position.usedMargin = Total(MarginsOf(ds))
      /\ account.usedMargin = position.usedMargin
      /\ \A d \in DOMAIN ds : ds[d].margin >= 0 /\ (ds[d].remaining = 0 => ds[d].margin = 0)
  BY Zenon DEF LedgerInv, PositionIsItsDetails, MarginsOf, Today, Yesterday, ds
<1>4. \A d \in DOMAIN es : es[d].margin >= 0 /\ (es[d].remaining = 0 => es[d].margin = 0)
  BY <1>1, <1>3
<1> QED BY <1>2, <1>3, <1>4, Zenon DEF PositionIsItsDetails, MarginsOf, Today, Yesterday, es

LEMMA FreezeAcceptClose ==
    ASSUME LedgerInv, TypeOK', NEW c \in ClientIds, NEW r \in Requests, r.offset # "OPEN",
           orders[c].status = "NONE", AcceptClose(c, r)
    PROVE  FreezeInv'
<1> DEFINE plan == ClosePlan(r)
           shares == BucketShares(r.limit, plan)
           commission == Total(shares)
           entries == [d \in DOMAIN plan |->
                       [original |-> plan[d], remaining |-> plan[d],
                        consumed |-> 0, released |-> 0, commission |-> shares[d]]]
           new == NewOrder(r, 0, commission, r.volume)
           old == HeldBy(allocations[c])
<1>1. /\ CanFreezeClose(r)
      /\ account' = [account EXCEPT !.available        = @ - commission,
                                    !.riskAvailable    = @ - commission,
                                    !.frozenCommission = @ + commission]
      /\ details' = [d \in DOMAIN details |->
                        [details[d] EXCEPT !.frozen = @ + At(plan, d)]]
      /\ allocations' = [allocations EXCEPT ![c] = entries]
      /\ position' = [position EXCEPT !.frozen = @ + r.volume]
      /\ orders' = [orders EXCEPT ![c] = new]
  BY DEF AcceptClose
<1>2. /\ DOMAIN plan \subseteq DOMAIN details /\ DOMAIN plan # {} /\ IsFiniteSet(DOMAIN plan)
      /\ \A d \in DOMAIN plan :
            /\ plan[d] \in Nat /\ plan[d] > 0
            /\ plan[d] <= details[d].remaining - details[d].frozen
      /\ Total(plan) = r.volume
  BY <1>1, ClosePlanTakes
<1>r. TypeOK /\ r.limit \in Nat /\ r.volume \in Nat \ {0} /\ r.offset \in OffsetFlags
  BY RequestType DEF LedgerInv, RowInv
<1>3. DOMAIN shares = DOMAIN plan /\ \A d \in DOMAIN plan : shares[d] \in Nat
  BY <1>2, <1>r, BucketSharesAreNatural
<1> HIDE DEF plan, shares
<1>4. commission \in Nat
  BY <1>2, <1>3, TotalOfNaturals
<1>5. /\ new.status = "ACCEPTED" /\ new.offset = r.offset /\ new.frozenMargin = 0
      /\ new.frozenCommission = commission /\ new.frozenPosition = r.volume
      /\ new.remaining = r.volume
  BY NewOrderColumns, NewOrderFreeze
<1>6. /\ DOMAIN entries = DOMAIN plan
      /\ \A d \in DOMAIN plan :
            /\ entries[d].remaining = plan[d] /\ entries[d].commission = shares[d]
            /\ AllocationOK(entries[d])
  <2>1. ASSUME NEW lots \in Nat, lots > 0, NEW fee \in Nat
        PROVE  AllocationOK([original |-> lots, remaining |-> lots, consumed |-> 0,
                             released |-> 0, commission |-> fee])
    BY <2>1 DEF AllocationOK
  <2> QED BY <1>2, <1>3, <2>1
<1> HIDE DEF commission, entries, new
<1>7. /\ DOMAIN HeldBy(entries) = DOMAIN plan /\ DOMAIN FeesOf(entries) = DOMAIN plan
      /\ \A d \in DOMAIN plan : HeldBy(entries)[d] = plan[d] /\ FeesOf(entries)[d] = shares[d]
  BY <1>6 DEF HeldBy, FeesOf
<1>8. Total(HeldBy(entries)) = r.volume /\ Total(FeesOf(entries)) = commission
  <2>1. \A d \in DOMAIN plan : plan[d] \in Int /\ shares[d] \in Int
    BY <1>2, <1>3
  <2>2. Total(HeldBy(entries)) = Total(plan) /\ Total(FeesOf(entries)) = Total(shares)
    BY <1>2, <1>3, <1>7, <2>1, TotalDependsOnValues
  <2> QED BY <1>2, <2>2 DEF commission
<1>9. /\ orders[c] \in Order /\ RowOK(orders[c]) /\ FreezeOK(orders[c], allocations[c])
      /\ orders \in [ClientIds -> Order] /\ DOMAIN allocations = ClientIds
      /\ account \in Account /\ position \in Position
  BY InvRows DEF LedgerInv, RowInv, TypeOK
<1>10. /\ orders'[c] = new /\ allocations'[c] = entries
       /\ \A x \in ClientIds \ {c} : orders'[x] = orders[x] /\ allocations'[x] = allocations[x]
  BY <1>1, <1>9
<1>11. /\ orders[c].frozenMargin = 0 /\ orders[c].frozenCommission = 0
       /\ orders[c].frozenPosition = 0 /\ DOMAIN allocations[c] = {}
  BY <1>9 DEF RowOK, FreezeOK
<1>12. FreezesOK'
  <2>1. FreezeOK(new, entries)
    BY <1>2, <1>4, <1>5, <1>6, <1>8 DEF FreezeOK, TerminalStatuses, CancelledStatuses
  <2> QED BY <1>10, <2>1, FreezesMove
<1>13. /\ account'.frozenMargin = account.frozenMargin
       /\ account'.frozenCommission = account.frozenCommission + commission
       /\ account'.usedMargin = account.usedMargin
       /\ position'.frozen = position.frozen + r.volume
       /\ position'.total = position.total /\ position'.today = position.today
       /\ position'.yesterday = position.yesterday
       /\ position'.usedMargin = position.usedMargin
  BY <1>1, <1>9 DEF Account, Position
<1>14. ReservesAddUp'
  <2>1. /\ account'.frozenMargin = account.frozenMargin
              + (orders'[c].frozenMargin - orders[c].frozenMargin)
        /\ account'.frozenCommission = account.frozenCommission
              + (orders'[c].frozenCommission - orders[c].frozenCommission)
        /\ position'.frozen = position.frozen
              + (orders'[c].frozenPosition - orders[c].frozenPosition)
    BY <1>4, <1>r, <1>5, <1>9, <1>10, <1>11, <1>13 DEF Account, Position
  <2> QED BY <1>10, <2>1, ReservesMove DEF LedgerInv, RowInv
<1>15. \A d : At(HeldBy(entries), d) = At(plan, d)
  BY <1>7 DEF At
<1>16. /\ DOMAIN details' = DOMAIN details
       /\ \A d \in DOMAIN details :
             /\ details'[d].frozen = details[d].frozen + At(plan, d)
             /\ details'[d].remaining = details[d].remaining
             /\ details'[d].margin = details[d].margin
             /\ details'[d].today = details[d].today
  <2>1. \A d \in DOMAIN details : details[d] \in Detail
    BY FrozenCovers
  <2> QED BY <1>1, <2>1 DEF Detail
<1>17. old = HeldBy(allocations[c]) /\ DOMAIN old = {} /\ Total(old) = 0
       /\ \A d : At(old, d) = 0
  <2>1. DOMAIN old = {}
    BY <1>11 DEF HeldBy
  <2>2. IsFiniteSet(DOMAIN old)
    BY <2>1, FS_EmptySet
  <2>3. Total(old) = 0
    BY <2>1, <2>2, TotalOfNaturals
  <2> QED BY <2>1, <2>3 DEF At
<1> HIDE DEF old
<1>18. LotsAddUp'
  <2> DEFINE held == HeldBy(entries)
  <2>1. /\ held = HeldBy(allocations'[c])
        /\ DOMAIN held \subseteq DOMAIN details /\ \A d \in DOMAIN held : held[d] \in Nat
        /\ \A d : At(held, d) = At(plan, d)
        /\ Total(held) = r.volume
    BY <1>2, <1>7, <1>8, <1>10, <1>15
  <2> HIDE DEF held
  <2>2. \A d \in DOMAIN details :
           /\ details'[d].frozen = details[d].frozen + (At(held, d) - At(old, d))
           /\ details'[d].frozen <= details'[d].remaining
    <3> SUFFICES ASSUME NEW d \in DOMAIN details
                 PROVE  /\ details'[d].frozen = details[d].frozen + (At(held, d) - At(old, d))
                        /\ details'[d].frozen <= details'[d].remaining
      OBVIOUS
    <3>1. /\ details[d].frozen \in Nat /\ details[d].remaining \in Int
          /\ details[d].frozen <= details[d].remaining
      BY FrozenCovers DEF Detail
    <3>2. /\ At(plan, d) \in Nat
          /\ At(plan, d) = 0 \/ At(plan, d) <= details[d].remaining - details[d].frozen
      BY <1>2 DEF At
    <3> QED BY <1>16, <1>17, <2>1, <3>1, <3>2
  <2>3. position'.frozen = position.frozen + (Total(held) - Total(old))
    BY <1>r, <1>13, <1>17, <2>1
  <2> QED BY <1>10, <1>16, <1>17, <2>1, <2>2, <2>3, LotsMove
<1>19. PositionIsItsDetails'
  BY <1>13, <1>16, PositionStays
<1> QED BY <1>12, <1>14, <1>18, <1>19 DEF FreezeInv

LEMMA FreezeSettleOpen ==
    ASSUME LedgerInv, TypeOK', NEW m \in commands, IsOpen(m.order), Matchable(m.order),
           SettleOpen(m)
    PROVE  FreezeInv'
<1> DEFINE o == m.order
           old == orders[o]
           volume == FillVolume(m)
           price == FillPrice(o, m.tick)
           margin == PartOf(old.frozenMargin, volume, old.remaining)
           released == PartOf(old.frozenCommission, volume, old.remaining)
           commission == Commission("OPEN", price, volume)
           row == [today |-> TRUE, price |-> price, base |-> price,
                   original |-> volume, remaining |-> volume,
                   frozen |-> 0, margin |-> margin]
           new == Filled(old, volume, margin, released, 0)
<1>1. TypeOK /\ o \in ClientIds /\ m.tick \in Ticks /\ old \in Order
      /\ volume \in 1 .. old.remaining /\ old.remaining \in Nat \ {0} /\ volume \in Nat \ {0}
  <2>1. TypeOK /\ orders[m.order].remaining > 0
    BY DEF LedgerInv, RowInv, Matchable
  <2>2. o \in ClientIds /\ m.tick \in Ticks /\ old \in Order /\ volume \in 1 .. old.remaining
    BY <2>1, FillVolumeType
  <2> QED BY <2>1, <2>2 DEF Order
<1>2. /\ orders' = [orders EXCEPT ![o] = new]
      /\ account' = OpenFillAccount(margin, released, commission)
      /\ position' = [position EXCEPT !.total = @ + volume, !.today = @ + volume,
                                      !.usedMargin = @ + margin]
      /\ details' = Append(details, row)
      /\ UNCHANGED allocations
  BY DEF SettleOpen
<1>3. /\ margin \in 0 .. old.frozenMargin /\ released \in 0 .. old.frozenCommission
      /\ volume = old.remaining => margin = old.frozenMargin /\ released = old.frozenCommission
      /\ old.frozenMargin \in Nat /\ old.frozenCommission \in Nat
  <2>1. old.frozenMargin \in Nat /\ old.frozenCommission \in Nat
    BY <1>1, ReservesCover
  <2> HIDE DEF old, volume
  <2> QED BY <1>1, <2>1, PartOfBounded
<1>p. price \in Nat
  BY <1>1, PriceType
<1>4. row \in Detail /\ IsToday(row) /\ row.remaining = volume /\ row.margin = margin
      /\ row.frozen = 0
  <2>1. margin \in Int /\ volume \in Int /\ price \in Int
    BY <1>1, <1>3, <1>p
  <2> HIDE DEF margin, volume, price
  <2> QED BY <2>1 DEF Detail, IsToday
<1>5. /\ new.status = IF old.remaining = volume THEN "FILLED" ELSE "PARTIALLY_FILLED"
      /\ new.offset = old.offset
      /\ new.frozenMargin = old.frozenMargin - margin
      /\ new.frozenCommission = old.frozenCommission - released
      /\ new.frozenPosition = old.frozenPosition - 0
  BY <1>1, FilledColumns, FilledFreeze
<1>6. /\ RowOK(old) /\ FreezeOK(old, allocations[o]) /\ old.offset = "OPEN"
      /\ orders \in [ClientIds -> Order] /\ account \in Account /\ position \in Position
      /\ details \in Seq(Detail)
  BY <1>1, InvRows DEF LedgerInv, RowInv, TypeOK, IsOpen
<1>7. commission \in Nat
  <2>1. "OPEN" \in OffsetFlags
    BY DEF OffsetFlags
  <2> QED BY <1>1, <1>p, <2>1, CommissionIsNatural
<1>8. old = orders[o]
  OBVIOUS
<1> HIDE DEF o, old, volume, price, margin, released, commission, row, new
<1>9. orders'[o] = new /\ \A x \in ClientIds \ {o} : orders'[x] = orders[x]
  BY <1>1, <1>2, <1>6
<1>10. FreezesOK'
  <2>1. old.frozenPosition = 0 /\ DOMAIN allocations[o] = {}
    BY <1>6 DEF FreezeOK
  <2>2. CASE old.remaining = volume
    <3>1. FreezeOK(new, allocations[o])
      BY <1>3, <1>5, <1>6, <2>1, <2>2 DEF FreezeOK
    <3> QED BY <1>1, <1>2, <1>9, <3>1, FreezesMove
  <2>3. CASE old.remaining # volume
    <3>1. FreezeOK(new, allocations[o])
      BY <1>3, <1>5, <1>6, <2>1, <2>3 DEF FreezeOK, TerminalStatuses, CancelledStatuses
    <3> QED BY <1>1, <1>2, <1>9, <3>1, FreezesMove
  <2> QED BY <2>2, <2>3
<1>11. /\ account'.frozenMargin = account.frozenMargin - margin
       /\ account'.frozenCommission = account.frozenCommission - released
       /\ account'.usedMargin = account.usedMargin + margin
       /\ position'.frozen = position.frozen
       /\ position'.total = position.total + volume
       /\ position'.today = position.today + volume
       /\ position'.yesterday = position.yesterday
       /\ position'.usedMargin = position.usedMargin + margin
  BY <1>2, <1>6 DEF Account, Position, OpenFillAccount
<1>12. ReservesAddUp'
  <2>1. margin \in Int /\ released \in Int
    BY <1>3
  <2>2. /\ account.frozenMargin \in Int /\ account.frozenCommission \in Int
        /\ position.frozen \in Int /\ old.frozenPosition \in Int
    BY <1>1, <1>6 DEF Account, Position, Order
  <2>3. account'.frozenMargin = account.frozenMargin
              + (orders'[o].frozenMargin - orders[o].frozenMargin)
    <3>1. /\ orders[o].frozenMargin = old.frozenMargin
          /\ orders'[o].frozenMargin = old.frozenMargin - margin
          /\ account'.frozenMargin = account.frozenMargin - margin
      BY <1>5, <1>8, <1>9, <1>11
    <3> QED BY ONLY <1>3, <2>1, <2>2, <3>1
  <2>4. account'.frozenCommission = account.frozenCommission
              + (orders'[o].frozenCommission - orders[o].frozenCommission)
    <3>1. /\ orders[o].frozenCommission = old.frozenCommission
          /\ orders'[o].frozenCommission = old.frozenCommission - released
          /\ account'.frozenCommission = account.frozenCommission - released
      BY <1>5, <1>8, <1>9, <1>11
    <3> QED BY ONLY <1>3, <2>1, <2>2, <3>1
  <2>5. position'.frozen = position.frozen
              + (orders'[o].frozenPosition - orders[o].frozenPosition)
    <3>1. /\ orders[o].frozenPosition = old.frozenPosition
          /\ orders'[o].frozenPosition = old.frozenPosition - 0
          /\ position'.frozen = position.frozen
      BY <1>5, <1>8, <1>9, <1>11
    <3> QED BY ONLY <2>2, <3>1
  <2> QED BY <1>1, <1>9, <2>3, <2>4, <2>5, ReservesMove DEF LedgerInv
<1>13. /\ Len(details) + 1 \notin DOMAIN details
       /\ DOMAIN details' = DOMAIN details \cup {Len(details) + 1}
       /\ details'[Len(details) + 1] = row
       /\ \A d \in DOMAIN details : details'[d] = details[d]
  BY <1>2, <1>4, <1>6, AppendAddsOne
<1> DEFINE n == Len(details) + 1
<1>14. LotsAddUp'
  <2>1. ASSUME NEW d \in DOMAIN details
        PROVE  /\ details'[d].frozen =
                     Total([x \in ClientIds |-> At(HeldBy(allocations'[x]), d)])
               /\ details'[d].frozen <= details'[d].remaining
    BY <1>2, <1>13, <2>1 DEF LedgerInv, LotsAddUp
  <2>2. /\ details'[n].frozen = Total([x \in ClientIds |-> At(HeldBy(allocations'[x]), n)])
        /\ details'[n].frozen <= details'[n].remaining
    <3> DEFINE f == [x \in ClientIds |-> At(HeldBy(allocations'[x]), n)]
    <3>1. \A x \in ClientIds : n \notin DOMAIN allocations'[x]
      BY <1>2, <1>13, InvRows
    <3>2. DOMAIN f = ClientIds /\ \A x \in ClientIds : f[x] = 0
      BY <3>1 DEF At, HeldBy
    <3> HIDE DEF f
    <3>3. Total(f) = 0
      BY <3>2, ClientsAssumption, TotalOfNaturals
    <3>4. details'[n].frozen = 0 /\ details'[n].remaining = volume
      BY <1>4, <1>13
    <3> QED BY <1>1, <3>3, <3>4 DEF f
  <2>3. position'.frozen = Total([d \in DOMAIN details' |-> details'[d].frozen])
    <3> DEFINE f == [d \in DOMAIN details |-> details[d].frozen]
               g == [d \in DOMAIN details' |-> details'[d].frozen]
    <3>1. IsFiniteSet(DOMAIN details) /\ \A d \in DOMAIN details : details[d].frozen \in Nat
      BY <1>1, SomeDetails, FrozenCovers
    <3>2. /\ DOMAIN f = DOMAIN details /\ DOMAIN g = DOMAIN details \cup {n}
          /\ \A d \in DOMAIN details : f[d] \in Int /\ g[d] = f[d]
          /\ g[n] = 0
      BY <1>4, <1>13, <3>1
    <3>3. position.frozen = Total(f)
      BY DEF LedgerInv, LotsAddUp
    <3>n. n \notin DOMAIN details
      BY <1>13
    <3> HIDE DEF f, g, n
    <3>4. Total(g) = Total(f) + g[n]
      <4>1. g[n] \in Int
        BY <3>2
      <4> QED BY <3>1, <3>2, <3>n, <4>1, TotalExtends
    <3>5. Total(f) \in Int
      BY TotalType
    <3>6. position'.frozen = Total(g)
      BY <1>11, <3>2, <3>3, <3>4, <3>5
    <3> QED BY <3>6 DEF g
  <2> QED BY <1>13, <2>1, <2>2, <2>3, Zenon DEF LotsAddUp
<1>15. PositionIsItsDetails'
  <2> DEFINE ds == details
             es == details'
  <2>1. /\ Today(es) = Today(ds) + volume
        /\ Yesterday(es) = Yesterday(ds)
        /\ Total(MarginsOf(es)) = Total(MarginsOf(ds)) + margin
    <3>1. /\ ds \in Seq(Detail) /\ row \in Detail /\ n \notin DOMAIN ds
          /\ DOMAIN es = DOMAIN ds \cup {n} /\ \A d \in DOMAIN ds : es[d] = ds[d]
          /\ es[n] = row
      BY <1>4, <1>6, <1>13
    <3>2. IsToday(row) /\ row.remaining = volume /\ row.margin = margin
      BY <1>4
    <3> HIDE DEF ds, es, n
    <3>3. /\ Today(es) = Today(ds) + row.remaining
          /\ Yesterday(es) = Yesterday(ds)
          /\ Total(MarginsOf(es)) = Total(MarginsOf(ds)) + row.margin
      BY <3>1, <3>2, OneMoreDetail
    <3> QED BY <3>2, <3>3
  <2>2. \A d \in DOMAIN es : es[d].margin >= 0 /\ (es[d].remaining = 0 => es[d].margin = 0)
    <3>1. \A d \in DOMAIN ds : ds[d].margin >= 0 /\ (ds[d].remaining = 0 => ds[d].margin = 0)
      BY Zenon DEF LedgerInv, PositionIsItsDetails
    <3>2. es[n].margin >= 0 /\ es[n].remaining # 0
      BY <1>1, <1>3, <1>4, <1>13
    <3> HIDE DEF n
    <3>3. DOMAIN es = DOMAIN ds \cup {n} /\ \A d \in DOMAIN ds : es[d] = ds[d]
      BY <1>13 DEF n
    <3> QED BY <3>1, <3>2, <3>3
  <2>3. /\ position.total = position.today + position.yesterday
        /\ position.today = Today(ds)
        /\ position.yesterday = Yesterday(ds)
        /\ position.usedMargin = Total(MarginsOf(ds))
        /\ account.usedMargin = position.usedMargin
    BY Zenon DEF LedgerInv, PositionIsItsDetails, MarginsOf, Today, Yesterday
  <2> HIDE DEF ds, es
  <2>4. position.today \in Int /\ position.yesterday \in Int /\ position.usedMargin \in Int
        /\ margin \in Int
    BY <1>3, <1>6 DEF Position
  <2>5. /\ position'.total = position'.today + position'.yesterday
        /\ position'.today = Today(es)
        /\ position'.yesterday = Yesterday(es)
        /\ position'.usedMargin = Total(MarginsOf(es))
        /\ account'.usedMargin = position'.usedMargin
    BY <1>1, <1>11, <2>1, <2>3, <2>4
  <2> QED BY <2>2, <2>5, Zenon DEF PositionIsItsDetails, MarginsOf, Today, Yesterday, es
<1> QED BY <1>10, <1>12, <1>14, <1>15 DEF FreezeInv

\* What a close fill of "volume" lots takes from the allocations "entries" of its
\* order: lots, and of the commission all of it where it takes all lots.
ConsumesFrom(entries, volume, taken, paid) ==
    /\ DOMAIN taken = DOMAIN entries /\ DOMAIN paid = DOMAIN entries /\ Total(taken) = volume
    /\ \A d \in DOMAIN entries :
          /\ taken[d] \in 0 .. entries[d].remaining
          /\ paid[d] \in 0 .. entries[d].commission
          /\ taken[d] = entries[d].remaining => paid[d] = entries[d].commission

AllocationsAfter(entries, taken, paid, left) ==
    /\ DOMAIN left = DOMAIN entries
    /\ \A d \in DOMAIN entries :
          /\ AllocationOK(left[d])
          /\ left[d].remaining = entries[d].remaining - taken[d]
          /\ left[d].commission = entries[d].commission - paid[d]

\* What it takes from the details "ds": lots, and all margin with the last lot.
TakesFrom(ds, taken, freed) ==
    /\ DOMAIN taken \subseteq DOMAIN ds /\ DOMAIN freed = DOMAIN taken
    /\ \A d \in DOMAIN taken :
          /\ taken[d] \in 0 .. ds[d].remaining
          /\ freed[d] \in 0 .. ds[d].margin
          /\ taken[d] = ds[d].remaining => freed[d] = ds[d].margin

DetailsAfter(ds, taken, freed, es) ==
    /\ DOMAIN es = DOMAIN ds
    /\ \A d \in DOMAIN ds :
          /\ es[d].remaining = ds[d].remaining - At(taken, d)
          /\ es[d].margin = ds[d].margin - At(freed, d)

\* Details without lots carry no margin.
MarginsFollowLots(ds) ==
    \A d \in DOMAIN ds :
       ds[d].margin >= 0 /\ (ds[d].remaining = 0 => ds[d].margin = 0)

\* What a close fill leaves of the order and its allocations.
LEMMA FreezeAfterCloseFill ==
    ASSUME NEW old \in Order, RowOK(old), NEW entries, FreezeOK(old, entries),
           old.offset # "OPEN", IsFiniteSet(DOMAIN entries),
           \A d \in DOMAIN entries : entries[d] \in Allocation,
           NEW volume \in 1 .. old.remaining, NEW taken, NEW paid,
           ConsumesFrom(entries, volume, taken, paid),
           NEW new, new = Filled(old, volume, 0, Total(paid), volume),
           NEW left, AllocationsAfter(entries, taken, paid, left)
    PROVE  /\ FreezeOK(new, left)
           /\ DOMAIN HeldBy(left) = DOMAIN entries
           /\ \A d \in DOMAIN entries : HeldBy(left)[d] = entries[d].remaining - taken[d]
           /\ Total(HeldBy(left)) = old.remaining - volume
<1>0. /\ DOMAIN taken = DOMAIN entries /\ DOMAIN paid = DOMAIN entries /\ Total(taken) = volume
      /\ \A d \in DOMAIN entries :
            /\ taken[d] \in 0 .. entries[d].remaining
            /\ paid[d] \in 0 .. entries[d].commission
            /\ taken[d] = entries[d].remaining => paid[d] = entries[d].commission
  BY DEF ConsumesFrom
<1>1. \A d \in DOMAIN entries :
         AllocationOK(entries[d]) /\ entries[d].remaining \in Nat /\ entries[d].commission \in Nat
  BY DEF FreezeOK, AllocationOK, Allocation
<1>2. /\ DOMAIN entries # {} /\ old.frozenPosition = old.remaining
      /\ Total(HeldBy(entries)) = old.remaining /\ Total(FeesOf(entries)) = old.frozenCommission
      /\ old.remaining \in Nat /\ volume \in Nat \ {0} /\ volume <= old.remaining
  BY DEF FreezeOK, Order
<1>3. DOMAIN left = DOMAIN entries
  BY DEF AllocationsAfter
<1>4. \A d \in DOMAIN entries :
         /\ AllocationOK(left[d])
         /\ left[d].remaining = entries[d].remaining - taken[d]
         /\ left[d].commission = entries[d].commission - paid[d]
  BY DEF AllocationsAfter
<1>5. /\ new.status = IF old.remaining = volume THEN "FILLED" ELSE "PARTIALLY_FILLED"
      /\ new.offset = old.offset /\ new.remaining = old.remaining - volume
      /\ new.frozenCommission = old.frozenCommission - Total(paid)
      /\ new.frozenPosition = old.frozenPosition - volume
  BY FilledColumns, FilledFreeze
<1> DEFINE held == HeldBy(entries)
           fees == FeesOf(entries)
           heldLeft == HeldBy(left)
           feesLeft == FeesOf(left)
<1>6. /\ DOMAIN held = DOMAIN entries /\ DOMAIN fees = DOMAIN entries
      /\ DOMAIN heldLeft = DOMAIN entries /\ DOMAIN feesLeft = DOMAIN entries
      /\ \A d \in DOMAIN entries :
            /\ held[d] = entries[d].remaining /\ fees[d] = entries[d].commission
            /\ heldLeft[d] = left[d].remaining /\ feesLeft[d] = left[d].commission
  BY <1>3 DEF HeldBy, FeesOf
<1> HIDE DEF held, fees, heldLeft, feesLeft
<1>7. \A d \in DOMAIN entries :
         /\ held[d] \in Int /\ fees[d] \in Int
         /\ taken[d] \in Int /\ paid[d] \in Int
         /\ heldLeft[d] \in Nat /\ feesLeft[d] \in Nat
         /\ heldLeft[d] = held[d] - At(taken, d) /\ feesLeft[d] = fees[d] - At(paid, d)
  BY <1>0, <1>1, <1>4, <1>6 DEF At
<1>8. Total(heldLeft) = Total(held) - Total(taken) /\ Total(feesLeft) = Total(fees) - Total(paid)
  <2>1. /\ IsFiniteSet(DOMAIN held) /\ DOMAIN heldLeft = DOMAIN held
        /\ DOMAIN taken \subseteq DOMAIN held
        /\ \A d \in DOMAIN taken : taken[d] \in Int
        /\ \A d \in DOMAIN held : held[d] \in Int /\ heldLeft[d] = held[d] - At(taken, d)
    BY <1>0, <1>6, <1>7
  <2>2. /\ IsFiniteSet(DOMAIN fees) /\ DOMAIN feesLeft = DOMAIN fees
        /\ DOMAIN paid \subseteq DOMAIN fees
        /\ \A d \in DOMAIN paid : paid[d] \in Int
        /\ \A d \in DOMAIN fees : fees[d] \in Int /\ feesLeft[d] = fees[d] - At(paid, d)
    BY <1>0, <1>6, <1>7
  <2>3. Total(heldLeft) = Total(held) - Total(taken)
    BY ONLY <2>1, TotalShrinks
  <2>4. Total(feesLeft) = Total(fees) - Total(paid)
    BY ONLY <2>2, TotalShrinks
  <2> QED BY <2>3, <2>4
<1>9. Total(held) = old.remaining /\ Total(fees) = old.frozenCommission
  BY <1>2 DEF held, fees
<1>10. Total(feesLeft) \in Nat
  BY <1>6, <1>7, TotalOfNaturals
<1>11. /\ Total(heldLeft) = new.remaining /\ Total(feesLeft) = new.frozenCommission
       /\ new.frozenPosition = new.remaining
  BY <1>0, <1>2, <1>5, <1>8, <1>9
<1>12. old.remaining = volume => new.frozenCommission = 0
  <2> SUFFICES ASSUME old.remaining = volume PROVE Total(feesLeft) = 0
    BY <1>11
  <2>1. Total(heldLeft) = 0
    BY <1>2, <1>5, <1>11
  <2>2. \A d \in DOMAIN entries : heldLeft[d] = 0
    BY <1>6, <1>7, <2>1, TotalOfNaturals
  <2>3. \A d \in DOMAIN entries : feesLeft[d] = 0
    BY <1>4, <1>6, <2>2 DEF AllocationOK
  <2> QED BY <1>6, <1>7, <2>3, TotalOfNaturals
<1>13. FreezeOK(new, left)
  <2>1. new.status \in {"NONE"} \cup TerminalStatuses => new.frozenCommission = 0
    BY <1>5, <1>12 DEF TerminalStatuses, CancelledStatuses
  <2>2. new.status # "NONE" /\ new.offset # "OPEN" /\ new.frozenCommission >= 0
    BY <1>5, <1>10, <1>11
  <2> QED BY <1>2, <1>3, <1>4, <1>11, <2>1, <2>2 DEF FreezeOK, heldLeft, feesLeft
<1>14. \A d \in DOMAIN entries : heldLeft[d] = entries[d].remaining - taken[d]
  BY <1>4, <1>6
<1> QED BY <1>5, <1>6, <1>11, <1>13, <1>14 DEF heldLeft

\* The position after a close fill is what the details it leaves add up to.
LEMMA PositionFollowsCloseFill ==
    ASSUME NEW ds \in Seq(Detail), NEW es \in Seq(Detail), NEW taken, NEW freed,
           \A d \in DOMAIN ds : ds[d].remaining >= 0,
           MarginsFollowLots(ds), TakesFrom(ds, taken, freed),
           DetailsAfter(ds, taken, freed, es)
    PROVE  /\ MarginsFollowLots(es)
           /\ Total(LotsOf(es)) = Total(LotsOf(ds)) - Total(taken)
           /\ Total(MarginsOf(es)) = Total(MarginsOf(ds)) - Total(freed)
           /\ Total(LotsOf(es)) = 0 => Total(MarginsOf(es)) = 0
<1>0. /\ DOMAIN es = DOMAIN ds
      /\ DOMAIN taken \subseteq DOMAIN ds /\ DOMAIN freed = DOMAIN taken
      /\ \A d \in DOMAIN ds :
            /\ es[d].remaining = ds[d].remaining - At(taken, d)
            /\ es[d].margin = ds[d].margin - At(freed, d)
            /\ ds[d].margin >= 0
            /\ ds[d].remaining = 0 => ds[d].margin = 0
      /\ \A d \in DOMAIN taken :
            /\ taken[d] \in 0 .. ds[d].remaining
            /\ freed[d] \in 0 .. ds[d].margin
            /\ taken[d] = ds[d].remaining => freed[d] = ds[d].margin
  BY DEF DetailsAfter, TakesFrom, MarginsFollowLots
<1>1. /\ IsFiniteSet(DOMAIN ds) /\ \A d \in DOMAIN ds : ds[d] \in Detail /\ es[d] \in Detail
  BY <1>0, DetailSeq
<1> DEFINE lots == LotsOf(ds)
           lotsLeft == LotsOf(es)
           margins == MarginsOf(ds)
           marginsLeft == MarginsOf(es)
<1>2. /\ DOMAIN lots = DOMAIN ds /\ DOMAIN lotsLeft = DOMAIN ds
      /\ DOMAIN margins = DOMAIN ds /\ DOMAIN marginsLeft = DOMAIN ds
      /\ \A d \in DOMAIN ds :
            /\ lots[d] = ds[d].remaining /\ lotsLeft[d] = es[d].remaining
            /\ margins[d] = ds[d].margin /\ marginsLeft[d] = es[d].margin
  BY <1>0 DEF LotsOf, MarginsOf
<1> HIDE DEF lots, lotsLeft, margins, marginsLeft
<1>3. \A d \in DOMAIN ds :
         /\ ds[d].remaining \in Nat /\ ds[d].margin \in Nat
         /\ es[d].remaining \in Int /\ es[d].margin \in Int
  BY <1>0, <1>1 DEF Detail
<1>4. ASSUME NEW d \in DOMAIN ds
      PROVE  /\ es[d].remaining >= 0 /\ es[d].margin >= 0
             /\ es[d].remaining = 0 => es[d].margin = 0
  <2>1. CASE d \in DOMAIN taken
    <3>1. At(taken, d) = taken[d] /\ At(freed, d) = freed[d]
      BY <1>0, <2>1 DEF At
    <3>2. /\ taken[d] \in 0 .. ds[d].remaining /\ freed[d] \in 0 .. ds[d].margin
          /\ taken[d] = ds[d].remaining => freed[d] = ds[d].margin
      BY <1>0, <2>1
    <3>3. es[d].remaining = ds[d].remaining - taken[d] /\ es[d].margin = ds[d].margin - freed[d]
      BY <1>0, <3>1
    <3> QED BY <1>3, <3>2, <3>3
  <2>2. CASE d \notin DOMAIN taken
    <3>1. At(taken, d) = 0 /\ At(freed, d) = 0
      BY <1>0, <2>2 DEF At
    <3>2. es[d].remaining = ds[d].remaining - 0 /\ es[d].margin = ds[d].margin - 0
      BY <1>0, <3>1
    <3>3. ds[d].remaining = 0 => ds[d].margin = 0
      BY <1>0
    <3> QED BY <1>3, <3>2, <3>3
  <2> QED BY <2>1, <2>2
<1>5. \A d \in DOMAIN taken : taken[d] \in Int /\ freed[d] \in Int
  BY <1>0
<1>6. \A d \in DOMAIN ds :
         /\ lots[d] \in Int /\ margins[d] \in Int
         /\ lotsLeft[d] \in Nat /\ marginsLeft[d] \in Nat
         /\ lotsLeft[d] = lots[d] - At(taken, d)
         /\ marginsLeft[d] = margins[d] - At(freed, d)
  BY <1>0, <1>2, <1>3, <1>4
<1>7. Total(lotsLeft) = Total(lots) - Total(taken)
  <2>1. /\ IsFiniteSet(DOMAIN lots) /\ DOMAIN lotsLeft = DOMAIN lots
        /\ DOMAIN taken \subseteq DOMAIN lots
        /\ \A d \in DOMAIN taken : taken[d] \in Int
        /\ \A d \in DOMAIN lots : lots[d] \in Int /\ lotsLeft[d] = lots[d] - At(taken, d)
    BY <1>0, <1>1, <1>2, <1>5, <1>6
  <2> QED BY ONLY <2>1, TotalShrinks
<1>8. Total(marginsLeft) = Total(margins) - Total(freed)
  <2>1. /\ IsFiniteSet(DOMAIN margins) /\ DOMAIN marginsLeft = DOMAIN margins
        /\ DOMAIN freed \subseteq DOMAIN margins
        /\ \A d \in DOMAIN freed : freed[d] \in Int
        /\ \A d \in DOMAIN margins :
              margins[d] \in Int /\ marginsLeft[d] = margins[d] - At(freed, d)
    BY <1>0, <1>1, <1>2, <1>5, <1>6
  <2> QED BY ONLY <2>1, TotalShrinks
<1>9. Total(lotsLeft) = 0 => Total(marginsLeft) = 0
  <2> SUFFICES ASSUME Total(lotsLeft) = 0 PROVE Total(marginsLeft) = 0
    OBVIOUS
  <2>1. \A d \in DOMAIN ds : lotsLeft[d] = 0
    BY <1>1, <1>2, <1>6, TotalOfNaturals
  <2>2. \A d \in DOMAIN ds : marginsLeft[d] = 0
    BY <1>2, <1>4, <2>1
  <2> QED BY <1>1, <1>2, <1>6, <2>2, TotalOfNaturals
<1>10. MarginsFollowLots(es)
  BY <1>0, <1>4 DEF MarginsFollowLots
<1> QED BY <1>7, <1>8, <1>9, <1>10 DEF lots, lotsLeft, margins, marginsLeft

LEMMA FreezeSettleClose ==
    ASSUME LedgerInv, TypeOK', NEW m \in commands, ~IsOpen(m.order), Matchable(m.order),
           SettleClose(m)
    PROVE  FreezeInv'
<1> DEFINE o == m.order
           old == orders[o]
           entries == allocations[o]
           volume == FillVolume(m)
           taken == Consumption(o, volume)
           freed == ReleasedMargin(o, volume)
           paid == ReleasedCommission(o, volume)
           margin == Total(freed)
           new == Filled(old, volume, 0, Total(paid), volume)
           left == [d \in DOMAIN taken |->
                       [entries[d] EXCEPT !.remaining  = @ - taken[d],
                                       !.consumed   = @ + taken[d],
                                       !.commission = @ - paid[d]]]
<1>1. TypeOK /\ o \in ClientIds /\ old \in Order /\ RowOK(old) /\ FreezeOK(old, entries)
      /\ volume \in 1 .. old.remaining /\ old.remaining \in Nat \ {0} /\ volume \in Nat \ {0}
      /\ old.offset # "OPEN"
  <2>1. TypeOK /\ orders[m.order].remaining > 0
    BY DEF LedgerInv, RowInv, Matchable
  <2>2. o \in ClientIds /\ old \in Order /\ volume \in 1 .. old.remaining
    BY <2>1, FillVolumeType
  <2>3. RowOK(old) /\ FreezeOK(old, entries)
    BY <2>2, InvRows
  <2> QED BY <2>1, <2>2, <2>3 DEF Order, IsOpen
<1>2. /\ orders' = [orders EXCEPT ![o] = new]
      /\ allocations' = [allocations EXCEPT ![o] = left]
      /\ details' = [d \in DOMAIN details |->
                        [details[d] EXCEPT !.remaining = @ - At(taken, d),
                                           !.frozen    = @ - At(taken, d),
                                           !.margin    = @ - At(freed, d)]]
      /\ position' = PositionAfterClose(details', volume, margin)
  BY DEF SettleClose
<1>3. PICK fee \in Int, pnl \in Int :
         account' = CloseFillAccount(margin, Total(paid), fee, pnl)
  <2>1. PICK g, h : account' = CloseFillAccount(margin, Total(paid), Total(g), Total(h))
    BY Zenon DEF SettleClose
  <2> QED BY <2>1, TotalType
<1>4. /\ DOMAIN taken = DOMAIN entries /\ DOMAIN freed = DOMAIN entries /\ DOMAIN paid = DOMAIN entries
      /\ Total(taken) = volume
      /\ \A d \in DOMAIN entries :
            /\ taken[d] \in 0 .. entries[d].remaining
            /\ freed[d] \in 0 .. details[d].margin
            /\ taken[d] = details[d].remaining => freed[d] = details[d].margin
            /\ paid[d] \in 0 .. entries[d].commission
            /\ taken[d] = entries[d].remaining => paid[d] = entries[d].commission
  BY <1>1, CloseFillBounds
<1>5. /\ DOMAIN entries \subseteq DOMAIN details /\ IsFiniteSet(DOMAIN entries)
      /\ \A d \in DOMAIN entries : entries[d] \in Allocation /\ AllocationOK(entries[d])
      /\ orders \in [ClientIds -> Order] /\ DOMAIN allocations = ClientIds
      /\ account \in Account /\ position \in Position
  BY <1>1, InvRows DEF TypeOK
<1>6. /\ DOMAIN left = DOMAIN entries
      /\ \A d \in DOMAIN entries :
            left[d] = [entries[d] EXCEPT !.remaining  = @ - taken[d],
                                      !.consumed   = @ + taken[d],
                                      !.commission = @ - paid[d]]
  BY <1>4
<1>7. old = orders[o] /\ entries = allocations[o]
  OBVIOUS
<1>n. new = Filled(old, volume, 0, Total(paid), volume)
  OBVIOUS
<1> HIDE DEF o, old, entries, volume, taken, freed, paid, margin, new, left
<1>8. \A d \in DOMAIN entries :
         /\ AllocationOK(left[d])
         /\ left[d].remaining = entries[d].remaining - taken[d]
         /\ left[d].commission = entries[d].commission - paid[d]
  <2> SUFFICES ASSUME NEW d \in DOMAIN entries
               PROVE  /\ AllocationOK(left[d])
                      /\ left[d].remaining = entries[d].remaining - taken[d]
                      /\ left[d].commission = entries[d].commission - paid[d]
    OBVIOUS
  <2>1. entries[d] \in Allocation /\ AllocationOK(entries[d])
    BY <1>5
  <2>2. /\ taken[d] \in 0 .. entries[d].remaining /\ paid[d] \in 0 .. entries[d].commission
        /\ taken[d] = entries[d].remaining => paid[d] = entries[d].commission
    BY <1>4
  <2>3. left[d] = [entries[d] EXCEPT !.remaining  = @ - taken[d],
                                  !.consumed   = @ + taken[d],
                                  !.commission = @ - paid[d]]
    BY <1>6
  <2> QED BY ONLY <2>1, <2>2, <2>3 DEF Allocation, AllocationOK
<1>9. /\ FreezeOK(new, left) /\ DOMAIN HeldBy(left) = DOMAIN entries
      /\ \A d \in DOMAIN entries : HeldBy(left)[d] = entries[d].remaining - taken[d]
      /\ Total(HeldBy(left)) = old.remaining - volume
  <2>1. /\ old \in Order /\ RowOK(old) /\ FreezeOK(old, entries) /\ old.offset # "OPEN"
        /\ volume \in 1 .. old.remaining
    BY <1>1
  <2>2. IsFiniteSet(DOMAIN entries) /\ \A d \in DOMAIN entries : entries[d] \in Allocation
    BY <1>5
  <2>3. ConsumesFrom(entries, volume, taken, paid)
    BY ONLY <1>4 DEF ConsumesFrom
  <2>4. AllocationsAfter(entries, taken, paid, left)
    BY ONLY <1>6, <1>8 DEF AllocationsAfter
  <2> QED BY ONLY <1>n, <2>1, <2>2, <2>3, <2>4, FreezeAfterCloseFill
<1>10. /\ orders'[o] = new /\ allocations'[o] = left
       /\ \A x \in ClientIds \ {o} : orders'[x] = orders[x] /\ allocations'[x] = allocations[x]
  BY <1>1, <1>2, <1>5
<1>11. FreezesOK'
  BY <1>1, <1>9, <1>10, FreezesMove
<1>12. /\ account'.frozenMargin = account.frozenMargin
       /\ account'.frozenCommission = account.frozenCommission - Total(paid)
       /\ account'.usedMargin = account.usedMargin - margin
  BY <1>3, <1>5 DEF Account, CloseFillAccount
<1>13. /\ position'.total = position.total - volume
       /\ position'.today = Today(details') /\ position'.yesterday = Yesterday(details')
       /\ position'.frozen = position.frozen - volume
       /\ position'.usedMargin = IF position.total = volume THEN 0
                                 ELSE position.usedMargin - margin
  BY <1>2, Zenon DEF PositionAfterClose, Today, Yesterday
<1>14. Total(paid) \in Int /\ margin \in Int
  BY TotalType DEF margin
<1>15. ReservesAddUp'
  <2>1. /\ new.frozenMargin = old.frozenMargin - 0
        /\ new.frozenCommission = old.frozenCommission - Total(paid)
        /\ new.frozenPosition = old.frozenPosition - volume
    BY <1>1, <1>n, FilledColumns, FilledFreeze
  <2>2. /\ account.frozenMargin \in Int /\ account.frozenCommission \in Int
        /\ position.frozen \in Int /\ old.frozenPosition \in Int
        /\ old.frozenMargin \in Int /\ old.frozenCommission \in Int
    BY <1>1, <1>5 DEF Account, Position, Order
  <2>3. /\ account'.frozenMargin = account.frozenMargin
              + (orders'[o].frozenMargin - orders[o].frozenMargin)
        /\ account'.frozenCommission = account.frozenCommission
              + (orders'[o].frozenCommission - orders[o].frozenCommission)
        /\ position'.frozen = position.frozen
              + (orders'[o].frozenPosition - orders[o].frozenPosition)
    <3>1. orders'[o] = new /\ orders[o] = old
      BY <1>7, <1>10
    <3>2. volume \in Int
      BY <1>1
    <3>3. position'.frozen = position.frozen - volume
      BY <1>13
    <3>4. new.frozenMargin \in Int /\ new.frozenMargin = old.frozenMargin
      BY <2>1, <2>2
    <3> QED BY ONLY <1>12, <1>14, <2>1, <2>2, <3>1, <3>2, <3>3, <3>4
  <2> QED BY <1>1, <1>10, <2>3, ReservesMove DEF LedgerInv
<1>16. /\ DOMAIN details' = DOMAIN details
       /\ \A d \in DOMAIN details :
             /\ details'[d].frozen = details[d].frozen - At(taken, d)
             /\ details'[d].remaining = details[d].remaining - At(taken, d)
             /\ details'[d].margin = details[d].margin - At(freed, d)
  <2>1. \A d \in DOMAIN details : details[d] \in Detail
    BY FrozenCovers
  <2> QED BY <1>2, <2>1 DEF Detail
<1>17. \A d \in DOMAIN entries :
          /\ entries[d].remaining \in Nat /\ taken[d] \in Int
          /\ HeldBy(entries)[d] = entries[d].remaining /\ HeldBy(left)[d] \in Nat
          /\ HeldBy(left)[d] = entries[d].remaining - taken[d]
  BY <1>4, <1>5, <1>9 DEF HeldBy, Allocation, AllocationOK
<1> DEFINE before == HeldBy(entries)
           after == HeldBy(left)
<1>18. /\ DOMAIN before = DOMAIN entries /\ DOMAIN after = DOMAIN entries
       /\ Total(before) = old.remaining /\ Total(after) = old.remaining - volume
  BY <1>1, <1>9 DEF HeldBy, FreezeOK
<1>19. before = HeldBy(allocations[o]) /\ after = HeldBy(allocations'[o])
  BY <1>7, <1>10
<1> HIDE DEF before, after
<1>20. \A d : At(after, d) - At(before, d) = 0 - At(taken, d) /\ At(taken, d) \in Int
  BY <1>4, <1>17, <1>18 DEF At, before, after
<1>21. LotsAddUp'
  <2>1. DOMAIN after \subseteq DOMAIN details /\ \A d \in DOMAIN after : after[d] \in Nat
    BY <1>5, <1>17, <1>18 DEF after
  <2>2. \A d \in DOMAIN details :
           /\ details'[d].frozen = details[d].frozen + (At(after, d) - At(before, d))
           /\ details'[d].frozen <= details'[d].remaining
    <3> SUFFICES ASSUME NEW d \in DOMAIN details
                 PROVE  /\ details'[d].frozen =
                              details[d].frozen + (At(after, d) - At(before, d))
                        /\ details'[d].frozen <= details'[d].remaining
      OBVIOUS
    <3>1. /\ details[d].frozen \in Nat /\ details[d].remaining \in Int
          /\ details[d].frozen <= details[d].remaining
      BY FrozenCovers DEF Detail
    <3>2. /\ details'[d].frozen = details[d].frozen - At(taken, d)
          /\ details'[d].remaining = details[d].remaining - At(taken, d)
      BY <1>16
    <3>3. At(after, d) - At(before, d) = 0 - At(taken, d) /\ At(taken, d) \in Int
      BY <1>20
    <3> QED BY <3>1, <3>2, <3>3
  <2>3. position'.frozen = position.frozen + (Total(after) - Total(before))
    <3>1. position.frozen \in Int
      BY <1>5 DEF Position
    <3> QED BY <1>1, <1>13, <1>18, <3>1
  <2> QED BY <1>1, <1>10, <1>16, <1>19, <2>1, <2>2, <2>3, LotsMove
<1>22. PositionIsItsDetails'
  <2>1. /\ position.total = position.today + position.yesterday
        /\ position.today = Today(details)
        /\ position.yesterday = Yesterday(details)
        /\ position.usedMargin = Total(MarginsOf(details))
        /\ account.usedMargin = position.usedMargin
        /\ \A d \in DOMAIN details :
              /\ details[d].margin >= 0
              /\ details[d].remaining = 0 => details[d].margin = 0
    BY Zenon DEF LedgerInv, PositionIsItsDetails, MarginsOf, Today, Yesterday
  <2>2. \A d \in DOMAIN details : details[d].remaining \in Nat
    BY FrozenCovers DEF Detail
  <2>3. \A d \in DOMAIN taken :
           /\ taken[d] \in 0 .. details[d].remaining
           /\ freed[d] \in 0 .. details[d].margin
           /\ taken[d] = details[d].remaining => freed[d] = details[d].margin
    <3> SUFFICES ASSUME NEW d \in DOMAIN entries
                 PROVE  taken[d] \in 0 .. details[d].remaining
      BY <1>4
    <3>1. d \in DOMAIN details
      BY <1>5
    <3>2. At(HeldBy(entries), d) = entries[d].remaining
      BY DEF At, HeldBy
    <3>3. entries[d].remaining <= details[d].frozen /\ details[d].frozen \in Nat
          /\ details[d].frozen <= details[d].remaining
      BY <1>1, <1>7, <3>1, <3>2, FrozenCovers
    <3>4. taken[d] \in 0 .. entries[d].remaining /\ entries[d].remaining \in Nat
      BY <1>4, <1>17
    <3> QED BY <2>2, <3>1, <3>3, <3>4
  <2> DEFINE ds == details
             es == details'
  <2>4. /\ ds \in Seq(Detail) /\ es \in Seq(Detail)
        /\ \A d \in DOMAIN ds : ds[d].remaining >= 0
        /\ MarginsFollowLots(ds) /\ TakesFrom(ds, taken, freed)
        /\ DetailsAfter(ds, taken, freed, es)
    <3>1. ds \in Seq(Detail) /\ es \in Seq(Detail)
      BY <1>1 DEF TypeOK
    <3>2. DOMAIN taken \subseteq DOMAIN ds /\ DOMAIN freed = DOMAIN taken
      BY <1>4, <1>5
    <3>3. DetailsAfter(ds, taken, freed, es)
      BY <1>16 DEF DetailsAfter
    <3>4. MarginsFollowLots(ds) /\ \A d \in DOMAIN ds : ds[d].remaining >= 0
      BY <2>1, <2>2 DEF MarginsFollowLots
    <3>5. TakesFrom(ds, taken, freed)
      BY <2>3, <3>2 DEF TakesFrom
    <3> HIDE DEF ds, es
    <3> QED BY ONLY <3>1, <3>3, <3>4, <3>5
  <2>5. /\ position.total = position.today + position.yesterday
        /\ position.today = Today(ds) /\ position.yesterday = Yesterday(ds)
        /\ position.usedMargin = Total(MarginsOf(ds))
        /\ account.usedMargin = position.usedMargin
    BY <2>1
  <2>6. position'.today = Today(es) /\ position'.yesterday = Yesterday(es)
    BY <1>13
  <2> HIDE DEF ds, es
  <2>7. /\ MarginsFollowLots(es)
        /\ Total(LotsOf(es)) = Total(LotsOf(ds)) - Total(taken)
        /\ Total(MarginsOf(es)) = Total(MarginsOf(ds)) - Total(freed)
        /\ Total(LotsOf(es)) = 0 => Total(MarginsOf(es)) = 0
    BY ONLY <2>4, PositionFollowsCloseFill
  <2>8. /\ Today(ds) + Yesterday(ds) = Total(LotsOf(ds))
        /\ Today(es) + Yesterday(es) = Total(LotsOf(es))
    BY ONLY <2>4, LotsSplitByDay DEF DetailsAfter
  <2>9. /\ Total(LotsOf(es)) \in Int /\ Total(LotsOf(ds)) \in Int
        /\ Total(MarginsOf(es)) \in Int /\ Total(MarginsOf(ds)) \in Int
    BY TotalType
  <2>10. margin = Total(freed)
    BY DEF margin
  <2>11. position'.total = position'.today + position'.yesterday
    BY <1>1, <1>4, <1>13, <2>5, <2>6, <2>7, <2>8, <2>9
  <2>12. /\ position'.usedMargin = Total(MarginsOf(es))
         /\ account'.usedMargin = position'.usedMargin
    <3>1. account'.usedMargin = Total(MarginsOf(es))
      BY <1>12, <2>5, <2>7, <2>10
    <3>2. CASE position.total = volume
      <4>1. Total(LotsOf(es)) = 0
        BY <1>1, <1>4, <2>5, <2>7, <2>8, <2>9, <3>2
      <4> QED BY <1>13, <2>7, <3>1, <3>2, <4>1
    <3>3. CASE position.total # volume
      BY <1>13, <2>5, <2>7, <2>10, <3>1, <3>3
    <3> QED BY <3>2, <3>3
  <2> QED BY <2>6, <2>7, <2>11, <2>12, Zenon
          DEF PositionIsItsDetails, MarginsFollowLots, MarginsOf, Today, Yesterday, es
<1> QED BY <1>11, <1>15, <1>21, <1>22 DEF FreezeInv

LEMMA FreezeCancel ==
    ASSUME LedgerInv, TypeOK', NEW o \in ClientIds, Cancel(o)
    PROVE  FreezeInv'
<1> DEFINE old == orders[o]
           entries == allocations[o]
           new == Cancelled(old)
<1>1. TypeOK /\ old \in Order /\ RowOK(old) /\ FreezeOK(old, entries)
      /\ DOMAIN entries \subseteq DOMAIN details /\ IsFiniteSet(DOMAIN entries)
      /\ \A d \in DOMAIN entries : entries[d] \in Allocation /\ AllocationOK(entries[d])
      /\ orders \in [ClientIds -> Order] /\ DOMAIN allocations = ClientIds
      /\ account \in Account /\ position \in Position
  BY InvRows DEF LedgerInv, RowInv, TypeOK
<1>2. /\ account' = [account EXCEPT
                        !.available = @ + old.frozenMargin + old.frozenCommission,
                        !.riskAvailable = @ + old.frozenMargin + old.frozenCommission,
                        !.frozenMargin     = @ - old.frozenMargin,
                        !.frozenCommission = @ - old.frozenCommission]
      /\ IF IsOpen(o) THEN UNCHANGED <<details, allocations, position>>
                      ELSE ReleaseAllocations(o)
      /\ orders' = [orders EXCEPT ![o] = new]
  BY DEF Cancel
<1>3. /\ new.status \in CancelledStatuses /\ new.offset = old.offset /\ new.remaining = 0
      /\ new.frozenMargin = 0 /\ new.frozenCommission = 0 /\ new.frozenPosition = 0
  BY <1>1, CancelledColumns, CancelledFreeze DEF CancelledStatuses
<1>4. old = orders[o] /\ entries = allocations[o]
  OBVIOUS
<1> HIDE DEF old, entries, new
<1>5. orders'[o] = new /\ \A x \in ClientIds \ {o} : orders'[x] = orders[x]
  <2>1. orders \in [ClientIds -> Order]
    BY DEF LedgerInv, RowInv, TypeOK
  <2>2. orders' = [orders EXCEPT ![o] = new]
    BY <1>2
  <2> QED BY ONLY o \in ClientIds, <2>1, <2>2
<1>6. /\ account'.frozenMargin = account.frozenMargin - old.frozenMargin
      /\ account'.frozenCommission = account.frozenCommission - old.frozenCommission
      /\ account'.usedMargin = account.usedMargin
  BY <1>1, <1>2 DEF Account
<1>7. /\ account.frozenMargin \in Int /\ account.frozenCommission \in Int
      /\ position.frozen \in Int /\ old.frozenPosition \in Int
      /\ old.frozenMargin \in Int /\ old.frozenCommission \in Int
  <2>1. account \in Account /\ position \in Position /\ old \in Order
    BY DEF LedgerInv, RowInv, TypeOK, old
  <2> QED BY ONLY <2>1 DEF Account, Position, Order
<1>8. new.status # "NONE"
  BY <1>3 DEF CancelledStatuses
<1>r. ASSUME position'.frozen = position.frozen - old.frozenPosition
      PROVE  ReservesAddUp'
  <2>1. /\ account'.frozenMargin = account.frozenMargin
              + (orders'[o].frozenMargin - orders[o].frozenMargin)
        /\ account'.frozenCommission = account.frozenCommission
              + (orders'[o].frozenCommission - orders[o].frozenCommission)
        /\ position'.frozen = position.frozen
              + (orders'[o].frozenPosition - orders[o].frozenPosition)
    BY <1>3, <1>4, <1>5, <1>6, <1>7, <1>r
  <2> QED BY <1>1, <1>5, <2>1, ReservesMove DEF LedgerInv
<1>9. CASE IsOpen(o)
  <2>1. UNCHANGED <<details, allocations, position>> /\ old.offset = "OPEN"
    BY <1>2, <1>4, <1>9 DEF IsOpen
  <2>2. old.frozenPosition = 0 /\ DOMAIN entries = {}
    BY <1>1, <2>1 DEF FreezeOK
  <2>3. FreezeOK(new, entries)
    BY <1>3, <1>8, <2>1, <2>2 DEF FreezeOK
  <2>4. FreezesOK'
    BY <1>4, <1>5, <2>1, <2>3, FreezesMove
  <2>5. ReservesAddUp'
    BY <1>7, <1>r, <2>1, <2>2
  <2>6. LotsAddUp'
    BY <2>1 DEF LedgerInv, LotsAddUp
  <2>7. PositionIsItsDetails'
    BY <1>6, <2>1, Zenon DEF LedgerInv, PositionIsItsDetails
  <2> QED BY <2>4, <2>5, <2>6, <2>7 DEF FreezeInv
<1>10. CASE ~IsOpen(o)
  <2> DEFINE left == [d \in DOMAIN entries |->
                         [entries[d] EXCEPT !.released   = @ + Held(o)[d],
                                         !.remaining  = 0,
                                         !.commission = 0]]
             before == HeldBy(entries)
             after == HeldBy(left)
  <2>1. /\ details' = [d \in DOMAIN details |->
                          [details[d] EXCEPT !.frozen = @ - At(before, d)]]
        /\ allocations' = [allocations EXCEPT ![o] = left]
        /\ position' = [position EXCEPT !.frozen = @ - old.remaining]
        /\ old.offset # "OPEN"
        /\ \A d \in DOMAIN entries : Held(o)[d] = entries[d].remaining
    BY <1>2, <1>4, <1>10 DEF ReleaseAllocations, HeldBy, Held, IsOpen
  <2>2. /\ DOMAIN entries # {} /\ old.frozenPosition = old.remaining
        /\ Total(before) = old.remaining /\ old.remaining \in Nat
    BY <1>1, <2>1 DEF FreezeOK, Order
  <2>3. DOMAIN left = DOMAIN entries
        /\ \A d \in DOMAIN entries : left[d] = [entries[d] EXCEPT !.released   = @ + Held(o)[d],
                                                           !.remaining  = 0,
                                                           !.commission = 0]
    OBVIOUS
  <2> HIDE DEF left
  <2>4. \A d \in DOMAIN entries :
           AllocationOK(left[d]) /\ left[d].remaining = 0 /\ left[d].commission = 0
    <3> SUFFICES ASSUME NEW d \in DOMAIN entries
                 PROVE  AllocationOK(left[d]) /\ left[d].remaining = 0
                        /\ left[d].commission = 0
      OBVIOUS
    <3>1. entries[d] \in Allocation /\ AllocationOK(entries[d])
      BY <1>1
    <3>2. Held(o)[d] = entries[d].remaining
      BY <2>1
    <3>3. left[d] = [entries[d] EXCEPT !.released   = @ + Held(o)[d],
                                    !.remaining  = 0,
                                    !.commission = 0]
      BY <2>3
    <3> QED BY ONLY <3>1, <3>2, <3>3 DEF Allocation, AllocationOK
  <2>5. /\ DOMAIN after = DOMAIN entries /\ DOMAIN FeesOf(left) = DOMAIN entries
        /\ \A d \in DOMAIN entries : after[d] = 0 /\ FeesOf(left)[d] = 0
    BY <2>3, <2>4 DEF HeldBy, FeesOf
  <2>6. DOMAIN before = DOMAIN entries /\ \A d : At(before, d) \in Nat
    BY <1>4, HeldIsNatural
  <2>7. allocations'[o] = left
        /\ \A x \in ClientIds \ {o} : allocations'[x] = allocations[x]
    <3>1. DOMAIN allocations = ClientIds
      BY DEF LedgerInv, RowInv, TypeOK
    <3>2. allocations' = [allocations EXCEPT ![o] = left]
      BY <2>1
    <3>3. allocations'[o] = left
      BY ONLY o \in ClientIds, <3>1, <3>2
    <3> QED BY ONLY <3>1, <3>2, <3>3
  <2>8. before = HeldBy(allocations[o]) /\ after = HeldBy(allocations'[o])
    BY <1>4, <2>7
  <2>l. after = HeldBy(left)
    OBVIOUS
  <2> HIDE DEF before, after
  <2>9. Total(after) = 0 /\ Total(FeesOf(left)) = 0
    BY <1>1, <2>5, TotalOfNaturals
  <2>10. FreezesOK'
    <3>1. FreezeOK(new, left)
      <4>1. new.offset # "OPEN" /\ new.offset = old.offset /\ DOMAIN left # {}
        BY <1>3, <2>1, <2>2, <2>3
      <4>2. Total(HeldBy(left)) = 0 /\ Total(FeesOf(left)) = 0
        BY <2>9, <2>l
      <4>3. \A d \in DOMAIN left : AllocationOK(left[d])
        BY <2>3, <2>4
      <4>4. /\ new.remaining = 0 /\ new.frozenMargin = 0 /\ new.frozenCommission = 0
            /\ new.frozenPosition = 0
        BY <1>3
      <4> QED BY ONLY <1>8, <4>1, <4>2, <4>3, <4>4 DEF FreezeOK
    <3> QED BY <1>5, <2>7, <3>1, FreezesMove
  <2>11. /\ position'.frozen = position.frozen - old.remaining
         /\ position'.total = position.total /\ position'.today = position.today
         /\ position'.yesterday = position.yesterday
         /\ position'.usedMargin = position.usedMargin
    BY <1>1, <2>1 DEF Position
  <2>12. ReservesAddUp'
    BY <1>r, <2>2, <2>11
  <2>13. /\ DOMAIN details' = DOMAIN details
         /\ \A d \in DOMAIN details :
               /\ details'[d].frozen = details[d].frozen - At(before, d)
               /\ details'[d].remaining = details[d].remaining
               /\ details'[d].margin = details[d].margin
               /\ details'[d].today = details[d].today
    <3>1. \A d \in DOMAIN details : details[d] \in Detail
      BY FrozenCovers
    <3> QED BY <2>1, <3>1 DEF Detail
  <2>14. LotsAddUp'
    <3>1. DOMAIN after \subseteq DOMAIN details /\ \A d \in DOMAIN after : after[d] \in Nat
      BY <1>1, <2>5
    <3>2. \A d : At(after, d) = 0
      BY <2>5 DEF At
    <3>3. \A d \in DOMAIN details :
             /\ details'[d].frozen = details[d].frozen + (At(after, d) - At(before, d))
             /\ details'[d].frozen <= details'[d].remaining
      <4> SUFFICES ASSUME NEW d \in DOMAIN details
                   PROVE  /\ details'[d].frozen =
                                details[d].frozen + (At(after, d) - At(before, d))
                          /\ details'[d].frozen <= details'[d].remaining
        OBVIOUS
      <4>1. /\ details[d].frozen \in Nat /\ details[d].remaining \in Int
            /\ details[d].frozen <= details[d].remaining
        BY FrozenCovers DEF Detail
      <4>2. At(before, d) \in Nat /\ At(after, d) = 0
        BY <2>6, <3>2
      <4> QED BY <2>13, <4>1, <4>2
    <3>4. position'.frozen = position.frozen + (Total(after) - Total(before))
      BY <1>7, <2>2, <2>9, <2>11
    <3> QED BY <2>7, <2>8, <2>13, <3>1, <3>3, <3>4, LotsMove
  <2>15. PositionIsItsDetails'
    BY <1>6, <2>11, <2>13, PositionStays
  <2> QED BY <2>10, <2>12, <2>14, <2>15 DEF FreezeInv
<1> QED BY <1>9, <1>10

LEMMA LedgerInvNext == LedgerInv /\ [Next]_vars => LedgerInv'
<1> SUFFICES ASSUME LedgerInv, [Next]_vars PROVE LedgerInv'
  OBVIOUS
<1>1. RowInv' /\ FundIdentity' /\ TypeOK'
  BY RowInvNext, FundNext DEF LedgerInv, RowInv
<1>2. CASE UNCHANGED ledger
  <2>1. FreezesOK' /\ ReservesAddUp' /\ LotsAddUp' /\ PositionIsItsDetails'
    BY <1>2, Zenon
       DEF ledger, LedgerInv, FreezesOK, ReservesAddUp, LotsAddUp, PositionIsItsDetails
  <2> QED BY <1>1, <2>1 DEF LedgerInv
<1>3. ASSUME NEW s \in submissions, AcceptSubmission(s) PROVE FreezeInv'
  <2>1. s.client \in ClientIds /\ s.request \in Requests
        /\ orders[s.client].status = "NONE"
    BY <1>3 DEF LedgerInv, RowInv, TypeOK, AcceptSubmission, AlreadyExists
  <2>2. CASE s.request.offset = "OPEN"
    BY <1>1, <1>3, <2>1, <2>2, FreezeAcceptOpen DEF AcceptSubmission
  <2>3. CASE s.request.offset # "OPEN"
    BY <1>1, <1>3, <2>1, <2>3, FreezeAcceptClose DEF AcceptSubmission
  <2> QED BY <2>2, <2>3
<1>4. ASSUME NEW m \in commands, Settle(m) PROVE FreezeInv'
  BY <1>1, <1>4, FreezeSettleOpen, FreezeSettleClose DEF Settle
<1>5. ASSUME NEW o \in ClientIds, Cancel(o) PROVE FreezeInv'
  BY <1>1, <1>5, FreezeCancel
<1>6. FreezeInv' => LedgerInv'
  BY <1>1 DEF LedgerInv, FreezeInv
<1> QED
  BY <1>2, <1>3, <1>4, <1>5, <1>6
     DEF Next, vars, LookupMisses, DropSubmission, Match, DropCommand, ledger

LEMMA LedgerInvHolds == Spec => []LedgerInv
<1> QED BY LedgerInvInit, LedgerInvNext, PTL DEF Spec

\* Whatever is accepted, filled and cancelled, and however margins, commissions and
\* their parts round, the account, the order rows, the freeze allocations, the
\* position and its details agree after every transaction.
THEOREM RowsAlwaysReconcile == Spec => []RowsReconcile
<1> QED BY LedgerInvHolds, InvReconciles, PTL

\* No consistency check of the fill and cancel handlers can fail: an active order
\* can always be cancelled, and filled by any volume up to its remainder.
THEOREM ActiveOrdersNeverStick == Spec => []ActiveOrderNeverStuck
<1> QED BY LedgerInvHolds, InvNeverStuck, PTL

-----------------------------------------------------------------------------
(* Trades explain what orders have traded and how cash has moved.          *)

TradesInv == RowInv /\ IsFiniteSet(trades) /\ TradesExplainLedger

VolumeIn(T, S) == SumFunctionOnSet([trade \in T |-> trade.volume], S)

GainIn(T) ==
    SumFunctionOnSet([trade \in T |-> trade.closePnl - trade.commission], T)

\* One more trade adds its volume to the sums it belongs to, and its gain.
LEMMA OneMoreTrade ==
    ASSUME NEW T, T \subseteq Trade, IsFiniteSet(T), NEW x \in Trade, x \notin T
    PROVE  /\ IsFiniteSet(T \cup {x})
           /\ \A S \in SUBSET T :
                 /\ VolumeIn(T \cup {x}, S) = VolumeIn(T, S)
                 /\ VolumeIn(T \cup {x}, S \cup {x}) = VolumeIn(T, S) + x.volume
           /\ GainIn(T \cup {x}) = GainIn(T) + (x.closePnl - x.commission)
<1> DEFINE U == T \cup {x}
           volume == [trade \in T |-> trade.volume]
           volumeNow == [trade \in U |-> trade.volume]
           gain == [trade \in T |-> trade.closePnl - trade.commission]
           gainNow == [trade \in U |-> trade.closePnl - trade.commission]
<1>1. IsFiniteSet(U) /\ x \in U
  BY FS_AddElement
<1>2. \A trade \in U :
         trade.volume \in Int /\ trade.closePnl \in Int /\ trade.commission \in Int
  BY DEF Trade
<1>3. /\ \A trade \in T : volume[trade] = trade.volume /\ volumeNow[trade] = trade.volume
      /\ volumeNow[x] = x.volume
      /\ \A trade \in T : gain[trade] = trade.closePnl - trade.commission
                          /\ gainNow[trade] = trade.closePnl - trade.commission
      /\ gainNow[x] = x.closePnl - x.commission
  OBVIOUS
<1>4. /\ \A trade \in T : volumeNow[trade] = volume[trade] /\ gainNow[trade] = gain[trade]
      /\ \A trade \in T : /\ volume[trade] \in Int /\ volumeNow[trade] \in Int
                          /\ gain[trade] \in Int /\ gainNow[trade] \in Int
      /\ volumeNow[x] \in Int /\ gainNow[x] \in Int
  BY <1>2, <1>3
<1> HIDE DEF volume, volumeNow, gain, gainNow, U
<1>5. ASSUME NEW S \in SUBSET T
      PROVE  /\ SumFunctionOnSet(volumeNow, S) = SumFunctionOnSet(volume, S)
             /\ SumFunctionOnSet(volumeNow, S \cup {x}) =
                   SumFunctionOnSet(volume, S) + x.volume
  <2>1. IsFiniteSet(S) /\ x \notin S
    BY FS_Subset
  <2>2. SumFunctionOnSet(volumeNow, S) = SumFunctionOnSet(volume, S)
    BY <1>4, <2>1, SumDependsOnValues
  <2>3. SumFunctionOnSet(volumeNow, S \cup {x}) =
           volumeNow[x] + SumFunctionOnSet(volumeNow, S)
    BY <1>4, <2>1, SumAdds
  <2>4. SumFunctionOnSet(volume, S) \in Int
    BY <1>4, <2>1, SumType
  <2> QED BY <1>2, <1>3, <1>4, <2>2, <2>3, <2>4
<1>6. SumFunctionOnSet(gainNow, T \cup {x}) =
         SumFunctionOnSet(gain, T) + (x.closePnl - x.commission)
  <2>1. SumFunctionOnSet(gainNow, T) = SumFunctionOnSet(gain, T)
    BY <1>4, SumDependsOnValues
  <2>2. SumFunctionOnSet(gainNow, T \cup {x}) = gainNow[x] + SumFunctionOnSet(gainNow, T)
    BY <1>4, SumAdds
  <2>3. SumFunctionOnSet(gain, T) \in Int
    BY <1>4, SumType
  <2>4. gainNow[x] \in Int /\ gainNow[x] = x.closePnl - x.commission
    BY <1>3, <1>4
  <2> QED BY <2>1, <2>2, <2>3, <2>4
<1> QED BY <1>1, <1>5, <1>6 DEF VolumeIn, GainIn, volume, volumeNow, gain, gainNow, U

LEMMA TradesInvInit == Init => TradesInv
<1> SUFFICES ASSUME Init PROVE TradesInv
  OBVIOUS
<1>1. RowInv
  BY RowInvInit
<1>2. trades = {} /\ \A c \in ClientIds : orders[c].traded = 0 /\ TradesOf(c) = {}
  BY DEF Init, NoOrder, TradesOf
<1>3. account.cash = OpeningCash
  BY DEF Init
<1>4. OpeningCash \in Int
  BY OpeningAssumption
<1>5. \A f : SumFunctionOnSet(f, {}) = 0
  BY SumEmpty
<1>6. IsFiniteSet(trades)
  BY <1>2, FS_EmptySet
<1>7. \A c \in ClientIds :
         orders[c].traded =
            SumFunctionOnSet([trade \in trades |-> trade.volume], TradesOf(c))
  BY <1>2, <1>5
<1>8. SumFunctionOnSet([trade \in trades |-> trade.closePnl - trade.commission], trades) = 0
  BY <1>2, <1>5
<1> QED BY <1>1, <1>3, <1>4, <1>6, <1>7, <1>8 DEF TradesInv, TradesExplainLedger

\* A fill records one trade, which tells the step of the order row and of cash.
FillRecorded(o) ==
    \E trade \in Trade :
       /\ trade \notin trades /\ trade.order = o
       /\ trades' = trades \cup {trade}
       /\ orders'[o].traded = orders[o].traded + trade.volume
       /\ \A c \in ClientIds \ {o} : orders'[c].traded = orders[c].traded
       /\ account'.cash = account.cash + (trade.closePnl - trade.commission)

LEMMA FillsAreRecorded ==
    ASSUME RowInv, TypeOK', NEW m \in commands, Settle(m)
    PROVE  m.order \in ClientIds /\ FillRecorded(m.order)
<1> DEFINE o == m.order
           volume == FillVolume(m)
<1>1. TypeOK /\ orders[o].remaining > 0
  BY DEF RowInv, Settle, Matchable
<1>2. o \in ClientIds /\ orders[o] \in Order /\ volume \in 1 .. orders[o].remaining
  BY <1>1, FillVolumeType
<1>3. /\ account \in Account /\ orders \in [ClientIds -> Order]
      /\ trades' \subseteq Trade
  BY <1>1 DEF TypeOK
<1>4. ASSUME NEW margin, NEW commission, NEW lots,
             orders' = [orders EXCEPT ![o] = Filled(@, volume, margin, commission, lots)]
      PROVE  /\ orders'[o].traded = orders[o].traded + volume
             /\ \A c \in ClientIds \ {o} : orders'[c].traded = orders[c].traded
  <2> DEFINE new == Filled(orders[o], volume, margin, commission, lots)
  <2>1. orders'[o] = new /\ \A c \in ClientIds \ {o} : orders'[c] = orders[c]
    BY <1>2, <1>3, <1>4
  <2>2. new.traded = orders[o].traded + volume
    BY <1>2, FilledColumns
  <2> HIDE DEF new
  <2> QED BY <2>1, <2>2
<1>5. ASSUME NEW trade, trades' = trades \cup {trade}, trade.order = o, trade.tick = m.tick
      PROVE  trade \in Trade /\ trade \notin trades
  BY <1>3, <1>5 DEF Settle, Settled
<1>6. CASE SettleOpen(m)
  <2>1. PICK margin, released, commission :
           /\ orders' = [orders EXCEPT ![o] = Filled(@, volume, margin, released, 0)]
           /\ account' = OpenFillAccount(margin, released, commission)
           /\ trades' = trades \cup
                 {[order |-> o, tick |-> m.tick, volume |-> volume, margin |-> margin,
                   commission |-> commission, closePnl |-> 0]}
    BY <1>6, Zenon DEF SettleOpen
  <2> DEFINE trade == [order |-> o, tick |-> m.tick, volume |-> volume, margin |-> margin,
                       commission |-> commission, closePnl |-> 0]
  <2>2. trade.order = o /\ trade.tick = m.tick /\ trade.volume = volume
        /\ trade.commission = commission /\ trade.closePnl = 0
    OBVIOUS
  <2>3. account'.cash = account.cash - commission
    BY <1>3, <2>1 DEF OpenFillAccount, Account
  <2>4. trades' = trades \cup {trade}
    BY <2>1
  <2> HIDE DEF trade, volume, o
  <2>5. trade \in Trade /\ trade \notin trades
    BY <1>5, <2>2, <2>4
  <2>6. account.cash \in Int /\ commission \in Int
    BY <1>3, <2>2, <2>5 DEF Account, Trade
  <2>7. account'.cash = account.cash + (trade.closePnl - trade.commission)
    BY <2>2, <2>3, <2>6
  <2>8. orders'[o].traded = orders[o].traded + trade.volume
        /\ \A c \in ClientIds \ {o} : orders'[c].traded = orders[c].traded
    BY <1>4, <2>1, <2>2
  <2> QED BY <1>2, <2>2, <2>4, <2>5, <2>7, <2>8 DEF FillRecorded, o
<1>7. CASE SettleClose(m)
  <2>1. PICK margin, released, fee, pnl :
           /\ orders' = [orders EXCEPT ![o] = Filled(@, volume, 0, released, volume)]
           /\ account' = CloseFillAccount(margin, released, fee, pnl)
           /\ trades' = trades \cup
                 {[order |-> o, tick |-> m.tick, volume |-> volume, margin |-> margin,
                   commission |-> fee, closePnl |-> pnl]}
    BY <1>7, Zenon DEF SettleClose
  <2> DEFINE trade == [order |-> o, tick |-> m.tick, volume |-> volume, margin |-> margin,
                       commission |-> fee, closePnl |-> pnl]
  <2>2. trade.order = o /\ trade.tick = m.tick /\ trade.volume = volume
        /\ trade.commission = fee /\ trade.closePnl = pnl
    OBVIOUS
  <2>3. account'.cash = account.cash + pnl - fee
    BY <1>3, <2>1 DEF CloseFillAccount, Account
  <2>4. trades' = trades \cup {trade}
    BY <2>1
  <2> HIDE DEF trade, volume, o
  <2>5. trade \in Trade /\ trade \notin trades
    BY <1>5, <2>2, <2>4
  <2>6. account.cash \in Int /\ fee \in Int /\ pnl \in Int
    BY <1>3, <2>2, <2>5 DEF Account, Trade
  <2>7. account'.cash = account.cash + (trade.closePnl - trade.commission)
    BY <2>2, <2>3, <2>6
  <2>8. orders'[o].traded = orders[o].traded + trade.volume
        /\ \A c \in ClientIds \ {o} : orders'[c].traded = orders[c].traded
    BY <1>4, <2>1, <2>2
  <2> QED BY <1>2, <2>2, <2>4, <2>5, <2>7, <2>8 DEF FillRecorded, o
<1> QED BY <1>2, <1>6, <1>7 DEF Settle

\* A step that records no trade leaves what orders have traded, and cash.
LEMMA NothingRecorded ==
    ASSUME TradesInv, RowInv', UNCHANGED trades, account'.cash = account.cash,
           \A c \in ClientIds : orders'[c].traded = orders[c].traded
    PROVE  TradesInv'
BY DEF TradesInv, TradesExplainLedger, TradesOf

LEMMA OneRecorded ==
    ASSUME TradesInv, RowInv', NEW o \in ClientIds, FillRecorded(o)
    PROVE  TradesInv'
<1>1. TypeOK /\ IsFiniteSet(trades) /\ trades \subseteq Trade
  BY DEF TradesInv, RowInv, TypeOK
<1>2. PICK trade \in Trade :
         /\ trade \notin trades /\ trade.order = o
         /\ trades' = trades \cup {trade}
         /\ orders'[o].traded = orders[o].traded + trade.volume
         /\ \A c \in ClientIds \ {o} : orders'[c].traded = orders[c].traded
         /\ account'.cash = account.cash + (trade.closePnl - trade.commission)
  BY DEF FillRecorded
<1>3. /\ \A c \in ClientIds : orders[c].traded = VolumeIn(trades, TradesOf(c))
      /\ account.cash = OpeningCash + GainIn(trades)
  BY DEF TradesInv, TradesExplainLedger, VolumeIn, GainIn
<1>4. /\ IsFiniteSet(trades')
      /\ \A S \in SUBSET trades :
            /\ VolumeIn(trades', S) = VolumeIn(trades, S)
            /\ VolumeIn(trades', S \cup {trade}) = VolumeIn(trades, S) + trade.volume
      /\ GainIn(trades') = GainIn(trades) + (trade.closePnl - trade.commission)
  BY <1>1, <1>2, OneMoreTrade
<1>5. /\ \A c \in ClientIds : TradesOf(c) \in SUBSET trades
      /\ TradesOf(o)' = TradesOf(o) \cup {trade}
      /\ \A c \in ClientIds \ {o} : TradesOf(c)' = TradesOf(c)
  BY <1>2 DEF TradesOf
<1>6. \A c \in ClientIds : orders'[c].traded = VolumeIn(trades', TradesOf(c)')
  <2> SUFFICES ASSUME NEW c \in ClientIds
               PROVE  orders'[c].traded = VolumeIn(trades', TradesOf(c)')
    OBVIOUS
  <2>1. CASE c = o
    BY <1>2, <1>3, <1>4, <1>5, <2>1
  <2>2. CASE c # o
    BY <1>2, <1>3, <1>4, <1>5, <2>2
  <2> QED BY <2>1, <2>2
<1>7. OpeningCash \in Int /\ GainIn(trades) \in Int
  <2> DEFINE gain == [trade_1 \in trades |-> trade_1.closePnl - trade_1.commission]
  <2>1. \A x \in trades : gain[x] \in Int
    BY <1>1 DEF Trade
  <2> HIDE DEF gain
  <2>2. SumFunctionOnSet(gain, trades) \in Int
    BY <1>1, <2>1, SumType
  <2> QED BY <2>2, OpeningAssumption DEF GainIn, gain
<1>8. account'.cash = OpeningCash + GainIn(trades')
  <2>1. trade.closePnl \in Int /\ trade.commission \in Int
    BY DEF Trade
  <2> QED BY <1>2, <1>3, <1>4, <1>7, <2>1
<1> QED BY <1>4, <1>6, <1>8 DEF TradesInv, TradesExplainLedger, VolumeIn, GainIn, TradesOf

LEMMA TradesInvNext == TradesInv /\ [Next]_vars => TradesInv'
<1> SUFFICES ASSUME TradesInv, [Next]_vars PROVE TradesInv'
  OBVIOUS
<1>1. RowInv /\ RowInv' /\ TypeOK' /\ TypeOK
  BY RowInvNext DEF TradesInv, RowInv
<1>2. orders \in [ClientIds -> Order] /\ account \in Account
  BY <1>1 DEF TypeOK
<1>3. CASE UNCHANGED ledger
  BY <1>1, <1>3, NothingRecorded DEF ledger
<1>4. ASSUME NEW s \in submissions, AcceptSubmission(s) PROVE TradesInv'
  <2> DEFINE c == s.client
  <2>1. c \in ClientIds /\ orders[c].status = "NONE" /\ s.request \in Requests
    BY <1>1, <1>4 DEF TypeOK, AcceptSubmission, AlreadyExists
  <2>2. orders[c].traded = 0
    BY <1>1, <2>1, RowOKSplit DEF RowInv, RowOK
  <2>3. PICK margin, commission, lots :
           /\ orders' = [orders EXCEPT ![c] = NewOrder(s.request, margin, commission, lots)]
           /\ UNCHANGED trades
    <3>1. CASE AcceptOpen(c, s.request)
      BY <3>1, Zenon DEF AcceptOpen
    <3>2. CASE AcceptClose(c, s.request)
      BY <3>2, Zenon DEF AcceptClose
    <3> QED BY <1>4, <3>1, <3>2 DEF AcceptSubmission
  <2>4. account'.cash = account.cash
    BY <1>2, <1>4 DEF AcceptSubmission, AcceptOpen, AcceptClose, Account
  <2>5. \A x \in ClientIds : orders'[x].traded = orders[x].traded
    BY <1>2, <2>1, <2>2, <2>3 DEF NewOrder, NoOrder
  <2> QED BY <1>1, <2>3, <2>4, <2>5, NothingRecorded
<1>5. ASSUME NEW m \in commands, Settle(m) PROVE TradesInv'
  BY <1>1, <1>5, FillsAreRecorded, OneRecorded
<1>6. ASSUME NEW o \in ClientIds, Cancel(o) PROVE TradesInv'
  <2>1. orders' = [orders EXCEPT ![o] = Cancelled(@)] /\ UNCHANGED trades
    BY <1>6 DEF Cancel
  <2>2. account'.cash = account.cash
    BY <1>2, <1>6 DEF Cancel, Account
  <2>3. \A x \in ClientIds : orders'[x].traded = orders[x].traded
    <3>1. Cancelled(orders[o]).traded = orders[o].traded
      BY <1>2, CancelledColumns
    <3> QED BY <1>2, <2>1, <3>1
  <2> QED BY <1>1, <2>1, <2>2, <2>3, NothingRecorded
<1> QED
  BY <1>3, <1>4, <1>5, <1>6
     DEF Next, vars, LookupMisses, DropSubmission, Match, DropCommand, ledger

\* However a day goes, each order has traded exactly the volumes of its trades and
\* cash is the opening balance plus their profits less their commissions.
THEOREM TradesAlwaysExplainLedger == Spec => []TradesExplainLedger
<1>1. TradesInv => TradesExplainLedger
  BY DEF TradesInv
<1> QED BY <1>1, TradesInvInit, TradesInvNext, PTL DEF Spec

-----------------------------------------------------------------------------
(* The outbox tells the ledger.                                            *)

\* What the events in "box" say of order c, whose row has this status and whose
\* trades are in "done".
Tells(c, status, box, done) ==
    /\ status # "NONE" <=> \E e \in box : e.order = c /\ e.kind = "ORDER_ACCEPTED"
    /\ \A t \in Ticks : (\E trade \in done : trade.order = c /\ trade.tick = t)
                        <=> Event("TRADE_CREATED", c, t) \in box
    /\ \A e \in box : e.order = c /\ e.kind \in TerminalStatuses => e.kind = status
    /\ status \in TerminalStatuses => \E e \in box : e.order = c /\ e.kind = status
    /\ \A e, f \in box :
          /\ e.order = c /\ e.kind \in TerminalStatuses
          /\ f.order = c /\ f.kind \in TerminalStatuses
          => e = f

OutboxInv == TypeOK /\ \A c \in ClientIds : Tells(c, orders[c].status, outbox, trades)

LEMMA EventColumns ==
    ASSUME NEW kind, NEW c, NEW tick
    PROVE  /\ Event(kind, c, tick).kind = kind /\ Event(kind, c, tick).order = c
           /\ Event(kind, c, tick).tick = tick
BY DEF Event

\* Events and trades of other orders say nothing of this one.
LEMMA OthersTellNothing ==
    ASSUME NEW c, NEW status, NEW box, NEW done, Tells(c, status, box, done),
           NEW more, \A e \in more : e.order # c,
           NEW now, \A t \in Ticks : (\E trade \in now : trade.order = c /\ trade.tick = t)
                       <=> \E trade \in done : trade.order = c /\ trade.tick = t
    PROVE  Tells(c, status, box \cup more, now)
<1>1. \A t : Event("TRADE_CREATED", c, t).order = c
  BY EventColumns
<1>2. \A t : Event("TRADE_CREATED", c, t) \in box \cup more
             <=> Event("TRADE_CREATED", c, t) \in box
  BY <1>1
<1> QED BY <1>2, Zenon DEF Tells

\* An order that has not ended tells at most one thing more of its end.
LEMMA OneMoreEvent ==
    ASSUME NEW c, NEW status, NEW box, NEW done, Tells(c, status, box, done),
           status \notin TerminalStatuses,
           NEW next, next \in Statuses \ {"NONE"}, NEW tick, NEW kind,
           kind = IF status = "NONE" THEN "ORDER_ACCEPTED" ELSE next,
           status = "NONE" => next = "ACCEPTED"
    PROVE  Tells(c, next, box \cup {Event(kind, c, tick)}, done)
<1> DEFINE new == Event(kind, c, tick)
<1>1. new.kind = kind /\ new.order = c
  BY EventColumns
<1>2. \A t : Event("TRADE_CREATED", c, t).kind = "TRADE_CREATED"
  BY EventColumns
<1>3. kind # "TRADE_CREATED" /\ (kind \in TerminalStatuses => kind = next)
      /\ (next \in TerminalStatuses => kind = next)
  BY DEF Statuses, ActiveStatuses, TerminalStatuses, CancelledStatuses
<1>4. \A e \in box : e.order = c => e.kind \notin TerminalStatuses
  BY DEF Tells
<1> HIDE DEF new
<1>5. \A t : Event("TRADE_CREATED", c, t) \in box \cup {new}
             <=> Event("TRADE_CREATED", c, t) \in box
  BY <1>1, <1>2, <1>3
<1>6. \E e \in box \cup {new} : e.order = c /\ e.kind = "ORDER_ACCEPTED"
  BY <1>1 DEF Tells
<1>7. \A t \in Ticks : (\E trade \in done : trade.order = c /\ trade.tick = t)
                        <=> Event("TRADE_CREATED", c, t) \in box \cup {new}
  BY <1>5 DEF Tells
<1>8. /\ \A e \in box \cup {new} :
             e.order = c /\ e.kind \in TerminalStatuses => e.kind = next /\ e = new
      /\ next \in TerminalStatuses => \E e \in box \cup {new} : e.order = c /\ e.kind = next
  BY <1>1, <1>3, <1>4
<1>9. Tells(c, next, box \cup {new}, done)
  BY <1>6, <1>7, <1>8 DEF Tells
<1> QED BY <1>9 DEF new

\* A trade is told by its own event.
LEMMA OneMoreTradeEvent ==
    ASSUME NEW c, NEW status, NEW box, NEW done, Tells(c, status, box, done),
           NEW trade, trade.order = c
    PROVE  Tells(c, status, box \cup {Event("TRADE_CREATED", c, trade.tick)},
                 done \cup {trade})
<1> DEFINE new == Event("TRADE_CREATED", c, trade.tick)
<1>1. new.kind = "TRADE_CREATED" /\ new.order = c /\ new.tick = trade.tick
  BY EventColumns
<1>2. \A t : Event("TRADE_CREATED", c, t).tick = t
  BY EventColumns
<1>3. "TRADE_CREATED" \notin TerminalStatuses
  BY DEF TerminalStatuses, CancelledStatuses
<1>4. \A t : Event("TRADE_CREATED", c, t) = new <=> t = trade.tick
  BY <1>1, <1>2
<1> HIDE DEF new
<1>5. \A t \in Ticks : (\E x \in done \cup {trade} : x.order = c /\ x.tick = t)
                       <=> Event("TRADE_CREATED", c, t) \in box \cup {new}
  BY <1>4 DEF Tells
<1>6. /\ \A e \in box \cup {new} : e.kind \in TerminalStatuses => e \in box
      /\ (\E e \in box \cup {new} : e.order = c /\ e.kind = "ORDER_ACCEPTED")
         <=> \E e \in box : e.order = c /\ e.kind = "ORDER_ACCEPTED"
  BY <1>1, <1>3
<1>7. Tells(c, status, box \cup {new}, done \cup {trade})
  BY <1>5, <1>6 DEF Tells
<1> QED BY <1>7 DEF new

LEMMA OutboxInvInit == Init => OutboxInv
<1> SUFFICES ASSUME Init PROVE OutboxInv
  OBVIOUS
<1>1. TypeOK
  BY TypeInit
<1>2. outbox = {} /\ trades = {} /\ \A c \in ClientIds : orders[c].status = "NONE"
  BY DEF Init, NoOrder
<1>3. "NONE" \notin TerminalStatuses
  BY DEF TerminalStatuses, CancelledStatuses
<1> QED BY <1>1, <1>2, <1>3 DEF OutboxInv, Tells

\* Steps of the outbox: nothing, an acceptance, a fill, a cancellation.
LEMMA OutboxInvNext == OutboxInv /\ [Next]_vars => OutboxInv'
<1> SUFFICES ASSUME OutboxInv, [Next]_vars PROVE OutboxInv'
  OBVIOUS
<1>1. TypeOK /\ TypeOK' /\ orders \in [ClientIds -> Order]
  BY TypeNext DEF OutboxInv, TypeOK
<1>2. \A c \in ClientIds : Tells(c, orders[c].status, outbox, trades)
  BY DEF OutboxInv
<1>3. CASE UNCHANGED ledger
  BY <1>1, <1>2, <1>3 DEF ledger, OutboxInv
<1>4. ASSUME NEW c \in ClientIds, NEW row, orders' = [orders EXCEPT ![c] = row],
             NEW more, outbox' = outbox \cup more, \A e \in more : e.order = c,
             NEW made, trades' = trades \cup made, \A trade \in made : trade.order = c,
             Tells(c, row.status, outbox \cup more, trades \cup made)
      PROVE  OutboxInv'
  <2> SUFFICES ASSUME NEW d \in ClientIds
               PROVE  Tells(d, orders'[d].status, outbox', trades')
    BY <1>1 DEF OutboxInv
  <2>1. CASE d = c
    BY <1>1, <1>4, <2>1
  <2>2. CASE d # c
    <3>1. orders'[d] = orders[d]
      BY <1>1, <1>4, <2>2
    <3>2. \A t \in Ticks : (\E trade \in trades' : trade.order = d /\ trade.tick = t)
                           <=> \E trade \in trades : trade.order = d /\ trade.tick = t
      BY <1>4, <2>2
    <3>3. \A e \in more : e.order # d
      BY <1>4, <2>2
    <3>4. Tells(d, orders[d].status, outbox \cup more, trades')
      BY <1>2, <3>2, <3>3, OthersTellNothing
    <3> QED BY <1>4, <3>1, <3>4
  <2> QED BY <2>1, <2>2
<1>k. ASSUME NEW c \in ClientIds, NEW row, orders' = [orders EXCEPT ![c] = row],
             NEW e, e.order = c, outbox' = outbox \cup {e}, trades' = trades,
             Tells(c, row.status, outbox \cup {e}, trades)
      PROVE  OutboxInv'
  <2> DEFINE none == {}
             more == {e}
  <2>1. trades' = trades \cup none /\ \A trade \in none : trade.order = c
    BY <1>k
  <2>2. outbox' = outbox \cup more /\ \A x \in more : x.order = c
    BY <1>k
  <2>3. Tells(c, row.status, outbox \cup more, trades \cup none)
    <3>1. trades \cup none = trades
      OBVIOUS
    <3> QED BY <1>k, <3>1
  <2> HIDE DEF none, more
  <2>4. orders' = [orders EXCEPT ![c] = row]
    BY <1>k
  <2> QED BY ONLY <1>4, <2>1, <2>2, <2>3, <2>4, c \in ClientIds
<1>5. ASSUME NEW s \in submissions, AcceptSubmission(s) PROVE OutboxInv'
  <2> DEFINE c == s.client
             new == Event("ORDER_ACCEPTED", c, NoTick)
  <2>1. c \in ClientIds /\ orders[c].status = "NONE"
    BY <1>1, <1>5 DEF TypeOK, AcceptSubmission, AlreadyExists
  <2>2. PICK row : /\ orders' = [orders EXCEPT ![c] = row] /\ row.status = "ACCEPTED"
                   /\ outbox' = outbox \cup {new} /\ trades' = trades
    <3>1. CASE AcceptOpen(c, s.request)
      <4>1. PICK margin, commission :
               /\ orders' = [orders EXCEPT ![c] = NewOrder(s.request, margin, commission, 0)]
               /\ outbox' = outbox \cup {new} /\ trades' = trades
        BY <3>1, Zenon DEF AcceptOpen
      <4>2. NewOrder(s.request, margin, commission, 0).status = "ACCEPTED"
        BY DEF NewOrder, NoOrder
      <4> QED BY ONLY <4>1, <4>2
    <3>2. CASE AcceptClose(c, s.request)
      <4>1. PICK commission :
               /\ orders' = [orders EXCEPT
                                ![c] = NewOrder(s.request, 0, commission, s.request.volume)]
               /\ outbox' = outbox \cup {new} /\ trades' = trades
        BY <3>2, Zenon DEF AcceptClose
      <4>2. NewOrder(s.request, 0, commission, s.request.volume).status = "ACCEPTED"
        BY DEF NewOrder, NoOrder
      <4> QED BY ONLY <4>1, <4>2
    <3> QED BY <1>5, <3>1, <3>2 DEF AcceptSubmission
  <2>3. new.order = c
    BY EventColumns
  <2>4. Tells(c, row.status, outbox \cup {new}, trades)
    <3>1. "ACCEPTED" \in Statuses \ {"NONE"} /\ "NONE" \notin TerminalStatuses
      BY DEF Statuses, ActiveStatuses, TerminalStatuses, CancelledStatuses
    <3> QED BY <1>2, <2>1, <2>2, <3>1, OneMoreEvent
  <2> HIDE DEF c, new
  <2> QED BY <1>k, <2>1, <2>2, <2>3, <2>4
<1>6. ASSUME NEW m \in commands, Settle(m) PROVE OutboxInv'
  <2> DEFINE o == m.order
  <2>1. o \in ClientIds /\ Active(o) /\ FillVolume(m) \in Int
    <3>1. orders[m.order].remaining > 0
      BY <1>6 DEF Settle, Matchable
    <3> QED BY <1>1, <1>6, <3>1, FillVolumeType DEF Settle, Matchable, Order
  <2>2. PICK row, trade :
           /\ orders' = [orders EXCEPT ![o] = row]
           /\ row.status \in {"FILLED", "PARTIALLY_FILLED"}
           /\ trades' = trades \cup {trade} /\ trade.order = o /\ trade.tick = m.tick
           /\ outbox' = outbox \cup FillEvents(o, m.tick)
    <3> DEFINE Made(margin, commission, pnl) ==
                  [order |-> o, tick |-> m.tick, volume |-> FillVolume(m),
                   margin |-> margin, commission |-> commission, closePnl |-> pnl]
    <3>1. PICK margin, commission, lots, tradeMargin, fee, pnl :
             /\ orders' = [orders EXCEPT
                              ![o] = Filled(@, FillVolume(m), margin, commission, lots)]
             /\ trades' = trades \cup {Made(tradeMargin, fee, pnl)}
             /\ outbox' = outbox \cup FillEvents(o, m.tick)
      <4>1. CASE SettleOpen(m)
        BY <4>1, Zenon DEF SettleOpen
      <4>2. CASE SettleClose(m)
        BY <4>2, Zenon DEF SettleClose
      <4> QED BY <1>6, <4>1, <4>2 DEF Settle
    <3> DEFINE row == Filled(orders[o], FillVolume(m), margin, commission, lots)
               trade == Made(tradeMargin, fee, pnl)
    <3>2. trade.order = o /\ trade.tick = m.tick
      OBVIOUS
    <3>3. row.status \in {"FILLED", "PARTIALLY_FILLED"}
      BY <1>1, <2>1, FilledColumns
    <3>4. orders' = [orders EXCEPT ![o] = row] /\ trades' = trades \cup {trade}
      BY <3>1
    <3> HIDE DEF row, trade
    <3> QED BY <3>1, <3>2, <3>3, <3>4
  <2>3. orders'[o].status = row.status
    BY <1>1, <2>1, <2>2
  <2> DEFINE made == Event("TRADE_CREATED", o, m.tick)
             told == Event(row.status, o, m.tick)
  <2>4. FillEvents(o, m.tick) = {made} \cup {told}
    BY <2>3 DEF FillEvents
  <2>5. made.order = o /\ told.order = o
    BY EventColumns
  <2>6. Tells(o, orders[o].status, outbox \cup {made}, trades \cup {trade})
    BY <1>2, <2>1, <2>2, OneMoreTradeEvent
  <2>7. /\ orders[o].status \notin TerminalStatuses /\ orders[o].status # "NONE"
        /\ row.status \in Statuses \ {"NONE"}
    BY <2>1, <2>2
       DEF Active, Statuses, ActiveStatuses, TerminalStatuses, CancelledStatuses
  <2> HIDE DEF made
  <2>8. Tells(o, row.status, (outbox \cup {made}) \cup {told}, trades \cup {trade})
    BY <2>6, <2>7, OneMoreEvent
  <2> HIDE DEF told, o
  <2>9. (outbox \cup {made}) \cup {told} = outbox \cup ({made} \cup {told})
    OBVIOUS
  <2>10. Tells(o, row.status, outbox \cup ({made} \cup {told}), trades \cup {trade})
    BY <2>8, <2>9
  <2> QED BY <1>4, <2>1, <2>2, <2>4, <2>5, <2>10
<1>7. ASSUME NEW o \in ClientIds, Cancel(o) PROVE OutboxInv'
  <2> DEFINE row == Cancelled(orders[o])
             new == Event(row.status, o, NoTick)
  <2>1. orders' = [orders EXCEPT ![o] = row] /\ trades' = trades
        /\ outbox' = outbox \cup {Event(orders'[o].status, o, NoTick)}
    BY <1>7 DEF Cancel
  <2>2. row.status \in CancelledStatuses
    BY <1>1, CancelledColumns DEF CancelledStatuses
  <2>3. orders'[o] = row
    BY <1>1, <2>1
  <2>4. outbox' = outbox \cup {new} /\ new.order = o
    BY <2>1, <2>3, EventColumns
  <2>5. /\ orders[o].status \notin TerminalStatuses /\ orders[o].status # "NONE"
        /\ row.status \in Statuses \ {"NONE"}
    BY <1>7, <2>2
       DEF Cancel, Active, Statuses, ActiveStatuses, TerminalStatuses, CancelledStatuses
  <2>6. Tells(o, row.status, outbox \cup {new}, trades)
    BY <1>2, <2>5, OneMoreEvent
  <2> HIDE DEF row, new
  <2> QED BY <1>k, <2>1, <2>4, <2>6
<1> QED
  BY <1>3, <1>5, <1>6, <1>7
     DEF Next, vars, LookupMisses, DropSubmission, Match, DropCommand, ledger

\* The outbox tells a consumer the state of the database after every transaction:
\* one acceptance per order, one trade event per trade, one end per ended order.
THEOREM OutboxAlwaysTellsTheLedger == Spec => []OutboxTellsTheLedger
<1>1. ASSUME OutboxInv PROVE OutboxTellsTheLedger
  <2> SUFFICES ASSUME NEW c \in ClientIds
      PROVE  LET Kinds == {e.kind : e \in {e \in outbox : e.order = c}}
             IN  /\ orders[c].status # "NONE" <=> "ORDER_ACCEPTED" \in Kinds
                 /\ \A t \in Ticks :
                       Settled(c, t) <=> Event("TRADE_CREATED", c, t) \in outbox
                 /\ Kinds \cap TerminalStatuses = {orders[c].status} \cap TerminalStatuses
                 /\ Cardinality({e \in outbox :
                                    e.order = c /\ e.kind \in TerminalStatuses}) <= 1
    BY Zenon DEF OutboxTellsTheLedger
  <2>1. Tells(c, orders[c].status, outbox, trades)
    BY <1>1 DEF OutboxInv
  <2> DEFINE ends == {e \in outbox : e.order = c /\ e.kind \in TerminalStatuses}
  <2>2. \A e, f \in ends : e = f
    BY <2>1 DEF Tells
  <2>3. Cardinality(ends) <= 1
    <3>1. CASE ends = {}
      BY <3>1, FS_EmptySet
    <3>2. CASE ends # {}
      <4>1. PICK e : ends = {e}
        BY <2>2, <3>2
      <4>2. Cardinality({e}) = 1
        BY FS_Singleton
      <4> HIDE DEF ends
      <4> QED BY <4>1, <4>2
    <3> QED BY <3>1, <3>2
  <2> QED BY <2>1, <2>3 DEF Tells, Settled
<1> QED BY <1>1, OutboxInvInit, OutboxInvNext, PTL DEF Spec

-----------------------------------------------------------------------------
(* Yesterday's lots are closed before today's.                             *)

\* A split that reaches a detail has taken all that the earlier ones can give.
LEMMA FifoTakesEarlierFirst ==
    ASSUME TypeOK, NEW capacity, IsFiniteSet(DOMAIN capacity),
           DOMAIN capacity \subseteq DOMAIN details,
           \A d \in DOMAIN capacity : capacity[d] \in Nat, NEW volume \in Nat,
           NEW d \in DOMAIN capacity, FifoSplit(capacity, volume)[d] > 0,
           NEW e \in DOMAIN capacity, Precedes(e, d)
    PROVE  FifoSplit(capacity, volume)[e] = capacity[e]
<1> DEFINE K == DOMAIN capacity
           Earlier(x) == {y \in K : Precedes(y, x)}
           upTo == [y \in Earlier(e) |-> capacity[y]]
           with == [y \in Earlier(e) \cup {e} |-> capacity[y]]
           before == [y \in Earlier(d) |-> capacity[y]]
<1>1. /\ FifoSplit(capacity, volume)[d] =
            IF volume <= Total(before) THEN 0
            ELSE Smaller(capacity[d], volume - Total(before))
      /\ FifoSplit(capacity, volume)[e] =
            IF volume <= Total(upTo) THEN 0
            ELSE Smaller(capacity[e], volume - Total(upTo))
  BY DEF FifoSplit
<1>2. /\ IsFiniteSet(Earlier(e)) /\ IsFiniteSet(Earlier(d)) /\ e \notin Earlier(e)
      /\ Earlier(e) \cup {e} \subseteq Earlier(d)
  <2>1. e \notin Earlier(e)
    BY PrecedesIsAnOrder
  <2>2. \A y \in Earlier(e) : Precedes(y, d)
    BY PrecedesIsAnOrder
  <2>3. IsFiniteSet(Earlier(e)) /\ IsFiniteSet(Earlier(d))
    BY FS_Subset
  <2> QED BY <2>1, <2>2, <2>3
<1>3. /\ DOMAIN upTo = Earlier(e) /\ DOMAIN with = Earlier(e) \cup {e}
      /\ DOMAIN before = Earlier(d)
      /\ \A y \in Earlier(e) : upTo[y] \in Int /\ with[y] = upTo[y]
      /\ with[e] = capacity[e]
      /\ \A y \in Earlier(e) \cup {e} : with[y] \in Int /\ with[y] <= before[y]
      /\ \A y \in Earlier(d) : before[y] \in Nat
      /\ \A y \in Earlier(e) : upTo[y] \in Nat
  BY <1>2
<1> HIDE DEF upTo, with, before, Earlier
<1>4. Total(with) = Total(upTo) + with[e]
  <2>1. with[e] \in Int
    BY <1>3
  <2> QED BY <1>2, <1>3, <2>1, TotalExtends
<1>5. Total(with) <= Total(before)
  BY <1>2, <1>3, TotalIsMonotone
<1>6. Total(upTo) \in Nat /\ Total(before) \in Nat
  BY <1>2, <1>3, TotalOfNaturals
<1>7. Total(before) < volume
  BY <1>1, <1>6
<1> QED BY <1>1, <1>3, <1>4, <1>5, <1>6, <1>7 DEF Smaller

\* The plan of an ordinary close that takes lots of today leaves none of yesterday.
LEMMA PlanTakesYesterdayFirst ==
    ASSUME LedgerInv, NEW r \in Requests, r.offset = "CLOSE",
           NEW d \in DOMAIN ClosePlan(r), details[d].today,
           NEW e \in DOMAIN details, ~details[e].today
    PROVE  details[e].frozen + At(ClosePlan(r), e) = details[e].remaining
<1> DEFINE free == FreeLots(r)
           taken == FifoSplit(free, r.volume)
           plan == ClosePlan(r)
<1>1. TypeOK /\ r.volume \in Nat
  BY RequestType DEF LedgerInv, RowInv
<1>2. /\ details[e] \in Detail /\ details[e].frozen \in Nat
      /\ details[e].frozen <= details[e].remaining
  BY FrozenCovers
<1>3. DOMAIN free = {x \in DOMAIN details : details[x].remaining - details[x].frozen > 0}
      /\ \A x \in DOMAIN free : free[x] = details[x].remaining - details[x].frozen
  BY DEF FreeLots, Candidates, Free
<1>4. plan = [x \in {x \in DOMAIN taken : taken[x] > 0} |-> taken[x]]
  BY DEF ClosePlan
<1> HIDE DEF free, plan
<1>5. /\ DOMAIN free \subseteq DOMAIN details /\ IsFiniteSet(DOMAIN free)
      /\ \A x \in DOMAIN free : free[x] \in Nat
  <2>1. DOMAIN free \subseteq DOMAIN details
    BY <1>3
  <2>2. \A x \in DOMAIN details : details[x].remaining \in Int /\ details[x].frozen \in Int
    BY FrozenCovers DEF Detail
  <2>3. \A x \in DOMAIN free : free[x] \in Nat
    BY <1>3, <2>2
  <2> QED BY <1>1, <2>1, <2>3, SomeDetails
<1>6. DOMAIN taken = DOMAIN free /\ \A x \in DOMAIN free : taken[x] \in 0 .. free[x]
  BY <1>1, <1>5, FifoTakes
<1>7. d \in DOMAIN free /\ taken[d] > 0
  BY <1>4, <1>6 DEF plan
<1>8. Precedes(e, d)
  BY DEF Precedes
<1>9. CASE e \in DOMAIN free
  <2>1. taken[e] = free[e]
    BY <1>1, <1>5, <1>7, <1>8, <1>9, FifoTakesEarlierFirst
  <2>2. free[e] = details[e].remaining - details[e].frozen /\ free[e] > 0
    BY <1>3, <1>9
  <2> HIDE DEF taken
  <2>3. e \in DOMAIN plan /\ plan[e] = free[e]
    BY <1>4, <1>6, <1>9, <2>1, <2>2
  <2>4. details[e].remaining \in Int
    BY <1>2 DEF Detail
  <2> QED BY <1>2, <2>2, <2>3, <2>4 DEF At, plan
<1>10. CASE e \notin DOMAIN free
  <2> HIDE DEF taken
  <2>1. At(plan, e) = 0
    BY <1>4, <1>6, <1>10 DEF At
  <2>2. details[e].remaining \in Int
    BY <1>2 DEF Detail
  <2>3. ~(details[e].remaining - details[e].frozen > 0)
    BY <1>3, <1>10
  <2> QED BY <1>2, <2>1, <2>2, <2>3 DEF plan
<1> QED BY <1>9, <1>10

\* Whatever else is frozen or has been closed, an ordinary CLOSE order takes lots
\* opened today only when it leaves no free lot of yesterday.
THEOREM YesterdayAlwaysFirst == Spec => YesterdayBeforeToday
<1>1. ASSUME LedgerInv, [Next]_vars, NEW c \in ClientIds, orders[c].status = "NONE",
             orders'[c].offset = "CLOSE",
             NEW d \in DOMAIN allocations'[c], details[d].today,
             NEW e \in DOMAIN details'
      PROVE  details'[e].today \/ details'[e].frozen = details'[e].remaining
  <2>1. orders[c].offset = "OPEN" /\ orders \in [ClientIds -> Order]
    BY <1>1, InvRows DEF FreezeOK, LedgerInv, RowInv, TypeOK
  <2>2. orders'[c] # orders[c]
    BY <1>1, <2>1
  <2>3. ASSUME NEW o \in ClientIds, Active(o), NEW row, orders' = [orders EXCEPT ![o] = row]
        PROVE  FALSE
    <3>1. o # c
      BY <1>1, <2>3 DEF Active, ActiveStatuses
    <3> QED BY <2>1, <2>2, <2>3, <3>1
  <2>4. ASSUME NEW m \in commands, Settle(m) PROVE FALSE
    <3>1. m.order \in ClientIds /\ Active(m.order)
      BY <1>1, <2>4 DEF LedgerInv, RowInv, TypeOK, Settle, Matchable
    <3>2. \E row : orders' = [orders EXCEPT ![m.order] = row]
      BY <2>4, Zenon DEF Settle, SettleOpen, SettleClose
    <3> QED BY <2>3, <3>1, <3>2
  <2>5. ASSUME NEW o \in ClientIds, Cancel(o) PROVE FALSE
    BY <2>3, <2>5 DEF Cancel
  <2>6. PICK s \in submissions : AcceptSubmission(s)
    BY <1>1, <2>2, <2>4, <2>5
       DEF Next, vars, LookupMisses, DropSubmission, Match, DropCommand, ledger
  <2> DEFINE r == s.request
  <2>7. s.client \in ClientIds /\ r \in Requests
    BY <1>1, <2>6 DEF LedgerInv, RowInv, TypeOK
  <2>8. s.client = c
    <3>1. \E row : orders' = [orders EXCEPT ![s.client] = row]
      BY <2>6, Zenon DEF AcceptSubmission, AcceptOpen, AcceptClose
    <3> QED BY <2>1, <2>2, <2>7, <3>1
  <2>9. r.offset = "CLOSE"
    <3>1. PICK margin, commission, lots :
             orders' = [orders EXCEPT ![c] = NewOrder(r, margin, commission, lots)]
      <4>1. CASE AcceptOpen(c, r)
        BY <4>1, Zenon DEF AcceptOpen
      <4>2. CASE AcceptClose(c, r)
        BY <4>2, Zenon DEF AcceptClose
      <4> QED BY <2>6, <2>8, <4>1, <4>2 DEF AcceptSubmission
    <3>2. NewOrder(r, margin, commission, lots).offset = r.offset
      BY <2>7, NewOrderColumns
    <3>3. orders'[c] = NewOrder(r, margin, commission, lots)
      BY <2>1, <3>1
    <3> QED BY <1>1, <3>2, <3>3
  <2>10. AcceptClose(c, r)
    BY <2>6, <2>8, <2>9 DEF AcceptSubmission
  <2> HIDE DEF r
  <2> DEFINE plan == ClosePlan(r)
  <2>11. /\ details' = [x \in DOMAIN details |->
                           [details[x] EXCEPT !.frozen = @ + At(plan, x)]]
         /\ \E f : allocations' = [allocations EXCEPT ![c] = [x \in DOMAIN plan |-> f[x]]]
    <3>1. details' = [x \in DOMAIN details |->
                           [details[x] EXCEPT !.frozen = @ + At(plan, x)]]
      BY <2>10, Zenon DEF AcceptClose
    <3> DEFINE f == [x \in DOMAIN plan |->
                        [original |-> plan[x], remaining |-> plan[x], consumed |-> 0,
                         released |-> 0,
                         commission |-> BucketShares(r.limit, plan)[x]]]
    <3>2. allocations' = [allocations EXCEPT ![c] = f]
      BY <2>10, Zenon DEF AcceptClose
    <3>3. f = [x \in DOMAIN plan |-> f[x]]
      OBVIOUS
    <3> HIDE DEF f, plan
    <3> QED BY <3>1, <3>2, <3>3
  <2>12. d \in DOMAIN plan
    <3>1. DOMAIN allocations = ClientIds
      BY <1>1 DEF LedgerInv, RowInv, TypeOK
    <3>2. DOMAIN allocations'[c] = DOMAIN plan
      BY <2>11, <3>1
    <3> QED BY <3>2
  <2>13. CanFreezeClose(r)
    BY <2>10 DEF AcceptClose
  <2>14. DOMAIN plan \subseteq DOMAIN details
    BY <1>1, <2>7, <2>13, ClosePlanTakes DEF r
  <2> HIDE DEF plan
  <2>15. DOMAIN details' = DOMAIN details
         /\ \A x \in DOMAIN details :
               /\ details'[x].today = details[x].today
               /\ details'[x].remaining = details[x].remaining
               /\ details'[x].frozen = details[x].frozen + At(plan, x)
    <3>1. \A x \in DOMAIN details : details[x] \in Detail
      BY <1>1, FrozenCovers
    <3> QED BY <2>11, <3>1 DEF Detail
  <2>16. details[d].today /\ e \in DOMAIN details /\ r \in Requests
    BY <1>1, <2>7, <2>12, <2>14, <2>15 DEF r
  <2>17. ~details[e].today => details[e].frozen + At(plan, e) = details[e].remaining
    BY <1>1, <2>9, <2>12, <2>16, PlanTakesYesterdayFirst DEF plan
  <2> QED BY <2>15, <2>16, <2>17
<1>2. ASSUME LedgerInv, [Next]_vars
      PROVE  [\A c \in ClientIds :
                 /\ orders[c].status = "NONE" /\ orders'[c].offset = "CLOSE"
                 /\ \E d \in DOMAIN allocations'[c] : details[d].today
                 => \A d \in DOMAIN details' :
                       details'[d].today \/ details'[d].frozen = details'[d].remaining]_vars
  BY <1>1, <1>2
<1> QED BY <1>2, LedgerInvHolds, PTL DEF Spec, YesterdayBeforeToday


-----------------------------------------------------------------------------
(* The invariant of the index.                                             *)

Exists(o) == rows[o].status # "NONE"
Ended(o) == rows[o].status = "DONE"

\* A consumer with an order to add has seen a version of it; one with an order to
\* remove has seen it ended.
ConsumerKnows(c) ==
    consumers[c].todo # {} =>
      /\ consumers[c].step = "ADD" => consumers[c].seen # 0
      /\ consumers[c].step \in {"DETAIL", "REMOVE"} => Ended(OrderOf(c))

RebuildKnows ==
    /\ \A o \in rebuild.snapshot : Exists(o)
    /\ \A order \in rebuild.page : Exists(order[1]) /\ order[2] # 0
    /\ rebuild.step \in {"DETAIL", "REMOVE"} =>
          \A order \in rebuild.page : Ended(order[1])

\* What is delivered, read or indexed is an order that was accepted.
OnlyRealOrders ==
    /\ \A o \in OrderIds : Exists(o) <=> rows[o].version # 0
    /\ \A m \in DOMAIN stream : Exists(stream[m][1])
    /\ \A o \in OrderIds : index[o] # 0 => Exists(o)

IndexInv ==
    /\ IndexTypeOK
    /\ OnlyRealOrders
    /\ \A c \in Consumers : ConsumerKnows(c)
    /\ RebuildKnows
    /\ ContractsCoverIndex

-----------------------------------------------------------------------------
(* Messages of a batch.                                                    *)

\* The first message of a batch belongs to the batch.
LEMMA MinOfTwo ==
    ASSUME NEW m \in Nat, NEW n \in Nat
    PROVE  Min({m, n}) \in {m, n} /\ Min({m, n}) =< m /\ Min({m, n}) =< n
<1>1. \E x \in {m, n} : \A y \in {m, n} : x =< y
  OBVIOUS
<1> QED  BY <1>1 DEF Min

\* The message a consumer works on has been delivered to it, and its order exists.
LEMMA MessageIsReal ==
    ASSUME IndexInv, NEW c \in Consumers, consumers[c].todo # {}
    PROVE  /\ Message(c) \in consumers[c].todo /\ Message(c) \in DOMAIN stream
           /\ Message(c) \in 1 .. group.last
           /\ OrderOf(c) \in OrderIds /\ Exists(OrderOf(c))
<1>1. consumers[c].todo \in SUBSET Nat /\ consumers[c].todo \subseteq 1 .. group.last
  BY DEF IndexInv, IndexTypeOK, Consumer
<1>2. Message(c) \in consumers[c].todo
  BY <1>1, MinBelongs DEF Message
<1>3. DOMAIN stream = 1 .. Len(stream) /\ group.last \in Nat /\ Len(stream) \in Nat
      /\ group.last <= Len(stream)
  BY DEF IndexInv, IndexTypeOK, Group
<1>4. Message(c) \in 1 .. Len(stream)
  BY <1>1, <1>2, <1>3
<1>5. stream[Message(c)] \in Events
  BY <1>4 DEF IndexInv, IndexTypeOK
<1> QED  BY <1>1, <1>2, <1>3, <1>4, <1>5 DEF OrderOf, Events, IndexInv, OnlyRealOrders

-----------------------------------------------------------------------------
(* The steps that move rows and messages.                                  *)

\* What has been seen of a row is still true after the row has moved on.
LEMMA ChangeOrderStep ==
    ASSUME IndexInv, NEW o \in OrderIds, ChangeOrder(o)
    PROVE  IndexInv'
<1>1. /\ rows \in [OrderIds -> Row] /\ rows[o].version + 1 \in Versions \ {0}
      /\ UNCHANGED << stream, consuming, index, contracts, rebuild, counters >>
  BY BoundsAssumption DEF IndexInv, IndexTypeOK, ChangeOrder, Delivery!Commit, Row, Versions
<1>2. PICK status \in {"ACTIVE", "DONE"} :
         rows' = [rows EXCEPT ![o] = [status |-> status, version |-> rows[o].version + 1]]
  BY DEF ChangeOrder
<1>3. rows' \in [OrderIds -> Row]
  BY <1>1, <1>2 DEF Row
<1>4. IndexTypeOK'
  BY <1>1, <1>3 DEF IndexInv, IndexTypeOK, consuming
<1>5. \A q \in OrderIds : /\ Exists(q) => Exists(q)'
                          /\ Ended(q) => Ended(q)'
  BY <1>1, <1>2 DEF Exists, Ended, ChangeOrder, Row
<1>6. OnlyRealOrders'
  <2>1. \A q \in OrderIds : (Exists(q) <=> rows[q].version # 0)'
    BY <1>1, <1>2 DEF IndexInv, OnlyRealOrders, Exists, Versions
  <2>2. \A m \in DOMAIN stream : stream[m][1] \in OrderIds
    BY DEF IndexInv, IndexTypeOK, Events
  <2> QED  BY <1>1, <1>5, <2>1, <2>2 DEF IndexInv, OnlyRealOrders
<1>7. \A c \in Consumers : ConsumerKnows(c)'
  BY <1>1, <1>5, MessageIsReal DEF IndexInv, ConsumerKnows, consuming, OrderOf, Message
<1>8. RebuildKnows'
  <2>1. /\ rebuild.snapshot \subseteq OrderIds
        /\ \A order \in rebuild.page : order[1] \in OrderIds
    BY DEF IndexInv, IndexTypeOK, Rebuild
  <2> QED  BY <1>1, <1>5, <2>1 DEF IndexInv, RebuildKnows
<1>9. ContractsCoverIndex'
  BY <1>1 DEF IndexInv, ContractsCoverIndex
<1> QED  BY <1>4, <1>6, <1>7, <1>8, <1>9 DEF IndexInv

\* Only events of accepted orders are published, after those that are there.
LEMMA DeliverStep ==
    ASSUME IndexInv, NEW e \in Events, Deliver(e)
    PROVE  IndexInv'
<1>1. /\ e \in committed /\ stream' = Append(stream, e) /\ failures' = Append(failures, 0)
      /\ UNCHANGED << rows, group, consumers, index, contracts, rebuild, counters >>
  BY DEF Deliver, Delivery!Publish
<1>2. stream \in Seq(Events) /\ failures \in Seq(Nat) /\ Len(failures) = Len(stream)
      /\ group.last \in Nat /\ group.last <= Len(stream)
  BY DEF IndexInv, IndexTypeOK, Group
<1>3. IndexTypeOK'
  BY <1>1, <1>2 DEF IndexInv, IndexTypeOK
<1>4. e[1] \in OrderIds /\ Exists(e[1])
  <2>1. e[1] \in OrderIds /\ e[2] \in Nat /\ e[2] # 0 /\ e[2] <= rows[e[1]].version
    BY <1>1, BoundsAssumption DEF committed, Events, Versions
  <2>2. rows[e[1]].version # 0
    BY <2>1
  <2> QED  BY <2>1, <2>2 DEF IndexInv, OnlyRealOrders
<1>5. \A m \in DOMAIN stream' :
         stream'[m] = IF m \in DOMAIN stream THEN stream[m] ELSE e
  BY <1>1, <1>2
<1>6. OnlyRealOrders'
  BY <1>1, <1>4, <1>5 DEF IndexInv, OnlyRealOrders, Exists
<1>7. \A c \in Consumers : ConsumerKnows(c)'
  <2>1. SUFFICES ASSUME NEW c \in Consumers, consumers[c].todo # {} PROVE ConsumerKnows(c)'
    BY <1>1 DEF ConsumerKnows
  <2>2. Message(c) \in DOMAIN stream
    BY <2>1, MessageIsReal
  <2>3. DOMAIN stream \subseteq DOMAIN stream'
    BY <1>1, <1>2
  <2>4. stream'[Message(c)] = stream[Message(c)]
    BY <1>5, <2>2, <2>3
  <2>5. OrderOf(c)' = OrderOf(c)
    BY <1>1, <2>4 DEF OrderOf, Message
  <2> QED  BY <1>1, <2>5 DEF IndexInv, ConsumerKnows, Ended
<1>8. RebuildKnows' /\ ContractsCoverIndex'
  BY <1>1 DEF IndexInv, RebuildKnows, ContractsCoverIndex, Exists, Ended
<1> QED  BY <1>3, <1>6, <1>7, <1>8 DEF IndexInv

-----------------------------------------------------------------------------
(* The consumers.                                                          *)

\* Another consumer's step does not change what a consumer knows.
LEMMA OthersKnow ==
    ASSUME IndexInv, NEW c \in Consumers, UNCHANGED delivery,
           \A d \in Consumers \ {c} : consumers'[d] = consumers[d],
           ConsumerKnows(c)'
    PROVE  \A d \in Consumers : ConsumerKnows(d)'
<1>1. ASSUME NEW d \in Consumers \ {c} PROVE ConsumerKnows(d)'
  BY DEF IndexInv, ConsumerKnows, Ended, OrderOf, Message, delivery
<1> QED  BY <1>1

\* A step of a consumer that leaves the index alone.
LEMMA ConsumerMoves ==
    ASSUME IndexInv, NEW c \in Consumers,
           UNCHANGED << delivery, index, contracts, rebuild >>,
           NEW new \in Consumer, consumers' = [consumers EXCEPT ![c] = new],
           new.todo \subseteq 1 .. group'.last,
           group' \in Group, group.last <= group'.last, group'.last <= Len(stream),
           group'.pending \cup group'.stale \cup group'.dead \subseteq 1 .. group'.last,
           failures' \in Seq(Nat), Len(failures') = Len(failures),
           counters' \in [errors : Nat, crashes : Nat, rebuilds : Nat],
           ConsumerKnows(c)'
    PROVE  IndexInv'
<1>1. IndexTypeOK'
  <2>1. consumers' \in [Consumers -> Consumer]
    BY DEF IndexInv, IndexTypeOK
  <2>2. \A d \in Consumers : consumers'[d].todo \subseteq 1 .. group'.last
    <3>1. SUFFICES ASSUME NEW d \in Consumers PROVE consumers'[d].todo \subseteq 1 .. group'.last
      OBVIOUS
    <3>2. consumers[d].todo \subseteq 1 .. group.last /\ group.last \in Nat /\ group'.last \in Nat
      BY DEF IndexInv, IndexTypeOK, Group
    <3>3. 1 .. group.last \subseteq 1 .. group'.last
      BY <3>2
    <3>4. consumers'[d] = IF d = c THEN new ELSE consumers[d]
      BY DEF IndexInv, IndexTypeOK
    <3> QED  BY <3>2, <3>3, <3>4
  <2> QED  BY <2>1, <2>2 DEF IndexInv, IndexTypeOK, delivery
<1>2. OnlyRealOrders' /\ RebuildKnows' /\ ContractsCoverIndex'
  BY DEF IndexInv, OnlyRealOrders, RebuildKnows, ContractsCoverIndex, Exists, Ended, delivery
<1>3. \A d \in Consumers \ {c} : consumers'[d] = consumers[d]
  BY DEF IndexInv, IndexTypeOK
<1> QED  BY <1>1, <1>2, <1>3, OthersKnow DEF IndexInv

\* What the consumers and their group look like, for the steps below.
LEMMA ConsumerTypes ==
    ASSUME IndexInv, NEW c \in Consumers
    PROVE  /\ consumers[c] \in Consumer /\ consumers[c].todo \subseteq 1 .. group.last
           /\ consumers \in [Consumers -> Consumer]
           /\ Idle \in Consumer /\ Idle.todo = {}
           /\ group \in Group /\ group.last <= Len(stream)
           /\ group.pending \cup group.stale \cup group.dead \subseteq 1 .. group.last
           /\ failures \in Seq(Nat) /\ Len(failures) = Len(stream)
           /\ counters \in [errors : Nat, crashes : Nat, rebuilds : Nat]
BY BoundsAssumption
   DEF IndexInv, IndexTypeOK, Consumer, Idle, ConsumerSteps, Versions, Group

\* ... and for a step that leaves the group alone as well.
LEMMA ConsumerMovesAlone ==
    ASSUME IndexInv, NEW c \in Consumers,
           UNCHANGED << delivery, group, failures, index, contracts, rebuild, counters >>,
           NEW new \in Consumer, consumers' = [consumers EXCEPT ![c] = new],
           new.todo \subseteq 1 .. group.last,
           ConsumerKnows(c)'
    PROVE  IndexInv'
<1>1. /\ group' = group /\ failures' = failures /\ counters' = counters
      /\ UNCHANGED << delivery, index, contracts, rebuild >>
  OBVIOUS
<1>2. /\ group' \in Group /\ group.last <= group'.last /\ group'.last <= Len(stream)
      /\ group'.pending \cup group'.stale \cup group'.dead \subseteq 1 .. group'.last
      /\ failures' \in Seq(Nat) /\ Len(failures') = Len(failures)
      /\ counters' \in [errors : Nat, crashes : Nat, rebuilds : Nat]
      /\ new.todo \subseteq 1 .. group'.last
  BY <1>1, ConsumerTypes DEF Group
<1> QED  BY <1>1, <1>2, ConsumerMoves

LEMMA LowestIsPart ==
    ASSUME NEW S, NEW size PROVE Lowest(S, size) \subseteq S
BY DEF Lowest

LEMMA ClaimStaleStep ==
    ASSUME IndexInv, NEW c \in Consumers, ClaimStale(c)
    PROVE  IndexInv'
<1> DEFINE batch == Lowest(group.stale, BatchSize)
           new == [Idle EXCEPT !.todo = batch, !.round = "NEW"]
<1>1. /\ consumers' = [consumers EXCEPT ![c] = new]
      /\ group' = [group EXCEPT !.stale = @ \ batch]
      /\ UNCHANGED << delivery, failures, index, contracts, rebuild, counters >>
  BY DEF ClaimStale
<1>2. batch \subseteq group.stale
  BY LowestIsPart
<1> HIDE DEF batch
<1>3. new \in Consumer /\ new.todo = batch /\ new.step = "READ"
  BY <1>2, ConsumerTypes DEF Consumer, Idle, Group
<1>4. group' \in Group /\ group'.last = group.last /\ group'.stale \subseteq group.stale
      /\ group'.pending = group.pending /\ group'.dead = group.dead
  BY <1>1, ConsumerTypes DEF Group
<1>5. ConsumerKnows(c)'
  BY <1>1, <1>3, ConsumerTypes DEF ConsumerKnows
<1> HIDE DEF new
<1>6. /\ group.last <= group'.last /\ group'.last <= Len(stream)
      /\ group'.pending \cup group'.stale \cup group'.dead \subseteq 1 .. group'.last
      /\ failures' = failures /\ counters' = counters
      /\ new.todo \subseteq 1 .. group'.last
  BY <1>1, <1>2, <1>3, <1>4, ConsumerTypes DEF Group
<1> QED  BY <1>1, <1>3, <1>4, <1>5, <1>6, ConsumerTypes, ConsumerMoves

LEMMA ReadNewStep ==
    ASSUME IndexInv, NEW c \in Consumers, ReadNew(c)
    PROVE  IndexInv'
<1> DEFINE last == Min({group.last + BatchSize, Len(stream)})
           batch == group.last + 1 .. last
           new == [Idle EXCEPT !.todo = batch]
<1>1. /\ consumers' = [consumers EXCEPT ![c] = new]
      /\ group' = [group EXCEPT !.pending = @ \cup batch, !.last = last]
      /\ UNCHANGED << delivery, failures, index, contracts, rebuild, counters >>
  BY DEF ReadNew
<1>2. group.last \in Nat /\ Len(stream) \in Nat /\ group.last <= Len(stream)
      /\ BatchSize \in Nat \ {0}
  BY BoundsAssumption DEF IndexInv, IndexTypeOK, Group
<1>3. last \in Nat /\ group.last <= last /\ last <= Len(stream)
  BY <1>2, MinOfTwo
<1> HIDE DEF last
<1>4. batch \subseteq 1 .. last /\ batch \subseteq Nat
  BY <1>2, <1>3
<1> HIDE DEF batch
<1>5. new \in Consumer /\ new.todo = batch /\ new.step = "READ"
  BY <1>4, ConsumerTypes DEF Consumer, Idle
<1>6. /\ group' \in Group /\ group'.last = last /\ group'.stale = group.stale
      /\ group'.pending = group.pending \cup batch /\ group'.dead = group.dead
  BY <1>1, <1>3, <1>4, ConsumerTypes DEF Group
<1>7. group'.pending \cup group'.stale \cup group'.dead \subseteq 1 .. last
  <2>1. 1 .. group.last \subseteq 1 .. last
    BY <1>2, <1>3
  <2> QED  BY <1>4, <1>6, <2>1, ConsumerTypes
<1>8. ConsumerKnows(c)'
  BY <1>1, <1>5, ConsumerTypes DEF ConsumerKnows
<1> HIDE DEF new
<1> QED  BY <1>1, <1>3, <1>4, <1>5, <1>6, <1>7, <1>8, ConsumerTypes, ConsumerMoves

\* The row that is read decides; one that is not listed has ended.
LEMMA ReadOrderStep ==
    ASSUME IndexInv, NEW c \in Consumers, ReadOrder(c)
    PROVE  IndexInv'
<1> DEFINE o == OrderOf(c)
           new == [consumers[c] EXCEPT !.step = IF Listed(o) THEN "ADD" ELSE "DETAIL",
                                       !.seen = rows[o].version]
<1>1. /\ consumers' = [consumers EXCEPT ![c] = new] /\ consumers[c].todo # {}
      /\ UNCHANGED << delivery, group, failures, index, contracts, rebuild, counters >>
  BY ConsumerTypes DEF ReadOrder, ConsumerAt
<1>2. o \in OrderIds /\ Exists(o)
  BY <1>1, MessageIsReal
<1>3. rows[o] \in Row /\ (rows[o].status = "NONE" <=> rows[o].version = 0)
  BY <1>2 DEF IndexInv, IndexTypeOK, OnlyRealOrders, Exists
<1>4. /\ new \in Consumer /\ new.todo = consumers[c].todo /\ new.seen = rows[o].version
      /\ new.step = IF Listed(o) THEN "ADD" ELSE "DETAIL"
  BY <1>3, ConsumerTypes DEF Consumer, ConsumerSteps, Row
<1>5. consumers'[c] = new /\ OrderOf(c)' = OrderOf(c) /\ rows' = rows
  BY <1>1, <1>4, ConsumerTypes DEF OrderOf, Message, delivery
<1>6. ~Listed(o) => Ended(OrderOf(c))'
  BY <1>2, <1>3, <1>5 DEF Listed, Ended, Exists, Row
<1>7. ConsumerKnows(c)'
  BY <1>2, <1>3, <1>4, <1>5, <1>6 DEF ConsumerKnows, Listed, Exists
<1> HIDE DEF new, o
<1> QED  BY <1>1, <1>4, <1>7, ConsumerTypes, ConsumerMovesAlone

LEMMA ReadDetailStep ==
    ASSUME IndexInv, NEW c \in Consumers, ReadDetail(c)
    PROVE  IndexInv'
<1> DEFINE new == [consumers[c] EXCEPT !.step = "REMOVE",
                                       !.detail = index[OrderOf(c)] # 0]
<1>1. /\ consumers' = [consumers EXCEPT ![c] = new]
      /\ consumers[c].todo # {} /\ consumers[c].step = "DETAIL"
      /\ UNCHANGED << delivery, group, failures, index, contracts, rebuild, counters >>
  BY ConsumerTypes DEF ReadDetail, ConsumerAt
<1>2. new \in Consumer /\ new.todo = consumers[c].todo /\ new.step = "REMOVE"
  BY ConsumerTypes DEF Consumer, ConsumerSteps
<1>3. Ended(OrderOf(c)) /\ consumers'[c] = new /\ OrderOf(c)' = OrderOf(c)
  BY <1>1, <1>2, ConsumerTypes DEF IndexInv, ConsumerKnows, OrderOf, Message, delivery
<1>4. ConsumerKnows(c)'
  BY <1>1, <1>2, <1>3 DEF ConsumerKnows, Ended, delivery
<1> HIDE DEF new
<1> QED  BY <1>1, <1>2, <1>4, ConsumerTypes, ConsumerMovesAlone

\* A message that is done with, or left for later.
LEMMA GoOnTypes ==
    ASSUME IndexInv, NEW c \in Consumers, GoOn(c)
    PROVE  \E new \in Consumer :
             /\ consumers' = [consumers EXCEPT ![c] = new]
             /\ new.step = "READ" /\ new.todo \subseteq consumers[c].todo
<1> DEFINE new == [Idle EXCEPT !.round = consumers[c].round,
                               !.todo = consumers[c].todo \ {Message(c)}]
<1>1. new \in Consumer /\ new.step = "READ" /\ new.todo \subseteq consumers[c].todo
  BY ConsumerTypes DEF Consumer, Idle
<1> QED  BY <1>1 DEF GoOn

LEMMA AcknowledgeStep ==
    ASSUME IndexInv, NEW c \in Consumers, Acknowledge(c)
    PROVE  IndexInv'
<1>1. /\ group' = [group EXCEPT !.pending = @ \ {Message(c)}, !.stale = @ \ {Message(c)}]
      /\ failures' = [failures EXCEPT ![Message(c)] = 0] /\ consumers[c].todo # {}
      /\ UNCHANGED << delivery, index, contracts, rebuild, counters >> /\ GoOn(c)
  BY DEF Acknowledge, ConsumerAt
<1>2. PICK new \in Consumer :
         /\ consumers' = [consumers EXCEPT ![c] = new]
         /\ new.step = "READ" /\ new.todo \subseteq consumers[c].todo
  BY <1>1, GoOnTypes
<1>3. /\ group' \in Group /\ group'.last = group.last /\ group'.dead = group.dead
      /\ group'.pending \subseteq group.pending /\ group'.stale \subseteq group.stale
  BY <1>1, ConsumerTypes DEF Group
<1>4. failures' \in Seq(Nat) /\ Len(failures') = Len(failures)
  BY <1>1, MessageIsReal, ConsumerTypes
<1>5. ConsumerKnows(c)'
  BY <1>2, ConsumerTypes DEF ConsumerKnows
<1>6. /\ group.last <= group'.last /\ group'.last <= Len(stream)
      /\ group'.pending \cup group'.stale \cup group'.dead \subseteq 1 .. group'.last
      /\ new.todo \subseteq 1 .. group'.last /\ counters' = counters
  BY <1>1, <1>2, <1>3, ConsumerTypes DEF Group
<1> QED  BY <1>1, <1>2, <1>3, <1>4, <1>5, <1>6, ConsumerTypes, ConsumerMoves

LEMMA FailStep ==
    ASSUME IndexInv, NEW c \in Consumers, Fail(c) \/ FailDeadLetter(c)
    PROVE  IndexInv'
<1>1. /\ consumers[c].todo # {}
      /\ counters' = [counters EXCEPT !.errors = @ + 1]
      /\ UNCHANGED << delivery, group, index, contracts, rebuild >>
  BY DEF Fail, FailDeadLetter, ConsumerAt
<1>2. failures' \in Seq(Nat) /\ Len(failures') = Len(failures)
  <2>1. \/ failures' = failures
        \/ failures' = [failures EXCEPT ![Message(c)] = failures[Message(c)] + 1]
    BY DEF Fail, FailDeadLetter
  <2>2. failures \in Seq(Nat) /\ Message(c) \in 1 .. Len(failures)
    BY <1>1, MessageIsReal, ConsumerTypes
  <2>3. failures[Message(c)] + 1 \in Nat
    BY <2>2
  <2> QED  BY <2>1, <2>2, <2>3
<1>3. counters' \in [errors : Nat, crashes : Nat, rebuilds : Nat]
  BY <1>1, ConsumerTypes
<1>4. PICK new \in Consumer :
         /\ consumers' = [consumers EXCEPT ![c] = new]
         /\ new.step \in {"READ", "DEAD"} /\ new.todo \subseteq consumers[c].todo
  <2>1. CASE GoOn(c)
    BY <2>1, GoOnTypes
  <2>2. CASE ~GoOn(c)
    <3>1. \E step \in {"DEAD"} : consumers' = [consumers EXCEPT ![c].step = step]
      BY <2>2 DEF Fail, FailDeadLetter, AfterFailure
    <3>2. [consumers[c] EXCEPT !.step = "DEAD"] \in Consumer
      BY ConsumerTypes DEF Consumer, ConsumerSteps
    <3> QED  BY <3>1, <3>2, ConsumerTypes DEF Consumer
  <2> QED  BY <2>1, <2>2
<1>5. ConsumerKnows(c)'
  BY <1>4, ConsumerTypes DEF ConsumerKnows
<1>6. /\ group' = group /\ group.last <= group'.last /\ group' \in Group
      /\ group'.last <= Len(stream) /\ new.todo \subseteq 1 .. group'.last
      /\ group'.pending \cup group'.stale \cup group'.dead \subseteq 1 .. group'.last
  BY <1>1, <1>4, ConsumerTypes DEF Group
<1> QED  BY <1>1, <1>2, <1>3, <1>4, <1>5, <1>6, ConsumerMoves

LEMMA DeadLetterStep ==
    ASSUME IndexInv, NEW c \in Consumers, DeadLetter(c)
    PROVE  IndexInv'
<1> DEFINE new == [consumers[c] EXCEPT !.step = "DEADACK"]
<1>1. /\ group' = [group EXCEPT !.dead = @ \cup {Message(c)}]
      /\ consumers' = [consumers EXCEPT ![c] = new] /\ consumers[c].todo # {}
      /\ UNCHANGED << delivery, failures, index, contracts, rebuild, counters >>
  BY ConsumerTypes DEF DeadLetter, ConsumerAt
<1>2. new \in Consumer /\ new.step = "DEADACK" /\ new.todo = consumers[c].todo
  BY ConsumerTypes DEF Consumer, ConsumerSteps
<1>3. Message(c) \in 1 .. group.last /\ Message(c) \in Nat
  BY <1>1, MessageIsReal, ConsumerTypes DEF Group
<1>4. /\ group' \in Group /\ group'.last = group.last /\ group'.pending = group.pending
      /\ group'.stale = group.stale /\ group'.dead = group.dead \cup {Message(c)}
  BY <1>1, <1>3, ConsumerTypes DEF Group
<1>5. ConsumerKnows(c)'
  BY <1>1, <1>2, ConsumerTypes DEF ConsumerKnows
<1>6. /\ group.last <= group'.last /\ group'.last <= Len(stream)
      /\ group'.pending \cup group'.stale \cup group'.dead \subseteq 1 .. group'.last
      /\ new.todo \subseteq 1 .. group'.last /\ failures' = failures /\ counters' = counters
  BY <1>1, <1>2, <1>3, <1>4, ConsumerTypes DEF Group
<1> HIDE DEF new
<1> QED  BY <1>1, <1>2, <1>4, <1>5, <1>6, ConsumerTypes, ConsumerMoves

LEMMA CrashStep ==
    ASSUME IndexInv, NEW c \in Consumers, Crash(c)
    PROVE  IndexInv'
<1>1. /\ consumers' = [consumers EXCEPT ![c] = Idle]
      /\ counters' = [counters EXCEPT !.crashes = @ + 1]
      /\ group' = group /\ failures' = failures
      /\ UNCHANGED << delivery, index, contracts, rebuild >>
  BY DEF Crash
<1>2. counters' \in [errors : Nat, crashes : Nat, rebuilds : Nat]
  BY <1>1, ConsumerTypes
<1>3. ConsumerKnows(c)'
  BY <1>1, ConsumerTypes DEF ConsumerKnows
<1>4. /\ group' \in Group /\ group.last <= group'.last /\ group'.last <= Len(stream)
      /\ group'.pending \cup group'.stale \cup group'.dead \subseteq 1 .. group'.last
      /\ Idle.todo \subseteq 1 .. group'.last
  BY <1>1, ConsumerTypes DEF Group
<1> QED  BY <1>1, <1>2, <1>3, <1>4, ConsumerTypes, ConsumerMoves

LEMMA BecomeStaleStep ==
    ASSUME IndexInv, NEW m \in DOMAIN stream, BecomeStale(m)
    PROVE  IndexInv'
<1>1. /\ group' = [group EXCEPT !.stale = @ \cup {m}] /\ m \in group.pending
      /\ UNCHANGED << delivery, failures, consumers, index, contracts, rebuild, counters >>
  BY DEF BecomeStale
<1>2. group' \in Group /\ group'.last = group.last /\ group'.pending = group.pending
      /\ group'.dead = group.dead /\ group'.stale = group.stale \cup {m}
  BY <1>1 DEF IndexInv, IndexTypeOK, Group
<1>3. IndexTypeOK'
  BY <1>1, <1>2 DEF IndexInv, IndexTypeOK, delivery
<1> QED
  BY <1>1, <1>3 DEF IndexInv, OnlyRealOrders, RebuildKnows, ContractsCoverIndex,
     ConsumerKnows, Exists, Ended, OrderOf, Message, delivery

-----------------------------------------------------------------------------
(* The scripts on the index.                                               *)

\* Whoever adds an order that exists adds its contract with it.
LEMMA UpsertKeeps ==
    ASSUME IndexInv, NEW o \in OrderIds, NEW version \in Versions, Exists(o),
           Upsert(o, version), UNCHANGED delivery
    PROVE  /\ index' \in [OrderIds -> Versions] /\ contracts' \subseteq Contracts
           /\ OnlyRealOrders' /\ ContractsCoverIndex'
<1>1. /\ index' = [index EXCEPT ![o] = version] /\ index \in [OrderIds -> Versions]
      /\ contracts' = contracts \cup {ContractOf[o]} /\ contracts \subseteq Contracts
      /\ rows' = rows /\ stream' = stream
  BY DEF IndexInv, IndexTypeOK, Upsert, delivery
<1>2. \A q \in OrderIds : index'[q] = IF q = o THEN version ELSE index[q]
  BY <1>1
<1>3. OnlyRealOrders'
  BY <1>1, <1>2 DEF IndexInv, OnlyRealOrders, Exists
<1>4. ContractsCoverIndex'
  BY <1>1, <1>2 DEF IndexInv, ContractsCoverIndex
<1>5. index' \in [OrderIds -> Versions] /\ contracts' \subseteq Contracts
  BY <1>1 DEF Contracts
<1> QED  BY <1>3, <1>4, <1>5

\* A removal leaves the contract of every other order alone.
LEMMA UnindexKeeps ==
    ASSUME IndexInv, NEW o \in OrderIds, NEW detail \in BOOLEAN,
           Unindex(o, detail), UNCHANGED delivery
    PROVE  /\ index' \in [OrderIds -> Versions] /\ contracts' \subseteq Contracts
           /\ OnlyRealOrders' /\ ContractsCoverIndex'
           /\ \A q \in OrderIds : q # o => index'[q] = index[q]
<1>1. /\ index' = [index EXCEPT ![o] = 0] /\ index \in [OrderIds -> Versions]
      /\ contracts' \subseteq contracts /\ contracts \subseteq Contracts
      /\ rows' = rows /\ stream' = stream /\ 0 \in Versions
  BY BoundsAssumption DEF IndexInv, IndexTypeOK, Unindex, delivery, Versions
<1>2. \A q \in OrderIds : index'[q] = IF q = o THEN 0 ELSE index[q]
  BY <1>1
<1>3. OnlyRealOrders'
  BY <1>1, <1>2 DEF IndexInv, OnlyRealOrders, Exists
<1>4. ContractsCoverIndex'
  <2>1. SUFFICES ASSUME NEW q \in OrderIds, index'[q] # 0
                 PROVE  ContractOf[q] \in contracts'
    BY DEF ContractsCoverIndex
  <2>2. q # o /\ index[q] # 0 /\ ContractOf[q] \in contracts
    BY <1>2, <2>1 DEF IndexInv, ContractsCoverIndex
  <2>3. ContractOf[q] = ContractOf[o] => StillNeeded(o)
    BY <2>2 DEF StillNeeded, Indexed
  <2> QED  BY <2>2, <2>3 DEF Unindex
<1>5. index' \in [OrderIds -> Versions] /\ contracts' \subseteq Contracts
  BY <1>1
<1> QED  BY <1>2, <1>3, <1>4, <1>5

LEMMA AddActiveOrderStep ==
    ASSUME IndexInv, NEW c \in Consumers, AddActiveOrder(c)
    PROVE  /\ IndexInv'
           /\ \A o \in OrderIds : index[o] # 0 => index'[o] # 0
<1> DEFINE new == [consumers[c] EXCEPT !.step = "ACK"]
<1>1. /\ Upsert(OrderOf(c), consumers[c].seen)
      /\ consumers' = [consumers EXCEPT ![c] = new]
      /\ consumers[c].todo # {} /\ consumers[c].step = "ADD"
      /\ UNCHANGED << delivery, group, failures, rebuild, counters >>
  BY ConsumerTypes DEF AddActiveOrder, ConsumerAt
<1>2. /\ OrderOf(c) \in OrderIds /\ Exists(OrderOf(c))
      /\ consumers[c].seen \in Versions /\ consumers[c].seen # 0
  BY <1>1, MessageIsReal, ConsumerTypes DEF IndexInv, ConsumerKnows, Consumer
<1>3. /\ index' \in [OrderIds -> Versions] /\ contracts' \subseteq Contracts
      /\ OnlyRealOrders' /\ ContractsCoverIndex'
  BY <1>1, <1>2, UpsertKeeps
<1>4. new \in Consumer /\ new.todo = consumers[c].todo /\ new.step = "ACK"
  BY ConsumerTypes DEF Consumer, ConsumerSteps
<1> HIDE DEF new
<1>5. IndexTypeOK'
  BY <1>1, <1>3, <1>4 DEF IndexInv, IndexTypeOK, delivery
<1>6. \A d \in Consumers : ConsumerKnows(d)'
  <2>1. ConsumerKnows(c)'
    BY <1>1, <1>4, ConsumerTypes DEF ConsumerKnows
  <2>2. \A d \in Consumers \ {c} : consumers'[d] = consumers[d]
    BY <1>1, ConsumerTypes
  <2> QED  BY <1>1, <2>1, <2>2, OthersKnow
<1>7. RebuildKnows'
  BY <1>1 DEF IndexInv, RebuildKnows, Exists, Ended, delivery
<1>8. \A o \in OrderIds : index[o] # 0 => index'[o] # 0
  BY <1>1, <1>2 DEF Upsert, IndexInv, IndexTypeOK
<1> QED  BY <1>3, <1>5, <1>6, <1>7, <1>8 DEF IndexInv

LEMMA RemoveActiveOrderStep ==
    ASSUME IndexInv, NEW c \in Consumers, RemoveActiveOrder(c)
    PROVE  /\ IndexInv'
           /\ \A o \in OrderIds : index[o] # 0 /\ index'[o] = 0 => Ended(o)
<1> DEFINE new == [consumers[c] EXCEPT !.step = "ACK"]
<1>1. /\ Unindex(OrderOf(c), consumers[c].detail)
      /\ consumers' = [consumers EXCEPT ![c] = new]
      /\ consumers[c].todo # {} /\ consumers[c].step = "REMOVE"
      /\ UNCHANGED << delivery, group, failures, rebuild, counters >>
  BY ConsumerTypes DEF RemoveActiveOrder, ConsumerAt
<1>2. OrderOf(c) \in OrderIds /\ Ended(OrderOf(c)) /\ consumers[c].detail \in BOOLEAN
  BY <1>1, MessageIsReal, ConsumerTypes DEF IndexInv, ConsumerKnows, Consumer
<1>3. /\ index' \in [OrderIds -> Versions] /\ contracts' \subseteq Contracts
      /\ OnlyRealOrders' /\ ContractsCoverIndex'
      /\ \A q \in OrderIds : q # OrderOf(c) => index'[q] = index[q]
  BY <1>1, <1>2, UnindexKeeps
<1>4. new \in Consumer /\ new.todo = consumers[c].todo /\ new.step = "ACK"
  BY ConsumerTypes DEF Consumer, ConsumerSteps
<1> HIDE DEF new
<1>5. IndexTypeOK'
  BY <1>1, <1>3, <1>4 DEF IndexInv, IndexTypeOK, delivery
<1>6. \A d \in Consumers : ConsumerKnows(d)'
  <2>1. ConsumerKnows(c)'
    BY <1>1, <1>4, ConsumerTypes DEF ConsumerKnows
  <2>2. \A d \in Consumers \ {c} : consumers'[d] = consumers[d]
    BY <1>1, ConsumerTypes
  <2> QED  BY <1>1, <2>1, <2>2, OthersKnow
<1>7. RebuildKnows'
  BY <1>1 DEF IndexInv, RebuildKnows, Exists, Ended, delivery
<1> QED  BY <1>2, <1>3, <1>5, <1>6, <1>7 DEF IndexInv

-----------------------------------------------------------------------------
(* The rebuild.                                                            *)

\* A step of the rebuild that leaves the index alone.
LEMMA RebuildMoves ==
    ASSUME IndexInv, UNCHANGED << delivery, consuming, index, contracts >>,
           rebuild' \in Rebuild, RebuildKnows',
           counters' \in [errors : Nat, crashes : Nat, rebuilds : Nat]
    PROVE  IndexInv'
<1>1. IndexTypeOK'
  BY DEF IndexInv, IndexTypeOK, delivery, consuming
<1> QED
  BY <1>1 DEF IndexInv, OnlyRealOrders, ContractsCoverIndex, ConsumerKnows, Exists,
     Ended, OrderOf, Message, delivery, consuming

LEMMA RebuildTypes ==
    ASSUME IndexInv
    PROVE  /\ rebuild \in Rebuild
           /\ Stopped \in Rebuild /\ Stopped.snapshot = {} /\ Stopped.page = {}
           /\ rows \in [OrderIds -> Row] /\ index \in [OrderIds -> Versions]
           /\ counters \in [errors : Nat, crashes : Nat, rebuilds : Nat]
BY DEF IndexInv, IndexTypeOK, Rebuild, Stopped, RebuildSteps

LEMMA StartRebuildStep ==
    ASSUME IndexInv, StartRebuild
    PROVE  IndexInv'
<1>1. /\ rebuild' = [Stopped EXCEPT !.step = "PAGE",
                                    !.snapshot = {o \in OrderIds : index[o] # 0}]
      /\ counters' = [counters EXCEPT !.rebuilds = @ + 1]
      /\ UNCHANGED << delivery, consuming, index, contracts >>
  BY DEF StartRebuild
<1>2. /\ rebuild' \in Rebuild /\ rebuild'.page = {} /\ rebuild'.step = "PAGE"
      /\ rebuild'.snapshot = {o \in OrderIds : index[o] # 0}
  BY <1>1, RebuildTypes DEF Rebuild, RebuildSteps
<1>3. RebuildKnows'
  BY <1>1, <1>2 DEF IndexInv, OnlyRealOrders, RebuildKnows, Exists, delivery
<1> QED  BY <1>1, <1>2, <1>3, RebuildTypes, RebuildMoves

\* The rows of a page are those of orders that exist.
LEMMA ReadPageStep ==
    ASSUME IndexInv, ReadPage
    PROVE  IndexInv'
<1> DEFINE beyond(o) == \A q \in rebuild.found : q < o
           page == Lowest({o \in OrderIds : Listed(o) /\ beyond(o)}, PageSize)
           read == {<< o, rows[o].version >> : o \in page}
<1>1. /\ rebuild' = IF page = {}
                      THEN [rebuild EXCEPT !.step = "CHECK"]
                      ELSE [rebuild EXCEPT !.step = "UPSERT", !.found = @ \cup page,
                                           !.page = read]
      /\ UNCHANGED << delivery, consuming, index, contracts, counters >>
  BY DEF ReadPage
<1>2. page \subseteq OrderIds /\ \A o \in page : Listed(o)
  BY DEF Lowest
<1> HIDE DEF page
<1>3. read \subseteq OrderIds \X Versions
  BY <1>2, RebuildTypes DEF Row
<1>4. \A order \in read : Exists(order[1]) /\ order[2] # 0
  BY <1>2 DEF Listed, Exists, IndexInv, OnlyRealOrders
<1> HIDE DEF read
<1>5. /\ rebuild' \in Rebuild /\ rebuild'.snapshot = rebuild.snapshot
      /\ rebuild'.page \in {read, rebuild.page} /\ rebuild'.step \in {"CHECK", "UPSERT"}
  BY <1>1, <1>2, <1>3, RebuildTypes DEF Rebuild, RebuildSteps
<1>6. RebuildKnows'
  BY <1>1, <1>4, <1>5 DEF IndexInv, RebuildKnows, Exists, delivery
<1> QED  BY <1>1, <1>5, <1>6, RebuildTypes, RebuildMoves

LEMMA UpsertListedStep ==
    ASSUME IndexInv, UpsertListed
    PROVE  /\ IndexInv'
           /\ \A o \in OrderIds : index[o] # 0 => index'[o] # 0
<1>1. PICK order \in rebuild.page :
         /\ UpsertOrSkip(order[1], order[2])
         /\ rebuild' = [rebuild EXCEPT !.page = @ \ {order},
                                       !.step = IF @ = "REPAIR" THEN "CHECK"
                                                ELSE IF rebuild.page = {order} THEN "PAGE"
                                                ELSE @]
         /\ rebuild.step \in {"UPSERT", "REPAIR"} /\ UNCHANGED << delivery, consuming >>
  BY DEF UpsertListed
<1>2. /\ order[1] \in OrderIds /\ order[2] \in Versions /\ order[2] # 0 /\ Exists(order[1])
  BY <1>1, RebuildTypes DEF IndexInv, RebuildKnows, Rebuild
<1>3. /\ index' \in [OrderIds -> Versions] /\ contracts' \subseteq Contracts
      /\ OnlyRealOrders' /\ ContractsCoverIndex'
  <2>1. CASE Upsert(order[1], order[2])
    BY <1>1, <1>2, <2>1, UpsertKeeps
  <2>2. CASE UNCHANGED << index, contracts >>
    BY <1>1, <2>2 DEF IndexInv, IndexTypeOK, OnlyRealOrders, ContractsCoverIndex, Exists, delivery
  <2> QED  BY <1>1, <2>1, <2>2 DEF UpsertOrSkip
<1>4. counters' \in [errors : Nat, crashes : Nat, rebuilds : Nat]
  BY <1>1, RebuildTypes DEF UpsertOrSkip
<1>5. /\ rebuild' \in Rebuild /\ rebuild'.snapshot = rebuild.snapshot
      /\ rebuild'.page \subseteq rebuild.page
      /\ rebuild'.step \in {"CHECK", "PAGE", "UPSERT"}
  BY <1>1, RebuildTypes DEF Rebuild, RebuildSteps
<1>6. IndexTypeOK'
  BY <1>1, <1>3, <1>4, <1>5 DEF IndexInv, IndexTypeOK, delivery, consuming
<1>7. RebuildKnows'
  BY <1>1, <1>5 DEF IndexInv, RebuildKnows, Exists, delivery
<1>8. \A c \in Consumers : ConsumerKnows(c)'
  BY <1>1 DEF IndexInv, ConsumerKnows, Ended, OrderOf, Message, delivery, consuming
<1>9. \A o \in OrderIds : index[o] # 0 => index'[o] # 0
  BY <1>1, <1>2, RebuildTypes DEF UpsertOrSkip, Upsert
<1> QED  BY <1>3, <1>6, <1>7, <1>8, <1>9 DEF IndexInv

\* An order of the snapshot that is not listed any more has ended.
LEMMA CheckLeftOverStep ==
    ASSUME IndexInv, CheckLeftOver
    PROVE  IndexInv'
<1>1. PICK o \in rebuild.snapshot :
         /\ rebuild' = [rebuild EXCEPT !.found = @ \cup {o},
                                       !.page = {<< o, rows[o].version >>},
                                       !.step = IF Listed(o) THEN "REPAIR" ELSE "DETAIL"]
         /\ UNCHANGED << delivery, consuming, index, contracts, counters >>
  BY DEF CheckLeftOver
<1>2. o \in OrderIds /\ Exists(o) /\ rows[o] \in Row /\ rows[o].version # 0
  BY <1>1, RebuildTypes DEF IndexInv, RebuildKnows, OnlyRealOrders, Rebuild
<1>3. /\ rebuild' \in Rebuild /\ rebuild'.snapshot = rebuild.snapshot
      /\ rebuild'.page = {<< o, rows[o].version >>}
      /\ rebuild'.step = IF Listed(o) THEN "REPAIR" ELSE "DETAIL"
  <2>1. {<< o, rows[o].version >>} \in SUBSET (OrderIds \X Versions)
    BY <1>2 DEF Row
  <2>2. rebuild.found \cup {o} \in SUBSET OrderIds
    BY <1>2, RebuildTypes DEF Rebuild
  <2>3. (IF Listed(o) THEN "REPAIR" ELSE "DETAIL") \in RebuildSteps
    BY DEF RebuildSteps
  <2> QED  BY <1>1, <2>1, <2>2, <2>3, RebuildTypes DEF Rebuild
<1>4. RebuildKnows'
  BY <1>1, <1>2, <1>3
     DEF IndexInv, RebuildKnows, Exists, Ended, Listed, Row, delivery
<1> QED  BY <1>1, <1>3, <1>4, RebuildTypes, RebuildMoves

LEMMA ReadLeftOverDetailStep ==
    ASSUME IndexInv, ReadLeftOverDetail
    PROVE  IndexInv'
<1>1. PICK order \in rebuild.page :
         /\ rebuild' = [rebuild EXCEPT !.detail = index[order[1]] # 0, !.step = "REMOVE"]
         /\ rebuild.step = "DETAIL"
         /\ UNCHANGED << delivery, consuming, index, contracts, counters >>
  BY DEF ReadLeftOverDetail
<1>2. /\ rebuild' \in Rebuild /\ rebuild'.snapshot = rebuild.snapshot
      /\ rebuild'.page = rebuild.page /\ rebuild'.step = "REMOVE"
  BY <1>1, RebuildTypes DEF Rebuild, RebuildSteps
<1>3. RebuildKnows'
  BY <1>1, <1>2 DEF IndexInv, RebuildKnows, Exists, Ended, delivery
<1> QED  BY <1>1, <1>2, <1>3, RebuildTypes, RebuildMoves

LEMMA RemoveLeftOverStep ==
    ASSUME IndexInv, RemoveLeftOver
    PROVE  /\ IndexInv'
           /\ \A o \in OrderIds : index[o] # 0 /\ index'[o] = 0 => Ended(o)
<1>1. PICK order \in rebuild.page :
         /\ IF rebuild.detail THEN Unindex(order[1], TRUE) ELSE UNCHANGED << index, contracts >>
         /\ rebuild.step = "REMOVE"
         /\ rebuild' = [rebuild EXCEPT !.page = {}, !.step = "CHECK"]
         /\ UNCHANGED << delivery, consuming, counters >>
  BY DEF RemoveLeftOver
<1>2. order[1] \in OrderIds /\ Ended(order[1])
  BY <1>1, RebuildTypes DEF IndexInv, RebuildKnows, Rebuild
<1>3. /\ index' \in [OrderIds -> Versions] /\ contracts' \subseteq Contracts
      /\ OnlyRealOrders' /\ ContractsCoverIndex'
      /\ \A q \in OrderIds : q # order[1] => index'[q] = index[q]
  <2>1. CASE Unindex(order[1], TRUE)
    BY <1>1, <1>2, <2>1, UnindexKeeps
  <2>2. CASE UNCHANGED << index, contracts >>
    BY <1>1, <2>2 DEF IndexInv, IndexTypeOK, OnlyRealOrders, ContractsCoverIndex, Exists, delivery
  <2> QED  BY <1>1, <2>1, <2>2
<1>4. /\ rebuild' \in Rebuild /\ rebuild'.snapshot = rebuild.snapshot
      /\ rebuild'.page = {} /\ rebuild'.step = "CHECK"
  BY <1>1, RebuildTypes DEF Rebuild, RebuildSteps
<1>5. IndexTypeOK'
  BY <1>1, <1>3, <1>4 DEF IndexInv, IndexTypeOK, delivery, consuming
<1>6. RebuildKnows'
  BY <1>1, <1>4 DEF IndexInv, RebuildKnows, Exists, delivery
<1>7. \A c \in Consumers : ConsumerKnows(c)'
  BY <1>1 DEF IndexInv, ConsumerKnows, Ended, OrderOf, Message, delivery, consuming
<1> QED  BY <1>2, <1>3, <1>5, <1>6, <1>7 DEF IndexInv

\* A contract is only taken out when no order of it is indexed.
LEMMA ReconcileContractStep ==
    ASSUME IndexInv, ReconcileContract
    PROVE  IndexInv'
<1>1. PICK contract \in contracts :
         /\ Deserted(contract) /\ contracts' = contracts \ {contract}
         /\ UNCHANGED << delivery, consuming, index, rebuild, counters >>
  BY DEF ReconcileContract
<1>2. ContractsCoverIndex'
  BY <1>1 DEF IndexInv, ContractsCoverIndex, Deserted, Indexed
<1>3. IndexTypeOK'
  BY <1>1 DEF IndexInv, IndexTypeOK, delivery, consuming
<1> QED
  BY <1>1, <1>2, <1>3 DEF IndexInv, OnlyRealOrders, RebuildKnows, ConsumerKnows,
     Exists, Ended, OrderOf, Message, delivery, consuming

LEMMA RebuildEndsStep ==
    ASSUME IndexInv, LeftOversChecked \/ FinishRebuild \/ CrashRebuild
    PROVE  IndexInv'
<1>1. /\ UNCHANGED << delivery, consuming, index, contracts >>
      /\ rebuild' \in {Stopped, [rebuild EXCEPT !.step = "CONTRACTS"]}
      /\ counters' \in [errors : Nat, crashes : Nat, rebuilds : Nat]
  BY RebuildTypes DEF LeftOversChecked, FinishRebuild, CrashRebuild
<1>2. /\ rebuild' \in Rebuild /\ rebuild'.step \in {"IDLE", "CONTRACTS"}
      /\ rebuild'.snapshot \subseteq rebuild.snapshot /\ rebuild'.page \subseteq rebuild.page
  BY <1>1, RebuildTypes DEF Rebuild, RebuildSteps, Stopped
<1>3. RebuildKnows'
  BY <1>1, <1>2 DEF IndexInv, RebuildKnows, Exists, delivery
<1> QED  BY <1>1, <1>2, <1>3, RebuildMoves

-----------------------------------------------------------------------------
(* The theorems.                                                           *)

LEMMA InitialIndex == IndexInit => IndexInv
<1>1. SUFFICES ASSUME IndexInit PROVE IndexInv
  OBVIOUS
<1>2. /\ 0 \in Versions /\ stream = << >> /\ failures = << >>
      /\ rebuild = Stopped /\ index = [o \in OrderIds |-> 0]
      /\ rows = [o \in OrderIds |-> [status |-> "NONE", version |-> 0]]
      /\ consumers = [c \in Consumers |-> Idle]
  BY <1>1, BoundsAssumption DEF IndexInit, Versions
<1>3. IndexTypeOK
  BY <1>1, <1>2 DEF IndexInit, IndexTypeOK, Row, Group, Consumer, Rebuild, Idle, Stopped,
     ConsumerSteps, RebuildSteps
<1> QED
  BY <1>2, <1>3 DEF IndexInv, OnlyRealOrders, ConsumerKnows, RebuildKnows,
     ContractsCoverIndex, Exists, Idle, Stopped

\* A step of any process: the invariant goes on to hold, and only an order that has
\* ended leaves the index.
LEMMA IndexStep ==
    ASSUME IndexInv, [IndexNext]_indexVars
    PROVE  /\ IndexInv'
           /\ \A o \in OrderIds : index[o] # 0 /\ index'[o] = 0 => Ended(o)
<1> DEFINE Leaves == \A o \in OrderIds : index[o] # 0 /\ index'[o] = 0 => Ended(o)
<1>1. CASE UNCHANGED indexVars
  <2>1. UNCHANGED << delivery, consuming, index, contracts, rebuild, counters >>
    BY <1>1 DEF indexVars
  <2> QED  BY <2>1, RebuildTypes, RebuildMoves
    DEF IndexInv, RebuildKnows, Exists, Ended, delivery
<1>2. CASE \E o \in OrderIds : ChangeOrder(o)
  BY <1>2, ChangeOrderStep DEF ChangeOrder
<1>3. CASE \E e \in Events : Deliver(e)
  BY <1>3, DeliverStep DEF Deliver
<1>4. ASSUME NEW c \in Consumers,
             ConsumerStep(c) \/ Fail(c) \/ FailDeadLetter(c) \/ Crash(c)
      PROVE  IndexInv' /\ Leaves
  <2>1. CASE ClaimStale(c)
    BY <2>1, ClaimStaleStep DEF ClaimStale
  <2>2. CASE ReadNew(c)
    BY <2>2, ReadNewStep DEF ReadNew
  <2>3. CASE ReadOrder(c)
    BY <2>3, ReadOrderStep DEF ReadOrder
  <2>4. CASE AddActiveOrder(c)
    BY <2>4, AddActiveOrderStep
  <2>5. CASE ReadDetail(c)
    BY <2>5, ReadDetailStep DEF ReadDetail
  <2>6. CASE RemoveActiveOrder(c)
    BY <2>6, RemoveActiveOrderStep
  <2>7. CASE Acknowledge(c)
    BY <2>7, AcknowledgeStep DEF Acknowledge
  <2>8. CASE DeadLetter(c)
    BY <2>8, DeadLetterStep DEF DeadLetter
  <2>9. CASE Fail(c) \/ FailDeadLetter(c)
    BY <2>9, FailStep DEF Fail, FailDeadLetter
  <2>10. CASE Crash(c)
    BY <2>10, CrashStep DEF Crash
  <2> QED
    BY <1>4, <2>1, <2>2, <2>3, <2>4, <2>5, <2>6, <2>7, <2>8, <2>9, <2>10 DEF ConsumerStep
<1>5. CASE \E m \in DOMAIN stream : BecomeStale(m)
  BY <1>5, BecomeStaleStep DEF BecomeStale
<1>6. CASE StartRebuild \/ RebuildStep \/ ReconcileContract \/ CrashRebuild
  <2>1. CASE StartRebuild
    BY <2>1, StartRebuildStep DEF StartRebuild
  <2>2. CASE ReadPage
    BY <2>2, ReadPageStep DEF ReadPage
  <2>3. CASE UpsertListed
    BY <2>3, UpsertListedStep
  <2>4. CASE CheckLeftOver
    BY <2>4, CheckLeftOverStep DEF CheckLeftOver
  <2>5. CASE ReadLeftOverDetail
    BY <2>5, ReadLeftOverDetailStep DEF ReadLeftOverDetail
  <2>6. CASE RemoveLeftOver
    BY <2>6, RemoveLeftOverStep
  <2>7. CASE ReconcileContract
    BY <2>7, ReconcileContractStep DEF ReconcileContract
  <2>8. CASE LeftOversChecked \/ FinishRebuild \/ CrashRebuild
    BY <2>8, RebuildEndsStep DEF LeftOversChecked, FinishRebuild, CrashRebuild
  <2> QED
    BY <1>6, <2>1, <2>2, <2>3, <2>4, <2>5, <2>6, <2>7, <2>8 DEF RebuildStep
<1> QED  BY <1>1, <1>2, <1>3, <1>4, <1>5, <1>6 DEF IndexNext

LEMMA IndexInvariance == IndexSpec => []IndexInv
<1>1. IndexInv /\ [IndexNext]_indexVars => IndexInv'
  BY IndexStep
<1> QED  BY InitialIndex, <1>1, PTL DEF IndexSpec

\* Every variable of the index stays within its type.
THEOREM IndexTypeCorrect == IndexSpec => []IndexTypeOK
<1>1. IndexInv => IndexTypeOK
  BY DEF IndexInv
<1> QED  BY <1>1, IndexInvariance, PTL

\* However the scripts of consumers and rebuilds interleave, a contract with an
\* indexed order stays subscribed to (UPSERT, REMOVE and RECONCILE of the index).
THEOREM ContractsStay == IndexSpec => []ContractsCoverIndex
<1>1. IndexInv => ContractsCoverIndex
  BY DEF IndexInv
<1> QED  BY <1>1, IndexInvariance, PTL

\* No order that may still trade is taken from the index, by however stale a view.
THEOREM ActiveOrdersStay == IndexSpec => OnlyFinishedOrdersLeaveIndex
<1>1. IndexInv /\ [IndexNext]_indexVars =>
         [ \A o \in OrderIds :
             (index[o] # 0 /\ index'[o] = 0) => rows[o].status = "DONE" ]_indexVars
  BY IndexStep DEF Ended
<1> QED  BY <1>1, IndexInvariance, PTL DEF IndexSpec, OnlyFinishedOrdersLeaveIndex

-----------------------------------------------------------------------------
(* With one consumer and no rebuild the index follows the orders.  Either  *)
(* there is still news of an order that the consumer has to read, or what   *)
(* it is about to write, or has written, is the row as it is now.          *)

\* The message will be delivered (again), or is left to an operator.
Outstanding(m) == m > group.last \/ m \in group.pending \cup group.dead

\* The row has been read for the message, and the work on it goes on.
InHand(c, m) ==
    /\ consumers[c].todo # {} /\ Message(c) = m
    /\ consumers[c].step \in {"ADD", "DETAIL", "REMOVE", "ACK"}

\* The message whose work has not reached the index.
Dropped(c, m) ==
    /\ consumers[c].todo # {} /\ Message(c) = m
    /\ consumers[c].step \in {"ADD", "DETAIL", "REMOVE"}

Writing(c, o) ==
    /\ consumers[c].todo # {} /\ OrderOf(c) = o
    /\ consumers[c].step \in {"ADD", "DETAIL", "REMOVE"}

Unpublished(o) == \E e \in committed : e[1] = o /\ e \notin Delivery!Published

Unread(c, o) ==
    \/ Unpublished(o)
    \/ \E m \in MessagesOf(o) : Outstanding(m) /\ ~InHand(c, m)

Shown(c, o) ==
    /\ (Writing(c, o) /\ consumers[c].step = "ADD") =>
          (Listed(o) /\ consumers[c].seen = rows[o].version)
    /\ Writing(c, o) \/ index[o] = Target(o)

\* The consumer works on what is pending, and the contracts match the index.
InOrder(c) ==
    /\ rebuild.step = "IDLE"
    /\ group.stale \subseteq group.pending
    /\ consumers[c].todo \subseteq group.pending
    /\ consumers[c].todo # {} =>
          /\ consumers[c].step = "DEADACK" => Message(c) \in group.dead
          /\ consumers[c].step = "REMOVE" =>
                (consumers[c].detail <=> index[OrderOf(c)] # 0)
    /\ \A m \in DOMAIN stream : stream[m] \in committed
    /\ contracts = {ContractOf[o] : o \in {q \in OrderIds : index[q] # 0}}

Follows(c) == InOrder(c) /\ \A o \in OrderIds : Unread(c, o) \/ Shown(c, o)

-----------------------------------------------------------------------------
\* An order that changes has news that nobody has published yet.
LEMMA ChangeOrderFollows ==
    ASSUME IndexInv, NEW c \in Consumers, Follows(c), NEW o \in OrderIds, ChangeOrder(o)
    PROVE  Follows(c)'
<1> DEFINE new == << o, rows[o].version + 1 >>
<1>1. /\ committed' = committed \cup {new}
      /\ UNCHANGED << stream, consuming, index, contracts, rebuild >>
  BY DEF ChangeOrder, Delivery!Commit
<1>2. \A q \in OrderIds \ {o} : rows'[q] = rows[q]
  BY DEF ChangeOrder, IndexInv, IndexTypeOK
<1>3. rows[o].version \in Nat
  BY BoundsAssumption DEF IndexInv, IndexTypeOK, Row, Versions
<1>4. new \notin committed
  BY <1>3 DEF committed
<1>5. InOrder(c)'
  BY <1>1 DEF Follows, InOrder, OrderOf, Message, consuming
<1>6. Unread(c, o)'
  <2>1. new \notin Delivery!Published'
    BY <1>1, <1>4 DEF Follows, InOrder, Delivery!Published
  <2> QED  BY <1>1, <2>1 DEF Unread, Unpublished
<1>7. ASSUME NEW q \in OrderIds \ {o} PROVE (Unread(c, q) \/ Shown(c, q))'
  <2>1. CASE Unread(c, q)
    BY <1>1, <2>1 DEF Unread, Unpublished, Delivery!Published, MessagesOf, Outstanding,
       InHand, Message, consuming
  <2>2. CASE Shown(c, q)
    BY <1>1, <1>2, <2>2 DEF Shown, Writing, OrderOf, Message, Listed, Target, consuming
  <2> QED  BY <2>1, <2>2 DEF Follows
<1> QED  BY <1>5, <1>6, <1>7 DEF Follows

\* A message that has just been published is still to be read.
LEMMA DeliverFollows ==
    ASSUME IndexInv, NEW c \in Consumers, Follows(c), NEW e \in Events, Deliver(e)
    PROVE  Follows(c)'
<1>1. /\ e \in committed /\ stream' = Append(stream, e) /\ committed' = committed
      /\ UNCHANGED << rows, group, consumers, index, contracts, rebuild >>
  BY DEF Deliver, Delivery!Publish, committed
<1>2. stream \in Seq(Events) /\ group.last \in Nat /\ group.last <= Len(stream)
  BY DEF IndexInv, IndexTypeOK, Group
<1> PICK next \in Nat : next = Len(stream) + 1
  BY <1>2
<1>3. /\ DOMAIN stream' = DOMAIN stream \cup {next} /\ stream'[next] = e
      /\ \A m \in DOMAIN stream : stream'[m] = stream[m] /\ m # next
  BY <1>1, <1>2
<1>4. next > group.last /\ next \notin 1 .. group.last
  BY <1>2
<1>5. consumers[c].todo # {} => OrderOf(c)' = OrderOf(c)
  BY <1>1, <1>3, MessageIsReal DEF OrderOf, Message
<1>6. InOrder(c)'
  BY <1>1, <1>3, <1>5 DEF Follows, InOrder, Message
<1>7. ASSUME NEW o \in OrderIds PROVE (Unread(c, o) \/ Shown(c, o))'
  <2>1. CASE o = e[1]
    <3>1. next \in MessagesOf(o)'
      BY <1>3, <2>1 DEF MessagesOf
    <3>2. Outstanding(next)' /\ ~InHand(c, next)'
      BY <1>1, <1>4, MessageIsReal DEF Outstanding, InHand, Message
    <3> QED  BY <3>1, <3>2 DEF Unread
  <2>2. CASE o # e[1] /\ Unread(c, o)
    <3>1. CASE Unpublished(o)
      BY <1>1, <1>3, <2>2, <3>1 DEF Unread, Unpublished, Delivery!Published
    <3>2. CASE ~Unpublished(o)
      <4>1. PICK m \in MessagesOf(o) : Outstanding(m) /\ ~InHand(c, m)
        BY <2>2, <3>2 DEF Unread
      <4>2. m \in MessagesOf(o)' /\ Outstanding(m)' /\ ~InHand(c, m)'
        BY <1>1, <1>3, <4>1 DEF MessagesOf, Outstanding, InHand, Message
      <4> QED  BY <4>2 DEF Unread
    <3> QED  BY <3>1, <3>2
  <2>3. CASE Shown(c, o)
    BY <1>1, <1>5, <2>3 DEF Shown, Writing, Message, Listed, Target
  <2> QED  BY <2>1, <2>2, <2>3 DEF Follows
<1> QED  BY <1>6, <1>7 DEF Follows

-----------------------------------------------------------------------------
\* A step after which no row is in the consumer's hands: what was outstanding is
\* still so, and so is the message whose work it has dropped.
LEMMA NothingInHand ==
    ASSUME IndexInv, NEW c \in Consumers, Follows(c), InOrder(c)',
           rows' = rows, stream' = stream, index' = index,
           consumers'[c].step \notin {"ADD", "DETAIL", "REMOVE", "ACK"},
           \A m \in DOMAIN stream :
              (Outstanding(m) /\ ~InHand(c, m)) \/ Dropped(c, m) => Outstanding(m)'
    PROVE  Follows(c)'
<1>1. \A m : ~InHand(c, m)'
  BY DEF InHand
<1>2. committed' = committed /\ Delivery!Published' = Delivery!Published
  BY DEF committed, Delivery!Published
<1>3. ASSUME NEW o \in OrderIds PROVE (Unread(c, o) \/ Shown(c, o))'
  <2>1. CASE Unpublished(o)
    BY <1>2, <2>1 DEF Unread, Unpublished
  <2>2. CASE Unread(c, o) /\ ~Unpublished(o)
    BY <1>1, <2>2 DEF Unread, MessagesOf
  <2>3. CASE Writing(c, o)
    <3>1. Message(c) \in MessagesOf(o)
      BY <2>3, MessageIsReal DEF Writing, MessagesOf, OrderOf
    <3>2. PICK m \in MessagesOf(o) : Dropped(c, m)
      BY <2>3, <3>1 DEF Writing, Dropped
    <3>3. m \in MessagesOf(o)' /\ Outstanding(m)'
      BY <3>2 DEF MessagesOf
    <3> QED  BY <1>1, <3>3 DEF Unread
  <2>4. CASE Shown(c, o) /\ ~Writing(c, o)
    BY <2>4 DEF Shown, Writing, Target
  <2> QED  BY <2>1, <2>2, <2>3, <2>4 DEF Follows
<1> QED  BY <1>3 DEF Follows

LEMMA ClaimStaleFollows ==
    ASSUME IndexInv, NEW c \in Consumers, Follows(c), ClaimStale(c)
    PROVE  Follows(c)'
<1> DEFINE batch == Lowest(group.stale, BatchSize)
<1>1. /\ consumers'[c].todo = batch /\ consumers'[c].step = "READ" /\ consumers[c].todo = {}
      /\ group'.stale = group.stale \ batch /\ group'.pending = group.pending
      /\ group'.last = group.last /\ group'.dead = group.dead
      /\ UNCHANGED << delivery, failures, index, contracts, rebuild, counters >>
  BY ConsumerTypes DEF ClaimStale, Idle, Group
<1>2. batch \subseteq group.stale
  BY LowestIsPart
<1> HIDE DEF batch
<1>3. InOrder(c)'
  BY <1>1, <1>2 DEF Follows, InOrder, delivery, committed
<1>4. \A m \in DOMAIN stream : Outstanding(m) => Outstanding(m)'
  BY <1>1 DEF Outstanding
<1>5. \A m : ~Dropped(c, m)
  BY <1>1 DEF Dropped
<1> QED  BY <1>1, <1>3, <1>4, <1>5, NothingInHand DEF delivery

LEMMA ReadNewFollows ==
    ASSUME IndexInv, NEW c \in Consumers, Follows(c), ReadNew(c)
    PROVE  Follows(c)'
<1> DEFINE last == Min({group.last + BatchSize, Len(stream)})
           batch == group.last + 1 .. last
<1>1. /\ consumers'[c].todo = batch /\ consumers'[c].step = "READ" /\ consumers[c].todo = {}
      /\ group'.stale = group.stale /\ group'.pending = group.pending \cup batch
      /\ group'.last = last /\ group'.dead = group.dead
      /\ UNCHANGED << delivery, failures, index, contracts, rebuild, counters >>
  BY ConsumerTypes DEF ReadNew, Idle, Group
<1>2. group.last \in Nat /\ Len(stream) \in Nat /\ BatchSize \in Nat \ {0}
  BY BoundsAssumption DEF IndexInv, IndexTypeOK, Group
<1>3. last \in Nat
  BY <1>2, MinOfTwo
<1>4. InOrder(c)'
  <2> HIDE DEF batch
  <2> QED  BY <1>1 DEF Follows, InOrder, delivery, committed
<1>5. \A m \in DOMAIN stream : Outstanding(m) => Outstanding(m)'
  <2>1. DOMAIN stream \subseteq Nat
    BY DEF IndexInv, IndexTypeOK
  <2> HIDE DEF last
  <2> QED  BY <1>1, <1>2, <1>3, <2>1 DEF Outstanding
<1>6. \A m : ~Dropped(c, m)
  BY <1>1 DEF Dropped
<1> QED  BY <1>1, <1>4, <1>5, <1>6, NothingInHand DEF delivery

\* What the consumer lays aside: the message it was working on.
LEMMA GoOnLeaves ==
    ASSUME IndexInv, NEW c \in Consumers, GoOn(c)
    PROVE  consumers'[c].step = "READ" /\ consumers'[c].todo = consumers[c].todo \ {Message(c)}
BY ConsumerTypes DEF GoOn, Idle

\* Only a message whose work is done, or a dead letter, is acknowledged.
LEMMA AcknowledgeFollows ==
    ASSUME IndexInv, NEW c \in Consumers, Follows(c), Acknowledge(c)
    PROVE  Follows(c)'
<1>1. /\ group'.pending = group.pending \ {Message(c)} /\ group'.stale = group.stale \ {Message(c)}
      /\ group'.last = group.last /\ group'.dead = group.dead
      /\ consumers[c].todo # {} /\ consumers[c].step \in {"ACK", "DEADACK"}
      /\ UNCHANGED << delivery, index, contracts, rebuild >>
      /\ consumers'[c].step = "READ" /\ consumers'[c].todo = consumers[c].todo \ {Message(c)}
  BY ConsumerTypes, GoOnLeaves DEF Acknowledge, ConsumerAt, Group
<1>2. InOrder(c)'
  BY <1>1 DEF Follows, InOrder, delivery, committed
<1>3. ASSUME NEW m \in DOMAIN stream, Outstanding(m), ~InHand(c, m) PROVE Outstanding(m)'
  <2>1. CASE consumers[c].step = "ACK"
    BY <1>1, <1>3, <2>1 DEF Outstanding, InHand
  <2>2. CASE consumers[c].step = "DEADACK"
    BY <1>1, <1>3, <2>2 DEF Outstanding, Follows, InOrder
  <2> QED  BY <1>1, <2>1, <2>2
<1>4. \A m : ~Dropped(c, m)
  BY <1>1 DEF Dropped
<1> QED  BY <1>1, <1>2, <1>3, <1>4, NothingInHand DEF delivery

\* A message that is dropped half way is pending, and will be read again.
LEMMA DroppedIsPending ==
    ASSUME IndexInv, NEW c \in Consumers, Follows(c), consumers[c].todo # {}
    PROVE  Message(c) \in group.pending
BY MessageIsReal DEF Follows, InOrder

LEMMA FailFollows ==
    ASSUME IndexInv, NEW c \in Consumers, Follows(c), Fail(c) \/ FailDeadLetter(c)
    PROVE  Follows(c)'
<1>1. consumers[c].todo # {} /\ UNCHANGED << delivery, group, index, contracts, rebuild >>
  BY DEF Fail, FailDeadLetter, ConsumerAt
<1>2. \/ /\ consumers'[c].step = "READ"
         /\ consumers'[c].todo = consumers[c].todo \ {Message(c)}
      \/ consumers'[c].step = "DEAD" /\ consumers'[c].todo = consumers[c].todo
  <2>1. CASE GoOn(c)
    BY <2>1, GoOnLeaves
  <2>2. CASE ~GoOn(c)
    <3>1. \E step \in {"DEAD"} : consumers' = [consumers EXCEPT ![c].step = step]
      BY <2>2 DEF Fail, FailDeadLetter, AfterFailure
    <3> QED  BY <3>1, ConsumerTypes DEF Consumer
  <2> QED  BY <2>1, <2>2
<1>3. InOrder(c)'
  BY <1>1, <1>2 DEF Follows, InOrder, delivery, committed
<1>4. \A m \in DOMAIN stream : Outstanding(m) => Outstanding(m)'
  BY <1>1 DEF Outstanding
<1>5. \A m \in DOMAIN stream : Dropped(c, m) => Outstanding(m)'
  BY <1>1, DroppedIsPending DEF Outstanding, Dropped
<1> QED  BY <1>1, <1>2, <1>3, <1>4, <1>5, NothingInHand DEF delivery

LEMMA CrashFollows ==
    ASSUME IndexInv, NEW c \in Consumers, Follows(c), Crash(c)
    PROVE  Follows(c)'
<1>1. /\ consumers[c].todo # {} /\ consumers'[c].step = "READ" /\ consumers'[c].todo = {}
      /\ UNCHANGED << delivery, group, index, contracts, rebuild >>
  BY ConsumerTypes DEF Crash, Idle
<1>2. InOrder(c)'
  BY <1>1 DEF Follows, InOrder, delivery, committed
<1>3. \A m \in DOMAIN stream : Outstanding(m) => Outstanding(m)'
  BY <1>1 DEF Outstanding
<1>4. \A m \in DOMAIN stream : Dropped(c, m) => Outstanding(m)'
  BY <1>1, DroppedIsPending DEF Outstanding, Dropped
<1> QED  BY <1>1, <1>2, <1>3, <1>4, NothingInHand DEF delivery

LEMMA DeadLetterFollows ==
    ASSUME IndexInv, NEW c \in Consumers, Follows(c), DeadLetter(c)
    PROVE  Follows(c)'
<1>1. /\ group'.dead = group.dead \cup {Message(c)} /\ group'.last = group.last
      /\ group'.pending = group.pending /\ group'.stale = group.stale
      /\ consumers'[c].step = "DEADACK" /\ consumers'[c].todo = consumers[c].todo
      /\ consumers[c].step = "DEAD" /\ UNCHANGED << delivery, index, contracts, rebuild >>
  BY ConsumerTypes DEF DeadLetter, ConsumerAt, Group, Consumer
<1>2. InOrder(c)'
  BY <1>1 DEF Follows, InOrder, delivery, committed, Message
<1>3. \A m \in DOMAIN stream : Outstanding(m) => Outstanding(m)'
  BY <1>1 DEF Outstanding
<1>4. \A m : ~Dropped(c, m)
  BY <1>1 DEF Dropped
<1> QED  BY <1>1, <1>2, <1>3, <1>4, NothingInHand DEF delivery

LEMMA BecomeStaleFollows ==
    ASSUME IndexInv, NEW c \in Consumers, Follows(c), NEW m \in DOMAIN stream, BecomeStale(m)
    PROVE  Follows(c)'
<1>1. /\ group'.stale = group.stale \cup {m} /\ m \in group.pending
      /\ group'.last = group.last /\ group'.pending = group.pending /\ group'.dead = group.dead
      /\ UNCHANGED << delivery, consumers, index, contracts, rebuild >>
  BY ConsumerTypes DEF BecomeStale, Group
<1>2. InOrder(c)'
  BY <1>1 DEF Follows, InOrder, delivery, committed, OrderOf, Message
<1>3. ASSUME NEW o \in OrderIds PROVE (Unread(c, o) \/ Shown(c, o))'
  BY <1>1 DEF Follows, Unread, Unpublished, Delivery!Published, committed, MessagesOf, Outstanding,
     InHand, Shown, Writing, OrderOf, Message, Listed, Target, delivery
<1> QED  BY <1>2, <1>3 DEF Follows

-----------------------------------------------------------------------------
\* What the other orders have outstanding, the work on one message leaves alone.
LEMMA OthersFollow ==
    ASSUME IndexInv, NEW c \in Consumers, Follows(c), consumers[c].todo # {},
           rows' = rows, stream' = stream, group' = group,
           consumers'[c].todo = consumers[c].todo,
           NEW o \in OrderIds, o # OrderOf(c), index'[o] = index[o]
    PROVE  (Unread(c, o) \/ Shown(c, o))'
<1>1. Message(c)' = Message(c) /\ OrderOf(c)' = OrderOf(c)
  BY DEF Message, OrderOf
<1>2. ~Writing(c, o) /\ ~Writing(c, o)'
  BY <1>1 DEF Writing
<1>3. CASE Unpublished(o)
  BY <1>3 DEF Unread, Unpublished, committed, Delivery!Published
<1>4. CASE Unread(c, o) /\ ~Unpublished(o)
  <2>1. PICK m \in MessagesOf(o) : Outstanding(m)
    BY <1>4 DEF Unread
  <2>2. m # Message(c)
    BY <2>1 DEF MessagesOf, OrderOf
  <2>3. m \in MessagesOf(o)' /\ Outstanding(m)' /\ ~InHand(c, m)'
    BY <1>1, <2>1, <2>2 DEF MessagesOf, Outstanding, InHand
  <2> QED  BY <2>3 DEF Unread
<1>5. CASE Shown(c, o)
  BY <1>2, <1>5 DEF Shown, Target
<1> QED  BY <1>3, <1>4, <1>5 DEF Follows

\* What is unread besides the message in hand stays so while the work goes on.
LEMMA StaysUnread ==
    ASSUME IndexInv, NEW c \in Consumers, consumers[c].todo # {},
           rows' = rows, stream' = stream, group' = group,
           consumers'[c].todo = consumers[c].todo,
           consumers[c].step \in {"ADD", "DETAIL", "REMOVE"},
           NEW o \in OrderIds, Unread(c, o)
    PROVE  Unread(c, o)'
<1>1. Message(c)' = Message(c)
  BY DEF Message
<1>2. CASE Unpublished(o)
  BY <1>2 DEF Unread, Unpublished, committed, Delivery!Published
<1>3. CASE ~Unpublished(o)
  <2>1. PICK m \in MessagesOf(o) : Outstanding(m) /\ ~InHand(c, m)
    BY <1>3 DEF Unread
  <2>2. m # Message(c)
    BY <2>1 DEF InHand
  <2>3. m \in MessagesOf(o)' /\ Outstanding(m)' /\ ~InHand(c, m)'
    BY <1>1, <2>1, <2>2 DEF MessagesOf, Outstanding, InHand
  <2> QED  BY <2>3 DEF Unread
<1> QED  BY <1>2, <1>3

\* The row that is read is the row as it is now.
LEMMA ReadOrderFollows ==
    ASSUME IndexInv, NEW c \in Consumers, Follows(c), ReadOrder(c)
    PROVE  Follows(c)'
<1> PICK o \in OrderIds : o = OrderOf(c)
  BY MessageIsReal DEF ReadOrder, ConsumerAt
<1>1. /\ consumers[c].todo # {} /\ consumers'[c].todo = consumers[c].todo
      /\ consumers'[c].step = IF Listed(o) THEN "ADD" ELSE "DETAIL"
      /\ consumers'[c].seen = rows[o].version
      /\ UNCHANGED << delivery, group, index, contracts, rebuild >>
  BY ConsumerTypes DEF ReadOrder, ConsumerAt, Consumer
<1>2. Message(c)' = Message(c) /\ OrderOf(c)' = o
  BY <1>1 DEF Message, OrderOf, delivery
<1>3. InOrder(c)'
  BY <1>1, <1>2 DEF Follows, InOrder, delivery, committed
<1>4. Shown(c, o)'
  BY <1>1, <1>2 DEF Shown, Writing, Listed, delivery
<1>5. \A q \in OrderIds \ {o} : (Unread(c, q) \/ Shown(c, q))'
  BY <1>1, OthersFollow DEF delivery
<1> QED  BY <1>3, <1>4, <1>5 DEF Follows

LEMMA ReadDetailFollows ==
    ASSUME IndexInv, NEW c \in Consumers, Follows(c), ReadDetail(c)
    PROVE  Follows(c)'
<1> PICK o \in OrderIds : o = OrderOf(c)
  BY MessageIsReal DEF ReadDetail, ConsumerAt
<1>1. /\ consumers[c].todo # {} /\ consumers'[c].todo = consumers[c].todo
      /\ consumers[c].step = "DETAIL" /\ consumers'[c].step = "REMOVE"
      /\ consumers'[c].detail = (index[o] # 0)
      /\ UNCHANGED << delivery, group, index, contracts, rebuild >>
  BY ConsumerTypes DEF ReadDetail, ConsumerAt, Consumer
<1>2. Message(c)' = Message(c) /\ OrderOf(c)' = o
  BY <1>1 DEF Message, OrderOf, delivery
<1>3. InOrder(c)'
  BY <1>1, <1>2 DEF Follows, InOrder, delivery, committed
<1>4. (Unread(c, o) \/ Shown(c, o))'
  BY <1>1, <1>2 DEF Shown, Writing, Listed, delivery
<1>5. \A q \in OrderIds \ {o} : (Unread(c, q) \/ Shown(c, q))'
  BY <1>1, OthersFollow DEF delivery
<1> QED  BY <1>3, <1>4, <1>5 DEF Follows

\* Unless there is more to read, the version that is written is that of the row.
LEMMA AddActiveOrderFollows ==
    ASSUME IndexInv, NEW c \in Consumers, Follows(c), AddActiveOrder(c)
    PROVE  Follows(c)'
<1> PICK o \in OrderIds : o = OrderOf(c)
  BY MessageIsReal DEF AddActiveOrder, ConsumerAt
<1>1. /\ consumers[c].todo # {} /\ consumers'[c].todo = consumers[c].todo
      /\ consumers[c].step = "ADD" /\ consumers'[c].step = "ACK"
      /\ contracts' = contracts \cup {ContractOf[o]}
      /\ UNCHANGED << delivery, group, rebuild >>
  BY ConsumerTypes DEF AddActiveOrder, Upsert, ConsumerAt, Consumer
<1>2. \A q \in OrderIds : index'[q] = IF q = o THEN consumers[c].seen ELSE index[q]
  BY DEF AddActiveOrder, Upsert, IndexInv, IndexTypeOK
<1>3. consumers[c].seen # 0
  BY <1>1 DEF IndexInv, ConsumerKnows
<1>4. Message(c)' = Message(c) /\ OrderOf(c)' = o
  BY <1>1 DEF Message, OrderOf, delivery
<1>5. contracts' = {ContractOf[q] : q \in {p \in OrderIds : index'[p] # 0}}
  <2>1. contracts = {ContractOf[q] : q \in {p \in OrderIds : index[p] # 0}}
    BY DEF Follows, InOrder
  <2>2. {p \in OrderIds : index'[p] # 0} = {p \in OrderIds : index[p] # 0} \cup {o}
    BY <1>2, <1>3
  <2> QED  BY <1>1, <2>1, <2>2
<1>6. InOrder(c)'
  BY <1>1, <1>4, <1>5 DEF Follows, InOrder, delivery, committed
<1>7. (Unread(c, o) \/ Shown(c, o))'
  <2>1. CASE Unread(c, o)
    BY <1>1, <2>1, StaysUnread DEF delivery
  <2>2. CASE Shown(c, o)
    <3>1. Listed(o) /\ consumers[c].seen = rows[o].version
      BY <1>1, <2>2 DEF Shown, Writing
    <3> QED  BY <1>1, <1>2, <3>1 DEF Shown, Writing, Target, Listed, delivery
  <2> QED  BY <2>1, <2>2 DEF Follows
<1>8. \A q \in OrderIds \ {o} : (Unread(c, q) \/ Shown(c, q))'
  BY <1>1, <1>2, OthersFollow DEF delivery
<1> QED  BY <1>6, <1>7, <1>8 DEF Follows

\* An order that is removed has ended; its contract goes if nobody else needs it.
LEMMA RemoveActiveOrderFollows ==
    ASSUME IndexInv, NEW c \in Consumers, Follows(c), RemoveActiveOrder(c)
    PROVE  Follows(c)'
<1> PICK o \in OrderIds : o = OrderOf(c)
  BY MessageIsReal DEF RemoveActiveOrder, ConsumerAt
<1>1. /\ consumers[c].todo # {} /\ consumers'[c].todo = consumers[c].todo
      /\ consumers[c].step = "REMOVE" /\ consumers'[c].step = "ACK"
      /\ contracts' = IF consumers[c].detail /\ ~StillNeeded(o)
                        THEN contracts \ {ContractOf[o]} ELSE contracts
      /\ UNCHANGED << delivery, group, rebuild >>
  BY ConsumerTypes DEF RemoveActiveOrder, Unindex, ConsumerAt, Consumer
<1>2. \A q \in OrderIds : index'[q] = IF q = o THEN 0 ELSE index[q]
  BY DEF RemoveActiveOrder, Unindex, IndexInv, IndexTypeOK
<1>3. Ended(o) /\ (consumers[c].detail <=> index[o] # 0)
  BY <1>1 DEF IndexInv, ConsumerKnows, Follows, InOrder
<1>4. Message(c)' = Message(c) /\ OrderOf(c)' = o
  BY <1>1 DEF Message, OrderOf, delivery
<1>5. contracts' = {ContractOf[q] : q \in {p \in OrderIds : index'[p] # 0}}
  <2>1. contracts = {ContractOf[q] : q \in {p \in OrderIds : index[p] # 0}}
    BY DEF Follows, InOrder
  <2>2. {p \in OrderIds : index'[p] # 0} = {p \in OrderIds : index[p] # 0} \ {o}
    BY <1>2
  <2>3. StillNeeded(o) <=> \E q \in OrderIds \ {o} : ContractOf[q] = ContractOf[o] /\ index[q] # 0
    BY DEF StillNeeded, Indexed
  <2>4. CASE index[o] = 0
    BY <1>1, <1>3, <2>1, <2>2, <2>4
  <2>5. CASE index[o] # 0 /\ StillNeeded(o)
    BY <1>1, <2>1, <2>2, <2>3, <2>5
  <2>6. CASE index[o] # 0 /\ ~StillNeeded(o)
    <3>1. contracts' = contracts \ {ContractOf[o]}
      BY <1>1, <1>3, <2>6
    <3> QED  BY <2>1, <2>2, <2>3, <2>6, <3>1
  <2> QED  BY <2>4, <2>5, <2>6
<1>6. InOrder(c)'
  BY <1>1, <1>4, <1>5 DEF Follows, InOrder, delivery, committed
<1>7. (Unread(c, o) \/ Shown(c, o))'
  BY <1>1, <1>2, <1>3 DEF Shown, Writing, Target, Ended, delivery
<1>8. \A q \in OrderIds \ {o} : (Unread(c, q) \/ Shown(c, q))'
  BY <1>1, <1>2, OthersFollow DEF delivery
<1> QED  BY <1>6, <1>7, <1>8 DEF Follows

-----------------------------------------------------------------------------
FollowInv(c) == counters.rebuilds = 0 => Follows(c)

LEMMA InitialFollow ==
    ASSUME NEW c \in Consumers, IndexInit
    PROVE  FollowInv(c)
<1>1. /\ rows = [o \in OrderIds |-> [status |-> "NONE", version |-> 0]]
      /\ consumers = [d \in Consumers |-> Idle] /\ index = [o \in OrderIds |-> 0]
      /\ stream = << >> /\ group = [last |-> 0, pending |-> {}, stale |-> {}, dead |-> {}]
      /\ contracts = {} /\ rebuild = Stopped
  BY DEF IndexInit
<1>2. consumers[c].todo = {} /\ rebuild.step = "IDLE" /\ DOMAIN stream = {}
  BY <1>1 DEF Idle, Stopped
<1>3. {ContractOf[o] : o \in {q \in OrderIds : index[q] # 0}} = {}
  BY <1>1
<1>4. InOrder(c)
  BY <1>1, <1>2, <1>3 DEF InOrder
<1>5. \A o \in OrderIds : Shown(c, o)
  BY <1>1, <1>2 DEF Shown, Writing, Target
<1> QED  BY <1>4, <1>5 DEF FollowInv, Follows

\* Once a rebuild has been started, nothing more is claimed; before, the only
\* consumer is the only one who writes the index.
LEMMA FollowStep ==
    ASSUME NEW c, Consumers = {c}, IndexInv, FollowInv(c), [IndexNext]_indexVars
    PROVE  FollowInv(c)'
<1>1. c \in Consumers
  OBVIOUS
<1>2. counters.rebuilds \in Nat /\ counters \in [errors : Nat, crashes : Nat, rebuilds : Nat]
  BY <1>1, ConsumerTypes
<1>3. SUFFICES ASSUME counters'.rebuilds = 0 PROVE Follows(c)'
  BY DEF FollowInv
<1>4. CASE StartRebuild
  BY <1>2, <1>3, <1>4 DEF StartRebuild
<1>5. CASE ~StartRebuild
  <2>1. counters'.rebuilds = counters.rebuilds
    <3>1. \/ counters' = counters
          \/ counters' = [counters EXCEPT !.errors = @ + 1]
          \/ counters' = [counters EXCEPT !.crashes = @ + 1]
      BY <1>5, Zenon DEF IndexNext, indexVars, ChangeOrder, Deliver, ConsumerStep, ClaimStale, ReadNew,
         ReadOrder,
         AddActiveOrder, ReadDetail, RemoveActiveOrder, Acknowledge, DeadLetter, Fail,
         FailDeadLetter, Crash, BecomeStale, RebuildStep, ReadPage, UpsertListed,
         UpsertOrSkip, CheckLeftOver, ReadLeftOverDetail, RemoveLeftOver,
         LeftOversChecked, FinishRebuild, ReconcileContract, CrashRebuild
    <3> QED  BY <1>2, <3>1
  <2>2. Follows(c) /\ rebuild.step = "IDLE"
    BY <1>3, <2>1 DEF FollowInv, Follows, InOrder
  <2>3. CASE UNCHANGED indexVars
    BY <2>2, <2>3 DEF indexVars, delivery, consuming, Follows, InOrder, Unread, Unpublished,
       committed, Delivery!Published, MessagesOf, Outstanding, InHand, Shown, Writing,
       OrderOf, Message, Listed, Target
  <2>4. CASE \E o \in OrderIds : ChangeOrder(o)
    BY <1>1, <2>2, <2>4, ChangeOrderFollows
  <2>5. CASE \E e \in Events : Deliver(e)
    BY <1>1, <2>2, <2>5, DeliverFollows
  <2>6. CASE ConsumerStep(c)
    BY <1>1, <2>2, <2>6, ClaimStaleFollows, ReadNewFollows, ReadOrderFollows,
       AddActiveOrderFollows, ReadDetailFollows, RemoveActiveOrderFollows,
       AcknowledgeFollows, DeadLetterFollows DEF ConsumerStep
  <2>7. CASE Fail(c) \/ FailDeadLetter(c) \/ Crash(c)
    BY <1>1, <2>2, <2>7, FailFollows, CrashFollows
  <2>8. CASE \E m \in DOMAIN stream : BecomeStale(m)
    BY <1>1, <2>2, <2>8, BecomeStaleFollows
  <2>9. ~(RebuildStep \/ ReconcileContract \/ CrashRebuild)
    BY <2>2 DEF RebuildStep, ReadPage, UpsertListed, CheckLeftOver, ReadLeftOverDetail,
       RemoveLeftOver, LeftOversChecked, FinishRebuild, ReconcileContract, CrashRebuild
  <2> QED  BY <1>5, <2>3, <2>4, <2>5, <2>6, <2>7, <2>8, <2>9 DEF IndexNext
<1> QED  BY <1>4, <1>5

\* With nothing under way for an order, what the index shows of it is its row.
LEMMA FollowSuffices ==
    ASSUME NEW c, Consumers = {c}, IndexInv, FollowInv(c)
    PROVE  IndexFollowsOrders
<1>1. SUFFICES ASSUME counters.rebuilds = 0
               PROVE  /\ \A o \in OrderIds : AtRest(o) => index[o] = Target(o)
                      /\ contracts = {ContractOf[o] : o \in {q \in OrderIds : index[q] # 0}}
  BY DEF IndexFollowsOrders
<1>2. Follows(c) /\ c \in Consumers
  BY <1>1 DEF FollowInv
<1>3. ASSUME NEW o \in OrderIds, AtRest(o) PROVE index[o] = Target(o)
  <2>1. ~Unpublished(o)
    BY <1>3 DEF AtRest, Unpublished
  <2>2. \A m \in MessagesOf(o) : ~Outstanding(m)
    <3>1. group.last \in Nat /\ MessagesOf(o) \subseteq Nat
      BY DEF IndexInv, IndexTypeOK, Group, MessagesOf
    <3> QED  BY <1>3, <3>1 DEF AtRest, Outstanding
  <2>3. ~Writing(c, o)
    BY <1>2, <1>3, MessageIsReal DEF Writing, AtRest, Holds, MessagesOf, OrderOf
  <2> QED  BY <1>2, <2>1, <2>2, <2>3 DEF Follows, Unread, Shown
<1>4. contracts = {ContractOf[o] : o \in {q \in OrderIds : index[q] # 0}}
  BY <1>2 DEF Follows, InOrder
<1> QED  BY <1>3, <1>4

\* With one consumer, as it is deployed: once the events of an order have all been
\* delivered and acknowledged, and none of them was given up, the index holds the
\* order exactly as its row is, whatever failed, died or was delivered out of order
\* or more than once; and the contracts are always those of the indexed orders.
THEOREM IndexAlwaysFollows ==
    ASSUME NEW c, Consumers = {c}
    PROVE  IndexSpec => []IndexFollowsOrders
<1>1. IndexInit => FollowInv(c)
  BY InitialFollow
<1>2. IndexInv /\ FollowInv(c) /\ [IndexNext]_indexVars => FollowInv(c)'
  BY FollowStep
<1>3. IndexInv /\ FollowInv(c) => IndexFollowsOrders
  BY FollowSuffices
<1> QED  BY <1>1, <1>2, <1>3, IndexInvariance, PTL DEF IndexSpec

=============================================================================
