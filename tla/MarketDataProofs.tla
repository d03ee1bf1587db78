---------------------------- MODULE MarketDataProofs ----------------------------
(***************************************************************************)
(* The market data subscriber and the matching process, for any number of  *)
(* codes, orders and ticks and any limits on what may go wrong: prices go  *)
(* forward and no snapshot is forgotten, the trades explain what the       *)
(* orders have lost, and an acknowledged tick was offered to the orders it *)
(* found.                                                                  *)
(***************************************************************************)
EXTENDS TickMatching, MarketFeed, Sums, FiniteSetTheorems, WellFoundedInduction, TLAPS

OrderRows ==
    [type : {"LIMIT", "MARKET"}, status : {"NONE", "ACTIVE", "DONE"},
     left : 0 .. Lots, tick : 0 .. MaxTicks]
TradeRows == [order : Orders, tick : TickIds, volume : 1 .. Lots]

LedgerInv ==
    /\ orders \in [Orders -> OrderRows]
    /\ trades \in SUBSET TradeRows /\ IsFiniteSet(trades)
    /\ \A o \in Orders : Market(o) => orders[o].tick # 0
    /\ TradesExplainOrders

\* What the threads have in hand can be settled.
MatcherInv ==
    /\ matcher \in [tick : 0 .. MaxTicks, step : {"IDLE", "LOOK", "SETTLE"},
                    todo : SUBSET Orders, volume : Nat, failed : BOOLEAN]
    /\ matcher.step # "IDLE" => matcher.tick \in group.pending
    /\ matcher.step = "SETTLE" => matcher.todo # {} /\ matcher.volume # 0

ArrivalInv ==
    /\ arrival \in [order : Nat, step : {"IDLE", "LOOK", "SETTLE", "REMAINDER", "ACK"},
                    tick : 0 .. MaxTicks, volume : Nat]
    /\ arrival.step # "IDLE" => arrival.order \in Orders
    /\ arrival.step \in {"LOOK", "SETTLE"} => arrival.tick # 0
    /\ arrival.step = "SETTLE" => arrival.volume # 0

QueuesInv ==
    /\ ticks \in Seq(Prices) /\ Len(ticks) <= MaxTicks
    /\ index \in SUBSET Orders
    /\ group \in [last : Nat, pending : SUBSET TickIds, dead : SUBSET TickIds]
    /\ group.last <= Len(ticks) /\ group.pending \in SUBSET (1 .. group.last)

Answered(o, t) == Traded(o, t) \/ ~Active(o)

\* An order that was offered a tick is indexed as long as it is active, so an
\* attempt that misses it is one that is repeated.
OfferKept(o, t) ==
    /\ t \in 1 .. group.last
    /\ orders[o].status # "NONE" /\ Reaches(o, t)
    /\ Active(o) => o \in index
    /\ t \in Acknowledged => Answered(o, t)
    /\ matcher.step # "IDLE" /\ matcher.tick = t /\ ~matcher.failed
         => o \in matcher.todo \/ Answered(o, t)

OffersInv ==
    /\ offered \in SUBSET (Orders \X TickIds)
    /\ \A o \in Orders, t \in TickIds : << o, t >> \in offered => OfferKept(o, t)

TickInv == LedgerInv /\ MatcherInv /\ ArrivalInv /\ QueuesInv /\ OffersInv

-----------------------------------------------------------------------------
(* What a step may do to the orders.                                       *)

\* No step takes anything back: an accepted order keeps what it is and does not
\* come to life again, trades and ticks stay.
Ages ==
    /\ \A o \in Orders : orders[o].status # "NONE" =>
          /\ orders'[o].status # "NONE" /\ orders'[o].type = orders[o].type
          /\ Active(o)' => Active(o)
    /\ trades \subseteq trades'

LEMMA LedgerKept ==
    ASSUME LedgerInv, UNCHANGED ledger
    PROVE  LedgerInv' /\ Ages
BY DEF LedgerInv, ledger, Market, TradesExplainOrders, Filled, FilledBy, Ages, Active

\* The rows change in what the trades do not explain.
LEMMA LedgerChanges ==
    ASSUME LedgerInv, UNCHANGED trades, orders' \in [Orders -> OrderRows],
           \A o \in Orders : orders'[o].left = orders[o].left,
           \A o \in Orders : Market(o)' => orders'[o].tick # 0
    PROVE  LedgerInv'
BY DEF LedgerInv, TradesExplainOrders, Filled, FilledBy

\* One more trade, of an order that had none with this tick.
LEMMA FilledMore ==
    ASSUME LedgerInv, NEW o \in Orders, NEW t \in TickIds, NEW fill \in 1 .. Lots,
           ~Traded(o, t), trades' = trades \cup {[order |-> o, tick |-> t, volume |-> fill]}
    PROVE  /\ Filled(o)' = fill + Filled(o)
           /\ \A p \in Orders \ {o} : Filled(p)' = Filled(p) /\ FilledBy(p)' = FilledBy(p)
           /\ \A a, b \in FilledBy(o)' : a.tick = b.tick => a = b
           /\ Filled(o) \in Int
<1> DEFINE new == [order |-> o, tick |-> t, volume |-> fill]
           volumes == [trade \in trades |-> trade.volume]
           volumes2 == [trade \in trades' |-> trade.volume]
<1>1. /\ trades' = trades \cup {new} /\ new \notin trades
      /\ new.order = o /\ new.tick = t /\ new.volume = fill
  BY DEF Traded
<1>2. /\ \A p \in Orders : IsFiniteSet(FilledBy(p)) /\ FilledBy(p) \subseteq trades
      /\ \A trade \in trades : trade.volume \in Int
  BY FS_Subset DEF LedgerInv, FilledBy, TradeRows
<1> HIDE DEF new
<1>3. /\ \A trade \in trades : volumes[trade] = trade.volume /\ volumes2[trade] = trade.volume
      /\ volumes2[new] = fill
  BY <1>1
<1>4. \A p \in Orders : /\ Filled(p) = SumFunctionOnSet(volumes, FilledBy(p))
                         /\ Filled(p)' = SumFunctionOnSet(volumes2, FilledBy(p)')
  BY DEF Filled
<1>5. /\ FilledBy(o)' = FilledBy(o) \cup {new} /\ new \notin FilledBy(o)
      /\ \A p \in Orders \ {o} : FilledBy(p)' = FilledBy(p)
  BY <1>1 DEF FilledBy
<1> HIDE DEF volumes, volumes2
<1>6. ASSUME NEW p \in Orders
      PROVE  SumFunctionOnSet(volumes2, FilledBy(p)) = SumFunctionOnSet(volumes, FilledBy(p))
  <2>1. \A x \in FilledBy(p) : volumes2[x] = volumes[x]
    BY <1>2, <1>3
  <2> QED  BY <1>2, <2>1, SumDependsOnValues
<1>7. Filled(o)' = fill + Filled(o)
  <2>1. \A x \in FilledBy(o) : volumes2[x] \in Int
    BY <1>2, <1>3
  <2>2. SumFunctionOnSet(volumes2, FilledBy(o) \cup {new})
          = fill + SumFunctionOnSet(volumes2, FilledBy(o))
    BY <1>2, <1>3, <1>5, <2>1, SumAdds
  <2> QED  BY <1>4, <1>5, <1>6, <2>2
<1>8. \A p \in Orders \ {o} : Filled(p)' = Filled(p) /\ FilledBy(p)' = FilledBy(p)
  BY <1>4, <1>5, <1>6
<1>9. \A a, b \in FilledBy(o)' : a.tick = b.tick => a = b
  <2>1. \A a \in FilledBy(o) : a.tick # new.tick
    BY <1>1 DEF Traded, FilledBy
  <2>2. \A a, b \in FilledBy(o) : a.tick = b.tick => a = b
    BY DEF LedgerInv, TradesExplainOrders
  <2> QED  BY <1>5, <2>1, <2>2
<1>10. Filled(o) \in Int
  BY <1>2, <1>3, <1>4, SumType
<1> QED  BY <1>7, <1>8, <1>9, <1>10

\* The settlement transaction, whoever calls it and whenever: it explains what it
\* takes from the order, and leaves it traded with this tick or ended.
LEMMA SettleExplains ==
    ASSUME LedgerInv, NEW o \in Orders, NEW t \in TickIds, NEW volume \in Nat \ {0},
           SettleOrder(o, t, volume)
    PROVE  LedgerInv' /\ Ages /\ Answered(o, t)'
<1> DEFINE left == orders[o].left
           fill == IF volume < left THEN volume ELSE left
           new == [order |-> o, tick |-> t, volume |-> fill]
<1>1. CASE Traded(o, t) \/ ~Active(o)
  <2>1. UNCHANGED ledger
    BY <1>1 DEF SettleOrder
  <2>2. Answered(o, t)'
    BY <1>1, <2>1 DEF Answered, Traded, Active, ledger
  <2> QED  BY <2>1, <2>2, LedgerKept
<1>2. CASE ~Traded(o, t) /\ Active(o)
  <2>1. /\ trades' = trades \cup {new}
        /\ orders' = [orders EXCEPT ![o].left = @ - fill,
                                    ![o].status = IF left = fill THEN "DONE" ELSE @]
    BY <1>2 DEF SettleOrder
  <2>2. /\ left \in 0 .. Lots /\ left > 0 /\ orders[o] \in OrderRows
        /\ Lots \in Nat /\ orders[o].status = "ACTIVE"
    BY <1>2, MatchingAssumption DEF Active, LedgerInv, OrderRows
  <2>3. fill \in 1 .. Lots /\ left - fill \in 0 .. Lots /\ fill \in Int /\ left \in Int
    BY <2>2
  <2> HIDE DEF fill
  <2> DEFINE status == IF left = fill THEN "DONE" ELSE "ACTIVE"
             row == [orders[o] EXCEPT !.left = left - fill, !.status = status]
  <2>4. row \in OrderRows /\ row.left = left - fill /\ row.type = orders[o].type
        /\ row.tick = orders[o].tick /\ row.status = status
    BY <2>2, <2>3 DEF OrderRows
  <2>5. orders' = [orders EXCEPT ![o] = row]
    BY <2>1, <2>2 DEF LedgerInv
  <2> HIDE DEF row
  <2>6. orders'[o] = row /\ (\A p \in Orders \ {o} : orders'[p] = orders[p])
        /\ orders' \in [Orders -> OrderRows]
    BY <2>4, <2>5 DEF LedgerInv
  <2>7. trades' \in SUBSET TradeRows /\ IsFiniteSet(trades')
    <3>1. new \in TradeRows
      BY <2>3 DEF TradeRows
    <3> HIDE DEF new
    <3> QED  BY <2>1, <3>1, FS_AddElement DEF LedgerInv
  <2>8. \A p \in Orders : Market(p)' => orders'[p].tick # 0
    BY <2>4, <2>6 DEF LedgerInv, Market
  <2>9. TradesExplainOrders'
    <3>1. /\ Filled(o)' = fill + Filled(o)
          /\ \A p \in Orders \ {o} : Filled(p)' = Filled(p) /\ FilledBy(p)' = FilledBy(p)
          /\ \A a, b \in FilledBy(o)' : a.tick = b.tick => a = b
          /\ Filled(o) \in Int
      BY <1>2, <2>1, <2>3, FilledMore
    <3>2. orders'[o].left + Filled(o)' = Lots
      <4>1. left + Filled(o) = Lots
        BY DEF LedgerInv, TradesExplainOrders
      <4> QED  BY <2>3, <2>4, <2>6, <3>1, <4>1
    <3>3. \A p \in Orders \ {o} :
            /\ orders'[p].left + Filled(p)' = Lots
            /\ \A a, b \in FilledBy(p)' : a.tick = b.tick => a = b
      BY <2>6, <3>1 DEF LedgerInv, TradesExplainOrders
    <3> QED  BY <3>1, <3>2, <3>3 DEF TradesExplainOrders
  <2>10. Ages
    <3>1. orders'[o].status # "NONE" /\ Active(o) /\ orders'[o].type = orders[o].type
      BY <1>2, <2>4, <2>6
    <3> QED  BY <2>1, <2>6, <3>1 DEF Ages, Active
  <2>11. Answered(o, t)'
    <3>1. new \in trades' /\ new.order = o /\ new.tick = t
      BY <2>1
    <3> HIDE DEF new
    <3> QED  BY <3>1 DEF Answered, Traded
  <2> QED  BY <2>6, <2>7, <2>8, <2>9, <2>10, <2>11 DEF LedgerInv
<1> QED  BY <1>1, <1>2

LEMMA AcceptKeeps ==
    ASSUME LedgerInv, QueuesInv, NEW o \in Orders, AcceptOrder(o)
    PROVE  LedgerInv' /\ Ages
<1> DEFINE limit == [orders[o] EXCEPT !.status = "ACTIVE"]
           atMarket == [orders[o] EXCEPT !.status = "ACTIVE", !.type = "MARKET",
                                       !.tick = Len(ticks)]
<1>1. orders[o].status = "NONE" /\ UNCHANGED trades
  BY DEF AcceptOrder
<1>2. PICK row \in {limit, atMarket} :
         /\ orders' = [orders EXCEPT ![o] = row]
         /\ row = atMarket => ticks # << >>
  <2>1. \/ orders' = [orders EXCEPT ![o].status = "ACTIVE"]
        \/ /\ ticks # << >>
           /\ orders' = [orders EXCEPT ![o].status = "ACTIVE", ![o].type = "MARKET",
                                       ![o].tick = Len(ticks)]
    BY DEF AcceptOrder
  <2>2. CASE orders' = [orders EXCEPT ![o].status = "ACTIVE"]
    <3>1. limit = atMarket => ticks # << >>
      <4>1. ASSUME limit = atMarket PROVE orders[o].tick = Len(ticks) /\ Market(o)
        <5>1. orders[o] \in OrderRows
          BY DEF LedgerInv
        <5>2. limit.tick = orders[o].tick /\ limit.type = orders[o].type
              /\ atMarket.tick = Len(ticks) /\ atMarket.type = "MARKET"
          BY <5>1 DEF OrderRows
        <5> HIDE DEF limit, atMarket
        <5> QED  BY <4>1, <5>2 DEF Market
      <4> HIDE DEF limit, atMarket
      <4> QED  BY <4>1 DEF LedgerInv
    <3>2. orders' = [orders EXCEPT ![o] = limit]
      BY <2>2
    <3> QED  BY <3>1, <3>2
  <2>3. CASE /\ ticks # << >>
             /\ orders' = [orders EXCEPT ![o].status = "ACTIVE", ![o].type = "MARKET",
                                         ![o].tick = Len(ticks)]
    <3>1. orders' = [orders EXCEPT ![o] = atMarket]
      BY <2>3
    <3> QED  BY <2>3, <3>1
  <2> QED  BY <2>1, <2>2, <2>3
<1>3. /\ row \in OrderRows /\ row.left = orders[o].left
      /\ row.type = "MARKET" => row.tick # 0
  <2>1. /\ orders[o] \in OrderRows /\ Len(ticks) \in 0 .. MaxTicks
        /\ ticks # << >> => Len(ticks) # 0
        /\ orders[o].type = "MARKET" => orders[o].tick # 0
    BY MatchingAssumption DEF LedgerInv, QueuesInv, Market
  <2>2. CASE row = limit
    BY <2>1, <2>2 DEF OrderRows
  <2>3. CASE row = atMarket
    BY <1>2, <2>1, <2>3 DEF OrderRows
  <2> QED  BY <2>2, <2>3
<1> HIDE DEF limit, atMarket
<1>4. /\ orders'[o] = row /\ \A p \in Orders \ {o} : orders'[p] = orders[p]
      /\ orders' \in [Orders -> OrderRows]
  BY <1>2, <1>3 DEF LedgerInv
<1>5. LedgerInv'
  <2>1. \A p \in Orders : orders'[p].left = orders[p].left
    BY <1>3, <1>4
  <2>2. \A p \in Orders : Market(p)' => orders'[p].tick # 0
    BY <1>3, <1>4 DEF LedgerInv, Market
  <2> QED  BY <1>1, <1>4, <2>1, <2>2, LedgerChanges
<1> QED  BY <1>1, <1>4, <1>5 DEF Ages, Active

\* A cancellation, of an order or of its remainder.
LEMMA EndKeeps ==
    ASSUME LedgerInv, NEW o \in Orders, Active(o), UNCHANGED trades,
           orders' = [orders EXCEPT ![o].status = "DONE"]
    PROVE  LedgerInv' /\ Ages
<1> DEFINE row == [orders[o] EXCEPT !.status = "DONE"]
<1>1. /\ orders' = [orders EXCEPT ![o] = row] /\ row \in OrderRows
      /\ row.left = orders[o].left /\ row.tick = orders[o].tick
      /\ row.type = orders[o].type /\ row.status = "DONE"
  BY DEF LedgerInv, OrderRows
<1> HIDE DEF row
<1>2. /\ orders'[o] = row /\ \A p \in Orders \ {o} : orders'[p] = orders[p]
      /\ orders' \in [Orders -> OrderRows]
  BY <1>1 DEF LedgerInv
<1>3. LedgerInv'
  <2>1. \A p \in Orders : orders'[p].left = orders[p].left
    BY <1>1, <1>2
  <2>2. \A p \in Orders : Market(p)' => orders'[p].tick # 0
    BY <1>1, <1>2 DEF LedgerInv, Market
  <2> QED  BY <1>2, <2>1, <2>2, LedgerChanges
<1> QED  BY <1>1, <1>2, <1>3 DEF Ages, Active

-----------------------------------------------------------------------------
(* What a step may do to the offers.                                       *)

\* The queue of the ticks stays, and the matcher drops an order only answered.
LEMMA OffersStay ==
    ASSUME OffersInv, Ages, UNCHANGED << offered, group >>,
           \A t \in 1 .. group.last : ticks'[t] = ticks[t],
           \A o \in index : Active(o)' => o \in index',
           \/ matcher'.step = "IDLE" \/ matcher'.failed
           \/ /\ matcher.step # "IDLE" /\ matcher'.tick = matcher.tick /\ ~matcher.failed
              /\ \A o \in matcher.todo : \/ o \in matcher'.todo
                                         \/ ~Reaches(o, matcher.tick)
                                         \/ Answered(o, matcher.tick)'
    PROVE  OffersInv'
<1> SUFFICES ASSUME NEW o \in Orders, NEW t \in TickIds, << o, t >> \in offered
             PROVE  OfferKept(o, t)'
  BY DEF OffersInv, Orders, TickIds
<1>1. OfferKept(o, t)
  BY DEF OffersInv
<1>2. t \in 1 .. group.last /\ group' = group /\ Acknowledged' = Acknowledged
  BY <1>1 DEF OfferKept, Acknowledged
<1>3. /\ orders'[o].status # "NONE" /\ orders'[o].type = orders[o].type
      /\ Active(o)' => Active(o)
  BY <1>1 DEF OfferKept, Ages
<1>4. Reaches(o, t) /\ Reaches(o, t)'
  BY <1>1, <1>2, <1>3 DEF OfferKept, Reaches, Market
<1>5. Answered(o, t) => Answered(o, t)'
  BY <1>3 DEF Answered, Traded, Ages
<1>6. /\ Active(o)' => o \in index'
      /\ t \in Acknowledged' => Answered(o, t)'
  BY <1>1, <1>2, <1>3, <1>5 DEF OfferKept
<1>7. matcher'.step # "IDLE" /\ matcher'.tick = t /\ ~matcher'.failed
        => o \in matcher'.todo \/ Answered(o, t)'
  BY <1>1, <1>4, <1>5 DEF OfferKept
<1> QED  BY <1>2, <1>3, <1>4, <1>6, <1>7 DEF OfferKept

\* The matcher has done with a tick.
LEMMA OffersOfGroup ==
    ASSUME OffersInv, UNCHANGED << ledger, ticks, index, offered >>,
           group'.last = group.last, matcher'.step = "IDLE",
           \A o \in Orders, t \in TickIds :
              /\ << o, t >> \in offered /\ OfferKept(o, t)
              /\ t \in Acknowledged' \ Acknowledged
              => Answered(o, t)
    PROVE  OffersInv'
<1> SUFFICES ASSUME NEW o \in Orders, NEW t \in TickIds, << o, t >> \in offered
             PROVE  OfferKept(o, t)'
  BY DEF OffersInv, Orders, TickIds
<1>1. OfferKept(o, t)
  BY DEF OffersInv
<1>2. /\ Answered(o, t)' <=> Answered(o, t)
      /\ Active(o)' <=> Active(o)
      /\ Reaches(o, t)' <=> Reaches(o, t)
  BY DEF Answered, Traded, Active, Reaches, Market, ledger
<1>3. t \in Acknowledged' => Answered(o, t)
  BY <1>1 DEF OfferKept
<1> QED  BY <1>1, <1>2, <1>3 DEF OfferKept, ledger

-----------------------------------------------------------------------------
(* The steps, one by one.                                                  *)

LEMMA CandidateBelongs ==
    ASSUME MatcherInv, matcher.todo # {}
    PROVE  Candidate \in matcher.todo /\ Candidate \in Orders
<1>1. matcher.todo \subseteq Orders /\ Orders \subseteq Nat
  BY MatchingAssumption DEF MatcherInv, Orders
<1> QED  BY <1>1, MinBelongs DEF Candidate

LEMMA FillIsSome ==
    ASSUME LedgerInv, NEW o \in Orders, Active(o)
    PROVE  FillOf(o) \in Nat \ {0}
<1>1. orders[o].left \in Nat \ {0} /\ Quoted \in Nat \ {0}
  BY MatchingAssumption DEF LedgerInv, OrderRows, Active
<1> QED  BY <1>1 DEF FillOf

\* A step that leaves the queue of the ticks and the matcher alone.
LEMMA OutsideMatcher ==
    ASSUME TickInv, LedgerInv', Ages, ArrivalInv', UNCHANGED << ticks, index, tickSide, offered >>
    PROVE  TickInv'
<1>1. QueuesInv' /\ MatcherInv'
  BY DEF TickInv, QueuesInv, MatcherInv, tickSide
<1>2. OffersInv'
  <2>1. \/ matcher'.step = "IDLE" \/ matcher'.failed
        \/ /\ matcher.step # "IDLE" /\ matcher'.tick = matcher.tick /\ ~matcher.failed
           /\ \A o \in matcher.todo : o \in matcher'.todo
    BY DEF tickSide
  <2> QED  BY <2>1, OffersStay DEF TickInv, tickSide
<1> QED  BY <1>1, <1>2 DEF TickInv

LEMMA PublishKeeps ==
    ASSUME TickInv, NEW price \in Prices, PublishTick(price)
    PROVE  TickInv'
<1>1. /\ ticks' = Append(ticks, price) /\ Len(ticks) < MaxTicks
      /\ UNCHANGED << ledger, index, tickSide, arrivalSide, offered >>
  BY DEF PublishTick
<1>2. /\ ticks' \in Seq(Prices) /\ Len(ticks') = Len(ticks) + 1 /\ Len(ticks) \in Nat
      /\ \A t \in 1 .. Len(ticks) : ticks'[t] = ticks[t]
  BY <1>1 DEF TickInv, QueuesInv
<1>3. LedgerInv' /\ Ages
  BY <1>1, LedgerKept DEF TickInv
<1>4. QueuesInv' /\ MatcherInv' /\ ArrivalInv'
  <2>1. group.last \in Nat /\ MaxTicks \in Nat
    BY MatchingAssumption DEF TickInv, QueuesInv
  <2> QED  BY <1>1, <1>2, <2>1
           DEF TickInv, QueuesInv, MatcherInv, ArrivalInv, tickSide, arrivalSide
<1>5. OffersInv'
  <2>1. \A t \in 1 .. group.last : ticks'[t] = ticks[t]
    BY <1>2 DEF TickInv, QueuesInv
  <2>2. \/ matcher'.step = "IDLE" \/ matcher'.failed
        \/ /\ matcher.step # "IDLE" /\ matcher'.tick = matcher.tick /\ ~matcher.failed
           /\ \A o \in matcher.todo : o \in matcher'.todo
    BY <1>1 DEF tickSide
  <2> QED  BY <1>1, <1>3, <2>1, <2>2, OffersStay DEF TickInv, tickSide
<1> QED  BY <1>3, <1>4, <1>5 DEF TickInv

LEMMA AcceptStep ==
    ASSUME TickInv, NEW o \in Orders, AcceptOrder(o)
    PROVE  TickInv'
<1>1. LedgerInv' /\ Ages
  BY AcceptKeeps DEF TickInv
<1>2. UNCHANGED << ticks, index, tickSide, offered, arrival >>
  BY DEF AcceptOrder
<1> QED  BY <1>1, <1>2, OutsideMatcher DEF TickInv, ArrivalInv

LEMMA CancelStep ==
    ASSUME TickInv, NEW o \in Orders, CancelOrder(o)
    PROVE  TickInv'
<1>1. LedgerInv' /\ Ages
  BY EndKeeps DEF TickInv, CancelOrder
<1>2. UNCHANGED << ticks, index, tickSide, offered, arrival >>
  BY DEF CancelOrder, arrivalSide
<1> QED  BY <1>1, <1>2, OutsideMatcher DEF TickInv, ArrivalInv

\* The index consumer only takes out what has ended.
LEMMA IndexStep ==
    ASSUME TickInv, NEW o \in Orders, IndexOrder(o) \/ UnindexOrder(o)
    PROVE  TickInv'
<1>1. /\ UNCHANGED << ledger, ticks, tickSide, arrivalSide, offered >>
      /\ index' \in SUBSET Orders
      /\ \A p \in index : Active(p) => p \in index'
  BY DEF IndexOrder, UnindexOrder, TickInv, QueuesInv
<1>2. LedgerInv' /\ Ages
  BY <1>1, LedgerKept DEF TickInv
<1>3. QueuesInv' /\ MatcherInv' /\ ArrivalInv'
  BY <1>1 DEF TickInv, QueuesInv, MatcherInv, ArrivalInv, tickSide, arrivalSide
<1>4. OffersInv'
  <2>1. \A p \in index : Active(p)' => p \in index'
    BY <1>1 DEF Active, ledger
  <2>2. \/ matcher'.step = "IDLE" \/ matcher'.failed
        \/ /\ matcher.step # "IDLE" /\ matcher'.tick = matcher.tick /\ ~matcher.failed
           /\ \A p \in matcher.todo : p \in matcher'.todo
    BY <1>1 DEF tickSide
  <2> QED  BY <1>1, <1>2, <2>1, <2>2, OffersStay DEF TickInv, tickSide
<1> QED  BY <1>2, <1>3, <1>4 DEF TickInv

\* A tick is taken, for the first time or again.
LEMMA TakeKeeps ==
    ASSUME TickInv, NEW t \in TickIds, Take(t), UNCHANGED ticks, index' = index
    PROVE  /\ QueuesInv' /\ group.last <= group'.last /\ t \in 1 .. group'.last
           /\ t \in group'.pending /\ Acknowledged' \subseteq Acknowledged
           /\ t \notin Acknowledged' /\ group.last \in Nat /\ group'.last \in Nat
<1> DEFINE last == IF t > group.last THEN t ELSE group.last
<1>1. /\ group \in [last : Nat, pending : SUBSET TickIds, dead : SUBSET TickIds]
      /\ group.last \in Nat /\ group.pending \subseteq 1 .. group.last
      /\ group.pending \subseteq TickIds
      /\ group.last <= Len(ticks) /\ Len(ticks) \in Nat /\ t \in Nat \ {0}
  BY MatchingAssumption DEF TickInv, QueuesInv, TickIds
<1>2. group' = [group EXCEPT !.last = last, !.pending = @ \cup {t}] /\ Takeable(t)
  BY DEF Take
<1>3. /\ last \in Nat /\ group.last <= last /\ t <= last /\ last <= Len(ticks)
      /\ last = group.last \/ (last = t /\ t = group.last + 1)
  <2>1. t <= group.last \/ (t = group.last + 1 /\ t <= Len(ticks))
    BY <1>1, <1>2 DEF Takeable
  <2>2. /\ group.last \in Nat /\ Len(ticks) \in Nat /\ t \in Nat
        /\ group.last <= Len(ticks)
    BY <1>1
  <2>3. CASE t > group.last
    BY <2>1, <2>2, <2>3
  <2>4. CASE ~(t > group.last)
    BY <2>2, <2>4
  <2> QED  BY <2>3, <2>4
<1> HIDE DEF last
<1>4. /\ group'.last = last /\ group'.pending = group.pending \cup {t}
      /\ group'.dead = group.dead
      /\ group' \in [last : Nat, pending : SUBSET TickIds, dead : SUBSET TickIds]
  BY <1>1, <1>2, <1>3
<1>5. group'.pending \subseteq 1 .. last
  BY <1>1, <1>3, <1>4
<1>6. \A u \in Acknowledged' : u \in Acknowledged /\ u # t
  <2>1. SUFFICES ASSUME NEW u \in 1 .. last, u \notin group.pending, u # t,
                        u \notin group.dead
                 PROVE  u \in 1 .. group.last
    BY <1>4 DEF Acknowledged
  <2> QED  BY <1>1, <1>3, <2>1
<1>7. QueuesInv'
  BY <1>3, <1>4, <1>5 DEF TickInv, QueuesInv
<1> QED  BY <1>1, <1>3, <1>4, <1>6, <1>7

LEMMA TakeStep ==
    ASSUME TickInv, NEW t \in TickIds, TakeTick(t) \/ FailRead(t)
    PROVE  TickInv'
<1>1. /\ Take(t) /\ UNCHANGED << ledger, ticks, index, arrivalSide >>
      /\ \/ /\ matcher' = [Resting EXCEPT !.tick = t, !.step = "LOOK", !.todo = index]
            /\ offered' = offered \cup
                 {<< o, t >> : o \in {i \in index : Active(i) /\ Reaches(i, t)}}
         \/ /\ matcher' = [Resting EXCEPT !.tick = t, !.step = "LOOK", !.failed = TRUE]
            /\ offered' = offered
  BY DEF TakeTick, FailRead
<1>2. /\ QueuesInv' /\ group.last <= group'.last /\ t \in 1 .. group'.last
      /\ t \in group'.pending /\ Acknowledged' \subseteq Acknowledged
      /\ t \notin Acknowledged' /\ group.last \in Nat /\ group'.last \in Nat
  BY <1>1, TakeKeeps
<1>3. LedgerInv' /\ Ages /\ ArrivalInv'
  BY <1>1, LedgerKept DEF TickInv, ArrivalInv, arrivalSide
<1>4. /\ MatcherInv' /\ matcher'.tick = t
      /\ ~matcher'.failed => matcher'.todo = index
  <2>1. index \subseteq Orders /\ t \in 0 .. MaxTicks
    BY MatchingAssumption DEF TickInv, QueuesInv, TickIds
  <2>2. CASE matcher' = [Resting EXCEPT !.tick = t, !.step = "LOOK", !.todo = index]
    BY <1>2, <2>1, <2>2 DEF Resting, MatcherInv
  <2>3. CASE matcher' = [Resting EXCEPT !.tick = t, !.step = "LOOK", !.failed = TRUE]
    BY <1>2, <2>1, <2>3 DEF Resting, MatcherInv
  <2> QED  BY <1>1, <2>2, <2>3
<1>5. OffersInv'
  <2>1. index \subseteq Orders /\ offered \in SUBSET (Orders \X TickIds)
    BY DEF TickInv, QueuesInv, OffersInv
  <2>2. offered' \in SUBSET (Orders \X TickIds)
    BY <1>1, <2>1
  <2>3. ASSUME NEW o \in Orders, NEW u \in TickIds, << o, u >> \in offered'
        PROVE  OfferKept(o, u)'
    <3>1. /\ Answered(o, u)' <=> Answered(o, u)
          /\ Active(o)' <=> Active(o)
          /\ Reaches(o, u)' <=> Reaches(o, u)
          /\ orders' = orders /\ index' = index
      BY <1>1 DEF Answered, Traded, Active, Reaches, Market, ledger
    <3>2. CASE << o, u >> \in offered
      <4>1. OfferKept(o, u)
        BY <3>2 DEF TickInv, OffersInv
      <4>2. u \in 1 .. group'.last
        BY <1>2, <4>1 DEF OfferKept
      <4>3. matcher'.step # "IDLE" /\ matcher'.tick = u /\ ~matcher'.failed
              => o \in matcher'.todo \/ Answered(o, u)'
        BY <1>4, <3>1, <4>1 DEF OfferKept, Answered
      <4> QED  BY <1>2, <3>1, <4>1, <4>2, <4>3 DEF OfferKept
    <3>3. CASE << o, u >> \notin offered
      <4>1. u = t /\ o \in index /\ Active(o) /\ Reaches(o, t)
        BY <1>1, <2>3, <3>3
      <4> QED  BY <1>2, <1>4, <3>1, <4>1 DEF OfferKept, Active
    <3> QED  BY <3>2, <3>3
  <2> QED  BY <2>2, <2>3 DEF OffersInv, Orders, TickIds
<1> QED  BY <1>2, <1>3, <1>4, <1>5 DEF TickInv

\* The matcher goes on with its tick.
LEMMA MatcherGoesOn ==
    ASSUME TickInv, matcher.step # "IDLE", LedgerInv', Ages, MatcherInv',
           matcher'.tick = matcher.tick, matcher.failed => matcher'.failed,
           \A o \in matcher.todo : \/ o \in matcher'.todo
                                  \/ ~Reaches(o, matcher.tick)
                                  \/ Answered(o, matcher.tick)'
                                  \/ matcher'.failed,
           UNCHANGED << ticks, index, group, arrivalSide, offered >>
    PROVE  TickInv'
<1>1. QueuesInv' /\ ArrivalInv'
  BY DEF TickInv, QueuesInv, ArrivalInv, arrivalSide
<1>2. OffersInv'
  <2>1. CASE matcher'.failed
    BY <2>1, OffersStay DEF TickInv
  <2>2. CASE ~matcher'.failed
    <3>1. ~matcher.failed
      BY <2>2
    <3> QED  BY <2>2, <3>1, OffersStay DEF TickInv
  <2> QED  BY <2>1, <2>2
<1> QED  BY <1>1, <1>2 DEF TickInv

LEMMA LookStep ==
    ASSUME TickInv, LookAtCandidate
    PROVE  TickInv'
<1>1. /\ matcher.step = "LOOK" /\ matcher.todo # {}
      /\ UNCHANGED << ledger, ticks, index, group, arrivalSide, offered >>
  BY DEF LookAtCandidate
<1>2. PICK o \in Orders : o = Candidate /\ o \in matcher.todo
  BY <1>1, CandidateBelongs DEF TickInv
<1>3. LedgerInv' /\ Ages
  BY <1>1, LedgerKept DEF TickInv
<1>4. CASE Active(o) /\ Reaches(o, matcher.tick)
  <2>1. matcher' = [matcher EXCEPT !.step = "SETTLE", !.volume = FillOf(o)]
    BY <1>2, <1>4 DEF LookAtCandidate
  <2>2. FillOf(o) \in Nat \ {0}
    BY <1>4, FillIsSome DEF TickInv
  <2>3. /\ MatcherInv' /\ matcher'.tick = matcher.tick /\ matcher'.todo = matcher.todo
        /\ matcher'.failed = matcher.failed
    BY <1>1, <2>1, <2>2 DEF TickInv, MatcherInv
  <2> QED  BY <1>1, <1>3, <2>3, MatcherGoesOn
<1>5. CASE ~(Active(o) /\ Reaches(o, matcher.tick))
  <2>1. matcher' = [matcher EXCEPT !.todo = @ \ {o}]
    BY <1>2, <1>5 DEF LookAtCandidate
  <2>2. /\ MatcherInv' /\ matcher'.tick = matcher.tick /\ matcher'.todo = matcher.todo \ {o}
        /\ matcher'.failed = matcher.failed
    BY <1>1, <2>1 DEF TickInv, MatcherInv
  <2>3. Reaches(o, matcher.tick) => Answered(o, matcher.tick)'
    BY <1>1, <1>5 DEF Answered, Active, ledger
  <2> QED  BY <1>1, <1>3, <2>2, <2>3, MatcherGoesOn
<1> QED  BY <1>4, <1>5

\* The candidate at hand has had its turn; it was answered unless an exception
\* is kept.
LEMMA NextStep ==
    ASSUME TickInv, matcher.step # "IDLE", matcher.todo # {}, NEW failed \in BOOLEAN,
           NextCandidate(failed), LedgerInv', Ages,
           matcher.failed => failed,
           \A o \in Orders, t \in TickIds :
              o = Candidate /\ t = matcher.tick /\ ~failed => Answered(o, t)',
           UNCHANGED << ticks, index, group, arrivalSide, offered >>
    PROVE  TickInv'
<1>1. PICK o \in Orders : o = Candidate
  BY CandidateBelongs DEF TickInv
<1>2. PICK t \in TickIds : t = matcher.tick
  BY DEF TickInv, MatcherInv, QueuesInv
<1>3. matcher' = [matcher EXCEPT !.step = "LOOK", !.todo = @ \ {o}, !.volume = 0,
                                 !.failed = failed]
  BY <1>1 DEF NextCandidate
<1>4. /\ MatcherInv' /\ matcher'.tick = matcher.tick /\ matcher'.todo = matcher.todo \ {o}
      /\ matcher'.failed = failed
  BY <1>3 DEF TickInv, MatcherInv
<1>5. CASE failed
  <2>1. matcher'.failed
    BY <1>4, <1>5
  <2> QED  BY <1>4, <2>1, MatcherGoesOn
<1>6. CASE ~failed
  <2>1. ~matcher.failed
    BY <1>6
  <2>2. Answered(o, matcher.tick)'
    <3>1. Answered(o, t)' /\ t = matcher'.tick
      BY <1>1, <1>2, <1>4, <1>6
    <3> QED  BY <3>1 DEF Answered, Traded
  <2> QED  BY <1>4, <2>1, <2>2, MatcherGoesOn
<1> QED  BY <1>5, <1>6

LEMMA SettleStep ==
    ASSUME TickInv, SettleCandidate
    PROVE  TickInv'
<1>1. /\ matcher.step = "SETTLE" /\ NextCandidate(matcher.failed)
      /\ SettleOrder(Candidate, matcher.tick, matcher.volume)
      /\ UNCHANGED << ticks, index, group, arrivalSide, offered >>
  BY DEF SettleCandidate
<1>2. /\ matcher.todo # {} /\ matcher.tick \in TickIds /\ matcher.failed \in BOOLEAN
      /\ matcher.volume \in Nat \ {0}
  BY <1>1 DEF TickInv, MatcherInv, QueuesInv
<1>3. LedgerInv' /\ Ages
  BY <1>1, <1>2, CandidateBelongs, SettleExplains DEF TickInv
<1>4. ASSUME NEW o \in Orders, NEW t \in TickIds, o = Candidate, t = matcher.tick
      PROVE  Answered(o, t)'
  <2>1. SettleOrder(o, t, matcher.volume)
    BY <1>1, <1>4
  <2> QED  BY <1>2, <2>1, SettleExplains DEF TickInv
<1> QED  BY <1>1, <1>2, <1>3, <1>4, NextStep

LEMMA FailCandidateStep ==
    ASSUME TickInv, FailCandidate
    PROVE  TickInv'
<1>1. /\ NextCandidate(TRUE) /\ UNCHANGED << ticks, index, group, arrivalSide, offered >>
      /\ \/ matcher.step = "LOOK" /\ matcher.todo # {} /\ UNCHANGED ledger
         \/ matcher.step = "SETTLE" /\ UNCHANGED ledger
         \/ matcher.step = "SETTLE" /\ SettleOrder(Candidate, matcher.tick, matcher.volume)
  BY DEF FailCandidate
<1>2. matcher.todo # {} /\ matcher.step # "IDLE"
  BY <1>1 DEF TickInv, MatcherInv
<1>3. LedgerInv' /\ Ages
  <2>1. CASE UNCHANGED ledger
    BY <2>1, LedgerKept DEF TickInv
  <2>2. CASE matcher.step = "SETTLE" /\ SettleOrder(Candidate, matcher.tick, matcher.volume)
    <3>1. matcher.tick \in TickIds /\ matcher.volume \in Nat \ {0}
      BY <2>2 DEF TickInv, MatcherInv, QueuesInv
    <3> QED  BY <1>2, <2>2, <3>1, CandidateBelongs, SettleExplains DEF TickInv
  <2> QED  BY <1>1, <2>1, <2>2
<1> QED  BY <1>1, <1>2, <1>3, NextStep

LEMMA FailAcknowledgeStep ==
    ASSUME TickInv, FailAcknowledge
    PROVE  TickInv'
<1>1. /\ matcher.step = "LOOK" /\ matcher' = [matcher EXCEPT !.failed = TRUE]
      /\ UNCHANGED << ledger, ticks, index, group, arrivalSide, offered >>
  BY DEF FailAcknowledge, Finished
<1>2. LedgerInv' /\ Ages
  BY <1>1, LedgerKept DEF TickInv
<1>3. /\ MatcherInv' /\ matcher'.tick = matcher.tick /\ matcher'.failed
  BY <1>1 DEF TickInv, MatcherInv
<1> QED  BY <1>1, <1>2, <1>3, MatcherGoesOn

\* The end of an attempt: what it has acknowledged, it has offered to all.
LEMMA EndOfAttempt ==
    ASSUME TickInv, Finished, matcher' = Resting,
           NEW pending \in SUBSET group.pending, NEW dead \in SUBSET TickIds,
           group' = [group EXCEPT !.pending = pending, !.dead = dead],
           group.dead \subseteq dead,
           \A t \in group.pending \ pending : t \in dead \/ (t = matcher.tick /\ ~matcher.failed),
           UNCHANGED << ledger, ticks, index, arrivalSide, offered >>
    PROVE  TickInv'
<1>1. /\ group'.last = group.last /\ group'.pending = pending /\ group'.dead = dead
      /\ group' \in [last : Nat, pending : SUBSET TickIds, dead : SUBSET TickIds]
  <2>1. group \in [last : Nat, pending : SUBSET TickIds, dead : SUBSET TickIds]
    BY DEF TickInv, QueuesInv
  <2>2. pending \in SUBSET TickIds
    BY <2>1
  <2> QED  BY <2>1, <2>2
<1>2. QueuesInv'
  BY <1>1 DEF TickInv, QueuesInv
<1>3. LedgerInv' /\ ArrivalInv'
  BY LedgerKept DEF TickInv, ArrivalInv, arrivalSide
<1>4. MatcherInv'
  BY MatchingAssumption DEF MatcherInv, Resting
<1>5. OffersInv'
  <2>1. group'.last = group.last /\ matcher'.step = "IDLE"
    BY <1>1 DEF Resting
  <2>2. ASSUME NEW o \in Orders, NEW t \in TickIds, << o, t >> \in offered, OfferKept(o, t),
               t \in Acknowledged' \ Acknowledged
        PROVE  Answered(o, t)
    <3>1. t \notin dead /\ t \notin pending /\ t \in group.pending
      BY <1>1, <2>2 DEF Acknowledged
    <3>2. t = matcher.tick /\ ~matcher.failed
      BY <3>1
    <3>3. matcher.step # "IDLE" /\ matcher.todo = {}
      BY DEF Finished
    <3> QED  BY <2>2, <3>2, <3>3 DEF OfferKept
  <2> QED  BY <2>1, <2>2, OffersOfGroup DEF TickInv
<1> QED  BY <1>2, <1>3, <1>4, <1>5 DEF TickInv

LEMMA AcknowledgeStep ==
    ASSUME TickInv, AcknowledgeTick \/ CountFailure \/ FailCount
    PROVE  TickInv'
<1> DEFINE t == matcher.tick
<1>1. /\ Finished /\ matcher' = Resting
      /\ UNCHANGED << ledger, ticks, index, arrivalSide, offered >>
  BY DEF AcknowledgeTick, CountFailure, FailCount
<1>2. /\ group \in [last : Nat, pending : SUBSET TickIds, dead : SUBSET TickIds]
      /\ t \in TickIds
  BY <1>1 DEF TickInv, MatcherInv, QueuesInv, Finished
<1> DEFINE New(pending, dead) == [group EXCEPT !.pending = pending, !.dead = dead]
           less == group.pending \ {t}
           more == group.dead \cup {t}
<1>3. \/ group' = New(less, group.dead) /\ ~matcher.failed
      \/ group' = New(less, more)
      \/ group' = New(group.pending, group.dead)
      \/ group' = New(group.pending, more)
  <2>1. group = New(group.pending, group.dead)
    BY <1>2
  <2>2. CASE AcknowledgeTick
    BY <1>2, <2>2 DEF AcknowledgeTick, AllAnswered
  <2>3. CASE CountFailure
    <3>1. group' = [group EXCEPT !.dead = @ \cup {t}, !.pending = @ \ {t}] \/ group' = group
      BY <2>3 DEF CountFailure
    <3>2. [group EXCEPT !.dead = @ \cup {t}, !.pending = @ \ {t}] = New(less, more)
      BY <1>2
    <3> QED  BY <2>1, <3>1, <3>2
  <2>4. CASE FailCount
    <3>1. group' = [group EXCEPT !.dead = @ \cup {t}] \/ group' = group
      BY <2>4 DEF FailCount
    <3>2. [group EXCEPT !.dead = @ \cup {t}] = New(group.pending, more)
      BY <1>2
    <3> QED  BY <2>1, <3>1, <3>2
  <2> QED  BY <2>2, <2>3, <2>4
<1>4. /\ less \in SUBSET group.pending /\ group.pending \in SUBSET group.pending
      /\ group.dead \in SUBSET TickIds /\ more \in SUBSET TickIds
      /\ group.dead \subseteq more /\ t \in more
      /\ \A u \in group.pending \ less : u = t
  BY <1>2
<1> HIDE DEF less, more
<1>5. CASE group' = New(less, group.dead) /\ ~matcher.failed
  BY <1>1, <1>4, <1>5, EndOfAttempt
<1>6. CASE group' = New(less, more)
  BY <1>1, <1>4, <1>6, EndOfAttempt
<1>7. CASE group' = New(group.pending, group.dead)
  BY <1>1, <1>4, <1>7, EndOfAttempt
<1>8. CASE group' = New(group.pending, more)
  BY <1>1, <1>4, <1>8, EndOfAttempt
<1> QED  BY <1>3, <1>5, <1>6, <1>7, <1>8

LEMMA TakeArrivalStep ==
    ASSUME TickInv, NEW o \in Orders, TakeArrival(o) \/ TakeArrivalWithoutQuote(o)
    PROVE  TickInv'
<1>1. UNCHANGED << ledger, ticks, index, tickSide, offered >>
  BY DEF TakeArrival, TakeArrivalWithoutQuote
<1>2. ArrivalInv'
  <2>1. QuoteFor(o) \in 0 .. MaxTicks
    BY MatchingAssumption DEF TickInv, LedgerInv, OrderRows, QueuesInv, QuoteFor
  <2>2. o \in Nat /\ MaxTicks \in Nat
    BY MatchingAssumption DEF Orders
  <2>3. CASE arrival' = [Waiting EXCEPT !.order = o, !.step = "ACK"]
    <3>1. arrival' = [order |-> o, step |-> "ACK", tick |-> 0, volume |-> 0]
      BY <2>3 DEF Waiting
    <3>2. 0 \in 0 .. MaxTicks
      BY <2>2
    <3> QED  BY <2>2, <3>1, <3>2 DEF ArrivalInv
  <2>4. CASE /\ QuoteFor(o) # 0
             /\ arrival' = [Waiting EXCEPT !.order = o, !.step = "LOOK", !.tick = QuoteFor(o)]
    BY <2>1, <2>2, <2>4 DEF Waiting, ArrivalInv
  <2> QED  BY <2>3, <2>4 DEF TakeArrival, TakeArrivalWithoutQuote
<1> QED  BY <1>1, <1>2, LedgerKept, OutsideMatcher DEF TickInv

LEMMA LookAtArrivalStep ==
    ASSUME TickInv, LookAtArrival
    PROVE  TickInv'
<1> DEFINE o == arrival.order
<1>1. UNCHANGED << ledger, ticks, index, tickSide, offered >> /\ arrival.step = "LOOK"
  BY DEF LookAtArrival
<1>2. ArrivalInv'
  <2>1. o \in Orders /\ arrival.tick # 0
    BY <1>1 DEF TickInv, ArrivalInv
  <2>2. CASE Active(o) /\ Reaches(o, arrival.tick)
    <3>1. arrival' = [arrival EXCEPT !.step = "SETTLE", !.volume = FillOf(o)]
      BY <2>2 DEF LookAtArrival
    <3>2. FillOf(o) \in Nat \ {0}
      BY <2>1, <2>2, FillIsSome DEF TickInv
    <3> QED  BY <2>1, <3>1, <3>2 DEF TickInv, ArrivalInv
  <2>3. CASE ~(Active(o) /\ Reaches(o, arrival.tick))
    <3>1. arrival' = [arrival EXCEPT !.step = StepAfterMatch, !.tick = 0]
      BY <2>3 DEF LookAtArrival
    <3>2. StepAfterMatch \in {"REMAINDER", "ACK"}
      BY DEF StepAfterMatch
    <3>3. 0 \in 0 .. MaxTicks
      BY MatchingAssumption
    <3> QED  BY <2>1, <3>1, <3>2, <3>3 DEF TickInv, ArrivalInv
  <2> QED  BY <2>2, <2>3
<1> QED  BY <1>1, <1>2, LedgerKept, OutsideMatcher DEF TickInv

\* Whatever the arrival thread settles.
LEMMA ArrivalSettles ==
    ASSUME TickInv, arrival.step = "SETTLE",
           SettleOrder(arrival.order, arrival.tick, arrival.volume)
    PROVE  LedgerInv' /\ Ages
<1>1. arrival.order \in Orders /\ arrival.tick \in TickIds /\ arrival.volume \in Nat \ {0}
  BY MatchingAssumption DEF TickInv, ArrivalInv, TickIds
<1> QED  BY <1>1, SettleExplains DEF TickInv

LEMMA SettleArrivalStep ==
    ASSUME TickInv, SettleArrival
    PROVE  TickInv'
<1>1. UNCHANGED << ticks, index, tickSide, offered >> /\ arrival.step = "SETTLE"
  BY DEF SettleArrival
<1>2. ArrivalInv'
  <2>1. arrival' = [arrival EXCEPT !.step = StepAfterMatch, !.tick = 0, !.volume = 0]
    BY DEF SettleArrival
  <2>2. StepAfterMatch \in {"REMAINDER", "ACK"}
    BY DEF StepAfterMatch
  <2>3. 0 \in 0 .. MaxTicks /\ arrival.order \in Orders
    BY <1>1, MatchingAssumption DEF TickInv, ArrivalInv
  <2> QED  BY <2>1, <2>2, <2>3 DEF TickInv, ArrivalInv
<1> QED  BY <1>1, <1>2, ArrivalSettles, OutsideMatcher DEF SettleArrival

LEMMA RemainderStep ==
    ASSUME TickInv, CancelRemainder
    PROVE  TickInv'
<1>1. UNCHANGED << ticks, index, tickSide, offered >> /\ arrival.step = "REMAINDER"
  BY DEF CancelRemainder
<1>2. ArrivalInv'
  BY DEF CancelRemainder, TickInv, ArrivalInv
<1>3. LedgerInv' /\ Ages
  <2>1. CASE Active(arrival.order)
    <3>1. arrival.order \in Orders
      BY <1>1 DEF TickInv, ArrivalInv
    <3>2. orders' = [orders EXCEPT ![arrival.order].status = "DONE"] /\ UNCHANGED trades
      BY <2>1 DEF CancelRemainder, HasRemainder
    <3> QED  BY <2>1, <3>1, <3>2, EndKeeps DEF TickInv
  <2>2. CASE ~Active(arrival.order)
    <3>1. UNCHANGED ledger
      BY <2>2 DEF CancelRemainder, HasRemainder, ledger
    <3> QED  BY <3>1, LedgerKept DEF TickInv
  <2> QED  BY <2>1, <2>2
<1> QED  BY <1>1, <1>2, <1>3, OutsideMatcher

LEMMA WaitingIsRight ==
    ASSUME arrival' = Waiting
    PROVE  ArrivalInv'
BY MatchingAssumption DEF Waiting, ArrivalInv

LEMMA EndArrivalStep ==
    ASSUME TickInv, AcknowledgeArrival \/ FailArrival
    PROVE  TickInv'
<1>1. UNCHANGED << ticks, index, tickSide, offered >> /\ ArrivalInv'
  BY WaitingIsRight DEF AcknowledgeArrival, FailArrival
<1>2. LedgerInv' /\ Ages
  <2>1. \/ UNCHANGED ledger
        \/ arrival.step = "SETTLE" /\ SettleOrder(arrival.order, arrival.tick, arrival.volume)
    BY DEF AcknowledgeArrival, FailArrival
  <2> QED  BY <2>1, LedgerKept, ArrivalSettles DEF TickInv
<1> QED  BY <1>1, <1>2, OutsideMatcher

LEMMA CrashStep ==
    ASSUME TickInv, Crash
    PROVE  TickInv'
<1>1. /\ UNCHANGED << ledger, ticks, index, group, offered >>
      /\ matcher' = Resting /\ arrival' = Waiting
  BY DEF Crash
<1>2. LedgerInv' /\ Ages /\ ArrivalInv' /\ QueuesInv'
  BY <1>1, LedgerKept, WaitingIsRight DEF TickInv, QueuesInv
<1>3. MatcherInv' /\ matcher'.step = "IDLE"
  BY <1>1, MatchingAssumption DEF MatcherInv, Resting
<1>4. OffersInv'
  BY <1>1, <1>2, <1>3, OffersStay DEF TickInv
<1> QED  BY <1>2, <1>3, <1>4 DEF TickInv

-----------------------------------------------------------------------------
LEMMA TickInit == Init => TickInv
<1> SUFFICES ASSUME Init PROVE TickInv
  OBVIOUS
<1>1. LedgerInv
  <2>1. \A o \in Orders : FilledBy(o) = {}
    BY DEF Init, FilledBy
  <2>2. \A o \in Orders : Filled(o) = 0
    BY <2>1, SumEmpty DEF Filled
  <2>3. \A o \in Orders : orders[o] \in OrderRows /\ orders[o].left = Lots
                         /\ orders[o].type = "LIMIT"
    BY MatchingAssumption DEF Init, OrderRows
  <2>4. orders \in [Orders -> OrderRows] /\ trades = {} /\ IsFiniteSet(trades)
    BY <2>3, FS_EmptySet DEF Init
  <2>5. Lots + 0 = Lots
    BY MatchingAssumption
  <2> QED  BY <2>1, <2>2, <2>3, <2>4, <2>5 DEF LedgerInv, Market, TradesExplainOrders
<1>2. MatcherInv /\ ArrivalInv
  BY MatchingAssumption DEF Init, MatcherInv, ArrivalInv, Resting, Waiting
<1>3. QueuesInv
  <2>1. ticks = << >> /\ << >> \in Seq(Prices) /\ Len(<< >>) = 0
    BY DEF Init
  <2> QED  BY <2>1, MatchingAssumption DEF Init, QueuesInv
<1>4. OffersInv
  BY DEF Init, OffersInv
<1> QED  BY <1>1, <1>2, <1>3, <1>4 DEF TickInv

LEMMA TickNext == TickInv /\ [Next]_vars => TickInv'
<1> SUFFICES ASSUME TickInv, [Next]_vars PROVE TickInv'
  OBVIOUS
<1>1. ASSUME NEW price \in Prices, PublishTick(price) PROVE TickInv'
  BY <1>1, PublishKeeps
<1>2. ASSUME NEW o \in Orders,
             AcceptOrder(o) \/ CancelOrder(o) \/ IndexOrder(o) \/ UnindexOrder(o)
      PROVE  TickInv'
  BY <1>2, AcceptStep, CancelStep, IndexStep
<1>3. ASSUME NEW t \in TickIds, TakeTick(t) \/ FailRead(t) PROVE TickInv'
  BY <1>3, TakeStep
<1>4. CASE MatcherStep \/ FailCandidate \/ FailAcknowledge \/ FailCount
  BY <1>4, LookStep, SettleStep, AcknowledgeStep, FailCandidateStep, FailAcknowledgeStep
     DEF MatcherStep
<1>5. ASSUME NEW o \in Orders, TakeArrival(o) \/ TakeArrivalWithoutQuote(o) PROVE TickInv'
  BY <1>5, TakeArrivalStep
<1>6. CASE ArrivalStep \/ FailArrival
  BY <1>6, LookAtArrivalStep, SettleArrivalStep, RemainderStep, EndArrivalStep DEF ArrivalStep
<1>7. CASE Crash
  BY <1>7, CrashStep
<1>8. CASE UNCHANGED vars
  <2>1. UNCHANGED << ledger, ticks, index, tickSide, offered, arrival >>
    BY <1>8 DEF vars, arrivalSide
  <2> QED  BY <2>1, LedgerKept, OutsideMatcher DEF TickInv, ArrivalInv
<1> QED  BY <1>1, <1>2, <1>3, <1>4, <1>5, <1>6, <1>7, <1>8 DEF Next

\* The threads, the index and the ledger of the matching process are as TickInv says.
THEOREM TickInvHolds == Spec => []TickInv
BY TickInit, TickNext, PTL DEF Spec

\* Whatever two threads, repetitions, lost answers, crashes and cancellations do to
\* it: what an order has lost is what its trades say, with one trade a quote.
THEOREM TradesAlwaysExplainOrders == Spec => []TradesExplainOrders
<1>1. TickInv => TradesExplainOrders
  BY DEF TickInv, LedgerInv
<1> QED  BY <1>1, TickInvHolds, PTL

\* An acknowledged tick was offered, in one of its attempts, to every order that was
\* in the index, active and within reach when an attempt began.
THEOREM AcknowledgedMeansOffered == Spec => []AcknowledgedTicksWereOffered
<1>1. TickInv => AcknowledgedTicksWereOffered
  <2> SUFFICES ASSUME TickInv, NEW pair \in offered, pair[2] \in Acknowledged
               PROVE  Traded(pair[1], pair[2]) \/ ~Active(pair[1])
    BY DEF AcknowledgedTicksWereOffered
  <2>1. /\ pair[1] \in Orders /\ pair[2] \in TickIds
        /\ << pair[1], pair[2] >> \in offered
    BY DEF TickInv, OffersInv
  <2>2. OfferKept(pair[1], pair[2])
    BY <2>1 DEF TickInv, OffersInv
  <2> QED  BY <2>2 DEF OfferKept, Answered
<1> QED  BY <1>1, TickInvHolds, PTL


-----------------------------------------------------------------------------
(* The subscriber of a market: the invariant.                              *)

WireTick == [code : Codes, time : Nat]
QueueTick == [code : Codes, time : Nat, kind : {"LIVE", "REST"}, current : BOOLEAN]
Job == [codes : SUBSET Codes, current : BOOLEAN]
Price == [time : Nat, byOrder : BOOLEAN]
Mark == [live : Nat, watermark : Nat, since : Nat]
Subscription ==
    [requested : SUBSET Codes, subscribed : SUBSET Codes, failed : SUBSET Codes,
     pending : SUBSET (SUBSET Codes), aged : BOOLEAN]

LoopTypes ==
    /\ wanted \subseteq Codes /\ requests \subseteq Codes
    /\ sub \in Subscription
    /\ conn \in {"none", "alive", "dead"}
    /\ pc \in {"observe", "replacing", "starting", "publish"}

IngestTypes ==
    /\ market \in [Codes -> Nat \ {0}]
    /\ wire \in Seq(WireTick) /\ queue \in Seq(QueueTick) /\ jobs \in Seq(Job)
    /\ Len(queue) <= QueueSize
    /\ boot \in [requested : SUBSET Codes, retry : SUBSET Codes]
    /\ seen \in [Codes -> Mark]
    /\ latest \in [Codes -> Price]

\* A snapshot may be one tick behind, and so may one that comes later.
Follows(a, b) ==
    /\ a.kind = "LIVE" /\ b.kind = "LIVE" => a.time < b.time
    /\ a.kind = "REST" /\ b.kind = "REST" => a.time <= b.time + 1

\* The ticks of a code that are in the queue q and on the wire w are ticks of the
\* market m, the live ones in the order of their times.
Ordered(q, w, m) ==
    /\ \A i \in DOMAIN w : w[i].time \in 1 .. m[w[i].code]
    /\ \A i, j \in DOMAIN w : i < j /\ w[i].code = w[j].code => w[i].time < w[j].time
    /\ \A i \in DOMAIN q : q[i].time \in 1 .. m[q[i].code]
    /\ \A i, j \in DOMAIN q : i < j /\ q[i].code = q[j].code => Follows(q[i], q[j])
    /\ \A i \in DOMAIN q, j \in DOMAIN w :
          q[i].kind = "LIVE" /\ q[i].code = w[j].code => q[i].time < w[j].time

\* A live tick of the code, and a snapshot that counts, that are still to come.
Awaited(q, w, c, t) ==
    \/ \E i \in DOMAIN q : q[i].kind = "LIVE" /\ q[i].code = c /\ q[i].time = t
    \/ \E i \in DOMAIN w : w[i].code = c /\ w[i].time = t
Fresh(q, c, t) ==
    \E i \in DOMAIN q : q[i].kind = "REST" /\ q[i].current /\ q[i].code = c /\ q[i].time = t

\* There is a tick of the code in the queue.
Queued(q, c) == \E i \in DOMAIN q : q[i].code = c

OrderInv ==
    /\ Ordered(queue, wire, market)
    /\ \A c \in Codes : latest[c].time <= market[c]

\* A live tick that is late for the price of now will be stopped by the watermark,
\* and no snapshot that is to come takes the watermark away from before it.
Behind(c, t) == Awaited(queue, wire, c, t) /\ seen[c].since < t /\ t < latest[c].time

PriceInv ==
    \A c \in Codes : \A t \in Nat :
        ~latest[c].byOrder /\ Behind(c, t) =>
            /\ t <= seen[c].watermark
            /\ \A s \in Nat : Fresh(queue, c, s) => latest[c].time <= s + 1

\* Outside of a change the connection has the channels that were confirmed.
ChannelsInv ==
    /\ sub.subscribed \cup sub.failed \subseteq sub.requested
    /\ pc \in {"replacing", "starting"} => sub.subscribed = {}
    /\ pc = "starting" => conn = "none"
    /\ pc \in {"observe", "publish"} /\ conn # "none" => channels = sub.subscribed

\* A code whose snapshot was asked for has a price or will be told one, or has lost it.
Expected(c) ==
    \/ latest[c] # None
    \/ \E i \in DOMAIN jobs : c \in jobs[i].codes
    \/ Queued(queue, c)
SnapshotInv == \A c \in boot.requested \ skipped : Expected(c)

LoopInv == LoopTypes /\ ChannelsInv
IngestInv == IngestTypes /\ OrderInv /\ PriceInv /\ SnapshotInv
FeedInv == LoopInv /\ IngestInv

-----------------------------------------------------------------------------
(* Sequences of ticks.                                                     *)

LEMMA TailFacts ==
    ASSUME NEW S, NEW s \in Seq(S), s # <<>>
    PROVE  /\ Tail(s) \in Seq(S) /\ Head(s) = s[1] /\ 1 \in DOMAIN s /\ s[1] \in S
           /\ \A i \in DOMAIN Tail(s) : i + 1 \in DOMAIN s /\ Tail(s)[i] = s[i + 1]
           /\ Len(Tail(s)) = Len(s) - 1 /\ DOMAIN Tail(s) \subseteq Nat \ {0}
           /\ \A i \in DOMAIN s : i # 1 => i - 1 \in DOMAIN Tail(s) /\ s[i] = Tail(s)[i - 1]
OBVIOUS

LEMMA AppendFacts ==
    ASSUME NEW S, NEW s \in Seq(S), NEW x \in S
    PROVE  /\ Append(s, x) \in Seq(S) /\ Len(Append(s, x)) = Len(s) + 1
           /\ Len(s) \in Nat /\ Len(s) + 1 \notin DOMAIN s /\ DOMAIN s \subseteq 1 .. Len(s)
           /\ \A i \in DOMAIN s : i \in DOMAIN Append(s, x) /\ Append(s, x)[i] = s[i]
           /\ Len(s) + 1 \in DOMAIN Append(s, x) /\ Append(s, x)[Len(s) + 1] = x
           /\ \A i \in DOMAIN Append(s, x) : i \in DOMAIN s \/ i = Len(s) + 1
OBVIOUS

\* The market moves on, and the tick is sent or not.
LEMMA TickIsSent ==
    ASSUME NEW q \in Seq(QueueTick), NEW w \in Seq(WireTick), NEW m \in [Codes -> Nat \ {0}],
           Ordered(q, w, m), NEW c \in Codes,
           NEW x \in WireTick, x.code = c, x.time = m[c] + 1,
           NEW n \in [Codes -> Nat \ {0}], n[c] = m[c] + 1, \A d \in Codes \ {c} : n[d] = m[d]
    PROVE  Ordered(q, w, n) /\ Ordered(q, Append(w, x), n)
<1>0. \A d \in Codes : m[d] \in Nat /\ n[d] \in Nat
  OBVIOUS
<1>1. /\ x \in WireTick /\ x.code = c /\ x.time = m[c] + 1 /\ m[c] \in Nat
      /\ \A d \in Codes : m[d] <= n[d] /\ m[d] \in Nat /\ n[d] \in Nat
      /\ n[c] = m[c] + 1
  BY <1>0
<1>2. /\ \A i \in DOMAIN q : q[i].code \in Codes /\ q[i].time \in Nat
      /\ \A i \in DOMAIN w : w[i].code \in Codes /\ w[i].time \in Nat
  <2>1. (\A i \in DOMAIN q : q[i] \in QueueTick) /\ \A i \in DOMAIN w : w[i] \in WireTick
    OBVIOUS
  <2> QED  BY <2>1 DEF QueueTick, WireTick
<1>3. Ordered(q, w, n)
  BY <1>1, <1>2 DEF Ordered
<1> DEFINE v == Append(w, x)
<1>4. /\ \A i \in DOMAIN w : i \in DOMAIN v /\ v[i] = w[i] /\ i < Len(w) + 1
      /\ v[Len(w) + 1] = x
      /\ \A i \in DOMAIN v : i \in DOMAIN w \/ i = Len(w) + 1
      /\ Len(w) \in Nat /\ DOMAIN w \subseteq Nat
  BY <1>1, AppendFacts
<1> HIDE DEF v
<1>5. Ordered(q, v, n)
  <2>1. \A i \in DOMAIN v : v[i].time \in 1 .. n[v[i].code]
    BY <1>1, <1>3, <1>4 DEF Ordered
  <2>2. ASSUME NEW i \in DOMAIN v, NEW j \in DOMAIN v, i < j, v[i].code = v[j].code
        PROVE  v[i].time < v[j].time
    <3>1. i \in DOMAIN w
      <4>1. i = Len(w) + 1 => ~(j \in DOMAIN w) /\ j # Len(w) + 1
        BY <1>4, <2>2
      <4> QED  BY <1>4, <4>1
    <3>2. CASE j \in DOMAIN w
      BY <1>3, <1>4, <2>2, <3>1, <3>2 DEF Ordered
    <3>3. CASE j = Len(w) + 1
      <4>1. w[i].code = c /\ w[i].time \in 1 .. m[c] /\ v[j].time = m[c] + 1
        BY <1>1, <1>4, <2>2, <3>1, <3>3 DEF Ordered
      <4> QED  BY <1>1, <1>4, <3>1, <4>1
    <3> QED  BY <1>4, <3>2, <3>3
  <2>3. ASSUME NEW i \in DOMAIN q, NEW j \in DOMAIN v, q[i].kind = "LIVE", q[i].code = v[j].code
        PROVE  q[i].time < v[j].time
    <3>1. CASE j \in DOMAIN w
      BY <1>3, <1>4, <2>3, <3>1 DEF Ordered
    <3>2. CASE j = Len(w) + 1
      <4>1. q[i].time \in 1 .. m[c] /\ v[j].time = m[c] + 1
        BY <1>1, <1>4, <2>3, <3>2 DEF Ordered
      <4> QED  BY <1>1, <4>1
    <3> QED  BY <1>4, <3>1, <3>2
  <2> QED  BY <1>3, <2>1, <2>2, <2>3 DEF Ordered
<1> QED  BY <1>3, <1>5 DEF v

LEMMA SentIsAwaited ==
    ASSUME NEW q, NEW w \in Seq(WireTick), NEW x \in WireTick
    PROVE  \A c \in Codes, t \in Nat : Awaited(q, Append(w, x), c, t) =>
              Awaited(q, w, c, t) \/ (c = x.code /\ t = x.time)
BY AppendFacts DEF Awaited

\* A tick leaves the wire.
LEMMA WireMoves ==
    ASSUME NEW q \in Seq(QueueTick), NEW w \in Seq(WireTick), NEW m \in [Codes -> Nat \ {0}],
           Ordered(q, w, m), w # <<>>
    PROVE  /\ Tail(w) \in Seq(WireTick) /\ Ordered(q, Tail(w), m)
           /\ \A d \in Codes, t \in Nat : Awaited(q, Tail(w), d, t) => Awaited(q, w, d, t)
<1>1. Ordered(q, Tail(w), m)
  <2>1. /\ \A i \in DOMAIN Tail(w) : i + 1 \in DOMAIN w /\ Tail(w)[i] = w[i + 1]
        /\ DOMAIN Tail(w) \subseteq Nat
    BY TailFacts
  <2> QED  BY <2>1 DEF Ordered
<1>2. \A d \in Codes, t \in Nat : Awaited(q, Tail(w), d, t) => Awaited(q, w, d, t)
  BY TailFacts DEF Awaited
<1> QED  BY <1>1, <1>2, TailFacts

\* The tick goes into the queue.
LEMMA TickIsQueued ==
    ASSUME NEW q \in Seq(QueueTick), NEW w \in Seq(WireTick), NEW m \in [Codes -> Nat \ {0}],
           Ordered(q, w, m), w # <<>>, NEW x \in QueueTick,
           x.code = Head(w).code, x.time = Head(w).time, x.kind = "LIVE"
    PROVE  /\ Append(q, x) \in Seq(QueueTick) /\ Len(Append(q, x)) = Len(q) + 1
           /\ Ordered(Append(q, x), Tail(w), m)
           /\ \A d \in Codes, t \in Nat :
                 /\ Awaited(Append(q, x), Tail(w), d, t) => Awaited(q, w, d, t)
                 /\ Fresh(Append(q, x), d, t) => Fresh(q, d, t)
           /\ \A d \in Codes : Queued(q, d) => Queued(Append(q, x), d)
<1>1. /\ Head(w) = w[1] /\ 1 \in DOMAIN w /\ w[1] \in WireTick
      /\ \A i \in DOMAIN Tail(w) : i + 1 \in DOMAIN w /\ Tail(w)[i] = w[i + 1] /\ 1 < i + 1
      /\ DOMAIN Tail(w) \subseteq Nat
  BY TailFacts
<1>2. x \in QueueTick /\ x.code = w[1].code /\ x.time = w[1].time /\ x.kind = "LIVE"
      /\ w[1].code \in Codes /\ w[1].time \in Nat
  BY <1>1 DEF WireTick
<1> DEFINE p == Append(q, x)
<1>3. /\ p \in Seq(QueueTick) /\ Len(p) = Len(q) + 1
      /\ \A i \in DOMAIN q : i \in DOMAIN p /\ p[i] = q[i] /\ i < Len(q) + 1
      /\ p[Len(q) + 1] = x
      /\ \A i \in DOMAIN p : i \in DOMAIN q \/ i = Len(q) + 1
      /\ Len(q) \in Nat /\ DOMAIN q \subseteq Nat
  BY <1>2, AppendFacts
<1> HIDE DEF p
<1>4. Ordered(q, Tail(w), m)
  BY WireMoves
<1>5. Ordered(p, Tail(w), m)
  <2>1. \A i \in DOMAIN p : p[i].time \in 1 .. m[p[i].code]
    BY <1>1, <1>2, <1>3 DEF Ordered
  <2>2. ASSUME NEW i \in DOMAIN p, NEW j \in DOMAIN p, i < j, p[i].code = p[j].code
        PROVE  Follows(p[i], p[j])
    <3>1. i \in DOMAIN q
      BY <1>3, <2>2
    <3>2. CASE j \in DOMAIN q
      BY <1>3, <2>2, <3>1, <3>2 DEF Ordered
    <3>3. CASE j = Len(q) + 1
      BY <1>1, <1>2, <1>3, <2>2, <3>1, <3>3 DEF Ordered, Follows
    <3> QED  BY <1>3, <3>2, <3>3
  <2>3. ASSUME NEW i \in DOMAIN p, NEW j \in DOMAIN Tail(w), p[i].kind = "LIVE",
               p[i].code = Tail(w)[j].code
        PROVE  p[i].time < Tail(w)[j].time
    <3>1. CASE i \in DOMAIN q
      BY <1>3, <1>4, <2>3, <3>1 DEF Ordered
    <3>2. CASE i = Len(q) + 1
      BY <1>1, <1>2, <1>3, <2>3, <3>2 DEF Ordered
    <3> QED  BY <1>3, <3>1, <3>2
  <2> QED  BY <1>4, <2>1, <2>2, <2>3 DEF Ordered
<1>6. ASSUME NEW d \in Codes, NEW t \in Nat
      PROVE  /\ Awaited(p, Tail(w), d, t) => Awaited(q, w, d, t)
             /\ Fresh(p, d, t) => Fresh(q, d, t)
  BY <1>1, <1>2, <1>3 DEF Awaited, Fresh
<1>7. \A d \in Codes : Queued(q, d) => Queued(p, d)
  BY <1>3 DEF Queued
<1> QED  BY <1>3, <1>5, <1>6, <1>7 DEF p

\* The consumer takes a tick from the queue.
LEMMA QueueMoves ==
    ASSUME NEW q \in Seq(QueueTick), NEW w \in Seq(WireTick), NEW m \in [Codes -> Nat \ {0}],
           Ordered(q, w, m), q # <<>>
    PROVE  /\ Tail(q) \in Seq(QueueTick) /\ Len(Tail(q)) <= Len(q) /\ Ordered(Tail(q), w, m)
           /\ Head(q) \in QueueTick /\ Head(q).time \in 1 .. m[Head(q).code]
           /\ \A d \in Codes, t \in Nat :
                 /\ Awaited(Tail(q), w, d, t) => Awaited(q, w, d, t)
                 /\ Fresh(Tail(q), d, t) => Fresh(q, d, t)
           /\ \A d \in Codes : Queued(q, d) => d = Head(q).code \/ Queued(Tail(q), d)
           /\ Head(q).kind = "LIVE" => \A t \in Nat :
                 /\ Awaited(q, w, Head(q).code, Head(q).time)
                 /\ Awaited(Tail(q), w, Head(q).code, t) => Head(q).time < t
           /\ Head(q).kind = "REST" => \A t \in Nat :
                 /\ Head(q).current => Fresh(q, Head(q).code, Head(q).time)
                 /\ Fresh(Tail(q), Head(q).code, t) => Head(q).time <= t + 1
<1>1. /\ Tail(q) \in Seq(QueueTick) /\ Head(q) = q[1] /\ 1 \in DOMAIN q /\ q[1] \in QueueTick
      /\ \A i \in DOMAIN Tail(q) : i + 1 \in DOMAIN q /\ Tail(q)[i] = q[i + 1] /\ 1 < i + 1
      /\ Len(Tail(q)) <= Len(q) /\ DOMAIN Tail(q) \subseteq Nat
      /\ \A i \in DOMAIN q : i # 1 => i - 1 \in DOMAIN Tail(q) /\ q[i] = Tail(q)[i - 1]
  <2>1. Len(q) \in Nat /\ Len(Tail(q)) = Len(q) - 1
    OBVIOUS
  <2> QED  BY <2>1, TailFacts
<1>2. Ordered(Tail(q), w, m)
  BY <1>1 DEF Ordered
<1>3. Head(q).time \in 1 .. m[Head(q).code]
  BY <1>1 DEF Ordered
<1>4. ASSUME NEW d \in Codes, NEW t \in Nat
      PROVE  /\ Awaited(Tail(q), w, d, t) => Awaited(q, w, d, t)
             /\ Fresh(Tail(q), d, t) => Fresh(q, d, t)
  BY <1>1 DEF Awaited, Fresh
<1>5. \A d \in Codes : Queued(q, d) => d = Head(q).code \/ Queued(Tail(q), d)
  BY <1>1 DEF Queued
<1>6. ASSUME Head(q).kind = "LIVE", NEW t \in Nat
      PROVE  /\ Awaited(q, w, Head(q).code, Head(q).time)
             /\ Awaited(Tail(q), w, Head(q).code, t) => Head(q).time < t
  <2>1. Awaited(q, w, Head(q).code, Head(q).time)
    BY <1>1, <1>6 DEF Awaited
  <2>2. ASSUME NEW i \in DOMAIN Tail(q), Tail(q)[i].kind = "LIVE", Tail(q)[i].code = Head(q).code
        PROVE  Head(q).time < Tail(q)[i].time
    BY <1>1, <1>6, <2>2 DEF Ordered, Follows
  <2>3. ASSUME NEW i \in DOMAIN w, w[i].code = Head(q).code PROVE Head(q).time < w[i].time
    BY <1>1, <1>6, <2>3 DEF Ordered
  <2> QED  BY <2>1, <2>2, <2>3 DEF Awaited
<1>7. ASSUME Head(q).kind = "REST", NEW t \in Nat
      PROVE  /\ Head(q).current => Fresh(q, Head(q).code, Head(q).time)
             /\ Fresh(Tail(q), Head(q).code, t) => Head(q).time <= t + 1
  <2>1. Head(q).current => Fresh(q, Head(q).code, Head(q).time)
    BY <1>1, <1>7 DEF Fresh
  <2>2. ASSUME NEW i \in DOMAIN Tail(q), Tail(q)[i].kind = "REST", Tail(q)[i].code = Head(q).code
        PROVE  Head(q).time <= Tail(q)[i].time + 1
    BY <1>1, <1>7, <2>2 DEF Ordered, Follows
  <2> QED  BY <2>1, <2>2 DEF Fresh
<1> QED  BY <1>1, <1>2, <1>3, <1>4, <1>5, <1>6, <1>7

\* A snapshot is not older than the tick before the market's last.
Newest(x, m) ==
    x.kind = "REST" /\ x.time \in 1 .. m[x.code] /\ m[x.code] <= x.time + 1

\* Snapshots of different codes come into the queue.
LEMMA SnapshotsCome ==
    ASSUME NEW q \in Seq(QueueTick), NEW w \in Seq(WireTick), NEW m \in [Codes -> Nat \ {0}],
           Ordered(q, w, m), NEW s \in Seq(QueueTick),
           \A i \in DOMAIN s : Newest(s[i], m),
           \A i, j \in DOMAIN s : s[i].code = s[j].code => i = j
    PROVE  /\ q \o s \in Seq(QueueTick) /\ Ordered(q \o s, w, m)
           /\ Len(q \o s) = Len(q) + Len(s)
           /\ \A d \in Codes, t \in Nat :
                 /\ Awaited(q \o s, w, d, t) => Awaited(q, w, d, t)
                 /\ Fresh(q \o s, d, t) => Fresh(q, d, t) \/ m[d] <= t + 1
           /\ \A d \in Codes : 
                 Queued(q, d) \/ Queued(s, d) => Queued(q \o s, d)
<1>0. \A i \in DOMAIN s : /\ s[i].kind = "REST" /\ s[i].time \in 1 .. m[s[i].code]
                          /\ m[s[i].code] <= s[i].time + 1
  BY DEF Newest
<1> DEFINE p == q \o s
           n == Len(q)
<1>1. /\ p \in Seq(QueueTick) /\ Len(p) = n + Len(s) /\ n \in Nat
      /\ \A i \in DOMAIN q : i \in DOMAIN p /\ p[i] = q[i] /\ i <= n /\ i \in Nat
      /\ \A i \in DOMAIN s : n + i \in DOMAIN p /\ p[n + i] = s[i] /\ i \in Nat /\ 1 <= i
  OBVIOUS
<1>2. \A i \in DOMAIN p : i \in Nat /\ (i \in DOMAIN q \/ (i - n \in DOMAIN s /\ n + (i - n) = i))
  OBVIOUS
<1>3. /\ \A i \in DOMAIN q : q[i] \in QueueTick /\ q[i].code \in Codes /\ q[i].time \in Nat
      /\ \A i \in DOMAIN s : s[i] \in QueueTick /\ s[i].code \in Codes /\ s[i].time \in Nat
      /\ \A c \in Codes : m[c] \in Nat
  <2>1. (\A i \in DOMAIN q : q[i] \in QueueTick) /\ \A i \in DOMAIN s : s[i] \in QueueTick
    OBVIOUS
  <2> QED  BY <2>1 DEF QueueTick
<1> HIDE DEF p, n
<1>4. Ordered(p, w, m)
  <2>1. ASSUME NEW i \in DOMAIN p PROVE p[i].time \in 1 .. m[p[i].code]
    <3>1. CASE i \in DOMAIN q
      BY <1>1, <3>1 DEF Ordered
    <3>2. CASE i - n \in DOMAIN s /\ n + (i - n) = i
      BY <1>0, <1>1, <3>2
    <3> QED  BY <1>2, <3>1, <3>2
  <2>2. ASSUME NEW i \in DOMAIN p, NEW j \in DOMAIN p, i < j, p[i].code = p[j].code
        PROVE  Follows(p[i], p[j])
    <3>1. CASE j \in DOMAIN q
      <4>1. i \in DOMAIN q
        BY <1>1, <1>2, <2>2, <3>1
      <4> QED  BY <1>1, <2>2, <3>1, <4>1 DEF Ordered
    <3>2. CASE j - n \in DOMAIN s /\ n + (j - n) = j
      <4>1. CASE i \in DOMAIN q
        <5>1. p[i] = q[i] /\ p[j] = s[j - n]
          BY <1>1, <3>2, <4>1
        <5>2. q[i].time \in 1 .. m[q[i].code]
          BY <4>1 DEF Ordered
        <5>3. s[j - n].kind = "REST" /\ m[s[j - n].code] <= s[j - n].time + 1
          BY <1>0, <3>2
        <5> QED  BY <1>3, <2>2, <3>2, <4>1, <5>1, <5>2, <5>3 DEF Follows
      <4>2. CASE i - n \in DOMAIN s /\ n + (i - n) = i
        <5>1. p[i] = s[i - n] /\ p[j] = s[j - n]
          BY <1>1, <3>2, <4>2
        <5>2. i - n = j - n
          BY <2>2, <3>2, <4>2, <5>1
        <5> QED  BY <1>1, <1>2, <2>2, <5>2
      <4> QED  BY <1>2, <4>1, <4>2
    <3> QED  BY <1>2, <3>1, <3>2
  <2>3. ASSUME NEW i \in DOMAIN p, NEW j \in DOMAIN w, p[i].kind = "LIVE", p[i].code = w[j].code
        PROVE  p[i].time < w[j].time
    <3>1. i \in DOMAIN q
      BY <1>0, <1>1, <1>2, <2>3
    <3> QED  BY <1>1, <2>3, <3>1 DEF Ordered
  <2> QED  BY <2>1, <2>2, <2>3 DEF Ordered
<1>5. ASSUME NEW d \in Codes, NEW t \in Nat
      PROVE  /\ Awaited(p, w, d, t) => Awaited(q, w, d, t)
             /\ Fresh(p, d, t) => Fresh(q, d, t) \/ m[d] <= t + 1
  <2>1. \A i \in DOMAIN p : p[i].kind = "LIVE" => i \in DOMAIN q /\ p[i] = q[i]
    <3>1. \A i \in DOMAIN s : p[n + i].kind = "REST"
      BY <1>0, <1>1
    <3> QED  BY <1>1, <1>2, <3>1
  <2>2. Awaited(p, w, d, t) => Awaited(q, w, d, t)
    BY <2>1 DEF Awaited
  <2>3. ASSUME NEW i \in DOMAIN p, p[i].kind = "REST", p[i].current, p[i].code = d, p[i].time = t
        PROVE  Fresh(q, d, t) \/ m[d] <= t + 1
    <3>1. CASE i \in DOMAIN q
      BY <1>1, <2>3, <3>1 DEF Fresh
    <3>2. CASE i - n \in DOMAIN s /\ n + (i - n) = i
      <4>1. p[i] = s[i - n]
        BY <1>1, <3>2
      <4>2. m[s[i - n].code] <= s[i - n].time + 1
        BY <1>0, <3>2
      <4> QED  BY <2>3, <4>1, <4>2
    <3> QED  BY <1>2, <3>1, <3>2
  <2>4. Fresh(p, d, t) => Fresh(q, d, t) \/ m[d] <= t + 1
    BY <2>3 DEF Fresh
  <2> QED  BY <2>2, <2>4
<1>6. \A d \in Codes : 
         Queued(q, d) \/ Queued(s, d) => Queued(p, d)
  BY <1>1 DEF Queued
<1> QED  BY <1>1, <1>4, <1>5, <1>6 DEF p, n

\* What is in the queue is of an older generation now.
LEMMA TicksOutdated ==
    ASSUME NEW q \in Seq(QueueTick), NEW w, NEW m, Ordered(q, w, m)
    PROVE  /\ Outdated(q) \in Seq(QueueTick) /\ Len(Outdated(q)) = Len(q)
           /\ Ordered(Outdated(q), w, m) /\ Ordered(Outdated(q), <<>>, m)
           /\ \A d \in Codes, t \in Nat :
                 /\ Awaited(Outdated(q), w, d, t) => Awaited(q, w, d, t)
                 /\ Awaited(Outdated(q), <<>>, d, t) => Awaited(q, w, d, t)
                 /\ ~Fresh(Outdated(q), d, t)
           /\ \A d \in Codes : Queued(q, d) => Queued(Outdated(q), d)
<1> DEFINE p == Outdated(q)
<1>1. \A i \in DOMAIN q : q[i] \in QueueTick
  OBVIOUS
<1>2. \A i \in DOMAIN q : /\ [q[i] EXCEPT !.current = FALSE] \in QueueTick
                          /\ [q[i] EXCEPT !.current = FALSE].code = q[i].code
                          /\ [q[i] EXCEPT !.current = FALSE].time = q[i].time
                          /\ [q[i] EXCEPT !.current = FALSE].kind = q[i].kind
                          /\ ~[q[i] EXCEPT !.current = FALSE].current
  BY <1>1 DEF QueueTick
<1>3. /\ DOMAIN p = DOMAIN q
      /\ \A i \in DOMAIN q : /\ p[i] \in QueueTick /\ p[i].code = q[i].code
                             /\ p[i].time = q[i].time /\ p[i].kind = q[i].kind /\ ~p[i].current
  BY <1>2 DEF Outdated
<1>4. p \in Seq(QueueTick) /\ Len(p) = Len(q)
  <2>1. DOMAIN q = 1 .. Len(q) /\ Len(q) \in Nat
    OBVIOUS
  <2>2. p \in [1 .. Len(q) -> QueueTick]
    BY <1>2, <2>1 DEF Outdated
  <2> HIDE DEF p
  <2> QED  BY <2>1, <2>2
<1> HIDE DEF p
<1>5. Ordered(p, w, m)
  BY <1>3 DEF Ordered, Follows
<1>6. Ordered(p, <<>>, m)
  <2>1. DOMAIN <<>> = {}
    OBVIOUS
  <2> QED  BY <1>5, <2>1 DEF Ordered
<1>7. ASSUME NEW d \in Codes, NEW t \in Nat
      PROVE  /\ Awaited(p, w, d, t) => Awaited(q, w, d, t)
             /\ Awaited(p, <<>>, d, t) => Awaited(q, w, d, t)
             /\ ~Fresh(p, d, t)
  BY <1>3 DEF Awaited, Fresh
<1>8. \A d \in Codes : Queued(q, d) => Queued(p, d)
  BY <1>3 DEF Queued
<1> QED  BY <1>4, <1>5, <1>6, <1>7, <1>8 DEF p

LEMMA JobsOutdated ==
    ASSUME NEW s \in Seq(Job)
    PROVE  /\ Outdated(s) \in Seq(Job) /\ DOMAIN Outdated(s) = DOMAIN s
           /\ \A i \in DOMAIN s : Outdated(s)[i].codes = s[i].codes
<1>1. \A i \in DOMAIN s : s[i] \in Job
  OBVIOUS
<1>2. \A i \in DOMAIN s : /\ [s[i] EXCEPT !.current = FALSE] \in Job
                          /\ [s[i] EXCEPT !.current = FALSE].codes = s[i].codes
  BY <1>1 DEF Job
<1>3. DOMAIN s = 1 .. Len(s) /\ Len(s) \in Nat
  OBVIOUS
<1>4. Outdated(s) \in [1 .. Len(s) -> Job]
  BY <1>2, <1>3 DEF Outdated
<1>5. Outdated(s) \in Seq(Job)
  <2> HIDE DEF Outdated
  <2> QED  BY <1>3, <1>4
<1> QED  BY <1>2, <1>5 DEF Outdated

LEMMA TheLarger ==
    ASSUME NEW a \in Int, NEW b \in Int
    PROVE  Max({a, b}) \in {a, b} /\ Max({a, b}) >= a /\ Max({a, b}) >= b
<1>1. \E x \in {a, b} : \A y \in {a, b} : x >= y
  BY a >= b \/ b >= a
<1> QED  BY <1>1 DEF Max

LEMMA TheSmaller ==
    ASSUME NEW a \in Nat, NEW b \in Nat
    PROVE  Min({a, b}) \in Nat /\ Min({a, b}) <= a /\ Min({a, b}) <= b
<1>1. {a, b} \subseteq Nat
  OBVIOUS
<1> QED  BY <1>1, MinBelongs

\* What the database holds is one tick behind at most.
LEMMA StoredTicks ==
    ASSUME market \in [Codes -> Nat \ {0}], NEW c \in Codes, NEW lag \in {0, 1}
    PROVE  Stored(c, lag) \in 1 .. market[c] /\ market[c] <= Stored(c, lag) + 1
<1>1. market[c] \in Nat \ {0} /\ market[c] - lag \in Int
  OBVIOUS
<1>2. /\ Stored(c, lag) \in {1, market[c] - lag}
      /\ Stored(c, lag) >= 1 /\ Stored(c, lag) >= market[c] - lag
  <2>1. PICK n \in Int : n = market[c] - lag
    BY <1>1
  <2>2. Max({1, n}) \in {1, n} /\ Max({1, n}) >= 1 /\ Max({1, n}) >= n
    BY TheLarger
  <2> QED  BY <2>1, <2>2 DEF Stored
<1> QED  BY <1>1, <1>2

\* A query brings one snapshot of each of its codes.
LEMMA SnapshotsOfJob ==
    ASSUME market \in [Codes -> Nat \ {0}], NEW job \in Job, NEW lag \in {0, 1}
    PROVE  /\ Snapshots(job, lag) \in Seq(QueueTick)
           /\ \A i \in DOMAIN Snapshots(job, lag) : Newest(Snapshots(job, lag)[i], market)
           /\ \A i, j \in DOMAIN Snapshots(job, lag) :
                 Snapshots(job, lag)[i].code = Snapshots(job, lag)[j].code => i = j
           /\ \A c \in job.codes : Queued(Snapshots(job, lag), c)
<1> DEFINE s == job.codes
           n == Cardinality(s)
           codes == SetToSeq(s)
           answers == Snapshots(job, lag)
           tick(c) == [code |-> c, time |-> Stored(c, lag), kind |-> "REST",
                       current |-> job.current]
<1>1. s \subseteq Codes /\ IsFiniteSet(s) /\ n \in Nat /\ job.current \in BOOLEAN
  <2>1. s \subseteq Codes /\ job.current \in BOOLEAN
    BY DEF Job
  <2> QED  BY <2>1, FeedAssumption, FS_Subset, FS_CardinalityType
<1>2. \E f \in [1 .. n -> s] : IsInjective(f)
  <2>1. \E f : f \in Bijection(1 .. n, s)
    BY <1>1, FS_CardinalityType DEF ExistsBijection
  <2> QED  BY <2>1 DEF Bijection, Injection
<1>3. codes \in [1 .. n -> s] /\ IsInjective(codes)
  BY <1>2 DEF SetToSeq
<1>4. \A c \in s : \E i \in 1 .. n : codes[i] = c
  <2>1. codes \in Injection(1 .. n, s) /\ IsFiniteSet(1 .. n) /\ Cardinality(1 .. n) = n
    BY <1>1, <1>3, FS_Interval DEF Injection
  <2>2. codes \in Surjection(1 .. n, s)
    BY <1>1, <2>1, FS_Surjection, FS_Injection
  <2> QED  BY <2>2 DEF Surjection
<1>5. \A i, j \in 1 .. n : codes[i] = codes[j] => i = j
  BY <1>3 DEF IsInjective
<1>6. ASSUME NEW c \in s
      PROVE  /\ tick(c) \in QueueTick /\ tick(c).code = c /\ tick(c).kind = "REST"
             /\ tick(c).time \in 1 .. market[c] /\ market[c] <= tick(c).time + 1
  <2>1. c \in Codes
    BY <1>1
  <2>2. Stored(c, lag) \in 1 .. market[c] /\ market[c] <= Stored(c, lag) + 1
    BY <2>1, StoredTicks
  <2>3. Stored(c, lag) \in Nat
    BY <2>1, <2>2
  <2> QED  BY <1>1, <2>1, <2>2, <2>3 DEF QueueTick
<1>7. answers = [i \in 1 .. n |-> tick(codes[i])]
  BY <1>3 DEF Snapshots
<1> HIDE DEF tick, codes, answers, n, s
<1>8. \A i \in 1 .. n : codes[i] \in s /\ answers[i] = tick(codes[i])
  BY <1>3, <1>7
<1>9. answers \in [1 .. n -> QueueTick] /\ DOMAIN answers = 1 .. n
  BY <1>6, <1>7, <1>8
<1>10. answers \in Seq(QueueTick)
  BY <1>1, <1>9
<1>11. \A i \in DOMAIN answers : Newest(answers[i], market)
  BY <1>6, <1>8, <1>9 DEF Newest
<1>12. \A i, j \in DOMAIN answers : answers[i].code = answers[j].code => i = j
  BY <1>5, <1>6, <1>8, <1>9
<1>13. \A c \in s : Queued(answers, c)
  BY <1>4, <1>6, <1>8, <1>9 DEF Queued
<1> QED  BY <1>10, <1>11, <1>12, <1>13 DEF answers, s

-----------------------------------------------------------------------------
(* What keeps the invariant.                                               *)

\* Nothing late has been added before the price of now, and the marks that have
\* changed are those of codes that have been given up.
LEMMA PriceKept ==
    ASSUME PriceInv, IngestTypes,
           \A c \in Codes : latest'[c] = latest[c] \/ latest'[c].byOrder,
           \A c \in Codes : seen'[c] = seen[c] \/
              \A t \in Nat : Awaited(queue, wire, c, t)' => t <= seen'[c].since,
           \A c \in Codes, t \in Nat :
              Awaited(queue, wire, c, t)' =>
                  Awaited(queue, wire, c, t) \/ latest[c].time <= t,
           \A c \in Codes, t \in Nat :
              Fresh(queue, c, t)' => Fresh(queue, c, t) \/ latest[c].time <= t + 1,
           seen' \in [Codes -> Mark]
    PROVE  PriceInv'
<1> SUFFICES ASSUME NEW c \in Codes, NEW t \in Nat, ~latest'[c].byOrder, Behind(c, t)'
             PROVE  /\ t <= seen'[c].watermark
                    /\ \A s \in Nat : Fresh(queue, c, s)' => latest'[c].time <= s + 1
  BY DEF PriceInv
<1>1. latest'[c] = latest[c] /\ latest[c].time \in Nat /\ seen'[c].since \in Nat
  BY DEF IngestTypes, Price, Mark
<1>2. Awaited(queue, wire, c, t)' /\ seen'[c].since < t /\ t < latest[c].time
  BY <1>1 DEF Behind
<1>3. seen'[c] = seen[c]
  BY <1>1, <1>2
<1>4. Awaited(queue, wire, c, t)
  BY <1>1, <1>2
<1>5. Behind(c, t)
  BY <1>2, <1>3, <1>4 DEF Behind
<1>6. t <= seen[c].watermark /\ \A s \in Nat : Fresh(queue, c, s) => latest[c].time <= s + 1
  BY <1>1, <1>5 DEF PriceInv
<1> QED  BY <1>1, <1>3, <1>6

LEMMA NothingOnWire ==
    ASSUME NEW q, NEW w, NEW m, Ordered(q, w, m)
    PROVE  /\ <<>> \in Seq(WireTick) /\ Ordered(q, <<>>, m)
           /\ \A c \in Codes, t \in Nat : Awaited(q, <<>>, c, t) => Awaited(q, w, c, t)
<1>1. DOMAIN <<>> = {} /\ <<>> \in Seq(WireTick)
  OBVIOUS
<1> QED  BY <1>1 DEF Ordered, Awaited

\* A step of somebody else.
LEMMA IngestStays ==
    ASSUME IngestInv, UNCHANGED <<market, wire, ingest, latest, skipped>>
    PROVE  IngestInv'
<1>1. UNCHANGED <<market, wire, boot, jobs, queue, seen, latest, skipped>>
  BY DEF ingest
<1>2. IngestTypes'
  BY <1>1 DEF IngestInv, IngestTypes
<1>3. OrderInv'
  BY <1>1 DEF IngestInv, OrderInv
<1>4. PriceInv'
  BY <1>1 DEF IngestInv, PriceInv, Behind
<1>5. SnapshotInv'
  BY <1>1 DEF IngestInv, SnapshotInv, Expected
<1> QED  BY <1>2, <1>3, <1>4, <1>5 DEF IngestInv

\* Codes are scheduled to be queried, whatever becomes of the connection.
LEMMA SchedulingKeeps ==
    ASSUME IngestInv, NEW codes \in SUBSET Codes, Schedule(codes), wire' \in {wire, <<>>},
           UNCHANGED <<market, queue, seen, latest, skipped>>
    PROVE  IngestInv'
<1>1. IngestTypes /\ OrderInv /\ PriceInv /\ SnapshotInv
  BY DEF IngestInv
<1>2. wire' \in Seq(WireTick) /\ Ordered(queue', wire', market')
      /\ \A c \in Codes, t \in Nat :
            Awaited(queue', wire', c, t) => Awaited(queue, wire, c, t)
  BY <1>1, NothingOnWire DEF OrderInv, IngestTypes
<1> DEFINE added == codes \ (boot.requested \cup boot.retry)
           job == [codes |-> added, current |-> TRUE]
<1>3. /\ boot' \in [requested : SUBSET Codes, retry : SUBSET Codes] /\ jobs' \in Seq(Job)
      /\ \A c \in boot'.requested : c \in boot.requested \/ \E i \in DOMAIN jobs' : c \in jobs'[i].codes
      /\ \A c \in Codes : (\E i \in DOMAIN jobs : c \in jobs[i].codes) =>
            \E i \in DOMAIN jobs' : c \in jobs'[i].codes
  <2>1. CASE added = {}
    BY <1>1, <2>1 DEF Schedule, IngestTypes
  <2>2. CASE added # {}
    <3>1. /\ boot' = [boot EXCEPT !.requested = @ \cup added] /\ jobs' = Append(jobs, job)
      BY <2>2 DEF Schedule
    <3>2. job \in Job /\ job.codes = added /\ jobs \in Seq(Job)
      BY <1>1 DEF Job, IngestTypes
    <3> HIDE DEF job
    <3>3. /\ jobs' \in Seq(Job)
          /\ \A i \in DOMAIN jobs : i \in DOMAIN jobs' /\ jobs'[i] = jobs[i]
          /\ Len(jobs) + 1 \in DOMAIN jobs' /\ jobs'[Len(jobs) + 1] = job
      BY <3>1, <3>2, AppendFacts
    <3>4. /\ boot' \in [requested : SUBSET Codes, retry : SUBSET Codes]
          /\ boot'.requested = boot.requested \cup added
      BY <1>1, <3>1 DEF IngestTypes
    <3> QED  BY <3>2, <3>3, <3>4
  <2> QED  BY <2>1, <2>2
<1> HIDE DEF added, job
<1>4. IngestTypes'
  BY <1>1, <1>2, <1>3 DEF IngestTypes
<1>5. OrderInv'
  BY <1>1, <1>2 DEF OrderInv
<1>6. PriceInv'
  <2>1. \A c \in Codes, t \in Nat : Awaited(queue, wire, c, t)' =>
           Awaited(queue, wire, c, t) \/ latest[c].time <= t
    BY <1>2
  <2>2. \A c \in Codes, t \in Nat : Fresh(queue, c, t)' =>
           Fresh(queue, c, t) \/ latest[c].time <= t + 1
    BY DEF Fresh
  <2>3. seen' \in [Codes -> Mark]
    BY <1>1 DEF IngestTypes
  <2> QED  BY <1>1, <2>1, <2>2, <2>3, PriceKept
<1>7. SnapshotInv'
  <2>1. SUFFICES ASSUME NEW c \in boot'.requested \ skipped' PROVE Expected(c)'
    BY DEF SnapshotInv
  <2>2. CASE c \in boot.requested
    <3>1. c \in Codes /\ Expected(c)
      BY <1>1, <2>1, <2>2 DEF SnapshotInv, IngestTypes
    <3> QED  BY <1>3, <3>1 DEF Expected
  <2>3. CASE c \notin boot.requested
    BY <1>3, <2>1, <2>3 DEF Expected
  <2> QED  BY <2>2, <2>3
<1> QED  BY <1>4, <1>5, <1>6, <1>7 DEF IngestInv

\* A new generation: what is on its way is outdated, and codes may be forgotten.
LEMMA GenerationKeeps ==
    ASSUME IngestInv, queue' = Outdated(queue), jobs' = Outdated(jobs),
           wire' \in {wire, <<>>},
           boot' \in [requested : SUBSET Codes, retry : SUBSET Codes],
           boot'.requested \subseteq boot.requested,
           NEW codes, seen' \in {seen, Forgotten(codes)},
           UNCHANGED <<market, latest, skipped>>
    PROVE  IngestInv'
<1>1. IngestTypes /\ OrderInv /\ PriceInv /\ SnapshotInv
  BY DEF IngestInv
<1>2. queue \in Seq(QueueTick) /\ jobs \in Seq(Job) /\ Ordered(queue, wire, market)
  BY <1>1 DEF IngestTypes, OrderInv
<1>3. /\ queue' \in Seq(QueueTick) /\ Len(queue') = Len(queue) /\ wire' \in Seq(WireTick)
      /\ Ordered(queue', wire', market)
      /\ \A c \in Codes, t \in Nat :
            /\ Awaited(queue', wire', c, t) => Awaited(queue, wire, c, t)
            /\ ~Fresh(queue', c, t)
      /\ \A c \in Codes : Queued(queue, c) => Queued(queue', c)
  <2>0. <<>> \in Seq(WireTick)
    OBVIOUS
  <2>1. wire' \in Seq(WireTick)
    BY <1>1, <2>0 DEF IngestTypes
  <2>2. /\ queue' \in Seq(QueueTick) /\ Len(queue') = Len(queue)
        /\ Ordered(queue', wire, market') /\ Ordered(queue', <<>>, market')
        /\ \A c \in Codes, t \in Nat :
              /\ Awaited(queue', wire, c, t) => Awaited(queue, wire, c, t)
              /\ Awaited(queue', <<>>, c, t) => Awaited(queue, wire, c, t)
              /\ ~Fresh(queue', c, t)
        /\ \A c \in Codes : Queued(queue, c) => Queued(queue', c)
    BY <1>2, TicksOutdated
  <2>3. CASE wire' = wire
    BY <2>1, <2>2, <2>3
  <2>4. CASE wire' = <<>>
    BY <2>1, <2>2, <2>4
  <2> QED  BY <2>3, <2>4
<1>4. /\ jobs' \in Seq(Job) /\ DOMAIN jobs' = DOMAIN jobs
      /\ \A i \in DOMAIN jobs : jobs'[i].codes = jobs[i].codes
  BY <1>2, JobsOutdated
<1>5. seen' \in [Codes -> Mark]
      /\ \A c \in Codes : seen'[c] = seen[c] \/ seen'[c].since = market[c]
  <2>1. CASE seen' = seen
    BY <1>1, <2>1 DEF IngestTypes
  <2>2. CASE seen' = Forgotten(codes)
    <3>1. \A c \in Codes : [live |-> 0, watermark |-> 0, since |-> market[c]] \in Mark
      BY <1>1 DEF IngestTypes, Mark
    <3>2. \A c \in Codes : seen[c] \in Mark
      BY <1>1 DEF IngestTypes
    <3>3. seen' \in [Codes -> Mark]
      BY <2>2, <3>1, <3>2 DEF Forgotten
    <3>4. \A c \in Codes : seen'[c] = seen[c] \/ seen'[c].since = market[c]
      BY <2>2 DEF Forgotten
    <3> QED  BY <3>3, <3>4
  <2> QED  BY <2>1, <2>2
<1>6. IngestTypes'
  BY <1>1, <1>3, <1>4, <1>5 DEF IngestTypes
<1>7. OrderInv'
  BY <1>1, <1>3 DEF OrderInv
<1>8. PriceInv'
  <2>1. \A c \in Codes, t \in Nat : Awaited(queue, wire, c, t) => t <= market[c]
    <3>1. /\ \A i \in DOMAIN queue : queue[i].time \in 1 .. market[queue[i].code]
          /\ \A i \in DOMAIN wire : wire[i].time \in 1 .. market[wire[i].code]
      BY <1>2 DEF Ordered
    <3>2. \A c \in Codes : market[c] \in Nat
      BY <1>1 DEF IngestTypes
    <3> QED  BY <3>1, <3>2 DEF Awaited
  <2>2. \A c \in Codes : seen'[c] = seen[c] \/
           \A t \in Nat : Awaited(queue, wire, c, t)' => t <= seen'[c].since
    BY <1>3, <1>5, <2>1
  <2>3. \A c \in Codes, t \in Nat : Awaited(queue, wire, c, t)' =>
           Awaited(queue, wire, c, t) \/ latest[c].time <= t
    BY <1>3
  <2>4. \A c \in Codes, t \in Nat : Fresh(queue, c, t)' =>
           Fresh(queue, c, t) \/ latest[c].time <= t + 1
    BY <1>3
  <2> QED  BY <1>1, <1>5, <2>2, <2>3, <2>4, PriceKept
<1>9. SnapshotInv'
  <2>1. SUFFICES ASSUME NEW c \in boot'.requested \ skipped' PROVE Expected(c)'
    BY DEF SnapshotInv
  <2>2. Expected(c) /\ c \in Codes
    BY <1>1, <2>1 DEF SnapshotInv, IngestTypes
  <2> QED  BY <1>3, <1>4, <2>2 DEF Expected
<1> QED  BY <1>6, <1>7, <1>8, <1>9 DEF IngestInv

-----------------------------------------------------------------------------
(* The steps of the source, the snapshots and the consumer.                *)

LEMMA TickKeeps ==
    ASSUME IngestInv, NEW c \in Codes, Tick(c)
    PROVE  IngestInv'
<1>1. IngestTypes /\ OrderInv /\ PriceInv /\ SnapshotInv
  BY DEF IngestInv
<1>2. UNCHANGED <<boot, jobs, queue, seen, latest, skipped>>
  BY DEF Tick, ingest
<1>3. /\ market \in [Codes -> Nat \ {0}] /\ wire \in Seq(WireTick) /\ queue \in Seq(QueueTick)
      /\ Ordered(queue, wire, market) /\ market' = [market EXCEPT ![c] = @ + 1]
  BY <1>1 DEF IngestTypes, OrderInv, Tick
<1>x. PICK x \in WireTick : /\ x.code = c /\ x.time = market[c] + 1
                            /\ wire' \in {wire, Append(wire, x)}
  <2>1. [code |-> c, time |-> market[c] + 1] \in WireTick
    BY <1>3 DEF WireTick
  <2> QED  BY <2>1 DEF Tick
<1>n. /\ market' \in [Codes -> Nat \ {0}] /\ market'[c] = market[c] + 1
      /\ \A d \in Codes \ {c} : market'[d] = market[d]
  BY <1>3
<1>4. /\ Ordered(queue, wire, market') /\ Ordered(queue, Append(wire, x), market')
      /\ \A d \in Codes, t \in Nat : Awaited(queue, Append(wire, x), d, t) =>
            Awaited(queue, wire, d, t) \/ (d = c /\ t = market[c] + 1)
  <2>1. Ordered(queue, wire, market') /\ Ordered(queue, Append(wire, x), market')
    BY <1>3, <1>n, <1>x, TickIsSent
  <2> QED  BY <1>3, <1>x, <2>1, SentIsAwaited
<1>5. Append(wire, x) \in Seq(WireTick)
  BY <1>3, AppendFacts
<1>6. /\ wire' \in Seq(WireTick) /\ Ordered(queue', wire', market')
      /\ \A d \in Codes, t \in Nat : Awaited(queue', wire', d, t) =>
            Awaited(queue, wire, d, t) \/ (d = c /\ t = market[c] + 1)
  <2>1. CASE wire' = wire
    BY <1>2, <1>3, <1>4, <2>1
  <2>2. CASE wire' = Append(wire, x)
    BY <1>2, <1>4, <1>5, <2>2
  <2> QED  BY <1>x, <2>1, <2>2
<1>7. /\ market' \in [Codes -> Nat \ {0}]
      /\ \A d \in Codes : /\ latest[d].time \in Nat /\ latest[d].time <= market[d]
                          /\ market[d] \in Nat /\ market'[d] \in Nat /\ market[d] <= market'[d]
  <2>1. \A d \in Codes : market[d] \in Nat \ {0} /\ market[d] + 1 \in Nat \ {0}
    BY <1>3
  <2>2. market' \in [Codes -> Nat \ {0}]
    BY <1>3, <2>1
  <2>3. \A d \in Codes : market[d] \in Nat /\ market'[d] \in Nat /\ market[d] <= market'[d]
    BY <1>3, <2>1
  <2>4. \A d \in Codes : latest[d].time \in Nat /\ latest[d].time <= market[d]
    BY <1>1 DEF IngestTypes, OrderInv, Price
  <2> QED  BY <2>2, <2>3, <2>4
<1>8. IngestTypes'
  BY <1>1, <1>2, <1>6, <1>7 DEF IngestTypes
<1>9. OrderInv'
  BY <1>2, <1>6, <1>7 DEF OrderInv
<1>10. PriceInv'
  <2>1. \A d \in Codes, t \in Nat : Awaited(queue, wire, d, t)' =>
           Awaited(queue, wire, d, t) \/ latest[d].time <= t
    BY <1>6, <1>7
  <2>2. \A d \in Codes, t \in Nat : Fresh(queue, d, t)' =>
           Fresh(queue, d, t) \/ latest[d].time <= t + 1
    BY <1>2 DEF Fresh
  <2>3. seen' \in [Codes -> Mark]
    BY <1>1, <1>2 DEF IngestTypes
  <2> QED  BY <1>1, <1>2, <2>1, <2>2, <2>3, PriceKept
<1>11. SnapshotInv'
  BY <1>1, <1>2 DEF SnapshotInv, Expected
<1> QED  BY <1>8, <1>9, <1>10, <1>11 DEF IngestInv

\* The last price and the marks stay, and what is to come becomes less.
LEMMA LessToCome ==
    ASSUME IngestInv, IngestTypes', Ordered(queue', wire', market'), SnapshotInv',
           UNCHANGED <<market, seen, latest>>,
           \A c \in Codes, t \in Nat :
              /\ Awaited(queue, wire, c, t)' => Awaited(queue, wire, c, t)
              /\ Fresh(queue, c, t)' => Fresh(queue, c, t) \/ latest[c].time <= t + 1
    PROVE  IngestInv'
<1>1. OrderInv'
  BY DEF IngestInv, OrderInv
<1>2. PriceInv'
  <2>1. PriceInv /\ IngestTypes /\ seen' \in [Codes -> Mark]
    BY DEF IngestInv, IngestTypes
  <2> QED  BY <2>1, PriceKept
<1> QED  BY <1>1, <1>2 DEF IngestInv

LEMMA OnQuoteKeeps ==
    ASSUME IngestInv, OnQuote
    PROVE  IngestInv'
<1>1. IngestTypes /\ OrderInv /\ SnapshotInv
  BY DEF IngestInv
<1>2. /\ wire # <<>> /\ wire' = Tail(wire) /\ UNCHANGED <<market, boot, jobs, seen, latest, skipped>>
      /\ wire \in Seq(WireTick) /\ queue \in Seq(QueueTick) /\ market \in [Codes -> Nat \ {0}]
      /\ Ordered(queue, wire, market) /\ Len(queue) \in Nat
  BY <1>1 DEF OnQuote, IngestTypes, OrderInv
<1>3. wire' \in Seq(WireTick)
  BY <1>2, WireMoves
<1>4. CASE queue' = queue
  <2>1. /\ Ordered(queue', wire', market')
        /\ \A c \in Codes, t \in Nat : Awaited(queue', wire', c, t) => Awaited(queue, wire, c, t)
    BY <1>2, <1>4, WireMoves
  <2>2. IngestTypes'
    BY <1>1, <1>2, <1>3, <1>4 DEF IngestTypes
  <2>3. SnapshotInv'
    BY <1>1, <1>2, <1>4 DEF SnapshotInv, Expected
  <2>4. \A c \in Codes, t \in Nat : Fresh(queue, c, t)' => Fresh(queue, c, t)
    BY <1>4 DEF Fresh
  <2> QED  BY <1>2, <2>1, <2>2, <2>3, <2>4, LessToCome
<1>5. CASE queue' = Append(queue, Live(Head(wire))) /\ Len(queue) < QueueSize
  <2> DEFINE x == Live(Head(wire))
  <2>1. /\ queue' \in Seq(QueueTick) /\ Len(queue') = Len(queue) + 1
        /\ Ordered(queue', wire', market')
        /\ \A c \in Codes, t \in Nat :
              /\ Awaited(queue', wire', c, t) => Awaited(queue, wire, c, t)
              /\ Fresh(queue', c, t) => Fresh(queue, c, t)
        /\ \A c \in Codes : Queued(queue, c) => Queued(queue', c)
    <3>1. Head(wire).code \in Codes /\ Head(wire).time \in Nat
      <4>1. Head(wire) \in WireTick
        BY <1>2, TailFacts
      <4> QED  BY <4>1 DEF WireTick
    <3>2. /\ x \in QueueTick /\ x.code = Head(wire).code /\ x.time = Head(wire).time
          /\ x.kind = "LIVE"
      BY <3>1 DEF Live, QueueTick
    <3>3. queue' = Append(queue, x)
      BY <1>5
    <3> HIDE DEF x
    <3>4. /\ Append(queue, x) \in Seq(QueueTick) /\ Len(Append(queue, x)) = Len(queue) + 1
          /\ Ordered(Append(queue, x), Tail(wire), market)
          /\ \A c \in Codes, t \in Nat :
                /\ Awaited(Append(queue, x), Tail(wire), c, t) => Awaited(queue, wire, c, t)
                /\ Fresh(Append(queue, x), c, t) => Fresh(queue, c, t)
          /\ \A c \in Codes : Queued(queue, c) => Queued(Append(queue, x), c)
      BY <1>2, <3>2, TickIsQueued
    <3> QED  BY <1>2, <3>3, <3>4
  <2>2. Len(queue') <= QueueSize
    BY <1>2, <1>5, <2>1, FeedAssumption
  <2>3. IngestTypes'
    BY <1>1, <1>2, <1>3, <2>1, <2>2 DEF IngestTypes
  <2>4. SnapshotInv'
    <3>1. SUFFICES ASSUME NEW c \in boot'.requested \ skipped' PROVE Expected(c)'
      BY DEF SnapshotInv
    <3>2. Expected(c) /\ c \in Codes
      BY <1>1, <1>2, <3>1 DEF SnapshotInv, IngestTypes
    <3> QED  BY <1>2, <2>1, <3>2 DEF Expected
  <2> QED  BY <1>2, <2>1, <2>3, <2>4, LessToCome
<1> QED  BY <1>4, <1>5 DEF OnQuote

\* A code has lost its snapshot only if it has no price.
LEMMA LosersAreSkipped ==
    ASSUME NEW codes, NEW c \in codes, c \notin Lost(codes)
    PROVE  latest[c] # None
BY DEF Lost

LEMMA JobSucceedsKeeps ==
    ASSUME IngestInv, JobSucceeds
    PROVE  IngestInv'
<1>1. IngestTypes /\ OrderInv /\ SnapshotInv
  BY DEF IngestInv
<1>2. PICK lag \in {0, 1} :
         LET answers == Snapshots(Head(jobs), lag)
             room == Min({Len(answers), QueueSize - Len(queue)})
         IN  /\ queue' = queue \o SubSeq(answers, 1, room)
             /\ skipped' = Lost({answers[i].code : i \in room + 1 .. Len(answers)})
  BY DEF JobSucceeds
<1> DEFINE job == Head(jobs)
           answers == Snapshots(job, lag)
           room == Min({Len(answers), QueueSize - Len(queue)})
           s == SubSeq(answers, 1, room)
           lost == {answers[i].code : i \in room + 1 .. Len(answers)}
<1>3. /\ jobs # <<>> /\ jobs' = Tail(jobs) /\ boot' = [boot EXCEPT !.retry = @ \ job.codes]
      /\ UNCHANGED <<market, wire, seen, latest>>
      /\ queue' = queue \o s /\ skipped' = Lost(lost)
  BY <1>2 DEF JobSucceeds, source
<1>4. /\ market \in [Codes -> Nat \ {0}] /\ wire \in Seq(WireTick) /\ queue \in Seq(QueueTick)
      /\ jobs \in Seq(Job) /\ Ordered(queue, wire, market)
      /\ Len(queue) \in Nat /\ Len(queue) <= QueueSize /\ QueueSize \in Nat
  BY <1>1, FeedAssumption DEF IngestTypes, OrderInv
<1>5. /\ job \in Job /\ jobs' \in Seq(Job)
      /\ \A i \in DOMAIN jobs : i # 1 => i - 1 \in DOMAIN jobs' /\ jobs[i] = jobs'[i - 1]
      /\ job = jobs[1]
  BY <1>3, <1>4, TailFacts
<1> HIDE DEF job
<1>6. /\ answers \in Seq(QueueTick)
      /\ \A i \in DOMAIN answers : Newest(answers[i], market)
      /\ \A i, j \in DOMAIN answers : answers[i].code = answers[j].code => i = j
      /\ \A c \in job.codes : Queued(answers, c)
  BY <1>4, <1>5, SnapshotsOfJob
<1> HIDE DEF answers
<1>7. /\ Len(answers) \in Nat /\ DOMAIN answers = 1 .. Len(answers)
      /\ room \in Nat /\ room <= Len(answers) /\ room <= QueueSize - Len(queue)
  <2>1. Len(answers) \in Nat /\ DOMAIN answers = 1 .. Len(answers)
    BY <1>6
  <2>2. PICK free \in Nat : free = QueueSize - Len(queue)
    <3>1. QueueSize - Len(queue) \in Nat
      BY <1>4
    <3> QED  BY <3>1
  <2>3. Min({Len(answers), free}) \in Nat /\ Min({Len(answers), free}) <= Len(answers)
        /\ Min({Len(answers), free}) <= free
    BY <2>1, TheSmaller
  <2> QED  BY <2>1, <2>2, <2>3
<1> HIDE DEF room
<1>8. /\ s \in Seq(QueueTick) /\ Len(s) = room /\ DOMAIN s = 1 .. room
      /\ \A i \in DOMAIN s : i \in DOMAIN answers /\ s[i] = answers[i]
  BY <1>6, <1>7
<1> HIDE DEF s
<1>9. /\ \A i \in DOMAIN s : Newest(s[i], market)
      /\ \A i, j \in DOMAIN s : s[i].code = s[j].code => i = j
  BY <1>6, <1>8
<1>10. /\ queue' \in Seq(QueueTick) /\ Ordered(queue', wire', market')
       /\ Len(queue') = Len(queue) + room
       /\ \A c \in Codes, t \in Nat :
             /\ Awaited(queue', wire', c, t) => Awaited(queue, wire, c, t)
             /\ Fresh(queue', c, t) => Fresh(queue, c, t) \/ market[c] <= t + 1
       /\ \A c \in Codes :
             Queued(queue, c) \/ Queued(s, c) => Queued(queue', c)
  <2>1. /\ queue \o s \in Seq(QueueTick) /\ Ordered(queue \o s, wire, market)
        /\ Len(queue \o s) = Len(queue) + Len(s)
        /\ \A c \in Codes, t \in Nat :
              /\ Awaited(queue \o s, wire, c, t) => Awaited(queue, wire, c, t)
              /\ Fresh(queue \o s, c, t) => Fresh(queue, c, t) \/ market[c] <= t + 1
        /\ \A c \in Codes :
              Queued(queue, c) \/ Queued(s, c) => Queued(queue \o s, c)
    BY <1>4, <1>8, <1>9, SnapshotsCome
  <2> QED  BY <1>3, <1>8, <2>1
<1>11. boot' \in [requested : SUBSET Codes, retry : SUBSET Codes]
       /\ boot'.requested = boot.requested
  BY <1>1, <1>3 DEF IngestTypes
<1>12. IngestTypes'
  <2>1. Len(queue') <= QueueSize
    BY <1>4, <1>7, <1>10
  <2> QED  BY <1>1, <1>3, <1>5, <1>10, <1>11, <2>1 DEF IngestTypes
<1>13. SnapshotInv'
  <2>1. SUFFICES ASSUME NEW c \in boot'.requested \ skipped' PROVE Expected(c)'
    BY DEF SnapshotInv
  <2>2. c \in Codes /\ c \in boot.requested /\ c \notin Lost(lost)
    BY <1>1, <1>3, <1>11, <2>1 DEF IngestTypes
  <2>3. Expected(c)
    BY <1>1, <1>3, <2>2 DEF SnapshotInv, Lost
  <2>4. CASE latest[c] # None
    BY <1>3, <2>4 DEF Expected
  <2>5. CASE Queued(queue, c)
    BY <1>10, <2>2, <2>5 DEF Expected
  <2>6. CASE \E i \in DOMAIN jobs : i # 1 /\ c \in jobs[i].codes
    BY <1>5, <2>6 DEF Expected
  <2>7. CASE c \in job.codes
    <3>1. PICK i \in DOMAIN answers : answers[i].code = c
      BY <1>6, <2>7 DEF Queued
    <3>2. CASE i <= room
      <4>1. i \in DOMAIN s /\ s[i].code = c
        BY <1>7, <1>8, <3>1, <3>2
      <4>2. Queued(s, c)
        BY <4>1 DEF Queued
      <4> QED  BY <1>10, <2>2, <4>2 DEF Expected
    <3>3. CASE ~(i <= room)
      <4>1. i \in room + 1 .. Len(answers)
        BY <1>7, <3>3
      <4>2. c \in lost
        BY <3>1, <4>1
      <4> QED  BY <2>2, <2>4, <4>2, LosersAreSkipped
    <3> QED  BY <3>2, <3>3
  <2> QED  BY <1>5, <2>3, <2>4, <2>5, <2>6, <2>7 DEF Expected
<1>14. \A c \in Codes, t \in Nat : market[c] <= t + 1 => latest[c].time <= t + 1
  <2>1. \A c \in Codes : /\ market[c] \in Nat /\ latest[c].time \in Nat
                         /\ latest[c].time <= market[c]
    BY <1>1, <1>4 DEF OrderInv, IngestTypes, Price
  <2> QED  BY <2>1
<1> QED  BY <1>3, <1>10, <1>12, <1>13, <1>14, LessToCome

LEMMA JobFailsKeeps ==
    ASSUME IngestInv, JobFails
    PROVE  IngestInv'
<1>1. IngestTypes /\ OrderInv /\ SnapshotInv
  BY DEF IngestInv
<1>2. /\ jobs # <<>> /\ jobs' = Tail(jobs) /\ boot' = ToRetry(Head(jobs).codes)
      /\ UNCHANGED <<market, wire, queue, seen, latest, skipped>>
      /\ jobs \in Seq(Job)
  BY <1>1 DEF JobFails, source, IngestTypes
<1>3. /\ Head(jobs) \in Job /\ jobs' \in Seq(Job) /\ Head(jobs) = jobs[1]
      /\ \A i \in DOMAIN jobs : i # 1 => i - 1 \in DOMAIN jobs' /\ jobs[i] = jobs'[i - 1]
  BY <1>2, TailFacts
<1>4. /\ boot' \in [requested : SUBSET Codes, retry : SUBSET Codes]
      /\ boot'.requested = boot.requested \ Head(jobs).codes
  <2>1. Head(jobs).codes \subseteq Codes
    BY <1>3 DEF Job
  <2> QED  BY <1>1, <1>2, <2>1 DEF IngestTypes, ToRetry
<1>5. IngestTypes'
  BY <1>1, <1>2, <1>3, <1>4 DEF IngestTypes
<1>6. SnapshotInv'
  <2>1. SUFFICES ASSUME NEW c \in boot'.requested \ skipped' PROVE Expected(c)'
    BY DEF SnapshotInv
  <2>2. Expected(c) /\ c \notin jobs[1].codes
    BY <1>1, <1>2, <1>3, <1>4, <2>1 DEF SnapshotInv
  <2> QED  BY <1>2, <1>3, <2>2 DEF Expected
<1>7. Ordered(queue', wire', market')
  BY <1>1, <1>2 DEF OrderInv
<1>8. \A c \in Codes, t \in Nat :
         /\ Awaited(queue, wire, c, t)' => Awaited(queue, wire, c, t)
         /\ Fresh(queue, c, t)' => Fresh(queue, c, t)
  BY <1>2 DEF Awaited, Fresh
<1> QED  BY <1>2, <1>5, <1>6, <1>7, <1>8, LessToCome

LEMMA RetryDueKeeps ==
    ASSUME IngestInv, RetryDue
    PROVE  IngestInv'
<1>1. IngestTypes /\ OrderInv /\ SnapshotInv
  BY DEF IngestInv
<1>2. /\ boot' = [boot EXCEPT !.retry = {}]
      /\ UNCHANGED <<market, wire, queue, jobs, seen, latest, skipped>>
  BY DEF RetryDue, source
<1>3. /\ boot' \in [requested : SUBSET Codes, retry : SUBSET Codes]
      /\ boot'.requested = boot.requested
  BY <1>1, <1>2 DEF IngestTypes
<1>4. IngestTypes'
  BY <1>1, <1>2, <1>3 DEF IngestTypes
<1>5. SnapshotInv'
  BY <1>1, <1>2, <1>3 DEF SnapshotInv, Expected
<1>6. Ordered(queue', wire', market')
  BY <1>1, <1>2 DEF OrderInv
<1>7. \A c \in Codes, t \in Nat :
         /\ Awaited(queue, wire, c, t)' => Awaited(queue, wire, c, t)
         /\ Fresh(queue, c, t)' => Fresh(queue, c, t)
  BY <1>2 DEF Awaited, Fresh
<1> QED  BY <1>2, <1>4, <1>5, <1>6, <1>7, LessToCome

\* A live tick that is let through is late only if its code was given up since, or if
\* the price is not one of the subscriber's.
LEMMA LiveIsNotLate ==
    ASSUME IngestInv, queue # <<>>, Head(queue).kind = "LIVE", ~Obsolete(Head(queue)),
           Head(queue).time < latest[Head(queue).code].time
    PROVE  \/ latest[Head(queue).code].byOrder
           \/ Head(queue).time <= seen[Head(queue).code].since
<1> DEFINE x == Head(queue)
           c == x.code
<1>1. IngestTypes /\ OrderInv /\ PriceInv
  BY DEF IngestInv
<1>2. /\ queue \in Seq(QueueTick) /\ wire \in Seq(WireTick) /\ market \in [Codes -> Nat \ {0}]
      /\ Ordered(queue, wire, market)
  BY <1>1 DEF IngestTypes, OrderInv
<1>3. x \in QueueTick /\ Awaited(queue, wire, c, x.time)
  <2>1. x \in QueueTick
    BY <1>2, TailFacts
  <2>2. x.time \in Nat
    BY <2>1 DEF QueueTick
  <2> QED  BY <1>2, <2>1, <2>2, QueueMoves
<1>4. /\ c \in Codes /\ x.time \in Nat /\ ~(x.time <= seen[c].watermark)
      /\ seen[c].since \in Nat /\ seen[c].watermark \in Nat
  <2>1. c \in Codes /\ x.time \in Nat
    BY <1>3 DEF QueueTick
  <2> QED  BY <1>1, <2>1 DEF Obsolete, IngestTypes, Mark
<1> HIDE DEF x, c
<1>5. ASSUME ~latest[c].byOrder, ~(x.time <= seen[c].since) PROVE FALSE
  <2>1. Behind(c, x.time)
    BY <1>3, <1>4, <1>5 DEF Behind, x, c
  <2>2. x.time <= seen[c].watermark
    BY <1>1, <1>4, <1>5, <2>1 DEF PriceInv
  <2> QED  BY <1>4, <2>2
<1> QED  BY <1>5 DEF x, c

\* A tick is taken from the queue and not published.
LEMMA DropKeeps ==
    ASSUME IngestInv, queue # <<>>, queue' = Tail(queue), skipped' = Lost({Head(queue).code}),
           UNCHANGED <<market, wire, boot, jobs, seen, latest>>
    PROVE  IngestInv'
<1>1. IngestTypes /\ OrderInv /\ SnapshotInv
  BY DEF IngestInv
<1>2. /\ queue \in Seq(QueueTick) /\ wire \in Seq(WireTick) /\ market \in [Codes -> Nat \ {0}]
      /\ Ordered(queue, wire, market) /\ Len(queue) \in Nat /\ QueueSize \in Nat
      /\ Len(queue) <= QueueSize
  BY <1>1, FeedAssumption DEF IngestTypes, OrderInv
<1>3. /\ Tail(queue) \in Seq(QueueTick) /\ Len(Tail(queue)) = Len(queue) - 1
  BY <1>2, TailFacts
<1>4. /\ Ordered(Tail(queue), wire, market)
      /\ \A d \in Codes, t \in Nat :
            /\ Awaited(Tail(queue), wire, d, t) => Awaited(queue, wire, d, t)
            /\ Fresh(Tail(queue), d, t) => Fresh(queue, d, t)
      /\ \A d \in Codes : Queued(queue, d) => d = Head(queue).code \/ Queued(Tail(queue), d)
  BY <1>2, QueueMoves
<1>5. IngestTypes'
  <2>1. Len(queue') <= QueueSize
    BY <1>2, <1>3
  <2> QED  BY <1>1, <1>3, <2>1 DEF IngestTypes
<1>6. SnapshotInv'
  <2>1. SUFFICES ASSUME NEW d \in boot'.requested \ skipped' PROVE Expected(d)'
    BY DEF SnapshotInv
  <2>2. d \in Codes /\ d \notin Lost({Head(queue).code}) /\ Expected(d)
    BY <1>1, <2>1 DEF SnapshotInv, IngestTypes, Lost
  <2>3. CASE d = Head(queue).code
    BY <2>2, <2>3, LosersAreSkipped DEF Expected
  <2>4. CASE d # Head(queue).code
    BY <1>4, <2>2, <2>4 DEF Expected
  <2> QED  BY <2>3, <2>4
<1> QED  BY <1>4, <1>5, <1>6, LessToCome

\* A tick is published, or is a snapshot not later than what is there.
LEMMA WriteKeeps ==
    ASSUME IngestInv, queue # <<>>, queue' = Tail(queue), ~Obsolete(Head(queue)),
           Write(Head(queue)),
           seen' = [seen EXCEPT ![Head(queue).code] = Noted(Head(queue))],
           skipped' = skipped \ {Head(queue).code},
           UNCHANGED <<market, wire, boot, jobs>>
    PROVE  IngestInv'
<1> DEFINE x == Head(queue)
           c == x.code
<1>1. IngestTypes /\ OrderInv /\ PriceInv /\ SnapshotInv
  BY DEF IngestInv
<1>2. /\ queue \in Seq(QueueTick) /\ wire \in Seq(WireTick) /\ market \in [Codes -> Nat \ {0}]
      /\ Ordered(queue, wire, market) /\ Len(queue) \in Nat /\ QueueSize \in Nat
      /\ Len(queue) <= QueueSize
  BY <1>1, FeedAssumption DEF IngestTypes, OrderInv
<1>3. Tail(queue) \in Seq(QueueTick) /\ Len(Tail(queue)) = Len(queue) - 1 /\ x \in QueueTick
  BY <1>2, TailFacts
<1>4. /\ c \in Codes /\ x.time \in Nat \ {0} /\ x.time <= market[c] /\ x.kind \in {"LIVE", "REST"}
      /\ latest[c] \in Price /\ latest[c].time \in Nat /\ seen[c] \in Mark
      /\ seen[c].live \in Nat /\ seen[c].watermark \in Nat
  <2>1. c \in Codes /\ x.time \in Nat /\ x.kind \in {"LIVE", "REST"}
    BY <1>3 DEF QueueTick
  <2>2. x.time \in 1 .. market[c]
    BY <1>2, QueueMoves
  <2>3. latest[c] \in Price /\ seen[c] \in Mark /\ market[c] \in Nat
    BY <1>1, <2>1 DEF IngestTypes
  <2>4. latest[c].time \in Nat /\ seen[c].live \in Nat /\ seen[c].watermark \in Nat
    BY <2>3 DEF Price, Mark
  <2> QED  BY <2>1, <2>2, <2>3, <2>4
<1>5. /\ Ordered(Tail(queue), wire, market)
      /\ \A d \in Codes, t \in Nat :
            /\ Awaited(Tail(queue), wire, d, t) => Awaited(queue, wire, d, t)
            /\ Fresh(Tail(queue), d, t) => Fresh(queue, d, t)
      /\ \A d \in Codes : Queued(queue, d) => d = c \/ Queued(Tail(queue), d)
      /\ x.kind = "LIVE" => \A t \in Nat : Awaited(Tail(queue), wire, c, t) => x.time < t
      /\ x.kind = "REST" => \A t \in Nat :
            /\ x.current => Fresh(queue, c, x.time)
            /\ Fresh(Tail(queue), c, t) => x.time <= t + 1
  BY <1>2, QueueMoves
<1>6. /\ x.kind = "REST" => x.current
      /\ x.kind = "LIVE" => ~(x.time <= seen[c].watermark)
  BY <1>4 DEF Obsolete
<1> DEFINE price == [time |-> x.time, byOrder |-> FALSE]
<1>7. /\ x.kind = "LIVE" \/ latest[c].time < x.time => latest' = [latest EXCEPT ![c] = price]
      /\ ~(x.kind = "LIVE" \/ latest[c].time < x.time) => latest' = latest
      /\ price \in Price /\ price.time = x.time /\ ~price.byOrder /\ price # None
  <2>1. Wins(x) <=> x.kind = "LIVE" \/ latest[c].time < x.time
    BY DEF Wins
  <2>2. (x.kind = "ORDER") = FALSE
    BY <1>4
  <2>3. price \in Price /\ price.time = x.time /\ ~price.byOrder /\ price # None
    BY <1>4 DEF Price, None
  <2> QED  BY <2>1, <2>2, <2>3 DEF Write
<1>8. seen' = [seen EXCEPT ![c] = Noted(x)]
  OBVIOUS
<1>9. /\ Noted(x) \in Mark /\ Noted(x).since = seen[c].since
      /\ x.kind = "REST" => Noted(x).watermark =
                             IF latest[c].time < x.time THEN x.time ELSE seen[c].watermark
  <2>1. CASE x.kind = "REST"
    <3>1. Wins(x) <=> latest[c].time < x.time
      BY <2>1 DEF Wins
    <3> QED  BY <1>4, <2>1, <3>1 DEF Noted, Mark
  <2>2. CASE x.kind = "LIVE"
    <3>1. PICK a \in Nat, b \in Nat : a = seen[c].live /\ b = x.time
      BY <1>4
    <3>2. PICK m \in Nat : m = Max({a, b})
      <4>1. Max({a, b}) \in {a, b}
        BY ONLY a \in Nat, b \in Nat, TheLarger
      <4> QED  BY <4>1
    <3> DEFINE old == seen[c]
    <3>3. PICK n \in Nat : n = IF b > old.watermark THEN 0 ELSE old.watermark
      BY <1>4
    <3>4. Noted(x) = [old EXCEPT !.live = m, !.watermark = n]
      BY <2>2, <3>1, <3>2, <3>3 DEF Noted
    <3>5. old \in Mark
      BY <1>4
    <3> HIDE DEF old
    <3>6. Noted(x) \in Mark
      BY <3>4, <3>5 DEF Mark
    <3>7. Noted(x).since = old.since
      BY <3>4, <3>5 DEF Mark
    <3> QED  BY <2>2, <3>6, <3>7 DEF old
  <2> QED  BY <1>4, <2>1, <2>2
<1>q. queue' = Tail(queue) /\ skipped' = skipped \ {c}
  OBVIOUS
<1> HIDE DEF x, c, price
<1>10. /\ seen' \in [Codes -> Mark] /\ seen'[c] = Noted(x)
       /\ \A d \in Codes \ {c} : seen'[d] = seen[d]
  BY <1>1, <1>4, <1>8, <1>9 DEF IngestTypes
<1>11. /\ latest' \in [Codes -> Price]
       /\ \A d \in Codes \ {c} : latest'[d] = latest[d]
       /\ latest'[c] = IF x.kind = "LIVE" \/ latest[c].time < x.time THEN price ELSE latest[c]
  <2>1. CASE latest' = [latest EXCEPT ![c] = price]
    BY <1>1, <1>4, <1>7, <2>1 DEF IngestTypes
  <2>2. CASE latest' = latest
    BY <1>1, <1>4, <1>7, <2>2 DEF IngestTypes
  <2> QED  BY <1>1, <1>4, <1>7, <2>1, <2>2 DEF IngestTypes
<1>12. IngestTypes'
  <2>1. Len(queue') <= QueueSize
    BY <1>2, <1>3, <1>q
  <2> QED  BY <1>1, <1>3, <1>q, <1>10, <1>11, <2>1 DEF IngestTypes
<1>13. OrderInv'
  <2>1. latest'[c].time <= market[c]
    BY <1>1, <1>4, <1>7, <1>11 DEF OrderInv
  <2>2. \A d \in Codes : latest'[d].time <= market[d]
    BY <1>1, <1>11, <2>1 DEF OrderInv
  <2> QED  BY <1>5, <1>q, <2>2 DEF OrderInv
<1>14. PriceInv'
  <2> SUFFICES ASSUME NEW d \in Codes, NEW t \in Nat, ~latest'[d].byOrder, Behind(d, t)'
               PROVE  /\ t <= seen'[d].watermark
                      /\ \A s \in Nat : Fresh(queue, d, s)' => latest'[d].time <= s + 1
    BY DEF PriceInv
  <2>1. /\ Awaited(Tail(queue), wire, d, t) /\ Awaited(queue, wire, d, t)
        /\ seen'[d].since < t /\ t < latest'[d].time
    BY <1>5, <1>q DEF Behind
  <2>2. \A s \in Nat : Fresh(queue, d, s)' => Fresh(Tail(queue), d, s) /\ Fresh(queue, d, s)
    BY <1>5, <1>q
  <2>3. CASE d # c
    <3>1. Behind(d, t) /\ ~latest[d].byOrder
      BY <1>10, <1>11, <2>1, <2>3 DEF Behind
    <3>2. t <= seen[d].watermark /\ \A s \in Nat : Fresh(queue, d, s) => latest[d].time <= s + 1
      BY <1>1, <3>1 DEF PriceInv
    <3> QED  BY <1>10, <1>11, <2>2, <2>3, <3>2
  <2>4. CASE d = c /\ x.kind = "LIVE"
    BY <1>4, <1>5, <1>7, <1>11, <2>1, <2>4
  <2>5. CASE d = c /\ x.kind = "REST" /\ latest[c].time < x.time
    <3>1. latest'[d].time = x.time /\ seen'[d].watermark = x.time
      BY <1>7, <1>9, <1>10, <1>11, <2>5
    <3>2. \A s \in Nat : Fresh(Tail(queue), c, s) => x.time <= s + 1
      BY <1>5, <2>5
    <3> QED  BY <1>4, <2>1, <2>2, <2>5, <3>1, <3>2
  <2>6. CASE d = c /\ x.kind = "REST" /\ ~(latest[c].time < x.time)
    <3>1. latest'[d] = latest[c] /\ seen'[d].watermark = seen[c].watermark /\ seen'[d].since = seen[c].since
      BY <1>9, <1>10, <1>11, <2>6
    <3>2. Behind(c, t) /\ ~latest[c].byOrder
      BY <1>5, <2>1, <2>6, <3>1 DEF Behind
    <3>3. t <= seen[c].watermark /\ \A s \in Nat : Fresh(queue, c, s) => latest[c].time <= s + 1
      BY <1>1, <1>4, <3>2 DEF PriceInv
    <3> QED  BY <2>2, <2>6, <3>1, <3>3
  <2> QED  BY <1>4, <2>3, <2>4, <2>5, <2>6
<1>15. SnapshotInv'
  <2>1. SUFFICES ASSUME NEW d \in boot'.requested \ skipped' PROVE Expected(d)'
    BY DEF SnapshotInv
  <2>2. CASE d = c
    <3>1. latest'[c] # None
      <4>1. latest[c].time >= x.time => latest[c] # None
        BY <1>4 DEF None
      <4> QED  BY <1>4, <1>7, <1>11, <4>1
    <3> QED  BY <2>2, <3>1 DEF Expected
  <2>3. CASE d # c
    <3>1. d \in Codes /\ Expected(d)
      BY <1>1, <1>q, <2>1, <2>3 DEF SnapshotInv, IngestTypes
    <3> QED  BY <1>5, <1>11, <1>q, <2>3, <3>1 DEF Expected
  <2> QED  BY <2>2, <2>3
<1> QED  BY <1>12, <1>13, <1>14, <1>15 DEF IngestInv


LEMMA ProcessKeeps ==
    ASSUME IngestInv, Process
    PROVE  IngestInv'
<1>1. /\ queue # <<>> /\ queue' = Tail(queue)
      /\ UNCHANGED <<market, wire, boot, jobs>>
  BY DEF Process, source
<1>2. CASE skipped' = Lost({Head(queue).code}) /\ UNCHANGED <<latest, seen>>
  BY <1>1, <1>2, DropKeeps
<1>3. CASE /\ ~Obsolete(Head(queue)) /\ Write(Head(queue))
           /\ seen' = [seen EXCEPT ![Head(queue).code] = Noted(Head(queue))]
           /\ skipped' = skipped \ {Head(queue).code}
  BY <1>1, <1>3, WriteKeeps
<1> QED  BY <1>2, <1>3 DEF Process

\* The API process writes a snapshot, and its price is taken as it is.
LEMMA OrderSnapshotKeeps ==
    ASSUME IngestInv, NEW c \in Codes, OrderSnapshot(c)
    PROVE  IngestInv'
<1>1. IngestTypes /\ OrderInv /\ PriceInv /\ SnapshotInv
  BY DEF IngestInv
<1>2. /\ UNCHANGED <<market, wire, boot, jobs, queue, seen>>
      /\ skipped' = skipped \ {c}
  BY DEF OrderSnapshot, source, ingest
<1>3. PICK lag \in {0, 1} : Write([code |-> c, time |-> Stored(c, lag), kind |-> "ORDER"])
  BY DEF OrderSnapshot
<1>4. /\ Stored(c, lag) \in 1 .. market[c] /\ market[c] \in Nat /\ latest[c].time \in Nat
      /\ latest \in [Codes -> Price] /\ seen \in [Codes -> Mark]
  <2>1. market[c] \in Nat /\ latest[c] \in Price /\ market \in [Codes -> Nat \ {0}]
    BY <1>1 DEF IngestTypes
  <2> QED  BY <1>1, <2>1, StoredTicks DEF IngestTypes, Price
<1>5. PICK n \in Nat : n = Stored(c, lag)
  BY <1>4
<1> DEFINE price == [time |-> n, byOrder |-> TRUE]
<1>6. price \in Price /\ price.byOrder /\ price # None /\ price.time = n
  BY DEF Price, None
<1>7. latest' = IF latest[c].time < n THEN [latest EXCEPT ![c] = price] ELSE latest
  BY <1>3, <1>5 DEF Write, Wins
<1> HIDE DEF price
<1>8. /\ latest' \in [Codes -> Price]
      /\ \A d \in Codes \ {c} : latest'[d] = latest[d]
      /\ \/ latest'[c] = latest[c] /\ latest[c].time >= n
         \/ latest'[c] = price
  BY <1>4, <1>6, <1>7
<1>9. IngestTypes'
  BY <1>1, <1>2, <1>8 DEF IngestTypes
<1>10. OrderInv'
  <2>1. \A d \in Codes : latest'[d].time <= market[d]
    BY <1>1, <1>4, <1>5, <1>6, <1>8 DEF OrderInv
  <2> QED  BY <1>1, <1>2, <2>1 DEF OrderInv
<1>11. PriceInv'
  <2>1. \A d \in Codes : latest'[d] = latest[d] \/ latest'[d].byOrder
    BY <1>6, <1>8
  <2>2. \A d \in Codes, t \in Nat :
           /\ Awaited(queue, wire, d, t)' => Awaited(queue, wire, d, t)
           /\ Fresh(queue, d, t)' => Fresh(queue, d, t)
    BY <1>2 DEF Awaited, Fresh
  <2> QED  BY <1>1, <1>2, <1>4, <2>1, <2>2, PriceKept
<1>12. SnapshotInv'
  <2>1. SUFFICES ASSUME NEW d \in boot'.requested \ skipped' PROVE Expected(d)'
    BY DEF SnapshotInv
  <2>2. d \in Codes
    BY <1>1, <1>2, <2>1 DEF IngestTypes
  <2>3. CASE d = c
    <3>1. latest'[c] # None
      BY <1>4, <1>5, <1>6, <1>8 DEF None
    <3> QED  BY <2>3, <3>1 DEF Expected
  <2>4. CASE d # c
    BY <1>1, <1>2, <1>8, <2>1, <2>2, <2>4 DEF SnapshotInv, Expected
  <2> QED  BY <2>3, <2>4
<1> QED  BY <1>9, <1>10, <1>11, <1>12 DEF IngestInv

\* The process starts again with nothing in hand, and the last prices stay.
LEMMA RestartKeeps ==
    ASSUME IngestTypes, OrderInv, Restart
    PROVE  IngestInv'
<1>1. /\ boot' = NewBoot /\ jobs' = <<>> /\ queue' = <<>> /\ wire' = <<>>
      /\ seen' = NewSeen /\ UNCHANGED <<market, latest>>
  BY DEF Restart
<1>2. /\ <<>> \in Seq(WireTick) /\ <<>> \in Seq(QueueTick) /\ <<>> \in Seq(Job)
      /\ DOMAIN <<>> = {} /\ Len(<<>>) = 0
  OBVIOUS
<1>3. IngestTypes'
  <2>1. boot' \in [requested : SUBSET Codes, retry : SUBSET Codes]
    BY <1>1 DEF NewBoot
  <2>2. seen' \in [Codes -> Mark]
    BY <1>1 DEF NewSeen, Mark
  <2>3. Len(queue') <= QueueSize
    BY <1>1, <1>2, FeedAssumption
  <2> QED  BY <1>1, <1>2, <2>1, <2>2, <2>3 DEF IngestTypes
<1>4. OrderInv'
  BY <1>1, <1>2 DEF OrderInv, Ordered
<1>5. PriceInv'
  BY <1>1, <1>2 DEF PriceInv, Behind, Awaited
<1>6. SnapshotInv'
  BY <1>1 DEF SnapshotInv, NewBoot
<1> QED  BY <1>3, <1>4, <1>5, <1>6 DEF IngestInv

\* The connection is gone, with what it has sent.
LEMMA LossKeeps ==
    ASSUME IngestInv, wire' = <<>>, UNCHANGED <<market, ingest, latest, skipped>>
    PROVE  IngestInv'
<1>1. IngestTypes /\ OrderInv /\ SnapshotInv
  BY DEF IngestInv
<1>2. UNCHANGED <<market, boot, jobs, queue, seen, latest, skipped>>
  BY DEF ingest
<1>3. <<>> \in Seq(WireTick) /\ Ordered(queue, <<>>, market)
      /\ \A c \in Codes, t \in Nat : Awaited(queue, <<>>, c, t) => Awaited(queue, wire, c, t)
  BY <1>1, NothingOnWire DEF OrderInv
<1>4. IngestTypes'
  BY <1>1, <1>2, <1>3 DEF IngestTypes
<1>5. SnapshotInv'
  BY <1>1, <1>2 DEF SnapshotInv, Expected
<1>6. \A c \in Codes, t \in Nat :
         /\ Awaited(queue, wire, c, t)' => Awaited(queue, wire, c, t)
         /\ Fresh(queue, c, t)' => Fresh(queue, c, t)
  BY <1>2, <1>3 DEF Fresh
<1>7. Ordered(queue', wire', market')
  BY <1>2, <1>3
<1> QED  BY <1>2, <1>4, <1>5, <1>6, <1>7, LessToCome


-----------------------------------------------------------------------------
(* The main loop.                                                          *)

LEMMA LoopStays ==
    ASSUME LoopInv, wanted' \subseteq Codes, requests' \subseteq Codes,
           UNCHANGED <<channels, conn, pc, sub>>
    PROVE  LoopInv'
BY DEF LoopInv, LoopTypes, ChannelsInv

\* What the observation changes of the subscription is its clock.
LEMMA ObservedFacts ==
    ASSUME LoopTypes
    PROVE  /\ Observed.codes \subseteq Codes
           /\ Observed.sub \in Subscription
           /\ Observed.sub.requested = sub.requested
           /\ Observed.sub.subscribed = sub.subscribed
           /\ Observed.sub.failed = sub.failed
<1> DEFINE calm == [sub EXCEPT !.pending = NotPending, !.aged = FALSE]
           clock == [sub EXCEPT !.pending = {Desired}, !.aged = FALSE]
<1>1. Desired \subseteq Codes /\ sub \in Subscription
  BY DEF LoopTypes, Desired
<1>2. /\ calm \in Subscription /\ calm.requested = sub.requested
      /\ calm.subscribed = sub.subscribed /\ calm.failed = sub.failed
  BY <1>1 DEF Subscription, NotPending
<1>3. /\ clock \in Subscription /\ clock.requested = sub.requested
      /\ clock.subscribed = sub.subscribed /\ clock.failed = sub.failed
  BY <1>1 DEF Subscription
<1>4. /\ FewerCodes.codes \subseteq Codes
      /\ FewerCodes.sub \in {sub, clock}
  BY <1>1 DEF FewerCodes
<1>5. /\ Observed.codes \subseteq Codes
      /\ Observed.sub \in {sub, clock, calm}
  <2>1. CASE Desired = sub.requested
    BY <2>1 DEF Observed
  <2>2. CASE Desired # sub.requested /\ Desired \ sub.requested = {}
    BY <1>4, <2>2 DEF Observed
  <2>3. CASE Desired # sub.requested /\ Desired \ sub.requested # {}
    <3>1. sub.requested \subseteq Codes
      BY <1>1 DEF Subscription
    <3> QED  BY <1>1, <2>3, <3>1 DEF Observed
  <2> QED  BY <2>1, <2>2, <2>3
<1> HIDE DEF calm, clock
<1> QED  BY <1>1, <1>2, <1>3, <1>5

LEMMA MarkedFacts ==
    ASSUME NEW codes \in SUBSET Codes
    PROVE  /\ MarkRequested(codes) \in Subscription
           /\ MarkRequested(codes).requested = codes
           /\ MarkRequested(codes).subscribed = {} /\ MarkRequested(codes).failed = {}
BY DEF MarkRequested, NewSub, NotPending, Subscription

LEMMA NewSubFacts ==
    /\ NewSub \in Subscription
    /\ NewSub.requested = {} /\ NewSub.subscribed = {} /\ NewSub.failed = {}
BY DEF NewSub, NotPending, Subscription

\* A change begins, with nothing acknowledged yet.
LEMMA ChangeBegins ==
    ASSUME LoopInv, NEW codes \in SUBSET Codes, sub' = MarkRequested(codes),
           UNCHANGED demand, conn' = conn,
           pc' = "replacing" \/ (pc' = "starting" /\ conn = "none")
    PROVE  LoopInv'
<1>1. LoopTypes'
  BY MarkedFacts DEF LoopInv, LoopTypes, demand
<1>2. ChannelsInv'
  BY MarkedFacts DEF ChannelsInv
<1> QED  BY <1>1, <1>2 DEF LoopInv

LEMMA DisconnectKeeps ==
    ASSUME FeedInv, Disconnect
    PROVE  FeedInv'
<1>1. LoopInv'
  BY DEF FeedInv, Disconnect, LoopInv, LoopTypes, ChannelsInv, demand
<1>2. IngestInv'
  BY IngestStays DEF FeedInv, Disconnect
<1> QED  BY <1>1, <1>2 DEF FeedInv

LEMMA StopAllKeeps ==
    ASSUME FeedInv, StopAll
    PROVE  FeedInv'
<1>1. LoopInv'
  <2>1. /\ sub' = MarkRequested({}) /\ conn' = "none" /\ pc' = "publish" /\ UNCHANGED demand
    BY DEF StopAll, NewGeneration
  <2>2. /\ sub' \in Subscription /\ sub'.requested = {} /\ sub'.subscribed = {} /\ sub'.failed = {}
    BY <2>1, MarkedFacts
  <2>3. LoopTypes'
    BY <2>1, <2>2 DEF FeedInv, LoopInv, LoopTypes, demand
  <2>4. ChannelsInv'
    BY <2>1, <2>2 DEF ChannelsInv
  <2> QED  BY <2>3, <2>4 DEF LoopInv
<1>2. IngestInv'
  <2>1. /\ IngestInv /\ queue' = Outdated(queue) /\ jobs' = Outdated(jobs) /\ wire' = <<>>
        /\ boot' = NewBoot /\ seen' = Forgotten(Codes) /\ UNCHANGED <<market, latest, skipped>>
    BY DEF StopAll, NewGeneration, FeedInv
  <2>2. boot' \in [requested : SUBSET Codes, retry : SUBSET Codes] /\ boot'.requested = {}
    BY <2>1 DEF NewBoot
  <2> QED  BY <2>1, <2>2, GenerationKeeps
<1> QED  BY <1>1, <1>2 DEF FeedInv

LEMMA BeginReplaceKeeps ==
    ASSUME FeedInv, NEW codes \in SUBSET Codes, BeginReplace(codes),
           UNCHANGED <<demand, source, latest, skipped>>
    PROVE  FeedInv'
<1>1. LoopInv'
  BY ChangeBegins DEF FeedInv, BeginReplace, NewGeneration, source
<1>2. IngestInv'
  <2>1. /\ IngestInv /\ queue' = Outdated(queue) /\ jobs' = Outdated(jobs) /\ wire' = wire
        /\ seen' = Forgotten(sub.requested \ codes) /\ UNCHANGED <<market, latest, skipped>>
    BY DEF BeginReplace, NewGeneration, FeedInv, source
  <2>2. boot' \in [requested : SUBSET Codes, retry : SUBSET Codes]
        /\ boot'.requested \subseteq boot.requested
    BY DEF BeginReplace, FeedInv, IngestInv, IngestTypes
  <2> QED  BY <2>1, <2>2, GenerationKeeps
<1> QED  BY <1>1, <1>2 DEF FeedInv

LEMMA BeginStartKeeps ==
    ASSUME FeedInv, conn = "none", NEW codes \in SUBSET Codes, BeginStart(codes),
           UNCHANGED <<demand, source, latest, skipped>>
    PROVE  FeedInv'
<1>1. LoopInv'
  BY ChangeBegins DEF FeedInv, BeginStart, NewGeneration, source
<1>2. IngestInv'
  <2>1. /\ IngestInv /\ queue' = Outdated(queue) /\ jobs' = Outdated(jobs) /\ wire' = wire
        /\ seen' = seen /\ boot' = boot /\ UNCHANGED <<market, latest, skipped>>
    BY DEF BeginStart, NewGeneration, FeedInv, source
  <2>2. boot' \in [requested : SUBSET Codes, retry : SUBSET Codes]
        /\ boot'.requested \subseteq boot.requested
    BY <2>1 DEF FeedInv, IngestInv, IngestTypes
  <2> QED  BY <2>1, <2>2, GenerationKeeps
<1> QED  BY <1>1, <1>2 DEF FeedInv

LEMMA ApplyChangeKeeps ==
    ASSUME FeedInv, ApplyChange
    PROVE  FeedInv'
<1>1. Observed.codes \in SUBSET Codes
  BY ObservedFacts DEF FeedInv, LoopInv
<1>2. conn \in {"none", "alive"} /\ UNCHANGED <<demand, source, latest, skipped>>
  BY DEF ApplyChange, FeedInv, LoopInv, LoopTypes
<1>3. CASE conn = "alive"
  <2>1. BeginReplace(Observed.codes)
    BY <1>3 DEF ApplyChange
  <2> QED  BY <1>1, <1>2, <2>1, BeginReplaceKeeps
<1>4. CASE conn = "none"
  <2>1. BeginStart(Observed.codes)
    BY <1>4 DEF ApplyChange
  <2> QED  BY <1>1, <1>2, <1>4, <2>1, BeginStartKeeps
<1> QED  BY <1>2, <1>3, <1>4

LEMMA MaintainKeeps ==
    ASSUME FeedInv, Maintain
    PROVE  FeedInv'
<1>1. sub.requested \in SUBSET Codes /\ UNCHANGED <<demand, source, latest, skipped>>
  BY DEF Maintain, FeedInv, LoopInv, LoopTypes, Subscription
<1>2. CASE BeginReplace(sub.requested)
  BY <1>1, <1>2, BeginReplaceKeeps
<1>3. CASE conn = "none" /\ BeginStart(sub.requested)
  BY <1>1, <1>3, BeginStartKeeps
<1>4. CASE sub' = Observed.sub /\ pc' = "publish" /\ UNCHANGED <<jobs, queue, boot, seen>>
  <2>1. /\ sub' \in Subscription /\ sub'.requested = sub.requested
        /\ sub'.subscribed = sub.subscribed /\ sub'.failed = sub.failed
    BY <1>4, ObservedFacts DEF FeedInv, LoopInv
  <2>2. pc = "observe" /\ LoopTypes /\ ChannelsInv /\ UNCHANGED <<wanted, requests, channels, conn>>
    BY <1>1 DEF Maintain, FeedInv, LoopInv, demand, source
  <2>3. LoopInv'
    BY <1>4, <2>1, <2>2 DEF LoopInv, LoopTypes, ChannelsInv
  <2>4. IngestInv'
    BY <1>1, <1>4, IngestStays DEF FeedInv, ingest, source
  <2> QED  BY <2>3, <2>4 DEF FeedInv
<1> QED  BY <1>2, <1>3, <1>4 DEF Maintain

\* The SDK reports what it has confirmed, and nothing was acknowledged before.
LEMMA ReportKeeps ==
    ASSUME FeedInv, NEW confirmed, confirmed \in Confirmed, OnSubscribe(confirmed),
           pc \in {"replacing", "starting"}, conn' = "alive", channels' = confirmed,
           pc' = "publish", wire' \in {wire, <<>>},
           UNCHANGED <<demand, market, queue, seen, latest, skipped>>
    PROVE  FeedInv'
<1>1. /\ sub' = [sub EXCEPT !.subscribed = @ \cup confirmed,
                            !.failed = sub.requested \ (sub.subscribed \cup confirmed)]
      /\ Schedule(sub'.subscribed)
  BY DEF OnSubscribe
<1>2. confirmed \subseteq sub.requested /\ sub.subscribed = {} /\ sub \in Subscription
      /\ sub.requested \subseteq Codes
  BY DEF Confirmed, FeedInv, LoopInv, LoopTypes, ChannelsInv, Subscription
<1>3. /\ sub' \in Subscription /\ sub'.requested = sub.requested /\ sub'.subscribed = confirmed
      /\ sub'.failed \subseteq sub.requested
  BY <1>1, <1>2 DEF Subscription
<1>4. LoopTypes'
  BY <1>3 DEF FeedInv, LoopInv, LoopTypes, demand
<1>5. ChannelsInv'
  BY <1>2, <1>3 DEF ChannelsInv
<1>6. IngestInv'
  <2>1. sub'.subscribed \in SUBSET Codes
    BY <1>2, <1>3
  <2> QED  BY <1>1, <2>1, SchedulingKeeps DEF FeedInv
<1> QED  BY <1>4, <1>5, <1>6 DEF FeedInv, LoopInv

LEMMA ReplaceKeeps ==
    ASSUME FeedInv, Replace
    PROVE  FeedInv'
<1>1. PICK confirmed \in Confirmed : channels' = confirmed /\ OnSubscribe(confirmed)
  BY DEF Replace
<1> QED  BY <1>1, ReportKeeps DEF Replace

LEMMA StartKeeps ==
    ASSUME FeedInv, Start
    PROVE  FeedInv'
<1>1. PICK confirmed \in Confirmed : channels' = confirmed /\ OnSubscribe(confirmed)
  BY DEF Start
<1> QED  BY <1>1, ReportKeeps DEF Start

LEMMA ReplaceFailsKeeps ==
    ASSUME FeedInv, ReplaceFails
    PROVE  FeedInv'
<1>1. LoopInv'
  BY DEF FeedInv, ReplaceFails, LoopInv, LoopTypes, ChannelsInv, demand
<1>2. IngestInv'
  BY LossKeeps DEF FeedInv, ReplaceFails
<1> QED  BY <1>1, <1>2 DEF FeedInv

LEMMA StartFailsKeeps ==
    ASSUME FeedInv, StartFails
    PROVE  FeedInv'
<1>1. /\ pc = "starting" /\ pc' = "publish" /\ UNCHANGED <<demand, source, queue, seen, latest, skipped>>
      /\ conn = "none" /\ LoopTypes /\ ChannelsInv /\ IngestInv /\ sub \in Subscription
      /\ sub.requested \subseteq Codes
  BY DEF StartFails, FeedInv, LoopInv, LoopTypes, ChannelsInv, Subscription
<1>2. CASE UNCHANGED <<sub, boot, jobs>>
  <2>1. LoopInv'
    BY <1>1, <1>2 DEF LoopInv, LoopTypes, ChannelsInv, demand, source
  <2>2. IngestInv'
    BY <1>1, <1>2, IngestStays DEF ingest, source
  <2> QED  BY <2>1, <2>2 DEF FeedInv
<1>3. CASE sub' = [sub EXCEPT !.subscribed = sub.requested] /\ Schedule(sub.requested)
  <2>1. /\ sub' \in Subscription /\ sub'.requested = sub.requested
        /\ sub'.subscribed = sub.requested /\ sub'.failed = sub.failed
    BY <1>1, <1>3 DEF Subscription
  <2>2. LoopInv'
    BY <1>1, <2>1 DEF LoopInv, LoopTypes, ChannelsInv, demand, source
  <2>3. IngestInv'
    <3>1. UNCHANGED <<wire, market>>
      BY <1>1 DEF source
    <3> QED  BY <1>1, <1>3, <3>1, SchedulingKeeps
  <2> QED  BY <2>2, <2>3 DEF FeedInv
<1> QED  BY <1>2, <1>3 DEF StartFails

LEMMA StatusPublished ==
    ASSUME FeedInv, Publish
    PROVE  FeedInv'
<1>1. LoopInv'
  BY DEF FeedInv, Publish, LoopInv, LoopTypes, ChannelsInv, demand, source
<1>2. IngestInv'
  <2>1. sub.subscribed \in SUBSET Codes
    BY DEF FeedInv, LoopInv, LoopTypes, Subscription
  <2> QED  BY <2>1, SchedulingKeeps DEF FeedInv, Publish, source
<1> QED  BY <1>1, <1>2 DEF FeedInv

LEMMA ConnectionDiesKeeps ==
    ASSUME FeedInv, ConnectionDies
    PROVE  FeedInv'
<1>1. LoopInv'
  BY DEF FeedInv, ConnectionDies, LoopInv, LoopTypes, ChannelsInv, demand, loop
<1>2. IngestInv'
  BY LossKeeps DEF FeedInv, ConnectionDies
<1> QED  BY <1>1, <1>2 DEF FeedInv

\* The demand changes, or the clock of the loop goes on.
LEMMA DemandKeeps ==
    ASSUME FeedInv,
           \/ (\E c \in Codes : Want(c)) \/ Prepare(Codes) \/ Expire \/ BackoffPasses \/ DropForgotten
           \/ \E state : OnMessage(state)
    PROVE  FeedInv'
<1>1. LoopInv /\ IngestInv /\ wanted \subseteq Codes /\ requests \subseteq Codes
  BY DEF FeedInv, LoopInv, LoopTypes
<1>2. UNCHANGED <<pc, sub, channels, conn, market, wire, ingest, latest, skipped>>
  BY DEF Want, Prepare, Expire, BackoffPasses, DropForgotten, OnMessage, source, loop
<1>3. wanted' \subseteq Codes /\ requests' \subseteq Codes
  BY <1>1 DEF Want, Prepare, Expire, BackoffPasses, DropForgotten, OnMessage, demand
<1>4. LoopInv'
  BY <1>1, <1>2, <1>3, LoopStays
<1>5. IngestInv'
  BY <1>1, <1>2, IngestStays
<1> QED  BY <1>4, <1>5 DEF FeedInv

LEMMA DebouncePassesKeeps ==
    ASSUME FeedInv, DebouncePasses
    PROVE  FeedInv'
<1>1. /\ sub' \in Subscription /\ sub'.requested = sub.requested
      /\ sub'.subscribed = sub.subscribed /\ sub'.failed = sub.failed
  BY DEF FeedInv, LoopInv, LoopTypes, DebouncePasses, Subscription
<1>2. LoopInv'
  BY <1>1 DEF FeedInv, DebouncePasses, LoopInv, LoopTypes, ChannelsInv, demand, source
<1>3. IngestInv'
  BY IngestStays DEF FeedInv, DebouncePasses, source
<1> QED  BY <1>2, <1>3 DEF FeedInv


-----------------------------------------------------------------------------
(* The theorems.                                                           *)

LEMMA FeedStarts ==
    FeedInit => FeedInv
<1> SUFFICES ASSUME FeedInit PROVE FeedInv
  OBVIOUS
<1>1. /\ <<>> \in Seq(WireTick) /\ <<>> \in Seq(QueueTick) /\ <<>> \in Seq(Job)
      /\ DOMAIN <<>> = {} /\ Len(<<>>) = 0
  OBVIOUS
<1>2. sub = NewSub /\ wanted \subseteq Codes /\ requests \subseteq Codes
  BY DEF FeedInit
<1>3. /\ sub \in Subscription /\ sub.requested = {} /\ sub.subscribed = {} /\ sub.failed = {}
  BY <1>2, NewSubFacts
<1>4. LoopInv
  BY <1>2, <1>3 DEF FeedInit, LoopInv, LoopTypes, ChannelsInv
<1>5. IngestTypes
  <2>1. boot \in [requested : SUBSET Codes, retry : SUBSET Codes]
    BY DEF FeedInit, NewBoot
  <2>2. seen \in [Codes -> Mark] /\ latest \in [Codes -> Price] /\ market \in [Codes -> Nat \ {0}]
    BY DEF FeedInit, NewSeen, Mark, Price, None
  <2>3. Len(queue) <= QueueSize
    BY <1>1, FeedAssumption DEF FeedInit
  <2> QED  BY <1>1, <2>1, <2>2, <2>3 DEF FeedInit, IngestTypes
<1>6. OrderInv
  <2>1. \A c \in Codes : latest[c].time <= market[c]
    BY DEF FeedInit, None
  <2> QED  BY <1>1, <2>1 DEF FeedInit, OrderInv, Ordered
<1>7. PriceInv
  BY <1>1 DEF FeedInit, PriceInv, Behind, Awaited
<1>8. SnapshotInv
  BY DEF FeedInit, SnapshotInv, NewBoot
<1> QED  BY <1>4, <1>5, <1>6, <1>7, <1>8 DEF FeedInv, IngestInv

LEMMA FeedSteps ==
    FeedInv /\ [FeedNext]_feedVars => FeedInv'
<1> SUFFICES ASSUME FeedInv, [FeedNext]_feedVars PROVE FeedInv'
  OBVIOUS
<1>1. LoopInv /\ IngestInv /\ IngestTypes /\ OrderInv /\ wanted \subseteq Codes /\ requests \subseteq Codes
  BY DEF FeedInv, LoopInv, LoopTypes, IngestInv
\* A step that leaves the loop, the connection and the demand alone.
<1>2. ASSUME IngestInv', UNCHANGED <<demand, channels, conn, loop>> PROVE FeedInv'
  <2>1. LoopInv'
    BY <1>1, <1>2, LoopStays DEF demand, loop
  <2> QED  BY <1>2, <2>1 DEF FeedInv
<1>3. CASE (\E c \in Codes : Want(c)) \/ Prepare(Codes) \/ Expire \/ BackoffPasses \/ DropForgotten
  BY <1>3, DemandKeeps
<1>4. ASSUME NEW c \in Codes, Tick(c) PROVE FeedInv'
  <2>1. IngestInv'
    BY <1>1, <1>4, TickKeeps
  <2>2. UNCHANGED <<demand, channels, conn, loop>>
    BY <1>4 DEF Tick
  <2> QED  BY <1>2, <2>1, <2>2
<1>5. ASSUME NEW c \in Codes, OrderSnapshot(c) PROVE FeedInv'
  <2>1. IngestInv'
    BY <1>1, <1>5, OrderSnapshotKeeps
  <2>2. UNCHANGED <<demand, channels, conn, loop>>
    BY <1>5 DEF OrderSnapshot, source
  <2> QED  BY <1>2, <2>1, <2>2
<1>6. CASE OnQuote
  <2>1. IngestInv'
    BY <1>1, <1>6, OnQuoteKeeps
  <2>2. UNCHANGED <<demand, channels, conn, loop>>
    BY <1>6 DEF OnQuote
  <2> QED  BY <1>2, <2>1, <2>2
<1>7. CASE ConnectionDies
  BY <1>7, ConnectionDiesKeeps
<1>8. CASE \E state \in {"disconnected", "slow_consumer", "recovered"} : OnMessage(state)
  BY <1>8, DemandKeeps
<1>9. CASE Disconnect
  BY <1>9, DisconnectKeeps
<1>10. CASE StopAll
  BY <1>10, StopAllKeeps
<1>11. CASE ApplyChange
  BY <1>11, ApplyChangeKeeps
<1>12. CASE Maintain
  BY <1>12, MaintainKeeps
<1>13. CASE Replace
  BY <1>13, ReplaceKeeps
<1>14. CASE Start
  BY <1>14, StartKeeps
<1>15. CASE Publish
  BY <1>15, StatusPublished
<1>16. CASE ReplaceFails
  BY <1>16, ReplaceFailsKeeps
<1>17. CASE StartFails
  BY <1>17, StartFailsKeeps
<1>18. CASE DebouncePasses
  BY <1>18, DebouncePassesKeeps
<1>19. CASE RetryDue
  <2>1. IngestInv'
    BY <1>1, <1>19, RetryDueKeeps
  <2>2. UNCHANGED <<demand, channels, conn, loop>>
    BY <1>19 DEF RetryDue, source
  <2> QED  BY <1>2, <2>1, <2>2
<1>20. CASE JobSucceeds
  <2>1. IngestInv'
    BY <1>1, <1>20, JobSucceedsKeeps
  <2>2. UNCHANGED <<demand, channels, conn, loop>>
    BY <1>20 DEF JobSucceeds, source
  <2> QED  BY <1>2, <2>1, <2>2
<1>21. CASE JobFails
  <2>1. IngestInv'
    BY <1>1, <1>21, JobFailsKeeps
  <2>2. UNCHANGED <<demand, channels, conn, loop>>
    BY <1>21 DEF JobFails, source
  <2> QED  BY <1>2, <2>1, <2>2
<1>22. CASE Process
  <2>1. IngestInv'
    BY <1>1, <1>22, ProcessKeeps
  <2>2. UNCHANGED <<demand, channels, conn, loop>>
    BY <1>22 DEF Process, source
  <2> QED  BY <1>2, <2>1, <2>2
<1>23. CASE Restart
  <2>1. IngestInv'
    BY <1>1, <1>23, RestartKeeps
  <2>2. /\ sub' = NewSub /\ conn' = "none" /\ pc' = "observe" /\ UNCHANGED demand
    BY <1>23 DEF Restart
  <2>3. /\ sub' \in Subscription /\ sub'.requested = {} /\ sub'.subscribed = {} /\ sub'.failed = {}
    BY <2>2, NewSubFacts
  <2>4. LoopInv'
    BY <1>1, <2>2, <2>3 DEF LoopInv, LoopTypes, ChannelsInv, demand
  <2> QED  BY <2>1, <2>4 DEF FeedInv
<1>24. CASE UNCHANGED feedVars
  <2>1. UNCHANGED <<demand, channels, conn, loop>> /\ UNCHANGED <<market, wire, ingest, latest, skipped>>
    BY <1>24 DEF feedVars, source
  <2>2. IngestInv'
    BY <1>1, <2>1, IngestStays
  <2> QED  BY <1>2, <2>1, <2>2
<1> QED
  BY <1>3, <1>4, <1>5, <1>6, <1>7, <1>8, <1>9, <1>10, <1>11, <1>12, <1>13, <1>14, <1>15, <1>16,
     <1>17, <1>18, <1>19, <1>20, <1>21, <1>22, <1>23, <1>24 DEF FeedNext, LoopStep

\* The invariant of the subscriber: what the queue and the wire may still bring, where
\* the watermark of each code stands, and where each snapshot asked for is.
THEOREM FeedInvariant == FeedSpec => []FeedInv
<1>1. FeedInit => FeedInv
  BY FeedStarts
<1>2. FeedInv /\ [FeedNext]_feedVars => FeedInv'
  BY FeedSteps
<1> QED  BY <1>1, <1>2, PTL DEF FeedSpec

\* The queue never grows beyond its bound, and only codes that were requested are taken
\* to be subscribed or failed.
THEOREM FeedTypes == FeedSpec => []FeedTypeOK
<1>1. FeedInv => FeedTypeOK
  BY DEF FeedInv, LoopInv, LoopTypes, ChannelsInv, IngestInv, IngestTypes, FeedTypeOK
<1> QED  BY <1>1, FeedInvariant, PTL

\* A source is reported as running only with the channels of all codes requested, and
\* every code subscribed has a price, or its snapshot is on its way or was lost.
THEOREM SubscriptionsAlwaysComplete == FeedSpec => []SubscriptionsAreComplete
<1>1. FeedInv => RunningIsComplete
  <2> SUFFICES ASSUME FeedInv, pc = "publish", Status = "RUNNING"
               PROVE  conn = "alive" /\ channels = sub.requested
    BY DEF RunningIsComplete
  <2>1. conn = "alive" /\ AllSubscribed(sub)
    BY DEF Status
  <2> QED  BY <2>1 DEF FeedInv, LoopInv, ChannelsInv, AllSubscribed
<1>2. FeedInv => SnapshotNotForgotten
  <2> SUFFICES ASSUME FeedInv, NEW c \in sub.subscribed \ skipped, c \in boot.requested
               PROVE  \/ latest[c] # None
                      \/ \E i \in DOMAIN jobs : c \in jobs[i].codes
                      \/ \E i \in DOMAIN queue : queue[i].code = c
    BY DEF SnapshotNotForgotten
  <2>1. Expected(c)
    BY DEF FeedInv, IngestInv, SnapshotInv
  <2> QED  BY <2>1 DEF Expected, Queued
<1>3. FeedInv => SubscriptionsAreComplete
  BY <1>1, <1>2 DEF SubscriptionsAreComplete
<1> QED  BY <1>3, FeedInvariant, PTL

\* A price goes back in time only behind a snapshot of the API process, or by a tick
\* that was sent before its code was given up: no snapshot replaces a later tick, and no
\* late tick a later snapshot.
THEOREM PricesGoForward == FeedSpec => PriceGoesForward
<1> DEFINE Forward ==
       \A c \in Codes : latest'[c].time < latest[c].time =>
          latest[c].byOrder \/ Head(queue).time <= seen[c].since
<1>1. FeedInv /\ [FeedNext]_feedVars => [Forward]_latest
  <2> SUFFICES ASSUME FeedInv, [FeedNext]_feedVars, latest' # latest PROVE Forward
    OBVIOUS
  <2>1. /\ IngestInv /\ IngestTypes /\ latest \in [Codes -> Price]
        /\ \A c \in Codes : latest[c].time \in Nat
    BY DEF FeedInv, IngestInv, IngestTypes, Price
  <2>2. Process \/ \E c \in Codes : OrderSnapshot(c)
    BY DEF FeedNext, LoopStep, feedVars, Want, Prepare, Expire, Tick, OnQuote, DropForgotten,
           ConnectionDies, OnMessage, Disconnect, StopAll, ApplyChange, Maintain, Replace,
           Start, Publish, ReplaceFails, StartFails, DebouncePasses, BackoffPasses,
           RetryDue, JobSucceeds, JobFails, Restart
  <2>3. CASE Process
    <3> DEFINE x == Head(queue)
    <3>1. queue # <<>> /\ ~Obsolete(x) /\ Write(x)
      BY <2>3 DEF Process
    <3>2. x.code \in Codes /\ x.time \in Nat /\ x.kind \in {"LIVE", "REST"}
      <4>1. x \in QueueTick
        BY <2>1, <3>1, TailFacts DEF IngestTypes
      <4> QED  BY <4>1 DEF QueueTick
    <3>3. /\ Wins(x)
          /\ \A c \in Codes : c # x.code => latest'[c] = latest[c]
          /\ latest'[x.code].time = x.time
      BY <2>1, <3>1, <3>2 DEF Write
    <3>4. ASSUME x.time < latest[x.code].time
          PROVE  latest[x.code].byOrder \/ x.time <= seen[x.code].since
      <4>1. x.kind = "LIVE"
        BY <2>1, <3>2, <3>3, <3>4 DEF Wins
      <4> QED  BY <2>1, <3>1, <3>4, <4>1, LiveIsNotLate
    <3> HIDE DEF x
    <3>5. \A c \in Codes : latest'[c].time < latest[c].time => c = x.code
      BY <2>1, <3>3
    <3> QED  BY <3>3, <3>4, <3>5 DEF x
  <2>4. ASSUME NEW c \in Codes, OrderSnapshot(c) PROVE Forward
    <3>1. PICK lag \in {0, 1} : Write([code |-> c, time |-> Stored(c, lag), kind |-> "ORDER"])
      BY <2>4 DEF OrderSnapshot
    <3>2. PICK n \in Nat : n = Stored(c, lag)
      BY <2>1, StoredTicks DEF IngestTypes
    <3>3. latest' = IF latest[c].time < n
                    THEN [latest EXCEPT ![c] = [time |-> n, byOrder |-> TRUE]] ELSE latest
      BY <3>1, <3>2 DEF Write, Wins
    <3>4. \A d \in Codes : ~(latest'[d].time < latest[d].time)
      BY <2>1, <3>2, <3>3
    <3> QED  BY <3>4
  <2> QED  BY <2>2, <2>3, <2>4
<1>2. FeedInv /\ [FeedNext]_feedVars =>
         [\A c \in Codes : latest'[c].time < latest[c].time =>
             latest[c].byOrder \/ Head(queue).time <= seen[c].since]_latest
  BY <1>1
<1> QED  BY <1>2, FeedInvariant, PTL DEF FeedSpec, PriceGoesForward

=============================================================================
