------------------------ MODULE DailySettlementProofs ------------------------
(***************************************************************************)
(* The safety of the settlement for any number of orders, days, operator   *)
(* processes and failures, and for any mixture of order kinds.             *)
(*                                                                         *)
(* The lock separates two kinds of steps: those that move orders and those *)
(* that move batches.  Each side's steps are first reduced to a few shapes *)
(* (OrderShape, BatchShape); the theorems are proved from the shapes.      *)
(*                                                                         *)
(* At the end, what is shown of an account between and after settlements:  *)
(* the writers of its snapshots and the settlement's recovery of Redis     *)
(* (SnapshotInv).                                                          *)
(***************************************************************************)
EXTENDS DailySettlement, RealtimePnl, WellFoundedInduction, TLAPS

-----------------------------------------------------------------------------
(* The invariant.                                                          *)

\* The types, but for the queue, of which nothing needs to be known.
Types ==
    /\ clock \in 1 .. 3 * MaxDay
    /\ requests \in [OrderIds -> Request]
    /\ orders \in [OrderIds -> Order]
    /\ arrivals \in [OrderIds -> Arrival]
    /\ holders \subseteq Transactions
    /\ exclusive \in Runners \cup {NoRunner}
    /\ runs \in [Runners -> [step : Steps, day : 0 .. MaxDay]]
    /\ batches \in [Days -> Batch]
    /\ \A o \in OrderIds :
         /\ requests[o].stage = "RESOLVED" => requests[o].day \in Days
         /\ orders[o].status # "NONE" =>
               orders[o].day \in Days /\ requests[o].stage = "OVER"
         /\ arrivals[o].state # "NONE" => KindOf[o] = "MARKET"
    /\ \A r \in Runners : runs[r].step # "IDLE" => runs[r].day \in Days

Started(d) == batches[d].status # "NONE"
Completed(d) == batches[d].status = "COMPLETED"

\* What a settlement process has made sure of before it is where it is.
RunKnows(r) ==
    /\ runs[r].step # "IDLE" => \A e \in 1 .. runs[r].day - 1 : Started(e)
    /\ runs[r].step \notin {"IDLE", "WAITING", "PREFLIGHT"} =>
          \A e \in 1 .. runs[r].day - 1 : Completed(e)
    /\ runs[r].step \notin {"IDLE", "WAITING", "PREFLIGHT", "STARTING"} =>
          Started(runs[r].day)
    /\ runs[r].step = "COMPLETING" => batches[runs[r].day].postings > 0

\* Batches are started, posted and completed in the order of their days.
BatchKnows(d) ==
    /\ Started(d) => \A e \in 1 .. d - 1 : Completed(e)
    /\ batches[d].postings > 0 => Started(d)
    /\ Completed(d) => batches[d].postings > 0
    /\ batches[d].postings <= 1

\* A trading transaction inside the gate found every batch complete and its
\* day ahead of them all, and so they stay while it holds the lock.
HolderKnows(o) ==
    /\ (\E kind \in {"create", "fill", "cancel"} : << kind, o >> \in holders) =>
          ~Cash(o) /\ \A d \in StartedDays : Completed(d)
    /\ << "create", o >> \in holders =>
          /\ requests[o].stage = "RESOLVED"
          /\ \A d \in StartedDays : d < requests[o].day
    /\ << "fill", o >> \in holders =>
          /\ orders[o].status # "NONE"
          /\ \A d \in StartedDays : d < orders[o].day

\* A derivative order is over when its day is posted, and posted as it is.
OrderKnows(o) ==
    ~Cash(o) /\ orders[o].day \in Days /\ batches[orders[o].day].postings > 0 =>
       ~Active(o) /\ batches[orders[o].day].facts[o] = orders[o].traded

SettlementInv ==
    /\ Types
    /\ LockExcludes
    /\ \A r \in Runners : RunKnows(r)
    /\ \A d \in Days : BatchKnows(d)
    /\ \A o \in OrderIds : HolderKnows(o) /\ OrderKnows(o)

-----------------------------------------------------------------------------
(* The latest batch.                                                       *)

LEMMA LatestStarted ==
    ASSUME StartedDays # {}
    PROVE  LatestDay \in StartedDays /\ \A d \in StartedDays : d <= LatestDay
<1>1. MaxDay \in Nat /\ StartedDays \subseteq 1 .. MaxDay
  BY BoundsAssumption DEF StartedDays, Days
<1> DEFINE left == {MaxDay - d : d \in StartedDays}
<1>2. left \subseteq Nat /\ left # {}
  <2>1. \A d \in StartedDays : MaxDay - d \in Nat
    BY <1>1
  <2> QED  BY <2>1
<1>3. PICK x \in left : \A y \in left : << y, x >> \notin OpToRel(<, Nat)
  BY <1>2, WFMin, NatLessThanWellFounded
<1>4. \A y \in left : x <= y
  <2>1. SUFFICES ASSUME NEW y \in left PROVE ~(y < x)
    BY <1>2
  <2>2. << y, x >> \in Nat \X Nat
    BY <1>2
  <2>3. y < x => << y, x >> \in OpToRel(<, Nat)
    BY <2>2 DEF OpToRel
  <2> QED  BY <1>3, <2>3
<1>5. PICK latest \in StartedDays : x = MaxDay - latest
  BY <1>3
<1>6. \A d \in StartedDays : latest >= d
  BY <1>1, <1>4, <1>5
<1>7. LatestDay = CHOOSE m \in StartedDays : \A d \in StartedDays : m >= d
  BY DEF LatestDay, Max
<1>8. LatestDay \in StartedDays /\ \A d \in StartedDays : LatestDay >= d
  BY <1>6, <1>7
<1> QED  BY <1>1, <1>8

\* What passing the gate means for all batches.
LEMMA GateOpen ==
    ASSUME TradingOpen, \A d \in Days : BatchKnows(d)
    PROVE  \A d \in StartedDays : Completed(d)
<1> SUFFICES ASSUME NEW d \in StartedDays PROVE Completed(d)
  OBVIOUS
<1>1. LatestDay \in StartedDays /\ d <= LatestDay
  BY LatestStarted
<1>2. Completed(LatestDay)
  BY <1>1 DEF TradingOpen, Completed
<1>3. d \in 1 .. MaxDay /\ LatestDay \in 1 .. MaxDay /\ MaxDay \in Nat
  BY <1>1, BoundsAssumption DEF StartedDays, Days
<1>4. CASE d < LatestDay
  BY <1>1, <1>3, <1>4 DEF BatchKnows, Started, StartedDays
<1>5. CASE d = LatestDay
  BY <1>2, <1>5
<1> QED  BY <1>1, <1>3, <1>4, <1>5

LEMMA GateOpenFor ==
    ASSUME NEW day \in Days, TradingOpenFor(day)
    PROVE  \A d \in StartedDays : d < day
<1> SUFFICES ASSUME NEW d \in StartedDays PROVE d < day
  OBVIOUS
<1>1. LatestDay \in StartedDays /\ d <= LatestDay
  BY LatestStarted
<1>2. d \in Int /\ LatestDay \in Int /\ day \in Int
  BY <1>1, BoundsAssumption DEF StartedDays, Days
<1> QED  BY <1>1, <1>2 DEF TradingOpenFor

-----------------------------------------------------------------------------
(* Types.                                                                  *)

LEMMA TypesInit == Init => Types
<1> SUFFICES ASSUME Init PROVE Types
  OBVIOUS
<1>1. clock \in 1 .. 3 * MaxDay
  BY BoundsAssumption DEF Init
<1>2. batches \in [Days -> Batch]
  <2>1. [o \in OrderIds |-> 0] \in [OrderIds -> Nat]
    BY OrderAssumption
  <2> QED  BY <2>1 DEF Init, Batch
<1>3. /\ requests \in [OrderIds -> Request]
      /\ orders \in [OrderIds -> Order]
      /\ arrivals \in [OrderIds -> Arrival]
  BY BoundsAssumption, OrderAssumption DEF Init, Request, Order, Arrival
<1>4. runs \in [Runners -> [step : Steps, day : 0 .. MaxDay]]
  BY BoundsAssumption DEF Init, Stopped, Steps
<1>5. holders \subseteq Transactions /\ exclusive \in Runners \cup {NoRunner}
  BY DEF Init
<1> QED  BY <1>1, <1>2, <1>3, <1>4, <1>5 DEF Init, Types, Stopped

Trading ==
    \/ TimePasses
    \/ \E o \in OrderIds : Trade(o)
    \/ \E t \in holders : Rollback(t)

\* Steps of trading: what they change keeps its type, and they leave the
\* settlement alone.
LEMMA TypesTrading ==
    ASSUME Types, \A o \in OrderIds : HolderKnows(o),
           Trading
    PROVE  Types' /\ UNCHANGED settling
<1> USE DEF Types
<1> DEFINE Rows ==
      \A q \in OrderIds :
         /\ requests[q].stage = "RESOLVED" => requests[q].day \in Days
         /\ orders[q].status # "NONE" =>
               orders[q].day \in Days /\ requests[q].stage = "OVER"
         /\ arrivals[q].state # "NONE" => KindOf[q] = "MARKET"
<1>0. ASSUME requests' \in [OrderIds -> Request], orders' \in [OrderIds -> Order],
             arrivals' \in [OrderIds -> Arrival], holders' \subseteq Transactions,
             Rows', UNCHANGED << clock, settling >>
      PROVE  Types' /\ UNCHANGED settling
  BY <1>0 DEF settling
<1>1. CASE TimePasses
  <2>1. clock' \in 1 .. 3 * MaxDay
    BY <1>1, BoundsAssumption DEF TimePasses
  <2> QED  BY <1>1, <2>1 DEF TimePasses, trading, settling
<1>2. ASSUME NEW o \in OrderIds,
             orders' = [orders EXCEPT ![o].status = "CANCELLED"] \/ UNCHANGED orders,
             orders' = orders \/ Active(o)
      PROVE  /\ orders' \in [OrderIds -> Order]
             /\ (UNCHANGED << requests, arrivals >>) => Rows'
  <2>1. [orders[o] EXCEPT !.status = "CANCELLED"] \in Order
    BY DEF Order
  <2>2. orders' \in [OrderIds -> Order]
    BY <1>2, <2>1
  <2>3. \A q \in OrderIds : orders'[q].status # "NONE" =>
            orders[q].status # "NONE" /\ orders'[q].day = orders[q].day
    BY <1>2, <2>1 DEF Order, Active
  <2> QED  BY <2>2, <2>3
<1>3. ASSUME NEW o \in OrderIds, Active(o),
             \E lots \in 1 .. Lots[o] - orders[o].traded :
                orders' = [orders EXCEPT ![o] = Filled(@, lots, Lots[o])]
      PROVE  /\ orders' \in [OrderIds -> Order]
             /\ (UNCHANGED requests) => \A q \in OrderIds :
                  orders'[q].status # "NONE" =>
                     orders'[q].day \in Days /\ requests'[q].stage = "OVER"
  <2>1. PICK lots \in 1 .. Lots[o] - orders[o].traded :
             orders' = [orders EXCEPT ![o] = Filled(@, lots, Lots[o])]
    BY <1>3
  <2>2. /\ orders[o].day \in 0 .. MaxDay /\ orders[o].traded \in Nat
        /\ orders[o].status = "ACTIVE" /\ orders[o] \in Order
    BY <1>3 DEF Order, Active
  <2>3. orders[o].traded + lots \in Nat
    BY <2>1, <2>2, OrderAssumption
  <2> DEFINE traded == orders[o].traded + lots
             status == IF traded = Lots[o] THEN "FILLED" ELSE orders[o].status
  <2>4. Filled(orders[o], lots, Lots[o]) = [orders[o] EXCEPT !.traded = traded, !.status = status]
    BY DEF Filled
  <2>c. status \in {"ACTIVE", "FILLED"} /\ traded \in Nat
    BY <2>2, <2>3
  <2> HIDE DEF status, traded
  <2>d. /\ [orders[o] EXCEPT !.traded = traded, !.status = status] \in Order
        /\ [orders[o] EXCEPT !.traded = traded, !.status = status].day = orders[o].day
    BY <2>2, <2>c DEF Order
  <2>5. Filled(orders[o], lots, Lots[o]) \in Order /\ Filled(orders[o], lots, Lots[o]).day = orders[o].day
    BY <2>4, <2>d
  <2>6. orders' \in [OrderIds -> Order]
    BY <2>1, <2>5
  <2>7. \A q \in OrderIds : orders'[q].status # "NONE" =>
            orders[q].status # "NONE" /\ orders'[q].day = orders[q].day
    BY <2>1, <2>2, <2>5
  <2> QED  BY <2>6, <2>7
<1>4. ASSUME NEW o \in OrderIds, arrivals[o].state \in {"PENDING", "MATCHED"} \/ KindOf[o] = "MARKET",
             arrivals' = DeliveryFailed(o) \/ arrivals' = DeliveryDone(o)
               \/ arrivals' = [arrivals EXCEPT ![o].state = "MATCHED"]
               \/ arrivals' = [arrivals EXCEPT ![o].state = "PENDING"]
      PROVE  /\ arrivals' \in [OrderIds -> Arrival]
             /\ \A q \in OrderIds : arrivals'[q].state # "NONE" => KindOf[q] = "MARKET"
  <2>1. arrivals' \in [OrderIds -> Arrival]
    BY <1>4, BoundsAssumption DEF DeliveryFailed, DeliveryDone, Arrival
  <2>2. \A q \in OrderIds : q # o => arrivals'[q] = arrivals[q]
    BY <1>4 DEF DeliveryFailed, DeliveryDone
  <2> QED  BY <1>4, <2>1, <2>2
<1>5. ASSUME NEW o \in OrderIds, Trade(o) PROVE Types' /\ UNCHANGED settling
  <2>1. CASE ResolveDay(o)
    <3>1. Today \in Days
      BY <2>1, BoundsAssumption DEF ResolveDay, SessionOpen, Today, Days
    <3>2. requests' \in [OrderIds -> Request]
      BY <2>1, <3>1 DEF ResolveDay, Request, Days
    <3> QED  BY <2>1, <3>1, <3>2 DEF ResolveDay, settling
  <2>2. CASE EnterToCreate(o)
    <3>1. holders' \subseteq Transactions
      BY <2>2 DEF EnterToCreate, Transactions
    <3>2. requests' \in [OrderIds -> Request]
      BY <2>2, BoundsAssumption DEF EnterToCreate, Request, Over
    <3> QED  BY <2>2, <3>1, <3>2 DEF EnterToCreate, Over, settling
  <2>3. CASE Accept(o)
    <3>0. requests[o].stage = "RESOLVED" /\ requests[o].day \in Days
      BY <2>3 DEF Accept, HolderKnows
    <3>1. AcceptedOrder(o) \in Order /\ AcceptedOrder(o).day \in Days
      BY <3>0, BoundsAssumption DEF AcceptedOrder, Order, Request
    <3>2. /\ requests' \in [OrderIds -> Request]
          /\ \A q \in OrderIds : q # o => requests'[q] = requests[q]
          /\ requests'[o].stage = "OVER"
      BY <2>3, BoundsAssumption DEF Accept, Request, Over
    <3>3. /\ orders' \in [OrderIds -> Order]
          /\ \A q \in OrderIds : q # o => orders'[q] = orders[q]
          /\ orders'[o] = orders[o] \/ orders'[o].day \in Days
      BY <2>3, <3>1 DEF Accept
    <3>4. /\ arrivals' \in [OrderIds -> Arrival]
          /\ \A q \in OrderIds : arrivals'[q].state # "NONE" => KindOf[q] = "MARKET"
      BY <2>3, <1>4 DEF Accept
    <3>5. holders' \subseteq Transactions /\ UNCHANGED << clock, settling >>
      BY <2>3 DEF Accept
    <3>6. Rows'
      BY <3>2, <3>3, <3>4
    <3> QED  BY <1>0, <3>2, <3>3, <3>4, <3>5, <3>6
  <2>4. CASE AcceptCash(o)
    <3>1. AcceptedOrder(o) \in Order /\ AcceptedOrder(o).day \in Days
      BY <2>4, BoundsAssumption DEF AcceptCash, AcceptedOrder, Order, Request
    <3>2. /\ requests' \in [OrderIds -> Request]
          /\ \A q \in OrderIds : q # o => requests'[q] = requests[q]
          /\ requests'[o].stage = "OVER"
      BY <2>4, BoundsAssumption DEF AcceptCash, Request, Over
    <3>3. /\ orders' \in [OrderIds -> Order]
          /\ \A q \in OrderIds : q # o => orders'[q] = orders[q]
          /\ orders'[o] = orders[o] \/ orders'[o].day \in Days
      BY <2>4, <3>1 DEF AcceptCash
    <3>4. UNCHANGED << clock, arrivals, holders, settling >>
      BY <2>4 DEF AcceptCash
    <3>5. Rows'
      BY <3>2, <3>3, <3>4
    <3> QED  BY <1>0, <3>2, <3>3, <3>4, <3>5
  <2>5. CASE EnterToFill(o) \/ EnterToCancel(o)
    BY <2>5 DEF EnterToFill, EnterToCancel, Transactions, trading, settling
  <2>6. CASE Settle(o)
    <3>1. /\ orders' \in [OrderIds -> Order]
          /\ \A q \in OrderIds : orders'[q].status # "NONE" =>
                orders'[q].day \in Days /\ requests'[q].stage = "OVER"
      BY <2>6, <1>3 DEF Settle
    <3>2. /\ arrivals' \in [OrderIds -> Arrival]
          /\ \A q \in OrderIds : arrivals'[q].state # "NONE" => KindOf[q] = "MARKET"
      BY <2>6, <1>4 DEF Settle
    <3>3. holders' \subseteq Transactions /\ UNCHANGED << clock, requests, settling >>
      BY <2>6 DEF Settle
    <3>4. Rows'
      BY <3>1, <3>2, <3>3
    <3> QED  BY <1>0, <3>1, <3>2, <3>3, <3>4
  <2>7. CASE FillCash(o)
    <3>1. /\ orders' \in [OrderIds -> Order]
          /\ \A q \in OrderIds : orders'[q].status # "NONE" =>
                orders'[q].day \in Days /\ requests'[q].stage = "OVER"
      BY <2>7, <1>3 DEF FillCash
    <3>2. UNCHANGED << clock, requests, arrivals, holders, settling >>
      BY <2>7 DEF FillCash
    <3>3. Rows'
      BY <3>1, <3>2
    <3> QED  BY <1>0, <3>1, <3>2, <3>3
  <2>8. CASE EnterMarket(o) \/ IgnoreArrival(o) \/ FailRemainder(o)
    <3>1. /\ arrivals' \in [OrderIds -> Arrival]
          /\ \A q \in OrderIds : arrivals'[q].state # "NONE" => KindOf[q] = "MARKET"
      BY <2>8, <1>4 DEF EnterMarket, IgnoreArrival, FailRemainder
    <3>2. holders' \subseteq Transactions
      BY <2>8 DEF EnterMarket, IgnoreArrival, FailRemainder, Transactions
    <3>3. UNCHANGED << clock, requests, orders, settling >>
      BY <2>8 DEF EnterMarket, IgnoreArrival, FailRemainder
    <3>4. Rows'
      BY <3>1, <3>3
    <3> QED  BY <1>0, <3>1, <3>2, <3>3, <3>4
  <2>9. CASE CancelRemainder(o)
    <3>1. /\ arrivals' \in [OrderIds -> Arrival]
          /\ \A q \in OrderIds : arrivals'[q].state # "NONE" => KindOf[q] = "MARKET"
      BY <2>9, <1>4 DEF CancelRemainder
    <3>2. orders' \in [OrderIds -> Order]
      BY <2>9, <1>2 DEF CancelRemainder
    <3>3. UNCHANGED << clock, requests, holders, settling >>
      BY <2>9 DEF CancelRemainder
    <3>4. Rows'
      BY <2>9, <3>1, <3>3 DEF CancelRemainder, Order, Active
    <3> QED  BY <1>0, <3>1, <3>2, <3>3, <3>4
  <2>10. CASE Cancel(o) \/ CancelCash(o)
    <3>1. orders' \in [OrderIds -> Order] /\ Rows'
      BY <2>10, <1>2 DEF Cancel, CancelCash
    <3>2. holders' \subseteq Transactions /\ UNCHANGED << clock, requests, arrivals, settling >>
      BY <2>10 DEF Cancel, CancelCash
    <3> QED  BY <1>0, <3>1, <3>2
  <2>11. CASE SellOut(o)
    <3>1. Today \in 0 .. MaxDay /\ UNCHANGED << clock, requests, arrivals, holders, settling >>
      BY <2>11, BoundsAssumption DEF SellOut, SessionOpen, Today
    <3>2. [orders[o] EXCEPT !.sold = Today] \in Order
      BY <3>1 DEF Order
    <3>3. orders' \in [OrderIds -> Order]
      BY <2>11, <3>2 DEF SellOut
    <3>4. \A q \in OrderIds : orders'[q].status = orders[q].status /\ orders'[q].day = orders[q].day
      BY <2>11, <3>2 DEF SellOut, Order
    <3>5. Rows'
      BY <3>1, <3>4
    <3> QED  BY <1>0, <3>1, <3>3, <3>5
  <2> QED
    BY <1>5, <2>1, <2>2, <2>3, <2>4, <2>5, <2>6, <2>7, <2>8, <2>9, <2>10, <2>11 DEF Trade
<1>6. ASSUME NEW t \in holders, Rollback(t) PROVE Types' /\ UNCHANGED settling
  <2>1. t[2] \in OrderIds
    BY DEF Transactions
  <2>2. /\ requests' \in [OrderIds -> Request]
        /\ \A q \in OrderIds : requests'[q] = requests[q] \/ requests'[q].stage = "OVER"
    BY <1>6, <2>1, BoundsAssumption DEF Rollback, Request, Over
  <2>3. /\ arrivals' \in [OrderIds -> Arrival]
        /\ \A q \in OrderIds : arrivals'[q].state # "NONE" => KindOf[q] = "MARKET"
    BY <1>6, <2>1, <1>4 DEF Rollback
  <2>4. holders' \subseteq Transactions /\ UNCHANGED << clock, orders, settling >>
    BY <1>6 DEF Rollback
  <2>5. Rows'
    BY <2>2, <2>3, <2>4
  <2> QED  BY <1>0, <2>2, <2>3, <2>4, <2>5
<1> QED  BY <1>1, <1>5, <1>6 DEF Trading

-----------------------------------------------------------------------------
(* What the steps of a settlement process come to.                         *)

Inside == Steps \ {"IDLE", "WAITING"}
Working == Inside \ {"PREFLIGHT"}

Settling(r) == RunStep(r) \/ Raise(r) \/ Crash(r) \/ \E d \in Days : Start(r, d)

\* The run r joins the queue, takes the lock, passes the preflight, goes on or stops.
RunEnters(r) ==
    /\ runs[r].step = "IDLE" /\ runs'[r].step = "WAITING"
    /\ runs'[r].day \in Days /\ \A e \in 1 .. runs'[r].day - 1 : Started(e)
    /\ UNCHANGED << orders, batches, exclusive >>
RunLocks(r) ==
    /\ runs[r].step = "WAITING" /\ runs'[r].step = "PREFLIGHT"
    /\ runs'[r].day = runs[r].day
    /\ exclusive = NoRunner /\ holders = {} /\ exclusive' = r
    /\ UNCHANGED << orders, batches >>
RunPasses(r) ==
    /\ runs[r].step = "PREFLIGHT" /\ runs'[r].step = "STARTING"
    /\ runs'[r].day = runs[r].day /\ ~EarlierIncomplete(runs[r].day)
    /\ UNCHANGED << orders, batches, exclusive >>
RunGoesOn(r) ==
    /\ runs[r].step \in Working /\ runs'[r].step \in Working \ {"STARTING"}
    /\ runs'[r].day = runs[r].day
    /\ runs[r].step = "STARTING" => batches'[runs[r].day].status # "NONE"
    /\ runs'[r].step = "COMPLETING" => batches'[runs[r].day].postings > 0
    /\ UNCHANGED exclusive
RunStops(r) ==
    /\ runs[r].step # "IDLE" /\ runs'[r] = Stopped
    /\ \/ /\ exclusive' = NoRunner
          /\ runs[r].step \in Inside
       \/ exclusive' = IF exclusive = r THEN NoRunner ELSE exclusive

\* Its batch is posted, or changes without being posted.
BatchPosted(r) ==
    LET day == runs[r].day IN
    /\ runs[r].step = "REPLAYING"
    /\ batches[day].postings = 0 /\ batches'[day].postings = 1
    /\ batches'[day].facts = FactsOf(day) /\ CountedActive = {}
    /\ batches'[day].status = batches[day].status
    /\ batches'[day].contracts = batches[day].contracts
    /\ batches'[day].quote = batches[day].quote
BatchChanged(r) ==
    LET day == runs[r].day IN
    /\ batches'[day].postings = batches[day].postings
    /\ batches'[day].facts = batches[day].facts
    /\ batches'[day].status \in {"RUNNING", "FAILED", "COMPLETED", batches[day].status}
    /\ Completed(day) => batches'[day].status = "COMPLETED"
    /\ batches'[day].status = "COMPLETED" => Completed(day) \/ runs[r].step = "COMPLETING"
    /\ batches[day].contracts # {} =>
          /\ batches'[day].contracts = batches[day].contracts
          /\ batches'[day].quote = batches[day].quote
BatchMoves(r) ==
    /\ runs[r].step \in Working
    /\ \A e \in Days \ {runs[r].day} : batches'[e] = batches[e]
    /\ BatchPosted(r) \/ BatchChanged(r)
    /\ UNCHANGED orders

LEMMA FirstPosting == Min({0 + 1, 2}) = 1
<1>1. \A x \in {0 + 1, 2} : (\A y \in {0 + 1, 2} : x <= y) <=> x = 1
  OBVIOUS
<1>2. Min({0 + 1, 2}) = CHOOSE x \in {0 + 1, 2} : \A y \in {0 + 1, 2} : x <= y
  BY DEF Min
<1> QED  BY <1>1, <1>2

LEMMA StatusUpdated ==
    ASSUME batches \in [Days -> Batch], NEW day \in Days,
           NEW status \in {"RUNNING", "FAILED", "COMPLETED"},
           batches' = [batches EXCEPT ![day].status = status]
    PROVE  /\ batches' \in [Days -> Batch]
           /\ \A e \in Days \ {day} : batches'[e] = batches[e]
           /\ batches'[day].status = status
           /\ batches'[day].contracts = batches[day].contracts
           /\ batches'[day].quote = batches[day].quote
           /\ batches'[day].postings = batches[day].postings
           /\ batches'[day].facts = batches[day].facts
<1>1. [batches[day] EXCEPT !.status = status] \in Batch
  BY DEF Batch
<1>2. batches'[day] = [batches[day] EXCEPT !.status = status]
  OBVIOUS
<1>3. /\ batches'[day].status = status
      /\ batches'[day].contracts = batches[day].contracts
      /\ batches'[day].quote = batches[day].quote
      /\ batches'[day].postings = batches[day].postings
      /\ batches'[day].facts = batches[day].facts
  BY <1>2 DEF Batch
<1> QED  BY <1>1, <1>2, <1>3

LEMMA OrderEnded ==
    ASSUME orders \in [OrderIds -> Order], NEW o \in OrderIds,
           orders' = [orders EXCEPT ![o].status = "CANCELLED"]
    PROVE  /\ orders' \in [OrderIds -> Order]
           /\ \A q \in OrderIds \ {o} : orders'[q] = orders[q]
           /\ orders'[o].status = "CANCELLED"
           /\ orders'[o].day = orders[o].day
           /\ orders'[o].traded = orders[o].traded
<1>1. [orders[o] EXCEPT !.status = "CANCELLED"] \in Order
  BY DEF Order
<1>2. orders'[o] = [orders[o] EXCEPT !.status = "CANCELLED"]
  OBVIOUS
<1>3. /\ orders'[o].status = "CANCELLED"
      /\ orders'[o].day = orders[o].day
      /\ orders'[o].traded = orders[o].traded
  BY <1>2 DEF Order
<1> QED  BY <1>1, <1>2, <1>3

\* The steps of a settlement keep the types and have one of these shapes.
LEMMA SettlingShape ==
    ASSUME Types, NEW r \in Runners, Settling(r)
    PROVE  /\ UNCHANGED << clock, requests, arrivals, holders >>
           /\ \A s \in Runners \ {r} : runs'[s] = runs[s]
           /\ runs' \in [Runners -> [step : Steps, day : 0 .. MaxDay]]
           /\ RunEnters(r) \/ RunLocks(r) \/ RunPasses(r) \/ RunGoesOn(r) \/ RunStops(r)
           /\ batches' = batches \/ (batches' \in [Days -> Batch] /\ BatchMoves(r))
           /\ \/ orders' = orders
              \/ \E o \in OrderIds : /\ Active(o) /\ runs[r].step = "CANCELLING"
                                     /\ orders' = [orders EXCEPT ![o].status = "CANCELLED"]
<1> DEFINE Goal ==
      /\ UNCHANGED << clock, requests, arrivals, holders >>
      /\ \A s \in Runners \ {r} : runs'[s] = runs[s]
      /\ runs' \in [Runners -> [step : Steps, day : 0 .. MaxDay]]
      /\ RunEnters(r) \/ RunLocks(r) \/ RunPasses(r) \/ RunGoesOn(r) \/ RunStops(r)
      /\ batches' = batches \/ (batches' \in [Days -> Batch] /\ BatchMoves(r))
      /\ \/ orders' = orders
         \/ \E o \in OrderIds : /\ Active(o) /\ runs[r].step = "CANCELLING"
                                /\ orders' = [orders EXCEPT ![o].status = "CANCELLED"]
<1> DEFINE day == runs[r].day
<1>1. /\ runs \in [Runners -> [step : Steps, day : 0 .. MaxDay]]
      /\ runs[r].step # "IDLE" => day \in Days
      /\ batches \in [Days -> Batch] /\ orders \in [OrderIds -> Order]
      /\ MaxDay \in Nat
  BY BoundsAssumption DEF Types
<1>2. ASSUME NEW step \in Steps, GoTo(r, step)
      PROVE  /\ runs' \in [Runners -> [step : Steps, day : 0 .. MaxDay]]
             /\ \A s \in Runners \ {r} : runs'[s] = runs[s]
             /\ runs'[r].step = step /\ runs'[r].day = day
  BY <1>1, <1>2 DEF GoTo
<1>3. ASSUME runs' = [runs EXCEPT ![r] = Stopped]
      PROVE  /\ runs' \in [Runners -> [step : Steps, day : 0 .. MaxDay]]
             /\ \A s \in Runners \ {r} : runs'[s] = runs[s]
             /\ runs'[r] = Stopped
  BY <1>1, <1>3 DEF Stopped, Steps
<1>4. CASE \E d \in Days : Start(r, d)
  <2>1. PICK d \in Days : Start(r, d)
    BY <1>4
  <2>2. /\ runs' = [runs EXCEPT ![r] = [step |-> "WAITING", day |-> d]]
        /\ d \in 0 .. MaxDay
    BY <2>1, <1>1 DEF Start, Days
  <2>3. RunEnters(r)
    BY <1>1, <2>1, <2>2 DEF Start, RunEnters, StartedDays, Started, trading
  <2>4. runs' \in [Runners -> [step : Steps, day : 0 .. MaxDay]]
    BY <1>1, <2>2 DEF Steps
  <2> QED  BY <1>1, <2>1, <2>2, <2>3, <2>4 DEF Start, trading
<1>5. CASE AcquireExclusive(r)
  BY <1>1, <1>2, <1>5 DEF AcquireExclusive, trading, Steps, RunLocks
<1>6. CASE Preflight(r)
  BY <1>1, <1>2, <1>3, <1>6 DEF Preflight, PreflightPasses, Leave, trading, Steps,
     RunPasses, RunStops, Inside
<1>7. CASE LoadOrStartBatch(r)
  <2>1. UNCHANGED << clock, orders, requests, arrivals, holders, exclusive >> /\ runs[r].step = "STARTING"
    BY <1>7 DEF LoadOrStartBatch, trading
  <2>2. CASE Completed(day) /\ GoTo(r, "RECOVERING") /\ UNCHANGED batches
    BY <1>2, <2>1, <2>2 DEF Completed, Steps, RunGoesOn, Working, Inside
  <2>3. CASE /\ ~Completed(day) /\ GoTo(r, "CANCELLING")
             /\ batches' = [batches EXCEPT ![day].status = "RUNNING"]
    <3>1. batches' \in [Days -> Batch] /\ BatchMoves(r)
      BY <1>1, <2>1, <2>3, StatusUpdated DEF BatchMoves, BatchChanged, Completed,
         Working, Inside, Steps
    <3>2. batches'[day].status = "RUNNING"
      BY <1>1, <2>1, <2>3, StatusUpdated
    <3> QED  BY <1>2, <2>1, <2>3, <3>1, <3>2 DEF Steps, RunGoesOn, Working, Inside
  <2> QED  BY <1>7, <2>2, <2>3 DEF LoadOrStartBatch, Completed
<1>8. CASE CancelNext(r)
  <2>1. /\ UNCHANGED << clock, requests, arrivals, holders, exclusive, batches >>
        /\ runs[r].step = "CANCELLING"
    BY <1>8 DEF CancelNext
  <2>2. PICK o \in Listed :
             IF HasCancellationService(o)
               THEN /\ orders' = [orders EXCEPT ![o].status = "CANCELLED"]
                    /\ UNCHANGED runs
               ELSE GoTo(r, "FAILING") /\ UNCHANGED orders
    BY <1>8 DEF CancelNext
  <2>3. o \in OrderIds /\ Active(o)
    BY DEF Listed
  <2>4. CASE UNCHANGED runs /\ orders' = [orders EXCEPT ![o].status = "CANCELLED"]
    BY <1>1, <2>1, <2>3, <2>4 DEF RunGoesOn, Working, Inside, Steps
  <2>5. CASE GoTo(r, "FAILING") /\ UNCHANGED orders
    BY <1>2, <2>1, <2>5 DEF RunGoesOn, Working, Inside, Steps
  <2> QED  BY <2>2, <2>4, <2>5
<1>9. CASE OrdersCancelled(r) \/ ConfirmBarrier(r) \/ Raise(r)
  <2>1. /\ UNCHANGED << clock, trading, holders, exclusive, batches >>
        /\ runs[r].step \in {"CANCELLING", "BARRIER", "FREEZING", "REPLAYING",
                             "COMPLETING", "RECOVERING"}
        /\ GoTo(r, "BARRIER") \/ GoTo(r, "FREEZING") \/ GoTo(r, "FAILING")
    BY <1>9 DEF OrdersCancelled, ConfirmBarrier, Raise, RaisingSteps
  <2> QED  BY <1>2, <2>1 DEF trading, RunGoesOn, Working, Inside, Steps
<1>10. CASE FreezePrices(r)
  <2>1. /\ UNCHANGED << clock, orders, requests, arrivals, holders, exclusive >>
        /\ runs[r].step = "FREEZING"
        /\ GoTo(r, "REPLAYING") \/ GoTo(r, "FAILING")
    BY <1>10 DEF FreezePrices, trading
  <2>2. RunGoesOn(r)
    BY <1>2, <2>1 DEF RunGoesOn, Working, Inside, Steps
  <2>3. CASE UNCHANGED batches
    BY <1>2, <2>1, <2>2, <2>3 DEF Steps
  <2>4. CASE /\ ~FrozenBefore(day)
             /\ \E quote \in Quotes :
                  batches' = [batches EXCEPT ![day].contracts = RequiredContracts(day),
                                             ![day].quote = quote]
    <3>1. PICK quote \in Quotes :
               batches' = [batches EXCEPT ![day].contracts = RequiredContracts(day),
                                          ![day].quote = quote]
      BY <2>4
    <3>2. batches' = [batches EXCEPT ![day] =
                        [@ EXCEPT !.contracts = RequiredContracts(day), !.quote = quote]]
      BY <3>1
    <3>3. RequiredContracts(day) \in SUBSET OrderIds /\ batches[day] \in Batch
      BY <1>1, <2>1 DEF RequiredContracts
    <3>4. [batches[day] EXCEPT !.contracts = RequiredContracts(day), !.quote = quote] \in Batch
      BY <3>3 DEF Batch
    <3>5. /\ batches' \in [Days -> Batch]
          /\ \A e \in Days \ {day} : batches'[e] = batches[e]
          /\ batches'[day] =
               [batches[day] EXCEPT !.contracts = RequiredContracts(day), !.quote = quote]
      BY <1>1, <2>1, <3>2, <3>4
    <3>6. BatchChanged(r)
      BY <2>4, <3>3, <3>5 DEF BatchChanged, FrozenBefore, Batch, Completed
    <3>7. BatchMoves(r)
      BY <2>1, <3>5, <3>6 DEF BatchMoves, Working, Inside, Steps
    <3> QED  BY <1>2, <2>1, <2>2, <3>5, <3>7 DEF Steps
  <2> QED  BY <1>10, <2>3, <2>4 DEF FreezePrices
<1>11. CASE Replay(r)
  <2>1. /\ UNCHANGED << clock, orders, requests, arrivals, holders, exclusive >>
        /\ runs[r].step = "REPLAYING"
    BY <1>11 DEF Replay
  <2>2. CASE GoTo(r, "FAILING") /\ UNCHANGED batches
    BY <1>2, <2>1, <2>2 DEF RunGoesOn, Working, Inside, Steps
  <2>3. CASE /\ ReplayPasses(day) /\ GoTo(r, "COMPLETING")
             /\ batches' = [batches EXCEPT ![day].postings = Min({@ + 1, 2}),
                                           ![day].facts = FactsOf(day)]
    <3>1. batches[day] \in Batch /\ batches[day].postings = 0
      BY <1>1, <2>1, <2>3 DEF ReplayPasses, ResultsExist, Batch
    <3>2. batches' = [batches EXCEPT ![day] =
                        [@ EXCEPT !.postings = 1, !.facts = FactsOf(day)]]
      BY <1>1, <2>1, <2>3, <3>1, FirstPosting
    <3>3. FactsOf(day) \in [OrderIds -> Nat]
      BY <1>1, OrderAssumption DEF FactsOf, Order
    <3>4. [batches[day] EXCEPT !.postings = 1, !.facts = FactsOf(day)] \in Batch
      <4>1. ASSUME NEW posted \in 0 .. 2, NEW facts \in [OrderIds -> Nat]
            PROVE  [batches[day] EXCEPT !.postings = posted, !.facts = facts] \in Batch
        BY <3>1 DEF Batch
      <4>2. 1 \in 0 .. 2
        OBVIOUS
      <4> QED  BY <3>3, <4>1, <4>2, Zenon
    <3>5. /\ batches' \in [Days -> Batch]
          /\ \A e \in Days \ {day} : batches'[e] = batches[e]
          /\ batches'[day] = [batches[day] EXCEPT !.postings = 1, !.facts = FactsOf(day)]
      BY <1>1, <2>1, <3>2, <3>4
    <3>9. /\ batches'[day].postings = 1 /\ batches'[day].facts = FactsOf(day)
          /\ batches'[day].status = batches[day].status
          /\ batches'[day].contracts = batches[day].contracts
          /\ batches'[day].quote = batches[day].quote
      BY <3>1, <3>5 DEF Batch
    <3>6. BatchPosted(r)
      BY <2>1, <2>3, <3>1, <3>9 DEF BatchPosted, ReplayPasses
    <3>7. BatchMoves(r)
      BY <2>1, <3>5, <3>6 DEF BatchMoves, Working, Inside, Steps
    <3>8. RunGoesOn(r)
      BY <1>2, <2>1, <2>3, <3>9 DEF RunGoesOn, Working, Inside, Steps
    <3> QED  BY <1>2, <2>1, <2>3, <3>5, <3>7, <3>8 DEF Steps
  <2> QED  BY <1>11, <2>2, <2>3 DEF Replay
<1>12. CASE CompleteBatch(r)
  <2>1. /\ UNCHANGED << clock, orders, requests, arrivals, holders, exclusive >>
        /\ runs[r].step = "COMPLETING" /\ GoTo(r, "RECOVERING")
        /\ batches' = [batches EXCEPT ![day].status = "COMPLETED"]
    BY <1>12 DEF CompleteBatch, trading
  <2>2. batches' \in [Days -> Batch] /\ BatchMoves(r)
    BY <1>1, <2>1, StatusUpdated DEF BatchMoves, BatchChanged, Completed, Working,
       Inside, Steps
  <2> QED  BY <1>2, <2>1, <2>2 DEF RunGoesOn, Working, Inside, Steps
<1>13. CASE RecoverRedis(r)
  BY <1>3, <1>13 DEF RecoverRedis, Leave, trading, RunStops, Inside, Steps
<1>14. CASE MarkBatchFailed(r)
  <2>1. /\ UNCHANGED << clock, orders, requests, arrivals, holders >>
        /\ runs[r].step = "FAILING" /\ Leave(r)
        /\ batches' = [batches EXCEPT ![day].status = FailedStatus(@)]
    BY <1>14 DEF MarkBatchFailed, trading
  <2>2. batches' \in [Days -> Batch] /\ BatchMoves(r)
    <3>1. batches' = [batches EXCEPT ![day].status = FailedStatus(batches[day].status)]
      BY <1>1, <2>1
    <3>2. FailedStatus(batches[day].status) =
            IF Completed(day) THEN "COMPLETED" ELSE "FAILED"
      BY DEF FailedStatus, Completed
    <3> QED
      BY <1>1, <2>1, <3>1, <3>2, StatusUpdated DEF BatchMoves, BatchChanged, Completed,
         Working, Inside, Steps
  <2> QED  BY <1>3, <2>1, <2>2 DEF Leave, RunStops, Inside, Steps
<1>15. CASE Crash(r)
  <2>1. runs[r].step # "IDLE"
    BY <1>15, BoundsAssumption DEF Crash
  <2> QED  BY <1>3, <1>15, <2>1 DEF Crash, trading, RunStops
<1>16. Goal
  BY <1>4, <1>5, <1>6, <1>7, <1>8, <1>9, <1>10, <1>11, <1>12, <1>13, <1>14, <1>15
     DEF Settling, RunStep
<1> QED  BY <1>16

LEMMA TypesSettling ==
    ASSUME Types, NEW r \in Runners, Settling(r)
    PROVE  Types'
<1>1. orders \in [OrderIds -> Order]
  BY DEF Types
<1>2. /\ orders' \in [OrderIds -> Order]
      /\ \A o \in OrderIds : orders'[o].status # "NONE" =>
            orders[o].status # "NONE" /\ orders'[o].day = orders[o].day
  <2>1. CASE orders' = orders
    BY <1>1, <2>1
  <2>2. CASE \E o \in OrderIds : /\ Active(o) /\ runs[r].step = "CANCELLING"
                                 /\ orders' = [orders EXCEPT ![o].status = "CANCELLED"]
    BY <1>1, <2>2, OrderEnded DEF Active
  <2> QED  BY <2>1, <2>2, SettlingShape
<1>3. exclusive' \in Runners \cup {NoRunner}
  BY SettlingShape DEF Types, RunEnters, RunLocks, RunPasses, RunGoesOn, RunStops
<1>4. batches' \in [Days -> Batch]
  BY SettlingShape DEF Types
<1>5. \A s \in Runners : runs'[s].step # "IDLE" => runs'[s].day \in Days
  BY SettlingShape DEF Types, RunEnters, RunLocks, RunPasses, RunGoesOn, RunStops,
     Working, Inside, Stopped
<1> QED  BY <1>2, <1>3, <1>4, <1>5, SettlingShape DEF Types

-----------------------------------------------------------------------------
(* What the steps of trading come to, for an order and its transactions.   *)

AcceptedNow(o) == << "create", o >> \in holders /\ orders'[o] = AcceptedOrder(o)
FilledNow(o) ==
    /\ << "fill", o >> \in holders /\ Active(o)
    /\ orders'[o].status # "NONE" /\ orders'[o].day = orders[o].day
EndedNow(o) ==
    /\ Active(o) /\ orders'[o].status = "CANCELLED"
    /\ orders'[o].day = orders[o].day /\ orders'[o].traded = orders[o].traded

OrderMoves(o) ==
    \/ orders'[o] = orders[o]
    \/ AcceptedNow(o)
    \/ FilledNow(o)
    \/ EndedNow(o) /\ (<< "cancel", o >> \in holders \/ KindOf[o] = "MARKET")

LockEntered(o) ==
    /\ << "create", o >> \in holders' \ holders =>
          /\ SharedGranted /\ ~Cash(o) /\ TradingOpenFor(requests[o].day)
          /\ requests[o].stage = "RESOLVED"
          /\ requests' = requests /\ orders' = orders
    /\ << "fill", o >> \in holders' \ holders =>
          /\ SharedGranted /\ ~Cash(o) /\ TradingOpenFor(orders[o].day)
          /\ orders[o].status # "NONE"
          /\ orders' = orders
    /\ << "cancel", o >> \in holders' \ holders =>
          SharedGranted /\ ~Cash(o) /\ TradingOpen
LockKept(o) ==
    << "create", o >> \in holders \cap holders' => requests'[o] = requests[o]

LEMMA FillKeepsDay ==
    ASSUME orders \in [OrderIds -> Order], NEW o \in OrderIds,
           orders[o].status # "NONE",
           \E lots \in 1 .. Lots[o] - orders[o].traded :
              orders' = [orders EXCEPT ![o] = Filled(@, lots, Lots[o])]
    PROVE  /\ orders'[o].day = orders[o].day
           /\ orders'[o].status # "NONE"
           /\ \A q \in OrderIds \ {o} : orders'[q] = orders[q]
<1>1. PICK lots \in 1 .. Lots[o] - orders[o].traded :
           orders' = [orders EXCEPT ![o] = Filled(@, lots, Lots[o])]
  OBVIOUS
<1>2. /\ Filled(orders[o], lots, Lots[o]).day = orders[o].day
      /\ Filled(orders[o], lots, Lots[o]).status # "NONE"
  BY DEF Filled, Order
<1> QED  BY <1>1, <1>2

LEMMA TradingShape ==
    ASSUME Types, \A o \in OrderIds : HolderKnows(o), Trading,
           NEW p \in OrderIds
    PROVE  /\ ~Cash(p) => OrderMoves(p)
           /\ LockEntered(p) /\ LockKept(p)
<1> DEFINE Shape == (~Cash(p) => OrderMoves(p)) /\ LockEntered(p) /\ LockKept(p)
<1>1. /\ orders \in [OrderIds -> Order]
      /\ requests \in [OrderIds -> Request]
      /\ \A o \in OrderIds : arrivals[o].state # "NONE" => KindOf[o] = "MARKET"
      /\ holders \subseteq Transactions
      /\ << "create", p >> \in holders => ~Cash(p) /\ requests[p].stage = "RESOLVED"
  BY DEF Types, HolderKnows
<1>2. ASSUME UNCHANGED << orders, holders >>,
             << "create", p >> \in holders => requests'[p] = requests[p]
      PROVE  Shape
  BY <1>2 DEF OrderMoves, LockEntered, LockKept
<1>3. ASSUME UNCHANGED orders, holders' \subseteq holders,
             << "create", p >> \in holders' => requests'[p] = requests[p]
      PROVE  Shape
  BY <1>3 DEF OrderMoves, LockEntered, LockKept
<1>4. CASE TimePasses
  BY <1>2, <1>4 DEF TimePasses, trading
<1>5. ASSUME NEW t \in holders, Rollback(t) PROVE Shape
  <2>1. << "create", p >> \in holders' => requests'[p] = requests[p]
    <3>1. CASE t[1] = "create" /\ t[2] = p
      <4>1. t = << "create", p >>
        BY <1>1, <3>1 DEF Transactions
      <4> QED  BY <1>5, <4>1 DEF Rollback
    <3>2. CASE ~(t[1] = "create" /\ t[2] = p)
      BY <1>1, <1>5, <3>2 DEF Rollback
    <3> QED  BY <3>1, <3>2
  <2> QED  BY <1>3, <1>5, <2>1 DEF Rollback
<1>6. ASSUME NEW o \in OrderIds, Trade(o) PROVE Shape
  <2>1. CASE ResolveDay(o)
    BY <1>1, <1>2, <2>1 DEF ResolveDay
  <2>2. CASE EnterToCreate(o)
    <3>1. CASE UNCHANGED requests /\ holders' = holders \cup {<< "create", o >>}
                 /\ TradingOpenFor(requests[o].day)
      BY <2>2, <3>1 DEF EnterToCreate, OrderMoves, LockEntered, LockKept
    <3>2. CASE UNCHANGED holders /\ requests' = [requests EXCEPT ![o] = Over]
      BY <1>1, <1>2, <2>2, <3>2 DEF EnterToCreate
    <3> QED  BY <2>2, <3>1, <3>2 DEF EnterToCreate
  <2>3. CASE Accept(o)
    <3>1. << "create", p >> \in holders' => requests'[p] = requests[p]
      BY <1>1, <2>3 DEF Accept
    <3>2. orders'[p] = orders[p] \/ AcceptedNow(p)
      BY <1>1, <2>3 DEF Accept, AcceptedNow
    <3> QED  BY <2>3, <3>1, <3>2 DEF Accept, OrderMoves, LockEntered, LockKept
  <2>4. CASE AcceptCash(o)
    <3>1. << "create", p >> \in holders' => requests'[p] = requests[p]
      BY <1>1, <2>4 DEF AcceptCash
    <3>2. ~Cash(p) => orders'[p] = orders[p]
      BY <1>1, <2>4 DEF AcceptCash
    <3> QED  BY <2>4, <3>1, <3>2 DEF AcceptCash, OrderMoves, LockEntered, LockKept
  <2>5. CASE EnterToFill(o)
    BY <2>5 DEF EnterToFill, OrderMoves, LockEntered, LockKept, trading, Cash, CashKinds
  <2>6. CASE EnterToCancel(o)
    BY <2>6 DEF EnterToCancel, OrderMoves, LockEntered, LockKept, trading, Cash, CashKinds
  <2>7. CASE Settle(o)
    <3>1. orders'[p] = orders[p] \/ FilledNow(p)
      BY <1>1, <2>7, FillKeepsDay DEF Settle, FilledNow, Active
    <3> QED  BY <2>7, <3>1 DEF Settle, OrderMoves, LockEntered, LockKept
  <2>8. CASE FillCash(o)
    <3>1. ~Cash(p) => orders'[p] = orders[p]
      BY <1>1, <2>8, FillKeepsDay DEF FillCash, Active
    <3> QED  BY <2>8, <3>1 DEF FillCash, OrderMoves, LockEntered, LockKept
  <2>9. CASE EnterMarket(o)
    <3>1. KindOf[o] = "MARKET" /\ orders[o].status # "NONE"
      BY <1>1, <2>9 DEF EnterMarket, Active
    <3>2. CASE UNCHANGED arrivals /\ holders' = holders \cup {<< "fill", o >>}
                 /\ TradingOpenFor(orders[o].day)
      BY <2>9, <3>1, <3>2 DEF EnterMarket, OrderMoves, LockEntered, LockKept, Cash, CashKinds
    <3>3. CASE UNCHANGED holders
      BY <1>2, <2>9, <3>3 DEF EnterMarket
    <3> QED  BY <2>9, <3>2, <3>3 DEF EnterMarket
  <2>10. CASE IgnoreArrival(o) \/ FailRemainder(o)
    BY <1>2, <2>10 DEF IgnoreArrival, FailRemainder
  <2>11. CASE CancelRemainder(o)
    <3>1. KindOf[o] = "MARKET"
      BY <1>1, <2>11 DEF CancelRemainder
    <3>2. orders'[p] = orders[p] \/ (EndedNow(p) /\ KindOf[p] = "MARKET")
      BY <1>1, <2>11, <3>1, OrderEnded DEF CancelRemainder, EndedNow
    <3> QED  BY <2>11, <3>2 DEF CancelRemainder, OrderMoves, LockEntered, LockKept
  <2>12. CASE Cancel(o)
    <3>1. orders'[p] = orders[p] \/ (EndedNow(p) /\ << "cancel", p >> \in holders)
      BY <1>1, <2>12, OrderEnded DEF Cancel, EndedNow
    <3> QED  BY <2>12, <3>1 DEF Cancel, OrderMoves, LockEntered, LockKept
  <2>13. CASE CancelCash(o)
    <3>1. ~Cash(p) => orders'[p] = orders[p]
      BY <1>1, <2>13, OrderEnded DEF CancelCash
    <3> QED  BY <2>13, <3>1 DEF CancelCash, OrderMoves, LockEntered, LockKept
  <2>14. CASE SellOut(o)
    <3>1. ~Cash(p) => orders'[p] = orders[p]
      BY <1>1, <2>14 DEF SellOut
    <3> QED  BY <2>14, <3>1 DEF SellOut, OrderMoves, LockEntered, LockKept
  <2> QED
    BY <1>6, <2>1, <2>2, <2>3, <2>4, <2>5, <2>6, <2>7, <2>8, <2>9, <2>10, <2>11,
       <2>12, <2>13, <2>14 DEF Trade
<1> QED  BY <1>4, <1>5, <1>6 DEF Trading

-----------------------------------------------------------------------------
(* Trading keeps the invariant.                                            *)

LEMMA TradingKeeps ==
    ASSUME SettlementInv, Trading
    PROVE  SettlementInv' /\ UNCHANGED settling
<1> USE DEF SettlementInv
<1>1. Types' /\ UNCHANGED << queue, exclusive, runs, batches, crashes >>
  BY TypesTrading DEF settling
<1>2. \A o \in OrderIds : (~Cash(o) => OrderMoves(o)) /\ LockEntered(o) /\ LockKept(o)
  BY TradingShape
<1>3. StartedDays' = StartedDays /\ \A d \in Days : Started(d)' = Started(d) /\ Completed(d)' = Completed(d)
  BY <1>1 DEF StartedDays, Started, Completed
<1>4. LockExcludes'
  <2>1. SUFFICES ASSUME exclusive' # NoRunner, NEW t \in holders' PROVE FALSE
    BY <1>1 DEF LockExcludes
  <2>2. holders = {} /\ ~SharedGranted
    BY <1>1, <2>1 DEF LockExcludes, SharedGranted
  <2>3. PICK o \in OrderIds : t \in {<< "create", o >>, << "fill", o >>, << "cancel", o >>}
    BY <1>1, <2>1 DEF Types, Transactions
  <2> QED  BY <1>2, <2>1, <2>2, <2>3 DEF LockEntered
<1>5. \A r \in Runners : RunKnows(r)'
  BY <1>1, <1>3 DEF RunKnows, Types, Started, Completed
<1>6. \A d \in Days : BatchKnows(d)'
  BY <1>1 DEF BatchKnows, Started, Completed
<1>7. ASSUME NEW o \in OrderIds PROVE HolderKnows(o)' /\ OrderKnows(o)'
  <2>1. ASSUME NEW kind \in {"create", "fill", "cancel"}, << kind, o >> \in holders'
        PROVE  ~Cash(o) /\ \A d \in StartedDays : Completed(d)
    <3>1. CASE << kind, o >> \in holders
      BY <3>1 DEF HolderKnows
    <3>2. CASE << kind, o >> \notin holders
      <4>1. TradingOpen /\ ~Cash(o)
        BY <1>2, <2>1, <3>2 DEF LockEntered, TradingOpenFor
      <4> QED  BY <4>1, GateOpen
    <3> QED  BY <3>1, <3>2
  <2>2. ASSUME << "create", o >> \in holders'
        PROVE  /\ requests'[o].stage = "RESOLVED"
               /\ \A d \in StartedDays : d < requests'[o].day
    <3>1. CASE << "create", o >> \in holders
      BY <1>2, <2>2, <3>1 DEF HolderKnows, LockKept
    <3>2. CASE << "create", o >> \notin holders
      <4>1. /\ TradingOpenFor(requests[o].day) /\ requests' = requests
            /\ requests[o].stage = "RESOLVED"
        BY <1>2, <2>2, <3>2 DEF LockEntered
      <4>2. requests[o].day \in Days
        BY <4>1 DEF Types
      <4> QED  BY <4>1, <4>2, GateOpenFor
    <3> QED  BY <3>1, <3>2
  <2>3. ASSUME << "fill", o >> \in holders'
        PROVE  /\ orders'[o].status # "NONE"
               /\ \A d \in StartedDays : d < orders'[o].day
    <3>1. CASE << "fill", o >> \in holders
      <4>1. orders[o].status # "NONE" /\ \A d \in StartedDays : d < orders[o].day
        BY <3>1 DEF HolderKnows
      <4>2. ~Cash(o) /\ requests[o].stage # "RESOLVED"
        BY <3>1, <4>1 DEF HolderKnows, Types
      <4>3. << "create", o >> \notin holders
        BY <4>2 DEF HolderKnows
      <4>4. orders'[o].day = orders[o].day
        BY <1>2, <4>2, <4>3 DEF OrderMoves, AcceptedNow, FilledNow, EndedNow
      <4>5. orders'[o].status # "NONE"
        BY <1>2, <4>1, <4>2, <4>3 DEF OrderMoves, AcceptedNow, FilledNow, EndedNow
      <4> QED  BY <4>1, <4>4, <4>5
    <3>2. CASE << "fill", o >> \notin holders
      <4>1. /\ TradingOpenFor(orders[o].day) /\ orders' = orders
            /\ orders[o].status # "NONE"
        BY <1>2, <2>3, <3>2 DEF LockEntered
      <4>2. orders[o].day \in Days
        BY <4>1 DEF Types
      <4> QED  BY <4>1, <4>2, GateOpenFor
    <3> QED  BY <3>1, <3>2
  <2>4. OrderKnows(o)'
    <3>1. SUFFICES ASSUME ~Cash(o), orders'[o].day \in Days,
                          batches[orders'[o].day].postings > 0
                   PROVE  /\ orders'[o].status # "ACTIVE"
                          /\ batches[orders'[o].day].facts[o] = orders'[o].traded
      BY <1>1 DEF OrderKnows, Active, Cash
    <3>2. orders'[o].day \in StartedDays
      BY <3>1 DEF BatchKnows, Started, StartedDays
    <3>3. orders'[o].day \in Int
      BY <3>1 DEF Days
    <3>4. CASE orders'[o] = orders[o]
      BY <3>1, <3>4 DEF OrderKnows, Active
    <3>5. CASE AcceptedNow(o)
      <4>1. \A d \in StartedDays : d < requests[o].day
        BY <3>5 DEF HolderKnows, AcceptedNow
      <4>2. orders'[o].day = requests[o].day
        BY <3>5 DEF AcceptedNow, AcceptedOrder
      <4> QED  BY <3>2, <3>3, <4>1, <4>2
    <3>6. CASE FilledNow(o)
      <4>1. \A d \in StartedDays : d < orders[o].day
        BY <3>6 DEF HolderKnows, FilledNow
      <4>2. orders'[o].day = orders[o].day
        BY <3>6 DEF FilledNow
      <4> QED  BY <3>2, <3>3, <4>1, <4>2
    <3>7. CASE EndedNow(o)
      BY <3>1, <3>7 DEF OrderKnows, EndedNow
    <3> QED  BY <1>2, <3>1, <3>4, <3>5, <3>6, <3>7 DEF OrderMoves
  <2> QED  BY <1>3, <2>1, <2>2, <2>3, <2>4 DEF HolderKnows, Cash, StartedDays, Completed
<1> QED  BY <1>1, <1>4, <1>5, <1>6, <1>7 DEF settling

-----------------------------------------------------------------------------
(* Settling keeps the invariant.                                           *)

LEMMA SettlingKeeps ==
    ASSUME SettlementInv, NEW r \in Runners, Settling(r)
    PROVE  SettlementInv'
<1> USE DEF SettlementInv
<1>1. /\ Types' /\ UNCHANGED << clock, requests, arrivals, holders >>
      /\ \A s \in Runners \ {r} : runs'[s] = runs[s]
      /\ RunEnters(r) \/ RunLocks(r) \/ RunPasses(r) \/ RunGoesOn(r) \/ RunStops(r)
      /\ batches' = batches \/ BatchMoves(r)
      /\ \/ orders' = orders
         \/ \E o \in OrderIds : /\ Active(o) /\ runs[r].step = "CANCELLING"
                                /\ orders' = [orders EXCEPT ![o].status = "CANCELLED"]
  BY SettlingShape, TypesSettling
<1>2. /\ runs[r].step \in Inside => exclusive = r /\ holders = {}
      /\ r # NoRunner /\ r \in Runners
      /\ \A s \in Runners : runs[s].step \in Steps /\ runs[s].day \in 0 .. MaxDay
      /\ \A s \in Runners : runs[s].step # "IDLE" => runs[s].day \in Days
      /\ MaxDay \in Nat
  BY RunnersAssumption, BoundsAssumption DEF LockExcludes, Inside, Types
<1>3. \A d \in Days : /\ Started(d) => Started(d)'
                      /\ Completed(d) => Completed(d)'
                      /\ batches[d].postings > 0 => batches'[d].postings > 0
  <2>1. CASE batches' = batches
    BY <2>1 DEF Started, Completed
  <2>2. CASE BatchMoves(r)
    <3>1. SUFFICES ASSUME NEW d \in Days
          PROVE  /\ Started(d) => Started(d)'
                 /\ Completed(d) => Completed(d)'
                 /\ batches[d].postings > 0 => batches'[d].postings > 0
      OBVIOUS
    <3>2. CASE d # runs[r].day
      BY <2>2, <3>2 DEF BatchMoves, Started, Completed
    <3>3. CASE d = runs[r].day
      BY <2>2, <3>3 DEF BatchMoves, BatchPosted, BatchChanged, Started, Completed
    <3> QED  BY <3>2, <3>3
  <2> QED  BY <1>1, <2>1, <2>2
<1>4. LockExcludes'
  <2>1. CASE RunEnters(r)
    BY <1>1, <1>2, <2>1 DEF LockExcludes, RunEnters
  <2>2. CASE RunLocks(r)
    <3>1. /\ runs'[r].step = "PREFLIGHT" /\ exclusive' = r /\ holders' = {}
          /\ exclusive = NoRunner
      BY <1>1, <2>2 DEF RunLocks
    <3>2. ASSUME NEW s \in Runners \ {r} PROVE runs'[s].step \in {"IDLE", "WAITING"}
      BY <1>1, <3>1, RunnersAssumption DEF LockExcludes
    <3> QED  BY <3>1, <3>2 DEF LockExcludes
  <2>3. CASE RunPasses(r) \/ RunGoesOn(r)
    BY <1>1, <1>2, <2>3 DEF LockExcludes, RunPasses, RunGoesOn, Working, Inside
  <2>4. CASE RunStops(r)
    <3>1. runs'[r].step = "IDLE"
      BY <2>4 DEF RunStops, Stopped
    <3>2. exclusive' = IF exclusive = r THEN NoRunner ELSE exclusive
      BY <1>2, <2>4 DEF RunStops
    <3>3. exclusive' # NoRunner => holders' = {}
      BY <1>1, <3>2 DEF LockExcludes
    <3>4. ASSUME NEW s \in Runners
          PROVE  runs'[s].step \notin {"IDLE", "WAITING"} <=> exclusive' = s
      <4>1. s # NoRunner
        BY RunnersAssumption
      <4>2. CASE s = r
        BY <3>1, <3>2, <4>1, <4>2
      <4>3. CASE s # r
        BY <1>1, <3>2, <4>1, <4>3 DEF LockExcludes
      <4> QED  BY <4>2, <4>3
    <3> QED  BY <3>3, <3>4 DEF LockExcludes
  <2> QED  BY <1>1, <2>1, <2>2, <2>3, <2>4
<1>5. ASSUME NEW s \in Runners PROVE RunKnows(s)'
  <2>1. \A d \in Days : \A e \in 1 .. d - 1 : e \in Days
    BY <1>2 DEF Days
  <2>2. CASE s # r
    BY <1>1, <1>2, <1>3, <2>1, <2>2 DEF RunKnows
  <2>3. CASE s = r /\ RunEnters(r)
    BY <1>1, <1>3, <2>1, <2>3 DEF RunKnows, RunEnters
  <2>4. CASE s = r /\ RunLocks(r)
    BY <1>1, <1>2, <1>3, <2>1, <2>4 DEF RunKnows, RunLocks
  <2>5. CASE s = r /\ RunPasses(r)
    <3>1. \A e \in 1 .. runs[r].day - 1 : e \in Days /\ Started(e)
      BY <1>2, <2>1, <2>5 DEF RunPasses, RunKnows
    <3>2. \A e \in 1 .. runs[r].day - 1 : Completed(e)
      BY <1>2, <2>5, <3>1 DEF RunPasses, EarlierIncomplete, StartedDays, Started, Completed
    <3> QED  BY <1>3, <2>5, <3>1, <3>2 DEF RunKnows, RunPasses
  <2>6. CASE s = r /\ RunGoesOn(r)
    <3>1. /\ runs[r].day \in Days
          /\ \A e \in 1 .. runs[r].day - 1 : e \in Days /\ Started(e) /\ Completed(e)
          /\ runs[r].step # "STARTING" => Started(runs[r].day)
      BY <1>2, <2>1, <2>6 DEF RunGoesOn, RunKnows, Working, Inside
    <3>2. Started(runs[r].day)'
      BY <1>3, <2>6, <3>1 DEF RunGoesOn, Started
    <3> QED  BY <1>3, <2>6, <3>1, <3>2 DEF RunKnows, RunGoesOn, Started
  <2>7. CASE s = r /\ RunStops(r)
    BY <2>7 DEF RunKnows, RunStops, Stopped
  <2> QED  BY <1>1, <2>2, <2>3, <2>4, <2>5, <2>6, <2>7
<1>6. ASSUME NEW d \in Days PROVE BatchKnows(d)'
  <2>1. \A e \in 1 .. d - 1 : e \in Days
    BY <1>2 DEF Days
  <2>2. CASE batches'[d] = batches[d]
    BY <1>3, <2>1, <2>2 DEF BatchKnows, Started, Completed
  <2>3. CASE BatchMoves(r) /\ d = runs[r].day
    <3>1. /\ \A e \in 1 .. d - 1 : Completed(e)
          /\ runs[r].step # "STARTING" => Started(d)
          /\ runs[r].step = "COMPLETING" => batches[d].postings > 0
      BY <1>2, <2>3 DEF RunKnows, BatchMoves, Working, Inside
    <3>2. CASE BatchPosted(r)
      <4>1. Started(d) /\ batches'[d].postings = 1
        BY <2>3, <3>1, <3>2 DEF BatchPosted
      <4> QED  BY <1>3, <2>1, <3>1, <4>1 DEF BatchKnows
    <3>3. CASE BatchChanged(r)
      <4>1. /\ batches'[d].postings = batches[d].postings
            /\ Completed(d)' => Completed(d) \/ runs[r].step = "COMPLETING"
        BY <2>3, <3>3 DEF BatchChanged, Completed
      <4> QED  BY <1>3, <2>1, <3>1, <4>1 DEF BatchKnows
    <3> QED  BY <2>3, <3>2, <3>3 DEF BatchMoves
  <2> QED  BY <1>1, <2>2, <2>3 DEF BatchMoves
<1>7. ASSUME NEW o \in OrderIds PROVE HolderKnows(o)'
  <2>1. CASE holders = {}
    BY <1>1, <2>1 DEF HolderKnows
  <2>2. CASE holders # {}
    <3>1. runs[r].step \notin Working /\ runs[r].step # "CANCELLING"
      BY <1>2, <2>2 DEF Working, Inside, Steps
    <3>2. batches' = batches /\ orders' = orders
      BY <1>1, <3>1 DEF BatchMoves
    <3> QED  BY <1>1, <3>2 DEF HolderKnows, StartedDays, Completed, Cash
  <2> QED  BY <2>1, <2>2
<1>8. ASSUME NEW o \in OrderIds PROVE OrderKnows(o)'
  <2>1. CASE batches' = batches /\ orders' = orders
    BY <2>1 DEF OrderKnows, Active, Cash
  <2>2. CASE BatchMoves(r)
    <3>1. orders' = orders
      BY <2>2 DEF BatchMoves
    <3>2. CASE orders[o].day # runs[r].day
      BY <2>2, <3>1, <3>2 DEF BatchMoves, OrderKnows, Active, Cash
    <3>3. CASE orders[o].day = runs[r].day /\ BatchPosted(r)
      <4>1. ~Active(o)
        BY <3>3 DEF BatchPosted, CountedActive
      <4>2. batches'[orders[o].day].facts[o] = orders[o].traded
        BY <3>3 DEF BatchPosted, FactsOf
      <4> QED  BY <3>1, <4>1, <4>2 DEF OrderKnows, Active
    <3>4. CASE orders[o].day = runs[r].day /\ BatchChanged(r)
      BY <3>1, <3>4 DEF BatchChanged, OrderKnows, Active, Cash
    <3> QED  BY <2>2, <3>2, <3>3, <3>4 DEF BatchMoves
  <2>3. CASE batches' = batches /\ \E q \in OrderIds : Active(q)
                 /\ orders' = [orders EXCEPT ![q].status = "CANCELLED"]
    BY <2>3, OrderEnded DEF Types, OrderKnows, Active, Cash
  <2> QED  BY <1>1, <2>1, <2>2, <2>3
<1> QED  BY <1>1, <1>4, <1>5, <1>6, <1>7, <1>8

-----------------------------------------------------------------------------
(* The invariant holds, and what follows from it.                          *)

LEMMA InvInit == Init => SettlementInv
<1> SUFFICES ASSUME Init PROVE SettlementInv
  OBVIOUS
<1>1. \A d \in Days : ~Started(d) /\ batches[d].postings = 0
  BY DEF Init, Started
<1>2. LockExcludes
  BY RunnersAssumption DEF Init, LockExcludes, Stopped
<1>3. \A r \in Runners : RunKnows(r)
  BY DEF Init, RunKnows, Stopped
<1>4. \A d \in Days : BatchKnows(d)
  BY <1>1 DEF BatchKnows, Started, Completed
<1>5. \A o \in OrderIds : HolderKnows(o) /\ OrderKnows(o)
  BY <1>1 DEF Init, HolderKnows, OrderKnows
<1> QED  BY <1>2, <1>3, <1>4, <1>5, TypesInit DEF SettlementInv

LEMMA InvNext == SettlementInv /\ [Next]_vars => SettlementInv'
<1> SUFFICES ASSUME SettlementInv, [Next]_vars PROVE SettlementInv'
  OBVIOUS
<1>1. CASE UNCHANGED vars
  BY <1>1 DEF vars, trading, settling, SettlementInv, Types, LockExcludes, RunKnows,
     BatchKnows, HolderKnows, OrderKnows, Started, Completed, StartedDays, Active, Cash
<1>2. CASE Trading
  BY <1>2, TradingKeeps
<1>3. CASE \E r \in Runners : Settling(r)
  BY <1>3, SettlingKeeps
<1> QED  BY <1>1, <1>2, <1>3 DEF Next, Trading, Settling

LEMMA Invariance == Spec => []SettlementInv
<1> QED  BY InvInit, InvNext, PTL DEF Spec

\* The lock keeps trading transactions and settlement processes apart, and the
\* settlement processes from each other (acquire_shared_transaction_lock,
\* _acquire_exclusive_lock).
THEOREM SettlementsExcludeTrading == Spec => []LockExcludes
<1>1. SettlementInv => LockExcludes
  BY DEF SettlementInv
<1> QED  BY <1>1, Invariance, PTL

\* However often the command is run, crashes and is run again, a day is posted
\* to account cash once (_validate_previous_results, _save_results).
THEOREM DaysPostedOnce == Spec => []EachDayPostedOnce
<1>1. SettlementInv => EachDayPostedOnce
  BY DEF SettlementInv, BatchKnows, EachDayPostedOnce
<1> QED  BY <1>1, Invariance, PTL

\* A posted day starts from the results of all days before it
\* (_ensure_no_earlier_incomplete_batch).
THEOREM PostingsInOrder == Spec => []DaysPostedInOrder
<1>1. SettlementInv => DaysPostedInOrder
  BY DEF SettlementInv, BatchKnows, DaysPostedInOrder, Completed
<1> QED  BY <1>1, Invariance, PTL

\* No derivative order, limit or market, is active on a day that was posted.
THEOREM OrdersEndWithTheirDay == Spec => []NoOrderOutlivesItsDay
<1>1. SettlementInv => NoOrderOutlivesItsDay
  <2>1. SUFFICES ASSUME SettlementInv, NEW o \in OrderIds, ~Cash(o), Active(o)
                 PROVE  batches[orders[o].day].postings = 0
    BY DEF NoOrderOutlivesItsDay
  <2>2. orders[o].day \in Days
    BY <2>1 DEF SettlementInv, Types, Active
  <2>3. batches[orders[o].day].postings \in 0 .. 2
    BY <2>1, <2>2 DEF SettlementInv, Types, Batch
  <2>4. ~(batches[orders[o].day].postings > 0)
    BY <2>1, <2>2 DEF SettlementInv, OrderKnows
  <2> QED  BY <2>3, <2>4
<1> QED  BY <1>1, Invariance, PTL

\* The posted facts of a day stay what its derivative orders traded, whatever
\* happens later (SettlementFactRepository against the trades of the day).
THEOREM PostedFactsStayTrue == Spec => []SettledDayIsComplete
<1>1. SettlementInv => SettledDayIsComplete
  BY DEF SettlementInv, OrderKnows, SettledDayIsComplete
<1> QED  BY <1>1, Invariance, PTL

-----------------------------------------------------------------------------
(* What a step may not do.                                                 *)

\* How a batch may change, in one step of anybody.
LEMMA BatchStep ==
    ASSUME SettlementInv, [Next]_vars, NEW d \in Days
    PROVE  /\ Completed(d) => batches'[d].status = "COMPLETED"
           /\ batches[d].contracts # {} =>
                 /\ batches'[d].contracts = batches[d].contracts
                 /\ batches'[d].quote = batches[d].quote
<1>1. CASE batches' = batches
  BY <1>1 DEF Completed
<1>2. ASSUME NEW r \in Runners, BatchMoves(r)
      PROVE  /\ Completed(d) => batches'[d].status = "COMPLETED"
             /\ batches[d].contracts # {} =>
                   /\ batches'[d].contracts = batches[d].contracts
                   /\ batches'[d].quote = batches[d].quote
  <2>1. CASE d # runs[r].day
    BY <1>2, <2>1 DEF BatchMoves, Completed
  <2>2. CASE d = runs[r].day
    BY <1>2, <2>2 DEF BatchMoves, BatchPosted, BatchChanged, Completed
  <2> QED  BY <2>1, <2>2
<1>3. batches' = batches \/ \E r \in Runners : BatchMoves(r)
  <2>1. CASE UNCHANGED vars
    BY <2>1 DEF vars, settling
  <2>2. CASE Trading
    BY <2>2, TradingKeeps DEF settling
  <2>3. CASE \E r \in Runners : Settling(r)
    BY <2>3, SettlingShape DEF SettlementInv
  <2> QED  BY <2>1, <2>2, <2>3 DEF Next, Trading, Settling
<1> QED  BY <1>1, <1>2, <1>3

\* How a derivative order may change, in one step of anybody.
LEMMA OrderStep ==
    ASSUME SettlementInv, [Next]_vars, NEW o \in OrderIds, ~Cash(o),
           orders'[o] # orders[o]
    PROVE  \/ AcceptedNow(o) \/ FilledNow(o)
           \/ /\ EndedNow(o)
              /\ \/ << "cancel", o >> \in holders
                 \/ KindOf[o] = "MARKET"
                 \/ exclusive \in Runners
<1>1. CASE UNCHANGED vars
  BY <1>1 DEF vars, trading
<1>2. CASE Trading
  BY <1>2, TradingShape DEF SettlementInv, OrderMoves
<1>3. CASE \E r \in Runners : Settling(r)
  <2>1. PICK r \in Runners : Settling(r)
    BY <1>3
  <2>2. PICK q \in OrderIds : /\ Active(q) /\ runs[r].step = "CANCELLING"
                              /\ orders' = [orders EXCEPT ![q].status = "CANCELLED"]
    BY <2>1, SettlingShape DEF SettlementInv
  <2>3. q = o /\ EndedNow(o)
    BY <2>2, OrderEnded DEF SettlementInv, Types, EndedNow
  <2>4. exclusive = r
    BY <2>2 DEF SettlementInv, LockExcludes
  <2> QED  BY <2>3, <2>4
<1> QED  BY <1>1, <1>2, <1>3 DEF Next, Trading, Settling

\* A completed day stays completed (start_batch, mark_failed).
THEOREM CompletedDaysStay == Spec => CompletedStays
<1>1. SettlementInv /\ [Next]_vars =>
         [\A d \in Days : batches[d].status = "COMPLETED" =>
             batches'[d].status = "COMPLETED"]_vars
  BY BatchStep DEF Completed
<1> QED  BY <1>1, Invariance, PTL DEF Spec, CompletedStays

\* A frozen price is used by every later run of its day (freeze_prices).
THEOREM FrozenPricesHold == Spec => FrozenPricesStay
<1>1. SettlementInv /\ [Next]_vars =>
         [\A d \in Days : batches[d].contracts # {} =>
             << batches'[d].contracts, batches'[d].quote >>
               = << batches[d].contracts, batches[d].quote >>]_vars
  BY BatchStep
<1> QED  BY <1>1, Invariance, PTL DEF Spec, FrozenPricesStay

\* Nothing a run freezes, replays and posts moves while it holds the lock.
THEOREM BookHolds == Spec => BookStandsStill
<1>1. ASSUME SettlementInv, [Next]_vars, exclusive # NoRunner, NEW o \in OrderIds, ~Cash(o)
      PROVE  /\ orders'[o].traded = orders[o].traded
             /\ ~Active(o) => orders'[o] = orders[o]
  <2>1. holders = {}
    BY <1>1 DEF SettlementInv, LockExcludes
  <2>2. orders'[o] = orders[o] \/ EndedNow(o)
    BY <1>1, <2>1, OrderStep DEF AcceptedNow, FilledNow
  <2> QED  BY <2>2 DEF EndedNow
<1>2. SettlementInv /\ [Next]_vars =>
         [(exclusive # NoRunner /\ exclusive' = exclusive) =>
            \A o \in OrderIds : ~Cash(o) =>
              /\ orders'[o].traded = orders[o].traded
              /\ ~Active(o) => orders'[o] = orders[o]]_vars
  BY <1>1
<1> QED  BY <1>2, Invariance, PTL DEF Spec, BookStandsStill

\* On a completed day no derivative order is accepted, filled or cancelled
\* (ensure_trading_open).
THEOREM SettledDaysHold == Spec => SettledDayIsClosed
<1>1. ASSUME SettlementInv, [Next]_vars, NEW o \in OrderIds, ~Cash(o),
             orders'[o] # orders[o], orders'[o].day \in Days
      PROVE  batches[orders'[o].day].status # "COMPLETED"
  <2>1. SUFFICES ASSUME Completed(orders'[o].day) PROVE FALSE
    BY DEF Completed
  <2>2. orders'[o].day \in StartedDays /\ orders'[o].day \in Int
    BY <1>1, <2>1 DEF Completed, StartedDays, Days
  <2>3. CASE AcceptedNow(o)
    <3>1. \A d \in StartedDays : d < requests[o].day
      BY <1>1, <2>3 DEF SettlementInv, HolderKnows, AcceptedNow
    <3>2. orders'[o].day = requests[o].day
      BY <2>3 DEF AcceptedNow, AcceptedOrder
    <3> QED  BY <2>2, <3>1, <3>2
  <2>4. CASE FilledNow(o)
    <3>1. \A d \in StartedDays : d < orders[o].day
      BY <1>1, <2>4 DEF SettlementInv, HolderKnows, FilledNow
    <3>2. orders'[o].day = orders[o].day
      BY <2>4 DEF FilledNow
    <3> QED  BY <2>2, <3>1, <3>2
  <2>5. CASE EndedNow(o)
    <3>1. batches[orders[o].day].postings > 0 /\ orders[o].day \in Days
      BY <1>1, <2>1, <2>5 DEF SettlementInv, BatchKnows, EndedNow
    <3>2. ~Active(o)
      BY <1>1, <3>1 DEF SettlementInv, OrderKnows
    <3> QED  BY <2>5, <3>2 DEF EndedNow
  <2> QED  BY <1>1, <2>3, <2>4, <2>5, OrderStep
<1>2. SettlementInv /\ [Next]_vars =>
         [\A o \in OrderIds :
            (~Cash(o) /\ orders'[o] # orders[o] /\ orders'[o].day \in Days) =>
               batches[orders'[o].day].status # "COMPLETED"]_vars
  BY <1>1
<1> QED  BY <1>2, Invariance, PTL DEF Spec, SettledDayIsClosed

\* Between a failed run and the next one, no limit order moves (_trading_open).
THEOREM ClosedUntilRepeated == Spec => ClosedUntilComplete
<1>1. ASSUME SettlementInv, [Next]_vars, exclusive = NoRunner,
             NEW d \in Days, batches[d].status \in {"RUNNING", "FAILED"},
             NEW o \in OrderIds, KindOf[o] = "LIMIT"
      PROVE  orders'[o] = orders[o]
  <2>1. d \in StartedDays /\ ~Completed(d)
    BY <1>1 DEF StartedDays, Completed
  <2>2. \A kind \in {"create", "fill", "cancel"} : << kind, o >> \notin holders
    BY <1>1, <2>1 DEF SettlementInv, HolderKnows
  <2>3. ~Cash(o)
    BY <1>1 DEF Cash, CashKinds
  <2> QED
    BY <1>1, <2>2, <2>3, OrderStep, RunnersAssumption DEF AcceptedNow, FilledNow
<1>2. SettlementInv /\ [Next]_vars =>
         [((\E d \in Days : batches[d].status \in {"RUNNING", "FAILED"})
             /\ exclusive = NoRunner) =>
            \A o \in OrderIds : KindOf[o] = "LIMIT" => orders'[o] = orders[o]]_vars
  BY <1>1
<1> QED  BY <1>2, Invariance, PTL DEF Spec, ClosedUntilComplete

\* The days reach account cash once and in order.
THEOREM DaysPostOnceInOrder == Spec => []DaysPostedOnceInOrder
<1> QED  BY DaysPostedOnce, PostingsInOrder, PTL DEF DaysPostedOnceInOrder

\* Orders rest while their day is settled, is to be settled again, and is over.
THEOREM OrdersRest == Spec => OrdersRestInSettlement
<1> QED  BY BookHolds, ClosedUntilRepeated, SettledDaysHold DEF OrdersRestInSettlement


-----------------------------------------------------------------------------
(* The invariant of the snapshots.                                         *)

\* The records are what they were made as.
CacheShape(s) ==
    s = [ready |-> s.ready, volume |-> s.volume, valued |-> s.valued, facts |-> s.facts,
         day |-> s.day, version |-> s.version, contracts |-> s.contracts,
         account |-> << s.account[1], s.account[2] >>]
CycleShape(s) ==
    s = [force |-> s.force, ticks |-> s.ticks, dirty |-> s.dirty, fact |-> s.fact,
         external |-> s.external]
WorkerShape(s) ==
    s = [holds |-> s.holds, step |-> s.step, price |-> s.price, indexed |-> s.indexed,
         superseded |-> s.superseded, cache |-> s.cache, cycle |-> s.cycle,
         result |-> s.result]
BookShape(s) ==
    s = [volume |-> s.volume, facts |-> s.facts, day |-> s.day, valued |-> s.valued]

\* What is stored.
StoredTypes ==
    /\ BookShape(book) /\ book.volume \in [Contracts -> Nat] /\ book.facts \in Nat
    /\ \A e \in events : e.kind \in {"contract", "account"} /\ e.contract \in Contracts
    /\ version \in Nat /\ factVersion \in Nat /\ factDirty \in BOOLEAN
    /\ dirty \in [Contracts -> Nat] /\ \A c \in Contracts : dirty[c] <= version
    /\ recovery = [step |-> recovery.step, version |-> recovery.version,
                   settled |-> recovery.settled]
    /\ recovery.version \in Nat /\ recovery.version <= version
    /\ counters = [trades |-> counters.trades, incidents |-> counters.incidents,
                   superseded |-> counters.superseded]
    /\ positions = [c \in Contracts |-> positions[c]]
    /\ account # NoSnapshot => account.facts \in Nat /\ account.facts <= book.facts

\* What a worker has read, no newer than what is stored.
CycleTypes(s) ==
    /\ CycleShape(s)
    /\ s.dirty \in [Contracts -> Nat] /\ \A c \in Contracts : s.dirty[c] <= version
    /\ s.fact \in Nat /\ s.fact <= factVersion
    /\ s.external \in Nat /\ s.external <= version

CacheTypes(s) ==
    /\ CacheShape(s) /\ s.ready \in BOOLEAN
    /\ s.volume \in [Contracts -> Nat]
    /\ s.facts \in Nat /\ s.facts <= book.facts
    /\ s.version \in Nat /\ s.version <= version
    /\ s.contracts \in [Contracts -> Nat] /\ \A c \in Contracts : s.contracts[c] <= version
    /\ s.account[1] \in [Contracts -> Nat]
    /\ s.account[2] \in Nat /\ s.account[2] <= factVersion
    /\ \A c \in Contracts : s.account[1][c] # 0 => s.contracts[c] = s.account[1][c]

CycleSteps == {"idle", "listed", "versioned", "loaded", "calculated"}

WorkerTypes(s) ==
    /\ WorkerShape(s) /\ s.holds \in BOOLEAN /\ s.superseded \in BOOLEAN /\ s.step \in CycleSteps
    /\ CycleTypes(s.cycle) /\ CacheTypes(s.cache)
    /\ s.step # "idle" => s.holds

PnlTypes ==
    /\ StoredTypes
    /\ worker = [w \in Workers |-> worker[w]]
    /\ \A w \in Workers : WorkerTypes(worker[w])

\* A result is that of the cache it was calculated from: a mark is worked off only by
\* writing the account, and the position if there is one.
ResultFits(s) ==
    LET result == s.result IN
    /\ result.account # NoSnapshot => result.account.facts = s.cache.facts
    /\ result.account = NoSnapshot =>
          \A c \in Contracts : c \in result.done => s.cycle.dirty[c] = 0
    /\ \A c \in Contracts :
          IF c \in DOMAIN result.positions
          THEN result.positions[c].volume = s.cache.volume[c]
          ELSE c \in result.done => s.cache.volume[c] = 0

\* Past its read of the facts a cycle knows the marks it has listed; and either it
\* has not been superseded since the cache was read in full, or it is counted.
CycleRuns(w, s) ==
    /\ s.cache.ready /\ ~s.superseded => lease \in {w, None}
    /\ s.step \in {"loaded", "calculated"} =>
          /\ s.cache.ready
          /\ lease = w /\ counters.superseded = 0 => ~s.superseded
          /\ \A c \in Contracts : s.cycle.dirty[c] # 0 => s.cache.contracts[c] = s.cycle.dirty[c]
          /\ s.cycle.fact # 0 => s.cache.account[2] = s.cycle.fact
    /\ s.step = "calculated" => ResultFits(s)

LeaseInv == \A w \in Workers : CycleRuns(w, worker[w])

\* A transaction on the contract is still to be marked.
Announced(c) == \E e \in events : e.kind = "contract" /\ e.contract = c

\* There is a mark the cache has not seen.
NewMark(s, c) == dirty[c] # 0 /\ dirty[c] # s.contracts[c]
NewFactMark(s) == factDirty /\ factVersion # s.account[2]

\* A cache that is not current has not seen what will tell.
CacheKnows(s) ==
    /\ \/ s.facts = book.facts
       \/ events # {} \/ recovery.step # "idle" \/ s.version # version
       \/ NewFactMark(s) \/ \E c \in Contracts : NewMark(s, c)
    /\ \A c \in Contracts :
          s.volume[c] = book.volume[c] \/ Announced(c) \/ NewMark(s, c)
    /\ s.version = version /\ account # NoSnapshot => account.facts <= s.facts

CacheInv ==
    counters.superseded = 0 =>
        \A w \in Workers :
            worker[w].cache.ready /\ ~worker[w].superseded => CacheKnows(worker[w].cache)

\* A cache with the version of a recovery, or a later one, has been read since.
RecoveryInv ==
    recovery.step \in {"bumped", "indexed"} =>
        \A w \in Workers :
            LET s == worker[w].cache
            IN  s.ready /\ recovery.version <= s.version => s.facts = book.facts

\* What is shown and not current will be told of.
AccountInv ==
    account # NoSnapshot =>
        \/ account.facts = book.facts
        \/ events # {} \/ recovery.step # "idle" \/ factDirty \/ \E c \in Contracts : dirty[c] # 0

PositionInv ==
    \A c \in Contracts :
        book.volume[c] > 0 /\ positions[c] # NoSnapshot =>
            positions[c].volume = book.volume[c] \/ Announced(c) \/ dirty[c] # 0

ShownInv ==
    counters.superseded = 0 => AccountInv /\ PositionInv

SnapshotInv == PnlTypes /\ LeaseInv /\ CacheInv /\ RecoveryInv /\ ShownInv

-----------------------------------------------------------------------------
(* What a step of a worker does.                                           *)

USE DEF committed, stream, dirties, shown, Outside

\* What the snapshots depend on, but for the workers.
Core == << committed, dirties, positions, account, recovery >>

Moves(w) ==
    /\ worker' = [v \in Workers |-> worker'[v]]
    /\ \A x \in Workers \ {w} : worker'[x] = worker[x]

\* The worker goes on with what it has cached, or has lost all of it.
Works(w) ==
    /\ Moves(w)
    /\ WorkerTypes(worker'[w]) /\ CycleRuns(w, worker'[w])
    /\ \/ worker'[w].cache = worker[w].cache /\ worker'[w].superseded = worker[w].superseded
       \/ ~worker'[w].cache.ready
    /\ UNCHANGED << Core, lease >>
    /\ counters' = [trades |-> counters'.trades, incidents |-> counters'.incidents,
                    superseded |-> counters.superseded]

\* It reads all facts again, ...
Loads(w) ==
    /\ Moves(w) /\ WorkerShape(worker'[w])
    /\ worker[w].step = "versioned" /\ worker'[w].step = "loaded"
    /\ worker[w].holds /\ worker'[w].holds
    /\ worker'[w].superseded \in BOOLEAN
    /\ worker'[w].cycle = worker[w].cycle
    /\ UNCHANGED << Core, lease >>

Reloads(w) ==
    /\ Loads(w)
    /\ worker'[w].superseded = (lease # w) /\ worker'[w].cache = Reloaded(w)
    /\ UNCHANGED counters

\* ... or those that are marked.
Refreshes(w) ==
    /\ Loads(w) /\ ~MustReload(w)
    /\ worker'[w].superseded = worker[w].superseded /\ worker'[w].cache = Refreshed(w)
    /\ counters' = [counters EXCEPT !.superseded =
                        IF worker[w].superseded THEN 1 ELSE counters.superseded]

\* It gets the lease.
Acquires(w) ==
    /\ lease = None /\ lease' = w /\ UNCHANGED << Core, counters >>
    /\ worker' = [v \in Workers |-> worker'[v]]
    /\ worker[w].step = "idle"
    /\ \A v \in Workers :
          /\ WorkerShape(worker'[v])
          /\ worker'[v].step = worker[v].step /\ worker'[v].cache = worker[v].cache
          /\ worker'[v].cycle = worker[v].cycle /\ worker'[v].result = worker[v].result
          /\ worker'[v].holds \in BOOLEAN /\ (worker[v].holds => worker'[v].holds)
          /\ worker'[v].superseded \in BOOLEAN
          /\ IF v = w THEN worker'[v].superseded = worker[v].superseded
                      ELSE worker'[v].superseded

\* What it has calculated is shown, as the holder of the lease, and the marks it has
\* listed are cleared, unless it dies before that.
Shows(w) ==
    LET result == worker[w].result IN
    /\ Moves(w)
    /\ worker[w].step = "calculated" /\ Fenced(w)
    /\ worker'[w].step = "idle" /\ WorkerTypes(worker'[w])
    /\ \/ worker'[w].cache = worker[w].cache /\ worker'[w].superseded = worker[w].superseded
       \/ ~worker'[w].cache.ready
    /\ positions' = [c \in Contracts |-> IF c \in DOMAIN result.positions
                                        THEN result.positions[c] ELSE positions[c]]
    /\ account' = IF result.account # NoSnapshot THEN result.account ELSE account
    /\ \/ /\ dirty' = [c \in Contracts |-> IF c \in Cleaned(w) THEN 0 ELSE dirty[c]]
          /\ factDirty' = (factDirty /\ ~( /\ worker[w].cycle.fact = factVersion
                                           /\ result.account # NoSnapshot ))
       \/ UNCHANGED << dirty, factDirty >>
    /\ UNCHANGED << committed, version, factVersion, lease, recovery >>
    /\ counters' = [trades |-> counters'.trades, incidents |-> counters'.incidents,
                    superseded |-> counters.superseded]

\* A worker is changed as a whole.
LEMMA WorkerIsChanged ==
    ASSUME PnlTypes, NEW w \in Workers, NEW y, worker' = [worker EXCEPT ![w] = y]
    PROVE  Moves(w) /\ worker'[w] = y
BY DEF PnlTypes, Moves

LEMMA WorkerFields ==
    ASSUME SnapshotInv, NEW w \in Workers
    PROVE  /\ worker = [v \in Workers |-> worker[v]]
           /\ WorkerTypes(worker[w]) /\ WorkerShape(worker[w])
           /\ CycleRuns(w, worker[w])
           /\ CycleTypes(worker[w].cycle) /\ CycleShape(worker[w].cycle)
           /\ CacheTypes(worker[w].cache) /\ CacheShape(worker[w].cache)
           /\ worker[w].step \in CycleSteps /\ worker[w].holds \in BOOLEAN
           /\ worker[w].superseded \in BOOLEAN
           /\ StoredTypes
BY DEF SnapshotInv, PnlTypes, LeaseInv, WorkerTypes, CycleTypes, CacheTypes

LEMMA EmptyCycle ==
    ASSUME StoredTypes
    PROVE  CycleTypes(NoCycle) /\ NoCycle.fact = 0 /\ \A c \in Contracts : NoCycle.dirty[c] = 0
BY DEF StoredTypes, CycleTypes, CycleShape, NoCycle, Clean

LEMMA EmptyCache ==
    ASSUME StoredTypes
    PROVE  CacheTypes(NoCache) /\ NoCache.ready = FALSE
<1>1. Clean \in [Contracts -> Nat] /\ \A c \in Contracts : Clean[c] = 0
  BY DEF Clean
<1>2. NoCache.account = << Clean, 0 >> /\ NoCache.account[1] = Clean /\ NoCache.account[2] = 0
  BY DEF NoCache
<1>3. CacheShape(NoCache)
  BY DEF CacheShape, NoCache
<1> QED  BY <1>1, <1>2, <1>3 DEF StoredTypes, CacheTypes, NoCache, BookShape

LEMMA FreshWorker ==
    ASSUME SnapshotInv, NEW w \in Workers
    PROVE  /\ WorkerTypes(NewWorker) /\ NewWorker.cache.ready = FALSE
           /\ NewWorker.step = "idle" /\ CycleRuns(w, NewWorker)
<1>1. StoredTypes
  BY DEF SnapshotInv, PnlTypes
<1>2. WorkerShape(NewWorker) /\ NewWorker.cycle = NoCycle /\ NewWorker.cache = NoCache
      /\ NewWorker.step = "idle" /\ NewWorker.holds = FALSE /\ NewWorker.superseded = FALSE
  BY DEF WorkerShape, NewWorker
<1> QED  BY <1>1, <1>2, EmptyCycle, EmptyCache DEF WorkerTypes, CycleSteps, CycleRuns

\* A worker that ends its cycle.
LEMMA ResultDropped ==
    ASSUME SnapshotInv, NEW w \in Workers, NEW y,
           y.step = "idle", y.cache = worker[w].cache, y.superseded = worker[w].superseded,
           y.holds \in BOOLEAN, y.cycle = NoCycle \/ y.cycle = worker[w].cycle,
           WorkerShape(y),
           worker' = [worker EXCEPT ![w] = y]
    PROVE  /\ Moves(w) /\ worker'[w] = y /\ WorkerTypes(worker'[w]) /\ CycleRuns(w, worker'[w])
           /\ worker'[w].cache = worker[w].cache /\ worker'[w].superseded = worker[w].superseded
<1>1. Moves(w) /\ worker'[w] = y
  BY WorkerIsChanged DEF SnapshotInv
<1>2. WorkerTypes(y)
  BY WorkerFields, EmptyCycle DEF WorkerTypes, CycleSteps
<1>3. CycleRuns(w, y)
  BY WorkerFields DEF CycleRuns
<1> QED  BY <1>1, <1>2, <1>3

LEMMA CountersStay ==
    ASSUME StoredTypes,
           counters' = counters \/ counters' = [counters EXCEPT !.incidents = @ + 1]
    PROVE  counters' = [trades |-> counters'.trades, incidents |-> counters'.incidents,
                        superseded |-> counters.superseded]
BY DEF StoredTypes

\* A worker in another step of its cycle.
Goes(s, step, holds, indexed, cycle, result) ==
    [holds |-> holds, step |-> step, price |-> s.price, indexed |-> indexed,
     superseded |-> s.superseded, cache |-> s.cache, cycle |-> cycle, result |-> result]

LEMMA GoesFields ==
    ASSUME NEW s, NEW step, NEW holds \in BOOLEAN, NEW indexed, NEW cycle, NEW result, NEW y,
           y = Goes(s, step, holds, indexed, cycle, result)
    PROVE  /\ WorkerShape(y)
           /\ y.step = step /\ y.holds = holds /\ y.holds \in BOOLEAN
           /\ y.superseded = s.superseded
           /\ y.cache = s.cache /\ y.cycle = cycle /\ y.result = result
BY DEF WorkerShape, Goes

LEMMA LosesLease ==
    ASSUME SnapshotInv, NEW w \in Workers, LoseLease(w)
    PROVE  Works(w)
<1> PICK h \in BOOLEAN : h = FALSE
  OBVIOUS
<1> PICK s : s = worker[w]
  OBVIOUS
<1>s. WorkerShape(s) /\ s.step = "idle" /\ WorkerTypes(s) /\ s.holds \in BOOLEAN
  BY WorkerFields DEF LoseLease
<1> PICK y : y = [s EXCEPT !.holds = h]
  OBVIOUS
<1>1. worker' = [worker EXCEPT ![w] = y]
  BY WorkerFields DEF LoseLease, WorkerShape
<1>r. y = Goes(s, "idle", h, s.indexed, s.cycle, s.result)
  BY <1>s DEF Goes, WorkerShape
<1>2. /\ WorkerShape(y) /\ y.step = "idle" /\ y.cache = s.cache /\ y.holds \in BOOLEAN
      /\ y.superseded = s.superseded /\ y.cycle = s.cycle
  BY <1>s, <1>r, GoesFields
<1>3. UNCHANGED << Core, lease, counters >>
  BY DEF LoseLease, Core
<1> QED  BY <1>1, <1>2, <1>3, ResultDropped, CountersStay, WorkerFields DEF Works

LEMMA EndsEarly ==
    ASSUME SnapshotInv, NEW w \in Workers, EndEarly(w)
    PROVE  Works(w)
<1> PICK i : i = IndexedNow(w)
  OBVIOUS
<1> PICK s : s = worker[w]
  OBVIOUS
<1>s. WorkerShape(s) /\ s.step = "loaded" /\ WorkerTypes(s) /\ s.holds \in BOOLEAN
  BY WorkerFields DEF EndEarly
<1> PICK y : y = [s EXCEPT !.step = "idle", !.indexed = i, !.cycle = NoCycle]
  OBVIOUS
<1>1. worker' = [worker EXCEPT ![w] = y]
  BY WorkerFields DEF EndEarly, WorkerShape
<1>r. y = Goes(s, "idle", s.holds, i, NoCycle, s.result)
  BY <1>s DEF Goes, WorkerShape
<1>2. /\ WorkerShape(y) /\ y.step = "idle" /\ y.cache = s.cache /\ y.holds \in BOOLEAN
      /\ y.superseded = s.superseded /\ y.cycle = NoCycle
  BY <1>s, <1>r, GoesFields
<1>3. UNCHANGED << Core, lease, counters >>
  BY DEF EndEarly, Core
<1> QED  BY <1>1, <1>2, <1>3, ResultDropped, CountersStay, WorkerFields DEF Works

LEMMA GivesUp ==
    ASSUME SnapshotInv, NEW w \in Workers, GiveUp(w)
    PROVE  Works(w)
<1> PICK i : i = IndexedNow(w)
  OBVIOUS
<1> PICK h \in BOOLEAN : h = FALSE
  OBVIOUS
<1> PICK s : s = worker[w]
  OBVIOUS
<1>s. WorkerShape(s) /\ s.step = "loaded" /\ WorkerTypes(s) /\ s.holds \in BOOLEAN
  BY WorkerFields DEF GiveUp
<1> PICK y : y = [s EXCEPT !.step = "idle", !.holds = h, !.indexed = i, !.cycle = NoCycle]
  OBVIOUS
<1>1. worker' = [worker EXCEPT ![w] = y]
  BY WorkerFields DEF GiveUp, WorkerShape
<1>r. y = Goes(s, "idle", h, i, NoCycle, s.result)
  BY <1>s DEF Goes, WorkerShape
<1>2. /\ WorkerShape(y) /\ y.step = "idle" /\ y.cache = s.cache /\ y.holds \in BOOLEAN
      /\ y.superseded = s.superseded /\ y.cycle = NoCycle
  BY <1>s, <1>r, GoesFields
<1>3. UNCHANGED << Core, lease, counters >>
  BY DEF GiveUp, Core
<1> QED  BY <1>1, <1>2, <1>3, ResultDropped, CountersStay, WorkerFields DEF Works

LEMMA IsRejected ==
    ASSUME SnapshotInv, NEW w \in Workers, RejectWrite(w)
    PROVE  Works(w)
<1> PICK h \in BOOLEAN : h = FALSE
  OBVIOUS
<1> PICK s : s = worker[w]
  OBVIOUS
<1>s. WorkerShape(s) /\ s.step = "calculated" /\ WorkerTypes(s) /\ s.holds \in BOOLEAN
  BY WorkerFields DEF RejectWrite
<1> PICK y : y = [s EXCEPT !.step = "idle", !.holds = h, !.cycle = NoCycle, !.result = NoResult]
  OBVIOUS
<1>1. worker' = [worker EXCEPT ![w] = y]
  BY WorkerFields DEF RejectWrite, WorkerShape
<1>r. y = Goes(s, "idle", h, s.indexed, NoCycle, NoResult)
  BY <1>s DEF Goes, WorkerShape
<1>2. /\ WorkerShape(y) /\ y.step = "idle" /\ y.cache = s.cache /\ y.holds \in BOOLEAN
      /\ y.superseded = s.superseded /\ y.cycle = NoCycle
  BY <1>s, <1>r, GoesFields
<1>3. UNCHANGED << Core, lease, counters >>
  BY DEF RejectWrite, Core
<1> QED  BY <1>1, <1>2, <1>3, ResultDropped, CountersStay, WorkerFields DEF Works

LEMMA Dies ==
    ASSUME SnapshotInv, NEW w \in Workers, WorkerDies(w)
    PROVE  Works(w)
<1>1. worker' = [worker EXCEPT ![w] = NewWorker] /\ UNCHANGED << Core, lease >>
      /\ counters' = [counters EXCEPT !.incidents = @ + 1]
  BY DEF WorkerDies, Core
<1>2. Moves(w) /\ worker'[w] = NewWorker
  BY <1>1, WorkerIsChanged DEF SnapshotInv
<1> QED  BY <1>1, <1>2, FreshWorker, CountersStay, WorkerFields DEF Works

LEMMA BeginsFlush ==
    ASSUME SnapshotInv, NEW w \in Workers, NEW force \in BOOLEAN, BeginFlush(w, force)
    PROVE  Works(w)
<1> PICK z : z = [force |-> force, ticks |-> pending, dirty |-> dirty,
                  fact |-> IF factDirty THEN factVersion ELSE 0, external |-> 0]
  OBVIOUS
<1> PICK s : s = worker[w]
  OBVIOUS
<1>s. WorkerShape(s) /\ s.step = "idle" /\ WorkerTypes(s) /\ s.holds \in BOOLEAN
  BY WorkerFields DEF BeginFlush
<1> PICK y : y = [s EXCEPT !.step = "listed", !.cycle = z]
  OBVIOUS
<1>1. worker' = [worker EXCEPT ![w] = y]
  BY WorkerFields DEF BeginFlush, WorkerShape
<1>r. y = Goes(s, "listed", s.holds, s.indexed, z, s.result)
  BY <1>s DEF Goes, WorkerShape
<1>2. /\ WorkerShape(y) /\ y.step = "listed" /\ y.cache = s.cache /\ y.holds \in BOOLEAN
      /\ y.superseded = s.superseded /\ y.cycle = z
  BY <1>s, <1>r, GoesFields
<1>3. CycleTypes(z)
  <2>1. /\ CycleShape(z) /\ z.dirty = dirty /\ z.external = 0
        /\ z.fact = IF factDirty THEN factVersion ELSE 0
    BY DEF CycleShape
  <2> QED  BY <2>1, WorkerFields DEF CycleTypes, StoredTypes
<1>4. WorkerTypes(y)
  <2>1. y.holds
    BY <1>r, WorkerFields DEF Goes, BeginFlush
  <2> QED  BY <1>s, <1>2, <1>3, <2>1 DEF WorkerTypes, CycleSteps
<1>5. CycleRuns(w, y)
  BY <1>2, WorkerFields DEF CycleRuns
<1>6. UNCHANGED << Core, lease, counters >>
  BY DEF BeginFlush, Core
<1>7. Moves(w) /\ worker'[w] = y
  BY <1>1, WorkerIsChanged DEF SnapshotInv
<1> QED  BY <1>2, <1>4, <1>5, <1>6, <1>7, CountersStay, WorkerFields DEF Works

LEMMA LoadsVersion ==
    ASSUME SnapshotInv, NEW w \in Workers, LoadVersion(w)
    PROVE  Works(w)
<1> PICK z : z = [worker[w].cycle EXCEPT !.external = version]
  OBVIOUS
<1> PICK s : s = worker[w]
  OBVIOUS
<1>s. WorkerShape(s) /\ s.step = "listed" /\ WorkerTypes(s) /\ s.holds \in BOOLEAN
  BY WorkerFields DEF LoadVersion
<1> PICK y : y = [s EXCEPT !.step = "versioned", !.cycle = z]
  OBVIOUS
<1>1. worker' = [worker EXCEPT ![w] = y]
  BY WorkerFields DEF LoadVersion, WorkerShape
<1>r. y = Goes(s, "versioned", s.holds, s.indexed, z, s.result)
  BY <1>s DEF Goes, WorkerShape
<1>2. /\ WorkerShape(y) /\ y.step = "versioned" /\ y.cache = s.cache
      /\ y.holds = s.holds
      /\ y.superseded = s.superseded /\ y.cycle = z
  BY <1>s, <1>r, GoesFields
<1>3. CycleTypes(z)
  <2> PICK k : k = worker[w].cycle
    OBVIOUS
  <2>k. CycleShape(k)
    BY WorkerFields
  <2>r. z = [force |-> k.force, ticks |-> k.ticks, dirty |-> k.dirty, fact |-> k.fact,
             external |-> version]
    BY <2>k DEF CycleShape
  <2>1. CycleShape(z) /\ z.dirty = k.dirty /\ z.external = version /\ z.fact = k.fact
    BY <2>r DEF CycleShape
  <2> QED  BY <2>1, WorkerFields DEF CycleTypes, StoredTypes
<1>4. WorkerTypes(y)
  BY <1>s, <1>2, <1>3 DEF WorkerTypes, CycleSteps
<1>5. CycleRuns(w, y)
  BY <1>2, WorkerFields DEF CycleRuns
<1>6. UNCHANGED << Core, lease, counters >>
  BY DEF LoadVersion, Core
<1>7. Moves(w) /\ worker'[w] = y
  BY <1>1, WorkerIsChanged DEF SnapshotInv
<1> QED  BY <1>2, <1>4, <1>5, <1>6, <1>7, CountersStay, WorkerFields DEF Works

LEMMA NotEmptyRecord == \A a, b : [facts |-> a, value |-> b] # << >>
<1> SUFFICES ASSUME NEW a, NEW b, [facts |-> a, value |-> b] = << >> PROVE FALSE
  OBVIOUS
<1>1. DOMAIN [facts |-> a, value |-> b] = {"facts", "value"}
  OBVIOUS
<1>2. DOMAIN << >> = {}
  OBVIOUS
<1> QED  BY <1>1, <1>2

\* What is calculated is what the cache says.
LEMMA CalculatedFits ==
    ASSUME SnapshotInv, NEW w \in Workers, NEW result,
           result.done = Requested(w) \ Failed(w),
           result.positions = NewPositions(w),
           result.account = IF Affected(w) THEN NewAccount(w) ELSE NoSnapshot,
           NEW y, y.result = result, y.cache = worker[w].cache, y.cycle = worker[w].cycle
    PROVE  ResultFits(y)
<1>1. NewAccount(w) # NoSnapshot /\ NewAccount(w).facts = worker[w].cache.facts
  BY NotEmptyRecord DEF NewAccount, NoSnapshot
<1>2. result.account = NoSnapshot =>
          \A c \in Contracts : c \in result.done => worker[w].cycle.dirty[c] = 0
  BY <1>1 DEF Affected, DirtyDone
<1>3. ASSUME NEW c \in Contracts
      PROVE  IF c \in DOMAIN result.positions
             THEN result.positions[c].volume = worker[w].cache.volume[c]
             ELSE c \in result.done => worker[w].cache.volume[c] = 0
  <2>1. worker[w].cache.volume[c] \in Nat
    BY WorkerFields DEF CacheTypes
  <2>2. c \in Open(w) <=> worker[w].cache.volume[c] > 0
    BY DEF Open
  <2>3. DOMAIN result.positions = Valued(w) \cup Closed(w)
    BY DEF NewPositions
  <2>4. c \in Valued(w) => result.positions[c].volume = worker[w].cache.volume[c]
    BY DEF NewPositions, Snap
  <2>5. c \in Closed(w) /\ c \notin Valued(w) => result.positions[c].volume = 0
    BY DEF NewPositions, Snap
  <2>6. c \in Closed(w) => c \notin Open(w)
    BY DEF Closed
  <2>7. c \in result.done /\ c \in Open(w) => c \in Valued(w)
    BY DEF Valued
  <2> QED  BY <2>1, <2>2, <2>3, <2>4, <2>5, <2>6, <2>7
<1> QED  BY <1>1, <1>2, <1>3 DEF ResultFits

LEMMA Calculates ==
    ASSUME SnapshotInv, NEW w \in Workers, Calculate(w)
    PROVE  Works(w)
<1> PICK i : i = IndexedNow(w)
  OBVIOUS
<1> PICK tick : tick = [c \in Contracts |-> Latest(c)]
  OBVIOUS
<1> PICK r : r = [done |-> Requested(w) \ Failed(w), failed |-> Failed(w), tick |-> tick,
                  positions |-> NewPositions(w),
                  account |-> IF Affected(w) THEN NewAccount(w) ELSE NoSnapshot,
                  add |-> Valued(w) \ IndexSeen(w), remove |-> Closed(w)]
  OBVIOUS
<1> PICK s : s = worker[w]
  OBVIOUS
<1>s. WorkerShape(s) /\ s.step = "loaded" /\ WorkerTypes(s) /\ s.holds \in BOOLEAN
  BY WorkerFields DEF Calculate
<1> PICK y : y = [s EXCEPT !.step = "calculated", !.indexed = i, !.result = r]
  OBVIOUS
<1>1. worker' = [worker EXCEPT ![w] = y]
  BY WorkerFields DEF Calculate, WorkerShape
<1>r. y = Goes(s, "calculated", s.holds, i, s.cycle, r)
  BY <1>s DEF Goes, WorkerShape
<1>2. /\ WorkerShape(y) /\ y.step = "calculated" /\ y.cache = s.cache /\ y.holds = s.holds
      /\ y.superseded = s.superseded /\ y.cycle = s.cycle /\ y.result = r
  BY <1>s, <1>r, GoesFields
<1>3. WorkerTypes(y)
  BY <1>s, <1>2 DEF WorkerTypes, CycleSteps
<1>4. ResultFits(y)
  <2>1. /\ r.done = Requested(w) \ Failed(w) /\ r.positions = NewPositions(w)
        /\ r.account = IF Affected(w) THEN NewAccount(w) ELSE NoSnapshot
    OBVIOUS
  <2> QED  BY <2>1, <1>2, CalculatedFits
<1>5. CycleRuns(w, y)
  BY <1>s, <1>2, <1>4, WorkerFields DEF CycleRuns
<1>6. UNCHANGED << Core, lease, counters >>
  BY DEF Calculate, Core
<1>7. Moves(w) /\ worker'[w] = y
  BY <1>1, WorkerIsChanged DEF SnapshotInv
<1> QED  BY <1>2, <1>3, <1>5, <1>6, <1>7, CountersStay, WorkerFields DEF Works

LEMMA LoadsFacts ==
    ASSUME SnapshotInv, NEW w \in Workers, LoadFacts(w)
    PROVE  Reloads(w) \/ Refreshes(w)
<1> PICK s : s = worker[w]
  OBVIOUS
<1>s. WorkerShape(s) /\ s.step = "versioned" /\ s.holds \in BOOLEAN /\ s.superseded \in BOOLEAN
  BY WorkerFields DEF LoadFacts
<1>h. s.holds
  BY <1>s, WorkerFields DEF WorkerTypes
<1>u. UNCHANGED << Core, lease >>
  BY DEF LoadFacts, Core
<1>1. CASE /\ worker' = [worker EXCEPT ![w].step = "loaded", ![w].superseded = lease # w,
                                       ![w].cache = Reloaded(w)]
           /\ UNCHANGED counters
  <2> PICK b \in BOOLEAN : b = (lease # w)
    OBVIOUS
  <2> PICK k : k = Reloaded(w)
    OBVIOUS
  <2> PICK y : y = [s EXCEPT !.step = "loaded", !.superseded = b, !.cache = k]
    OBVIOUS
  <2>1. worker' = [worker EXCEPT ![w] = y]
    BY <1>1, WorkerFields DEF WorkerShape
  <2>r. y = [holds |-> s.holds, step |-> "loaded", price |-> s.price, indexed |-> s.indexed,
             superseded |-> b, cache |-> k, cycle |-> s.cycle, result |-> s.result]
    BY <1>s DEF WorkerShape
  <2>2. /\ WorkerShape(y) /\ y.step = "loaded" /\ y.holds = s.holds /\ y.superseded = b
        /\ y.cache = k /\ y.cycle = s.cycle
    BY <2>r DEF WorkerShape
  <2>3. Moves(w) /\ worker'[w] = y
    BY <2>1, WorkerIsChanged DEF SnapshotInv
  <2>4. Loads(w)
    BY <1>s, <1>h, <1>u, <2>2, <2>3 DEF Loads
  <2> QED  BY <1>1, <2>2, <2>3, <2>4 DEF Reloads
<1>2. CASE /\ ~MustReload(w)
           /\ worker' = [worker EXCEPT ![w].step = "loaded", ![w].cache = Refreshed(w)]
           /\ counters' = [counters EXCEPT !.superseded =
                             IF worker[w].superseded THEN 1 ELSE @]
  <2> PICK k : k = Refreshed(w)
    OBVIOUS
  <2> PICK y : y = [s EXCEPT !.step = "loaded", !.cache = k]
    OBVIOUS
  <2>1. worker' = [worker EXCEPT ![w] = y]
    BY <1>2, WorkerFields DEF WorkerShape
  <2>r. y = [holds |-> s.holds, step |-> "loaded", price |-> s.price, indexed |-> s.indexed,
             superseded |-> s.superseded, cache |-> k, cycle |-> s.cycle,
             result |-> s.result]
    BY <1>s DEF WorkerShape
  <2>2. /\ WorkerShape(y) /\ y.step = "loaded" /\ y.holds = s.holds
        /\ y.superseded = s.superseded /\ y.cache = k /\ y.cycle = s.cycle
    BY <2>r DEF WorkerShape
  <2>3. Moves(w) /\ worker'[w] = y
    BY <2>1, WorkerIsChanged DEF SnapshotInv
  <2>4. Loads(w)
    BY <1>s, <1>h, <1>u, <2>2, <2>3 DEF Loads
  <2>5. counters' = [counters EXCEPT !.superseded =
                        IF worker[w].superseded THEN 1 ELSE counters.superseded]
    BY <1>2
  <2> QED  BY <1>2, <2>2, <2>3, <2>4, <2>5 DEF Refreshes
<1> QED  BY <1>1, <1>2 DEF LoadFacts

\* A cycle without anything to write only moves its worker.
LEMMA WritesOrWorks ==
    ASSUME SnapshotInv, NEW w \in Workers, Write(w)
    PROVE  Shows(w) \/ Works(w)
<1> PICK s : s = worker[w]
  OBVIOUS
<1>s. WorkerShape(s) /\ s.step = "calculated" /\ WorkerTypes(s) /\ s.holds \in BOOLEAN
  BY WorkerFields DEF Write
<1> DEFINE Ends == /\ Moves(w) /\ WorkerTypes(worker'[w]) /\ CycleRuns(w, worker'[w])
                   /\ worker'[w].step = "idle"
                   /\ \/ /\ worker'[w].cache = worker[w].cache
                         /\ worker'[w].superseded = worker[w].superseded
                      \/ ~worker'[w].cache.ready
           Clears == /\ dirty' = [c \in Contracts |-> IF c \in Cleaned(w) THEN 0 ELSE dirty[c]]
                     /\ factDirty' = (factDirty /\ ~( /\ worker[w].cycle.fact = factVersion
                                                      /\ worker[w].result.account # NoSnapshot ))
<1>1. ASSUME Complete(w) PROVE Ends /\ Clears
  <2>1. PICK p : worker' = [worker EXCEPT ![w].step = "idle", ![w].price = p,
                                          ![w].cycle = NoCycle, ![w].result = NoResult]
    BY <1>1, WorkerFields DEF Complete, WorkerShape
  <2> PICK y : y = [s EXCEPT !.step = "idle", !.price = p, !.cycle = NoCycle,
                             !.result = NoResult]
    OBVIOUS
  <2>2. worker' = [worker EXCEPT ![w] = y]
    BY <2>1, WorkerFields DEF WorkerShape
  <2>r. y = [holds |-> s.holds, step |-> "idle", price |-> p, indexed |-> s.indexed,
             superseded |-> s.superseded, cache |-> s.cache, cycle |-> NoCycle,
             result |-> NoResult]
    BY <1>s DEF WorkerShape
  <2>3. /\ WorkerShape(y) /\ y.step = "idle" /\ y.holds = s.holds
        /\ y.superseded = s.superseded /\ y.cache = s.cache /\ y.cycle = NoCycle
    BY <2>r DEF WorkerShape
  <2>4. y.holds \in BOOLEAN
    BY <1>s, <2>3
  <2>5. Ends
    BY <2>2, <2>3, <2>4, ResultDropped
  <2> QED  BY <1>1, <2>5 DEF Complete
<1>2. ASSUME worker' = [worker EXCEPT ![w] = NewWorker] PROVE Ends
  <2>1. Moves(w) /\ worker'[w] = NewWorker
    BY <1>2, WorkerIsChanged DEF SnapshotInv
  <2> QED  BY <2>1, FreshWorker
<1>3. Ends /\ (Clears \/ UNCHANGED << dirty, factDirty >>)
  BY <1>1, <1>2 DEF Write
<1>4. counters' = [trades |-> counters'.trades, incidents |-> counters'.incidents,
                   superseded |-> counters.superseded]
  BY CountersStay, WorkerFields DEF Write
<1>5. /\ WriteSnapshots(w)
      /\ UNCHANGED << committed, ticks, version, factVersion, lease, recovery >>
  BY DEF Write
<1>6. CASE Writes(w)
  BY <1>3, <1>4, <1>5, <1>6, <1>s DEF Shows, WriteSnapshots
<1>7. CASE ~Writes(w)
  <2>1. worker[w].result.account = NoSnapshot /\ DOMAIN worker[w].result.positions = {}
    BY <1>7 DEF Writes
  <2>2. account' = account
    BY <1>5, <2>1 DEF WriteSnapshots
  <2>3. positions' = positions
    BY <1>5, <2>1, WorkerFields DEF WriteSnapshots, StoredTypes
  <2>4. dirty' = dirty /\ factDirty' = factDirty
    <3>1. dirty \in [Contracts -> Nat] /\ factDirty \in BOOLEAN
      BY WorkerFields DEF StoredTypes
    <3>2. \A c \in Contracts : c \in worker[w].result.done => worker[w].cycle.dirty[c] = 0
      BY <1>s, <2>1, WorkerFields DEF CycleRuns, ResultFits
    <3>3. \A c \in Contracts : c \in Cleaned(w) => dirty[c] = 0
      BY <3>2 DEF Cleaned
    <3>4. CASE Clears
      <4>1. dirty' = dirty
        BY <3>1, <3>3, <3>4
      <4>2. factDirty' = factDirty
        BY <3>1, <2>1, <3>4
      <4> QED  BY <4>1, <4>2
    <3> QED  BY <1>3, <3>4
  <2> QED  BY <1>3, <1>4, <1>5, <2>2, <2>3, <2>4 DEF Works, Core
<1> QED  BY <1>6, <1>7

LEMMA AcquiresLease ==
    ASSUME SnapshotInv, NEW w \in Workers, Acquire(w)
    PROVE  Acquires(w)
<1>1. /\ worker' = [v \in Workers |-> IF v = w THEN [worker[w] EXCEPT !.holds = TRUE]
                                      ELSE [worker[v] EXCEPT !.superseded = TRUE]]
      /\ lease = None /\ lease' = w /\ UNCHANGED << Core, counters >>
      /\ ~worker[w].holds
  BY DEF Acquire, Core
<1>2. worker[w].step = "idle"
  BY <1>1, WorkerFields DEF WorkerTypes
<1>3. ASSUME NEW v \in Workers
      PROVE  /\ WorkerShape(worker'[v])
             /\ worker'[v].step = worker[v].step /\ worker'[v].cache = worker[v].cache
             /\ worker'[v].cycle = worker[v].cycle /\ worker'[v].result = worker[v].result
             /\ worker'[v].holds \in BOOLEAN /\ (worker[v].holds => worker'[v].holds)
             /\ worker'[v].superseded \in BOOLEAN
             /\ IF v = w THEN worker'[v].superseded = worker[v].superseded
                         ELSE worker'[v].superseded
  <2> PICK s : s = worker[v]
    OBVIOUS
  <2>s. WorkerShape(s) /\ s.holds \in BOOLEAN /\ s.superseded \in BOOLEAN
    BY WorkerFields
  <2> PICK y : y = worker'[v]
    OBVIOUS
  <2>1. CASE v = w
    <3>1. y = [s EXCEPT !.holds = TRUE]
      BY <1>1, <2>1
    <3>2. y = [holds |-> TRUE, step |-> s.step, price |-> s.price, indexed |-> s.indexed,
               superseded |-> s.superseded, cache |-> s.cache, cycle |-> s.cycle,
               result |-> s.result]
      BY <2>s, <3>1 DEF WorkerShape
    <3>3. /\ WorkerShape(y) /\ y.step = s.step /\ y.cache = s.cache /\ y.cycle = s.cycle
          /\ y.result = s.result /\ y.superseded = s.superseded /\ y.holds = TRUE
      BY <3>2 DEF WorkerShape
    <3> QED  BY <2>1, <2>s, <3>3
  <2>2. CASE v # w
    <3>1. y = [s EXCEPT !.superseded = TRUE]
      BY <1>1, <2>2
    <3>2. y = [holds |-> s.holds, step |-> s.step, price |-> s.price, indexed |-> s.indexed,
               superseded |-> TRUE, cache |-> s.cache, cycle |-> s.cycle,
               result |-> s.result]
      BY <2>s, <3>1 DEF WorkerShape
    <3>3. /\ WorkerShape(y) /\ y.step = s.step /\ y.cache = s.cache /\ y.cycle = s.cycle
          /\ y.result = s.result /\ y.superseded = TRUE /\ y.holds = s.holds
      BY <3>2 DEF WorkerShape
    <3> QED  BY <2>2, <2>s, <3>3
  <2> QED  BY <2>1, <2>2
<1>4. worker' = [v \in Workers |-> worker'[v]]
  BY <1>1
<1> QED  BY <1>1, <1>2, <1>3, <1>4 DEF Acquires

-----------------------------------------------------------------------------
(* The steps of the workers keep the invariant.                            *)

LEMMA StoredStays ==
    ASSUME StoredTypes, UNCHANGED Core,
           counters' = [trades |-> counters'.trades, incidents |-> counters'.incidents,
                        superseded |-> counters'.superseded]
    PROVE  /\ StoredTypes' /\ UNCHANGED << book, events, version, dirty, factDirty, factVersion,
                                          positions, account, recovery >>
BY DEF StoredTypes, Core, BookShape

\* Whatever concerns the stored facts and one cache is as it was.
LEMMA KnowledgeStays ==
    ASSUME UNCHANGED << book, events, version, dirty, factDirty, factVersion,
                        positions, account, recovery >>, NEW s, NEW y
    PROVE  /\ WorkerTypes(y) => WorkerTypes(y)'
           /\ CacheKnows(s) => CacheKnows(s)'
           /\ (AccountInv => AccountInv') /\ (PositionInv => PositionInv')
<1>1. WorkerTypes(y) => WorkerTypes(y)'
  BY DEF WorkerTypes, CycleTypes, CacheTypes
<1>2. CacheKnows(s) => CacheKnows(s)'
  BY DEF CacheKnows, NewMark, NewFactMark, Announced
<1>3. AccountInv => AccountInv'
  BY DEF AccountInv
<1>4. PositionInv => PositionInv'
  BY DEF PositionInv, Announced
<1> QED  BY <1>1, <1>2, <1>3, <1>4

LEMMA WorksKeepsInv ==
    ASSUME SnapshotInv, NEW w \in Workers, Works(w)
    PROVE  SnapshotInv'
<1>1. /\ StoredTypes'
      /\ UNCHANGED << book, events, version, dirty, factDirty, factVersion,
                      positions, account, recovery >>
      /\ lease' = lease
  <2>1. counters' = [trades |-> counters'.trades, incidents |-> counters'.incidents,
                     superseded |-> counters'.superseded]
    BY DEF Works
  <2> QED  BY <2>1, StoredStays, WorkerFields DEF Works
<1>2. counters'.superseded = counters.superseded
  BY DEF Works
<1>3. worker' = [x \in Workers |-> worker'[x]] /\ \A x \in Workers \ {w} : worker'[x] = worker[x]
  BY DEF Works, Moves
<1>4. ASSUME NEW x \in Workers
      PROVE  /\ WorkerTypes(worker'[x]) /\ CycleRuns(x, worker'[x])
             /\ worker'[x].cache.ready /\ ~worker'[x].superseded =>
                   /\ worker[x].cache.ready /\ ~worker[x].superseded
                   /\ worker'[x].cache = worker[x].cache
             /\ worker'[x].cache.ready => worker'[x].cache = worker[x].cache
  <2>1. CASE x = w
    BY <2>1 DEF Works
  <2>2. CASE x # w
    BY <1>3, <2>2, WorkerFields
  <2> QED  BY <2>1, <2>2
<1>5. PnlTypes'
  <2>1. ASSUME NEW x \in Workers PROVE WorkerTypes(worker[x])'
    <3> PICK y : y = worker'[x]
      OBVIOUS
    <3>1. WorkerTypes(y)'
      BY <1>1, <1>4, KnowledgeStays
    <3> QED  BY <3>1
  <2> QED  BY <1>1, <1>3, <2>1 DEF PnlTypes
<1>6. LeaseInv'
  <2>1. ASSUME NEW x \in Workers PROVE CycleRuns(x, worker[x])'
    <3> PICK y : y = worker'[x]
      OBVIOUS
    <3>1. CycleRuns(x, y)
      BY <1>4
    <3>2. CycleRuns(x, y)'
      BY <1>1, <1>2, <3>1 DEF CycleRuns
    <3> QED  BY <3>2
  <2> QED  BY <2>1 DEF LeaseInv
<1>7. CacheInv'
  <2> SUFFICES ASSUME counters.superseded = 0, NEW x \in Workers,
                      worker'[x].cache.ready, ~worker'[x].superseded
               PROVE  CacheKnows(worker[x].cache)'
    BY <1>2 DEF CacheInv
  <2> PICK s : s = worker[x].cache
    OBVIOUS
  <2>1. s = worker'[x].cache
    BY <1>4
  <2>2. CacheKnows(s)
    BY <1>4 DEF SnapshotInv, CacheInv
  <2>3. CacheKnows(s)'
    BY <1>1, <2>2, KnowledgeStays
  <2> QED  BY <2>1, <2>3
<1>8. RecoveryInv'
  BY <1>1, <1>4 DEF SnapshotInv, RecoveryInv
<1>9. ShownInv'
  BY <1>1, <1>2, KnowledgeStays DEF SnapshotInv, ShownInv
<1> QED  BY <1>5, <1>6, <1>7, <1>8, <1>9 DEF SnapshotInv

LEMMA AcquiresKeepsInv ==
    ASSUME SnapshotInv, NEW w \in Workers, Acquires(w)
    PROVE  SnapshotInv'
<1>1. /\ StoredTypes' /\ counters' = counters /\ lease = None /\ lease' = w
      /\ UNCHANGED << book, events, version, dirty, factDirty, factVersion,
                      positions, account, recovery >>
  <2>1. counters' = [trades |-> counters'.trades, incidents |-> counters'.incidents,
                     superseded |-> counters'.superseded]
    BY WorkerFields DEF Acquires, StoredTypes
  <2> QED  BY <2>1, StoredStays, WorkerFields DEF Acquires
<1>2. PnlTypes'
  <2>1. ASSUME NEW x \in Workers PROVE WorkerTypes(worker[x])'
    <3> PICK y : y = worker'[x]
      OBVIOUS
    <3>0. /\ WorkerShape(y) /\ y.holds \in BOOLEAN /\ y.superseded \in BOOLEAN
          /\ y.step = worker[x].step /\ y.cache = worker[x].cache
          /\ y.cycle = worker[x].cycle
      BY DEF Acquires
    <3>h. worker[x].holds => y.holds
      BY DEF Acquires
    <3>t. WorkerTypes(worker[x])
      BY WorkerFields
    <3>1. WorkerTypes(y)
      BY <3>0, <3>h, <3>t DEF WorkerTypes
    <3>2. WorkerTypes(y)'
      BY <1>1, <3>1, KnowledgeStays
    <3> QED  BY <3>2
  <2> QED  BY <1>1, <2>1 DEF PnlTypes, Acquires
<1>3. LeaseInv'
  <2>1. ASSUME NEW x \in Workers PROVE CycleRuns(x, worker[x])'
    <3> PICK y : y = worker'[x]
      OBVIOUS
    <3>1. /\ y.step = worker[x].step /\ y.cache = worker[x].cache /\ y.cycle = worker[x].cycle
          /\ y.result = worker[x].result
          /\ x # w => y.superseded
          /\ x = w => y.step = "idle"
      BY DEF Acquires
    <3>2. CycleRuns(x, worker[x])
      BY WorkerFields
    <3>3. CycleRuns(x, y)'
      BY <1>1, <3>1, <3>2 DEF CycleRuns, ResultFits
    <3> QED  BY <3>3
  <2> QED  BY <2>1 DEF LeaseInv
<1>4. CacheInv'
  <2> SUFFICES ASSUME counters.superseded = 0, NEW x \in Workers,
                      worker'[x].cache.ready, ~worker'[x].superseded
               PROVE  CacheKnows(worker[x].cache)'
    BY <1>1 DEF CacheInv
  <2> PICK s : s = worker[x].cache
    OBVIOUS
  <2>1. s = worker'[x].cache /\ ~worker[x].superseded
    BY DEF Acquires
  <2>2. CacheKnows(s)
    BY <2>1 DEF SnapshotInv, CacheInv
  <2>3. CacheKnows(s)'
    BY <1>1, <2>2, KnowledgeStays
  <2> QED  BY <2>1, <2>3
<1>5. RecoveryInv'
  BY <1>1 DEF SnapshotInv, RecoveryInv, Acquires
<1>6. ShownInv'
  BY <1>1, KnowledgeStays DEF SnapshotInv, ShownInv
<1> QED  BY <1>2, <1>3, <1>4, <1>5, <1>6 DEF SnapshotInv

\* The versions a cache has seen, after those of this cycle.
LEMMA SeenAfter ==
    ASSUME SnapshotInv, NEW w \in Workers,
           NEW seen \in [Contracts -> Nat], \A c \in Contracts : seen[c] <= version,
           NEW a, NEW b, a \in [Contracts -> Nat], b \in Nat, b <= factVersion,
           \A c \in Contracts : a[c] # 0 => seen[c] = a[c],
           NEW s, s = SeenContracts(w, seen), NEW k, k = SeenAccount(w, << a, b >>)
    PROVE  /\ s \in [Contracts -> Nat] /\ \A c \in Contracts : s[c] <= version
           /\ k = << k[1], k[2] >> /\ k[1] \in [Contracts -> Nat]
           /\ k[2] \in Nat /\ k[2] <= factVersion
           /\ \A c \in Contracts : worker[w].cycle.dirty[c] # 0 => s[c] = worker[w].cycle.dirty[c]
           /\ worker[w].cycle.fact # 0 => k[2] = worker[w].cycle.fact
           /\ \A c \in Contracts : k[1][c] # 0 => s[c] = k[1][c]
<1> PICK d : d = worker[w].cycle.dirty
  OBVIOUS
<1> PICK f : f = worker[w].cycle.fact
  OBVIOUS
<1>1. d \in [Contracts -> Nat] /\ (\A c \in Contracts : d[c] <= version)
      /\ f \in Nat /\ f <= factVersion
  BY WorkerFields DEF CycleTypes
<1>2. s = [c \in Contracts |-> IF d[c] # 0 THEN d[c] ELSE seen[c]]
  BY DEF SeenContracts
<1>3. k = IF << d, f >> # << Clean, 0 >> THEN << d, f >> ELSE << a, b >>
  BY DEF SeenAccount, AccountKey
<1>4. s \in [Contracts -> Nat] /\ \A c \in Contracts : s[c] <= version
  BY <1>1, <1>2
<1>5. k[1] \in {d, a} /\ k[2] \in {f, b} /\ k = << k[1], k[2] >>
  BY <1>3
<1>6. f # 0 => k[2] = f
  BY <1>3
<1>7. \A c \in Contracts : d[c] # 0 => s[c] = d[c]
  BY <1>2
<1>8. \A c \in Contracts : k[1][c] # 0 => s[c] = k[1][c]
  <2>1. CASE << d, f >> # << Clean, 0 >>
    BY <1>3, <1>7, <2>1
  <2>2. CASE << d, f >> = << Clean, 0 >>
    <3>1. \A c \in Contracts : s[c] = seen[c]
      BY <1>2, <2>2 DEF Clean
    <3>2. k[1] = a
      BY <1>3, <2>2
    <3> QED  BY <3>1, <3>2
  <2> QED  BY <2>1, <2>2
<1> QED  BY <1>1, <1>4, <1>5, <1>6, <1>7, <1>8

LEMMA ReloadedIs ==
    ASSUME SnapshotInv, NEW w \in Workers, NEW k, k = Reloaded(w)
    PROVE  /\ CacheTypes(k) /\ k.ready = TRUE
           /\ k.facts = book.facts /\ k.volume = book.volume
           /\ \A c \in Contracts : worker[w].cycle.dirty[c] # 0 =>
                 k.contracts[c] = worker[w].cycle.dirty[c]
           /\ worker[w].cycle.fact # 0 => k.account[2] = worker[w].cycle.fact
<1> PICK a : a = Clean
  OBVIOUS
<1> PICK s : s = SeenContracts(w, a)
  BY DEF SeenContracts
<1> PICK e : e = SeenAccount(w, << a, 0 >>)
  OBVIOUS
<1>1. a \in [Contracts -> Nat] /\ \A c \in Contracts : a[c] = 0
  BY DEF Clean
<1>2. book.volume \in [Contracts -> Nat] /\ book.facts \in Nat /\ version \in Nat
      /\ factVersion \in Nat
      /\ worker[w].cycle.external \in Nat /\ worker[w].cycle.external <= version
  BY WorkerFields DEF StoredTypes, CycleTypes
<1>3. /\ s \in [Contracts -> Nat] /\ \A c \in Contracts : s[c] <= version
      /\ e = << e[1], e[2] >> /\ e[1] \in [Contracts -> Nat]
      /\ e[2] \in Nat /\ e[2] <= factVersion
      /\ \A c \in Contracts : worker[w].cycle.dirty[c] # 0 => s[c] = worker[w].cycle.dirty[c]
      /\ worker[w].cycle.fact # 0 => e[2] = worker[w].cycle.fact
      /\ \A c \in Contracts : e[1][c] # 0 => s[c] = e[1][c]
  <2>1. 0 \in Nat /\ 0 <= factVersion /\ \A c \in Contracts : a[c] <= version
    BY <1>1, <1>2
  <2> QED  BY <1>1, <2>1, SeenAfter
<1> PICK r \in BOOLEAN : r = TRUE
  OBVIOUS
<1>4. k = [ready |-> r, volume |-> book.volume, valued |-> book.valued,
           facts |-> book.facts, day |-> book.day, version |-> worker[w].cycle.external,
           contracts |-> s, account |-> e]
  BY DEF Reloaded
<1>5. /\ k.ready = r /\ k.volume = book.volume /\ k.facts = book.facts
      /\ k.version = worker[w].cycle.external /\ k.contracts = s /\ k.account = e
  BY <1>4
<1>6. CacheShape(k)
  <2>1. e = << e[1], e[2] >>
    BY <1>3
  <2>2. k.valued = book.valued /\ k.day = book.day
    BY <1>4
  <2>3. k = [ready |-> k.ready, volume |-> k.volume, valued |-> k.valued, facts |-> k.facts,
             day |-> k.day, version |-> k.version, contracts |-> k.contracts,
             account |-> e]
    BY <1>4, <1>5, <2>2
  <2>4. e = << k.account[1], k.account[2] >>
    BY <1>5, <2>1
  <2> QED  BY <2>3, <2>4 DEF CacheShape
<1>7. k.ready \in BOOLEAN /\ k.ready = TRUE
  BY <1>5
<1> QED  BY <1>2, <1>3, <1>5, <1>6, <1>7 DEF CacheTypes

\* What is read again is what the cache has not seen; and if the account has not
\* changed, nothing is.
RereadOrSame(o, k) ==
    \/ /\ k.facts = book.facts
       /\ \A c \in Contracts :
             \/ k.volume[c] = book.volume[c]
             \/ k.volume[c] = o.volume[c] /\ k.contracts[c] = o.contracts[c]
    \/ /\ k.facts = o.facts /\ k.volume = o.volume /\ k.version = o.version
       /\ k.contracts = o.contracts /\ k.account = o.account

LEMMA RefreshedIs ==
    ASSUME SnapshotInv, NEW w \in Workers, NEW k, k = Refreshed(w), ~MustReload(w)
    PROVE  /\ CacheTypes(k) /\ k.ready = TRUE /\ worker[w].cache.ready
           /\ \A c \in Contracts : worker[w].cycle.dirty[c] # 0 =>
                 k.contracts[c] = worker[w].cycle.dirty[c]
           /\ worker[w].cycle.fact # 0 => k.account[2] = worker[w].cycle.fact
           /\ RereadOrSame(worker[w].cache, k)
<1> PICK o : o = worker[w].cache
  OBVIOUS
<1> PICK d : d = worker[w].cycle.dirty
  OBVIOUS
<1> PICK f : f = worker[w].cycle.fact
  OBVIOUS
<1> PICK s : s = SeenContracts(w, o.contracts)
  BY DEF SeenContracts
<1> PICK e : e = SeenAccount(w, o.account)
  OBVIOUS
<1>o. CacheTypes(o) /\ CacheShape(o)
  BY WorkerFields
<1>1. book.volume \in [Contracts -> Nat] /\ book.facts \in Nat /\ version \in Nat
      /\ worker[w].cycle.external \in Nat /\ worker[w].cycle.external <= version
      /\ d \in [Contracts -> Nat]
  BY WorkerFields DEF StoredTypes, CycleTypes
<1>2. /\ o.ready /\ o.volume \in [Contracts -> Nat] /\ o.facts \in Nat /\ o.facts <= book.facts
      /\ o.contracts \in [Contracts -> Nat] /\ o.ready \in BOOLEAN
      /\ \A c \in Contracts : o.account[1][c] # 0 => o.contracts[c] = o.account[1][c]
  BY <1>o DEF CacheTypes, MustReload
<1>a. o.account = << o.account[1], o.account[2] >>
  <2>1. o.account = [ready |-> o.ready, volume |-> o.volume, valued |-> o.valued,
                     facts |-> o.facts, day |-> o.day, version |-> o.version,
                     contracts |-> o.contracts,
                     account |-> << o.account[1], o.account[2] >>].account
    BY <1>o DEF CacheShape
  <2> QED  BY <2>1
<1>3. /\ s \in [Contracts -> Nat] /\ \A c \in Contracts : s[c] <= version
      /\ e = << e[1], e[2] >> /\ e[1] \in [Contracts -> Nat]
      /\ e[2] \in Nat /\ e[2] <= factVersion
      /\ \A c \in Contracts : d[c] # 0 => s[c] = d[c]
      /\ f # 0 => e[2] = f
      /\ \A c \in Contracts : e[1][c] # 0 => s[c] = e[1][c]
  <2> PICK a, b : a = o.account[1] /\ b = o.account[2]
    OBVIOUS
  <2>1. /\ o.contracts \in [Contracts -> Nat] /\ \A c \in Contracts : o.contracts[c] <= version
        /\ a \in [Contracts -> Nat] /\ b \in Nat /\ b <= factVersion
        /\ \A c \in Contracts : a[c] # 0 => o.contracts[c] = a[c]
    BY <1>o DEF CacheTypes
  <2>2. e = SeenAccount(w, << a, b >>)
    BY <1>a
  <2> QED  BY <2>1, <2>2, SeenAfter
<1> PICK again : again = ChangedContracts(w)
  BY DEF ChangedContracts
<1> PICK row \in BOOLEAN : row = (AccountChanged(w) \/ \E c \in again : book.volume[c] > 0)
  OBVIOUS
<1>4. k = [ready |-> o.ready,
           volume |-> [c \in Contracts |-> IF c \in again THEN book.volume[c] ELSE o.volume[c]],
           valued |-> [c \in Contracts |-> IF c \in again THEN book.valued[c] ELSE o.valued[c]],
           facts |-> IF row THEN book.facts ELSE o.facts,
           day |-> IF row THEN book.day ELSE o.day,
           version |-> worker[w].cycle.external,
           contracts |-> s, account |-> e]
  BY <1>o DEF Refreshed, CacheShape
<1>5. /\ k.ready = o.ready
      /\ k.volume = [c \in Contracts |-> IF c \in again THEN book.volume[c] ELSE o.volume[c]]
      /\ k.facts = IF row THEN book.facts ELSE o.facts
      /\ k.version = worker[w].cycle.external /\ k.contracts = s /\ k.account = e
  BY <1>4
<1>6. CacheShape(k)
  BY <1>3, <1>4 DEF CacheShape
<1>7. CacheTypes(k)
  BY <1>1, <1>2, <1>3, <1>5, <1>6 DEF CacheTypes
<1>8. again = {c \in Contracts : d[c] # 0 /\ o.contracts[c] # d[c]}
  BY DEF ChangedContracts
<1>9. CASE AccountChanged(w)
  <2>1. k.facts = book.facts
    BY <1>5, <1>9
  <2>2. ASSUME NEW c \in Contracts, c \notin again
        PROVE  k.volume[c] = o.volume[c] /\ k.contracts[c] = o.contracts[c]
    <3>1. s[c] = IF d[c] # 0 THEN d[c] ELSE o.contracts[c]
      BY DEF SeenContracts
    <3> QED  BY <1>5, <1>8, <2>2, <3>1
  <2>3. \A c \in Contracts : c \in again => k.volume[c] = book.volume[c]
    BY <1>5
  <2>4. RereadOrSame(o, k)
    BY <2>1, <2>2, <2>3 DEF RereadOrSame
  <2> QED  BY <1>2, <1>3, <1>5, <1>7, <2>4
<1>10. CASE ~AccountChanged(w)
  <2>1. << d, f >> = << Clean, 0 >> \/ o.account = << d, f >>
    BY <1>10 DEF AccountChanged, AccountKey
  <2>2. \A c \in Contracts : d[c] # 0 => o.contracts[c] = d[c]
    BY <2>1, <1>2 DEF Clean
  <2>3. again = {} /\ ChangedContracts(w) = {}
    BY <1>8, <2>2
  <2>4. worker[w].cycle.external = o.version
    BY <2>3 DEF MustReload
  <2>5. s = o.contracts
    <3>1. s = [c \in Contracts |-> IF d[c] # 0 THEN d[c] ELSE o.contracts[c]]
      BY DEF SeenContracts
    <3> QED  BY <1>2, <2>2, <3>1
  <2>6. e = o.account
    BY <2>1 DEF SeenAccount, AccountKey
  <2>7. k.volume = o.volume
    BY <1>2, <1>5, <2>3
  <2>8. row = FALSE
    BY <1>10, <2>3
  <2>9. k.facts = o.facts
    BY <1>5, <2>8
  <2>10. RereadOrSame(o, k)
    BY <1>5, <2>4, <2>5, <2>6, <2>7, <2>9 DEF RereadOrSame
  <2> QED  BY <1>2, <1>3, <1>5, <1>7, <2>10
<1> QED  BY <1>9, <1>10

LEMMA LoadedKeepsInv ==
    ASSUME SnapshotInv, NEW w \in Workers, Loads(w), NEW k, k = worker'[w].cache,
           CacheTypes(k), k.ready,
           \A c \in Contracts : worker[w].cycle.dirty[c] # 0 =>
               k.contracts[c] = worker[w].cycle.dirty[c],
           worker[w].cycle.fact # 0 => k.account[2] = worker[w].cycle.fact,
           ~worker'[w].superseded => lease \in {w, None},
           lease = w /\ counters'.superseded = 0 => ~worker'[w].superseded,
           counters' = [trades |-> counters'.trades, incidents |-> counters'.incidents,
                        superseded |-> counters'.superseded],
           counters'.superseded = 0 => counters.superseded = 0,
           counters.superseded = 0 /\ ~worker'[w].superseded => CacheKnows(k),
           recovery.step \in {"bumped", "indexed"} /\ recovery.version <= k.version =>
               k.facts = book.facts
    PROVE  SnapshotInv'
<1>1. /\ StoredTypes'
      /\ UNCHANGED << book, events, version, dirty, factDirty, factVersion,
                      positions, account, recovery >>
      /\ lease' = lease
  BY StoredStays, WorkerFields DEF Loads
<1>2. /\ worker' = [x \in Workers |-> worker'[x]]
      /\ \A x \in Workers \ {w} : worker'[x] = worker[x]
  BY DEF Loads, Moves
<1>3. /\ WorkerShape(worker'[w]) /\ worker'[w].step = "loaded" /\ worker'[w].holds
      /\ worker'[w].superseded \in BOOLEAN /\ worker'[w].cycle = worker[w].cycle
  BY DEF Loads
<1>h. worker'[w].holds \in BOOLEAN
  BY DEF Loads
<1>4. PnlTypes'
  <2>1. ASSUME NEW x \in Workers PROVE WorkerTypes(worker[x])'
    <3> PICK y : y = worker'[x]
      OBVIOUS
    <3>1. CASE x = w
      <4>1. WorkerTypes(y)
        BY <1>3, <1>h, <3>1, WorkerFields DEF WorkerTypes, CycleSteps
      <4> QED  BY <1>1, <4>1, KnowledgeStays
    <3>2. CASE x # w
      <4>1. WorkerTypes(y)
        BY <1>2, <3>2, WorkerFields
      <4> QED  BY <1>1, <4>1, KnowledgeStays
    <3> QED  BY <3>1, <3>2
  <2> QED  BY <1>1, <1>2, <2>1 DEF PnlTypes
<1>5. LeaseInv'
  <2>1. ASSUME NEW x \in Workers PROVE CycleRuns(x, worker[x])'
    <3> PICK y : y = worker'[x]
      OBVIOUS
    <3>1. CASE x = w
      <4>1. CycleRuns(x, y)'
        BY <1>1, <1>3, <3>1 DEF CycleRuns
      <4> QED  BY <4>1
    <3>2. CASE x # w
      <4>1. y = worker[x] /\ CycleRuns(x, y)
        BY <1>2, <3>2, WorkerFields
      <4>2. CycleRuns(x, y)'
        BY <1>1, <4>1 DEF CycleRuns
      <4> QED  BY <4>2
    <3> QED  BY <3>1, <3>2
  <2> QED  BY <2>1 DEF LeaseInv
<1>6. CacheInv'
  <2> SUFFICES ASSUME counters.superseded = 0, NEW x \in Workers,
                      worker'[x].cache.ready, ~worker'[x].superseded
               PROVE  CacheKnows(worker[x].cache)'
    BY DEF CacheInv
  <2> PICK s : s = worker'[x].cache
    OBVIOUS
  <2>1. CacheKnows(s)
    <3>1. CASE x = w
      BY <3>1
    <3>2. CASE x # w
      BY <1>2, <3>2 DEF SnapshotInv, CacheInv
    <3> QED  BY <3>1, <3>2
  <2>2. CacheKnows(s)'
    BY <1>1, <2>1, KnowledgeStays
  <2> QED  BY <2>2
<1>7. RecoveryInv'
  <2> SUFFICES ASSUME recovery.step \in {"bumped", "indexed"}, NEW x \in Workers,
                      worker'[x].cache.ready, recovery.version <= worker'[x].cache.version
               PROVE  worker'[x].cache.facts = book.facts
    BY <1>1 DEF RecoveryInv
  <2>1. CASE x = w
    BY <2>1
  <2>2. CASE x # w
    BY <1>2, <2>2 DEF SnapshotInv, RecoveryInv
  <2> QED  BY <2>1, <2>2
<1>8. ShownInv'
  BY <1>1, KnowledgeStays DEF SnapshotInv, ShownInv
<1> QED  BY <1>4, <1>5, <1>6, <1>7, <1>8 DEF SnapshotInv

LEMMA ReloadsKeepsInv ==
    ASSUME SnapshotInv, NEW w \in Workers, Reloads(w)
    PROVE  SnapshotInv'
<1> PICK k : k = Reloaded(w)
  OBVIOUS
<1>1. /\ CacheTypes(k) /\ k.ready = TRUE
      /\ k.facts = book.facts /\ k.volume = book.volume
      /\ \A c \in Contracts : worker[w].cycle.dirty[c] # 0 =>
            k.contracts[c] = worker[w].cycle.dirty[c]
      /\ worker[w].cycle.fact # 0 => k.account[2] = worker[w].cycle.fact
  BY ReloadedIs
<1>2. /\ Loads(w) /\ worker'[w].superseded = (lease # w) /\ worker'[w].cache = k
      /\ UNCHANGED counters
  BY DEF Reloads
<1>3. CacheKnows(k)
  BY <1>1, WorkerFields DEF CacheKnows, StoredTypes
<1>4. counters' = [trades |-> counters'.trades, incidents |-> counters'.incidents,
                   superseded |-> counters'.superseded]
  BY <1>2, WorkerFields DEF StoredTypes
<1>5. k.ready
  BY <1>1
<1>6. ~worker'[w].superseded <=> lease = w
  BY <1>2
<1> QED  BY <1>1, <1>2, <1>3, <1>4, <1>5, <1>6, LoadedKeepsInv

LEMMA RefreshesKeepsInv ==
    ASSUME SnapshotInv, NEW w \in Workers, Refreshes(w)
    PROVE  SnapshotInv'
<1> PICK k : k = Refreshed(w)
  OBVIOUS
<1> PICK o : o = worker[w].cache
  OBVIOUS
<1>1. /\ CacheTypes(k) /\ k.ready = TRUE /\ o.ready
      /\ \A c \in Contracts : worker[w].cycle.dirty[c] # 0 =>
            k.contracts[c] = worker[w].cycle.dirty[c]
      /\ worker[w].cycle.fact # 0 => k.account[2] = worker[w].cycle.fact
  BY RefreshedIs DEF Refreshes
<1>2. RereadOrSame(o, k)
  BY RefreshedIs DEF Refreshes
<1>3. /\ Loads(w) /\ worker'[w].cache = k
      /\ counters' = [counters EXCEPT !.superseded =
                        IF worker[w].superseded THEN 1 ELSE counters.superseded]
  BY DEF Refreshes
<1>s. worker'[w].superseded <=> worker[w].superseded
  BY DEF Refreshes
<1>4. /\ counters' = [trades |-> counters'.trades, incidents |-> counters'.incidents,
                      superseded |-> counters'.superseded]
      /\ counters'.superseded = IF worker[w].superseded THEN 1 ELSE counters.superseded
  BY <1>3, WorkerFields DEF StoredTypes
<1>5. ASSUME counters.superseded = 0, ~worker[w].superseded PROVE CacheKnows(k)
  <2>1. CacheKnows(o)
    BY <1>1, <1>5 DEF SnapshotInv, CacheInv
  <2>2. CASE /\ k.facts = book.facts
             /\ \A c \in Contracts :
                   \/ k.volume[c] = book.volume[c]
                   \/ k.volume[c] = o.volume[c] /\ k.contracts[c] = o.contracts[c]
    <3>1. \A c \in Contracts :
             k.volume[c] = book.volume[c] \/ Announced(c) \/ NewMark(k, c)
      BY <2>1, <2>2 DEF CacheKnows, NewMark
    <3>2. account # NoSnapshot => account.facts <= k.facts
      BY <2>2, WorkerFields DEF StoredTypes
    <3> QED  BY <2>2, <3>1, <3>2 DEF CacheKnows
  <2>3. CASE /\ k.facts = o.facts /\ k.volume = o.volume /\ k.version = o.version
             /\ k.contracts = o.contracts /\ k.account = o.account
    BY <2>1, <2>3 DEF CacheKnows, NewMark, NewFactMark
  <2> QED  BY <1>2, <2>2, <2>3 DEF RereadOrSame
<1>6. recovery.step \in {"bumped", "indexed"} /\ recovery.version <= k.version =>
          k.facts = book.facts
  BY <1>1, <1>2 DEF SnapshotInv, RecoveryInv, RereadOrSame
<1>7. ~worker[w].superseded => lease \in {w, None}
  BY <1>1, WorkerFields DEF CycleRuns
<1>8. k.ready
  BY <1>1
<1>9. /\ lease = w /\ counters'.superseded = 0 => ~worker'[w].superseded
      /\ counters'.superseded = 0 => counters.superseded = 0
  BY <1>4, <1>s
<1> QED  BY <1>1, <1>3, <1>4, <1>5, <1>6, <1>7, <1>8, <1>9, <1>s, LoadedKeepsInv

\* A mark that is cleared is one the cache has seen, and the account is shown.
LEMMA ClearedWasSeen ==
    ASSUME SnapshotInv, NEW w \in Workers, Shows(w)
    PROVE  /\ dirty' \in [Contracts -> Nat] /\ factDirty' \in BOOLEAN
           /\ \A c \in Contracts :
                 \/ dirty'[c] = dirty[c]
                 \/ /\ dirty'[c] = 0 /\ dirty[c] = worker[w].cache.contracts[c]
                    /\ c \in worker[w].result.done /\ worker[w].result.account # NoSnapshot
           /\ \/ factDirty' = factDirty
              \/ /\ factVersion = worker[w].cache.account[2] /\ factDirty' = FALSE
                 /\ worker[w].result.account # NoSnapshot
<1> PICK s : s = worker[w]
  OBVIOUS
<1> PICK r : r = s.result
  OBVIOUS
<1>1. /\ dirty \in [Contracts -> Nat] /\ factDirty \in BOOLEAN /\ factVersion \in Nat
      /\ s.cache.account[2] \in Nat /\ s.cache.account[2] <= factVersion /\ s.cycle.fact \in Nat
      /\ s.cycle.dirty \in [Contracts -> Nat]
  BY WorkerFields DEF StoredTypes, CacheTypes, CycleTypes
<1>2. /\ s.step = "calculated"
      /\ \A c \in Contracts : s.cycle.dirty[c] # 0 => s.cache.contracts[c] = s.cycle.dirty[c]
      /\ s.cycle.fact # 0 => s.cache.account[2] = s.cycle.fact
      /\ r.account = NoSnapshot => \A c \in Contracts : c \in r.done => s.cycle.dirty[c] = 0
  BY WorkerFields DEF CycleRuns, ResultFits, Shows
<1>3. CASE /\ dirty' = [c \in Contracts |-> IF c \in Cleaned(w) THEN 0 ELSE dirty[c]]
           /\ factDirty' = (factDirty /\ ~( /\ worker[w].cycle.fact = factVersion
                                            /\ worker[w].result.account # NoSnapshot ))
  <2>1. dirty' \in [Contracts -> Nat]
    BY <1>1, <1>3
  <2>2. ASSUME NEW c \in Contracts, dirty'[c] # dirty[c]
        PROVE  /\ dirty'[c] = 0 /\ dirty[c] = s.cache.contracts[c]
               /\ c \in r.done /\ r.account # NoSnapshot
    <3>1. c \in Cleaned(w) /\ dirty'[c] = 0 /\ dirty[c] # 0
      BY <1>3, <2>2
    <3>2. c \in r.done /\ dirty[c] = s.cycle.dirty[c]
      BY <3>1 DEF Cleaned
    <3> QED  BY <1>2, <3>1, <3>2
  <2>3. factDirty' \in BOOLEAN
    BY <1>3
  <2>4. ASSUME factDirty' # factDirty
        PROVE  factVersion = s.cache.account[2] /\ factDirty' = FALSE /\ r.account # NoSnapshot
    <3>1. s.cycle.fact = factVersion /\ r.account # NoSnapshot /\ factDirty' = FALSE
      BY <1>1, <1>3, <2>4
    <3>2. factVersion = s.cache.account[2]
      BY <1>1, <1>2, <3>1
    <3> QED  BY <3>1, <3>2
  <2> QED  BY <2>1, <2>2, <2>3, <2>4
<1>4. CASE UNCHANGED << dirty, factDirty >>
  BY <1>1, <1>4
<1> QED  BY <1>3, <1>4 DEF Shows

LEMMA MarksRemain ==
    ASSUME SnapshotInv, NEW w \in Workers, Shows(w), NEW k, k = worker[w].cache
    PROVE  /\ NewFactMark(k) => NewFactMark(k)'
           /\ \A c \in Contracts : NewMark(k, c) => NewMark(k, c)'
<1>1. factVersion' = factVersion
  BY DEF Shows
<1>2. NewFactMark(k) => NewFactMark(k)'
  BY <1>1, ClearedWasSeen DEF NewFactMark
<1>3. \A c \in Contracts : NewMark(k, c) => NewMark(k, c)'
  BY ClearedWasSeen DEF NewMark
<1> QED  BY <1>2, <1>3

LEMMA ShowsKeepsTypes ==
    ASSUME SnapshotInv, NEW w \in Workers, Shows(w)
    PROVE  PnlTypes'
<1>1. /\ UNCHANGED << book, events, version, factVersion, lease, recovery >>
      /\ counters' = [trades |-> counters'.trades, incidents |-> counters'.incidents,
                      superseded |-> counters.superseded]
      /\ worker[w].step = "calculated"
      /\ account' = IF worker[w].result.account # NoSnapshot
                    THEN worker[w].result.account ELSE account
  BY DEF Shows
<1>2. account' # NoSnapshot => account'.facts \in Nat /\ account'.facts <= book.facts
  <2>1. CASE worker[w].result.account # NoSnapshot
    <3>1. account'.facts = worker[w].cache.facts
      BY <1>1, <2>1, WorkerFields DEF CycleRuns, ResultFits
    <3> QED  BY <3>1, WorkerFields DEF CacheTypes
  <2>2. CASE worker[w].result.account = NoSnapshot
    BY <1>1, <2>2, WorkerFields DEF StoredTypes
  <2> QED  BY <2>1, <2>2
<1>3. positions' = [c \in Contracts |-> positions'[c]]
  BY DEF Shows
<1>4. /\ dirty' \in [Contracts -> Nat] /\ factDirty' \in BOOLEAN
      /\ \A c \in Contracts : dirty'[c] <= version
  <2>1. ASSUME NEW c \in Contracts PROVE dirty'[c] <= version
    <3>1. dirty[c] <= version /\ version \in Nat
      BY WorkerFields DEF StoredTypes
    <3>2. dirty'[c] = dirty[c] \/ dirty'[c] = 0
      BY ClearedWasSeen
    <3> QED  BY <3>1, <3>2
  <2> QED  BY <2>1, ClearedWasSeen
<1>5. counters' = [trades |-> counters'.trades, incidents |-> counters'.incidents,
                   superseded |-> counters'.superseded]
  BY <1>1
<1>6. StoredTypes'
  BY <1>1, <1>2, <1>3, <1>4, <1>5, WorkerFields DEF StoredTypes, BookShape
<1>7. ASSUME NEW x \in Workers PROVE WorkerTypes(worker[x])'
  <2> PICK y : y = worker'[x]
    OBVIOUS
  <2>1. WorkerTypes(y)
    <3>1. CASE x = w
      BY <3>1 DEF Shows
    <3>2. CASE x # w
      BY <3>2, WorkerFields DEF Shows, Moves
    <3> QED  BY <3>1, <3>2
  <2>2. WorkerTypes(y)'
    BY <1>1, <2>1 DEF WorkerTypes, CycleTypes, CacheTypes
  <2> QED  BY <2>2
<1> QED  BY <1>6, <1>7 DEF PnlTypes, Shows, Moves

LEMMA ShowsKeepsLease ==
    ASSUME SnapshotInv, NEW w \in Workers, Shows(w)
    PROVE  LeaseInv'
<1>1. lease' = lease /\ counters'.superseded = counters.superseded
  BY DEF Shows
<1> SUFFICES ASSUME NEW x \in Workers PROVE CycleRuns(x, worker[x])'
  BY DEF LeaseInv
<1> PICK y : y = worker'[x]
  OBVIOUS
<1>2. CycleRuns(x, y)'
  <2>1. CASE x = w
    <3>1. y.step = "idle"
      BY <2>1 DEF Shows
    <3>2. y.cache.ready /\ ~y.superseded => lease \in {w, None}
      BY <2>1, WorkerFields DEF Shows, CycleRuns
    <3> QED  BY <1>1, <2>1, <3>1, <3>2 DEF CycleRuns
  <2>2. CASE x # w
    <3>1. y = worker[x] /\ CycleRuns(x, y)
      BY <2>2, WorkerFields DEF Shows, Moves
    <3> QED  BY <1>1, <3>1 DEF CycleRuns
  <2> QED  BY <2>1, <2>2
<1> QED  BY <1>2

\* The holder of the lease is the only one whose cache is counted on.
LEMMA ShowsFromKnown ==
    ASSUME SnapshotInv, NEW w \in Workers, Shows(w), counters.superseded = 0
    PROVE  /\ CacheKnows(worker[w].cache) /\ worker[w].cache.version = version
           /\ ResultFits(worker[w])
           /\ \A x \in Workers :
                 worker'[x].cache.ready /\ ~worker'[x].superseded =>
                     x = w /\ worker'[x].cache = worker[w].cache
<1>1. worker[w].step = "calculated" /\ lease = w /\ worker[w].cache.version = version
  BY DEF Shows, Fenced
<1>2. worker[w].cache.ready /\ ~worker[w].superseded /\ ResultFits(worker[w])
  BY <1>1, WorkerFields DEF CycleRuns
<1>3. CacheKnows(worker[w].cache)
  BY <1>2 DEF SnapshotInv, CacheInv
<1>4. ASSUME NEW x \in Workers, worker'[x].cache.ready, ~worker'[x].superseded
      PROVE  x = w /\ worker'[x].cache = worker[w].cache
  <2>1. CASE x = w
    BY <1>4, <2>1 DEF Shows
  <2>2. CASE x # w
    <3>1. worker'[x] = worker[x]
      BY <2>2 DEF Shows, Moves
    <3>2. lease \in {x, None}
      BY <1>4, <3>1, WorkerFields DEF CycleRuns
    <3> QED  BY <1>1, <2>2, <3>2, PnlAssumption
  <2> QED  BY <2>1, <2>2
<1> QED  BY <1>1, <1>2, <1>3, <1>4

LEMMA ShowsKeepsCache ==
    ASSUME SnapshotInv, NEW w \in Workers, Shows(w)
    PROVE  CacheInv' /\ RecoveryInv'
<1>1. /\ UNCHANGED << book, events, version, factVersion, lease, recovery >>
      /\ counters'.superseded = counters.superseded
  BY DEF Shows
<1>2. CacheInv'
  <2> SUFFICES ASSUME counters.superseded = 0, NEW x \in Workers,
                      worker'[x].cache.ready, ~worker'[x].superseded
               PROVE  CacheKnows(worker[x].cache)'
    BY <1>1 DEF CacheInv
  <2> PICK k : k = worker[w].cache
    OBVIOUS
  <2>1. k = worker'[x].cache /\ CacheKnows(k) /\ k.version = version
        /\ ResultFits(worker[w])
    BY ShowsFromKnown
  <2>2. account' # NoSnapshot => account'.facts <= k.facts
    <3>1. CASE worker[w].result.account # NoSnapshot
      <4>1. account'.facts = k.facts
        BY <2>1, <3>1 DEF Shows, ResultFits
      <4> QED  BY <4>1, WorkerFields DEF CacheTypes
    <3>2. CASE worker[w].result.account = NoSnapshot
      BY <2>1, <3>2 DEF Shows, CacheKnows
    <3> QED  BY <3>1, <3>2
  <2>3. /\ NewFactMark(k) => NewFactMark(k)'
        /\ \A c \in Contracts : NewMark(k, c) => NewMark(k, c)'
    BY MarksRemain
  <2>4. \A c \in Contracts : Announced(c)' <=> Announced(c)
    BY <1>1 DEF Announced
  <2>5. CacheKnows(k)'
    BY <1>1, <2>1, <2>2, <2>3, <2>4 DEF CacheKnows
  <2> QED  BY <2>1, <2>5
<1>3. RecoveryInv'
  <2>1. ASSUME NEW x \in Workers, worker'[x].cache.ready
        PROVE  worker'[x].cache = worker[x].cache
    BY <2>1 DEF Shows, Moves
  <2> QED  BY <1>1, <2>1 DEF SnapshotInv, RecoveryInv
<1> QED  BY <1>2, <1>3

LEMMA ShowsKeepsShown ==
    ASSUME SnapshotInv, NEW w \in Workers, Shows(w)
    PROVE  ShownInv'
<1>1. /\ UNCHANGED << book, events, version, factVersion, lease, recovery >>
      /\ counters'.superseded = counters.superseded
  BY DEF Shows
<1> SUFFICES ASSUME counters.superseded = 0
             PROVE  AccountInv' /\ PositionInv'
  BY <1>1 DEF ShownInv
<1> PICK k : k = worker[w].cache
  OBVIOUS
<1> PICK r : r = worker[w].result
  OBVIOUS
<1>2. CacheKnows(k) /\ k.version = version /\ ResultFits(worker[w])
  BY ShowsFromKnown
<1>3. AccountInv /\ PositionInv
  BY DEF SnapshotInv, ShownInv
<1>4. /\ NewFactMark(k) => factDirty'
      /\ \A c \in Contracts : NewMark(k, c) => dirty'[c] # 0
  BY MarksRemain DEF NewFactMark, NewMark
<1>5. AccountInv'
  <2>1. CASE r.account # NoSnapshot
    <3>1. account'.facts = k.facts
      BY <1>2, <2>1 DEF Shows, ResultFits
    <3> QED  BY <1>1, <1>2, <1>4, <3>1 DEF CacheKnows, AccountInv
  <2>2. CASE r.account = NoSnapshot
    <3>1. account' = account
      BY <2>2 DEF Shows
    <3>2. factDirty' = factDirty /\ \A c \in Contracts : dirty'[c] = dirty[c]
      BY <2>2, ClearedWasSeen
    <3> QED  BY <1>1, <1>3, <3>1, <3>2 DEF AccountInv
  <2> QED  BY <2>1, <2>2
<1>6. PositionInv'
  <2> SUFFICES ASSUME NEW c \in Contracts, book.volume[c] > 0, positions'[c] # NoSnapshot,
                      ~Announced(c), dirty'[c] = 0
               PROVE  positions'[c].volume = book.volume[c]
    BY <1>1 DEF PositionInv, Announced
  <2>1. k.volume[c] = book.volume[c]
    BY <1>2, <1>4 DEF CacheKnows
  <2>2. book.volume[c] # 0
    BY WorkerFields DEF StoredTypes
  <2>3. positions'[c] = IF c \in DOMAIN r.positions THEN r.positions[c] ELSE positions[c]
    BY DEF Shows
  <2>4. CASE c \in DOMAIN r.positions
    BY <1>2, <2>1, <2>3, <2>4 DEF ResultFits
  <2>5. CASE c \notin DOMAIN r.positions
    <3>1. c \notin r.done
      BY <1>2, <2>1, <2>2, <2>5 DEF ResultFits
    <3>2. dirty[c] = 0
      BY <3>1, ClearedWasSeen
    <3> QED  BY <1>3, <2>3, <2>5, <3>2 DEF PositionInv
  <2> QED  BY <2>4, <2>5
<1> QED  BY <1>5, <1>6

LEMMA ShowsKeepsInv ==
    ASSUME SnapshotInv, NEW w \in Workers, Shows(w)
    PROVE  SnapshotInv'
BY ShowsKeepsTypes, ShowsKeepsLease, ShowsKeepsCache, ShowsKeepsShown DEF SnapshotInv

-----------------------------------------------------------------------------
(* The steps of all others keep the invariant.                             *)

LEMMA WorldKeepsTypes ==
    ASSUME SnapshotInv, UNCHANGED worker, StoredTypes',
           version <= version', factVersion <= factVersion', book.facts <= book.facts',
           lease' \in {lease, None}, counters'.superseded = counters.superseded
    PROVE  PnlTypes' /\ LeaseInv'
<1>1. /\ version \in Nat /\ version' \in Nat /\ factVersion \in Nat /\ factVersion' \in Nat
      /\ book.facts \in Nat /\ book.facts' \in Nat
  BY DEF SnapshotInv, PnlTypes, StoredTypes
<1>2. ASSUME NEW x \in Workers PROVE WorkerTypes(worker[x])'
  <2> PICK y : y = worker[x]
    OBVIOUS
  <2>1. WorkerTypes(y)
    BY WorkerFields
  <2>2. CycleTypes(y.cycle)'
    BY <1>1, <2>1 DEF WorkerTypes, CycleTypes
  <2>3. CacheTypes(y.cache)'
    BY <1>1, <2>1 DEF WorkerTypes, CacheTypes
  <2>4. WorkerTypes(y)'
    BY <2>1, <2>2, <2>3 DEF WorkerTypes
  <2> QED  BY <2>4
<1>3. PnlTypes'
  BY <1>2, WorkerFields DEF SnapshotInv, PnlTypes
<1>4. ASSUME NEW x \in Workers PROVE CycleRuns(x, worker[x])'
  <2> PICK y : y = worker[x]
    OBVIOUS
  <2>1. CycleRuns(x, y) /\ x # None
    BY WorkerFields, PnlAssumption
  <2>2. CycleRuns(x, y)'
    BY <2>1 DEF CycleRuns
  <2> QED  BY <2>2
<1> QED  BY <1>3, <1>4 DEF LeaseInv

\* A cache that is counted on still knows what it has to.
LEMMA WorldKeepsCache ==
    ASSUME SnapshotInv, UNCHANGED worker, counters'.superseded = counters.superseded,
           \A w \in Workers :
               LET s == worker[w].cache IN s.ready /\ CacheKnows(s) => CacheKnows(s)'
    PROVE  CacheInv'
<1> SUFFICES ASSUME counters.superseded = 0, NEW x \in Workers,
                    worker[x].cache.ready, ~worker[x].superseded
             PROVE  CacheKnows(worker[x].cache)'
  BY DEF CacheInv
<1> QED  BY DEF SnapshotInv, CacheInv

\* The facts and marks are as they were, and a recovery that has begun has not ended.
Rests ==
    /\ worker' = worker
    /\ UNCHANGED << events, dirties, positions, account >>
    /\ BookShape(book') /\ book'.volume = book.volume /\ book'.facts = book.facts
    /\ recovery' = [step |-> recovery'.step, version |-> recovery.version,
                    settled |-> recovery.settled]
    /\ recovery.step # "idle" => recovery'.step # "idle"
    /\ recovery'.step \in {"bumped", "indexed"} => recovery.step \in {"bumped", "indexed"}
    /\ lease' \in {lease, None}
    /\ counters' = [trades |-> counters'.trades, incidents |-> counters'.incidents,
                    superseded |-> counters.superseded]

LEMMA RestsKeepsInv ==
    ASSUME SnapshotInv, Rests
    PROVE  SnapshotInv'
<1>1. StoredTypes
  BY DEF SnapshotInv, PnlTypes
<1>2. /\ worker' = worker /\ counters'.superseded = counters.superseded
      /\ lease' \in {lease, None} /\ recovery'.version = recovery.version
      /\ UNCHANGED << events, version, dirty, factDirty, factVersion, positions, account >>
      /\ book'.facts = book.facts /\ book'.volume = book.volume
  BY DEF Rests
<1>3. StoredTypes'
  <2>1. counters' = [trades |-> counters'.trades, incidents |-> counters'.incidents,
                     superseded |-> counters'.superseded]
    BY DEF Rests
  <2>2. recovery' = [step |-> recovery'.step, version |-> recovery'.version,
                     settled |-> recovery'.settled]
    BY DEF Rests
  <2>3. BookShape(book')
    BY DEF Rests
  <2> QED  BY <1>1, <1>2, <2>1, <2>2, <2>3 DEF StoredTypes, BookShape
<1>4. PnlTypes' /\ LeaseInv'
  <2>1. version <= version' /\ factVersion <= factVersion' /\ book.facts <= book.facts'
    BY <1>1, <1>2 DEF StoredTypes
  <2> QED  BY <1>2, <1>3, <2>1, WorldKeepsTypes
<1>5. CacheInv'
  <2>1. ASSUME NEW w \in Workers, NEW s, s = worker[w].cache, CacheKnows(s)
        PROVE  CacheKnows(s)'
    BY <1>2, <2>1 DEF CacheKnows, NewMark, NewFactMark, Announced, Rests
  <2>2. \A w \in Workers :
            LET s == worker[w].cache IN s.ready /\ CacheKnows(s) => CacheKnows(s)'
    BY <1>2, <2>1
  <2> QED  BY <1>2, <2>2, WorldKeepsCache
<1>6. RecoveryInv'
  BY <1>2 DEF SnapshotInv, RecoveryInv, Rests
<1>7. ShownInv'
  BY <1>2 DEF SnapshotInv, ShownInv, AccountInv, PositionInv, Announced, Rests
<1> QED  BY <1>4, <1>5, <1>6, <1>7 DEF SnapshotInv

LEMMA RestsIs ==
    ASSUME SnapshotInv,
           \/ \E c \in Contracts, p \in Prices : Tick(c, p)
           \/ ExpireLease \/ ValueAccount \/ ClearDirty \/ RepeatRecovery
           \/ RebuildIndex \/ FailRecovery
    PROVE  Rests
<1>1. StoredTypes /\ BookShape(book)
  BY DEF SnapshotInv, PnlTypes, StoredTypes
<1>2. /\ recovery = [step |-> recovery.step, version |-> recovery.version,
                     settled |-> recovery.settled]
      /\ counters = [trades |-> counters.trades, incidents |-> counters.incidents,
                     superseded |-> counters.superseded]
  BY <1>1 DEF StoredTypes
<1>c. counters' = counters \/ counters' = [counters EXCEPT !.incidents = @ + 1]
         => counters' = [trades |-> counters'.trades, incidents |-> counters'.incidents,
                         superseded |-> counters.superseded]
  BY <1>1, CountersStay
<1>3. ASSUME NEW c \in Contracts, NEW p \in Prices, Tick(c, p) PROVE Rests
  BY <1>1, <1>2, <1>3 DEF Tick, Rests
<1>4. CASE ExpireLease
  <2>1. counters' = counters \/ counters' = [counters EXCEPT !.incidents = @ + 1]
    BY <1>4 DEF ExpireLease
  <2> QED  BY <1>1, <1>2, <1>c, <1>4, <2>1 DEF ExpireLease, Rests
<1>5. CASE ValueAccount
  <2> PICK v : v = Revalued
    OBVIOUS
  <2> PICK b : b = book
    OBVIOUS
  <2>1. book' = [b EXCEPT !.valued = v] /\ BookShape(b)
    BY <1>1, <1>5 DEF ValueAccount
  <2>2. book' = [volume |-> b.volume, facts |-> b.facts, day |-> b.day, valued |-> v]
    BY <2>1 DEF BookShape
  <2>3. BookShape(book') /\ book'.volume = b.volume /\ book'.facts = b.facts
    BY <2>2 DEF BookShape
  <2>4. counters' = [counters EXCEPT !.incidents = @ + 1]
    BY <1>5 DEF ValueAccount
  <2> QED  BY <1>2, <1>c, <1>5, <2>3, <2>4 DEF ValueAccount, Rests
<1>6. CASE ClearDirty
  BY <1>1, <1>2, <1>6 DEF ClearDirty, Rests
<1>7. CASE RepeatRecovery
  <2>1. recovery' = [step |-> "posted", version |-> recovery.version,
                     settled |-> recovery.settled]
    BY <1>2, <1>7 DEF RepeatRecovery
  <2>2. counters' = [counters EXCEPT !.incidents = @ + 1]
    BY <1>7 DEF RepeatRecovery
  <2> QED  BY <1>1, <1>c, <1>7, <2>1, <2>2 DEF RepeatRecovery, Rests
<1>8. CASE RebuildIndex
  <2>1. recovery' = [step |-> "indexed", version |-> recovery.version,
                     settled |-> recovery.settled]
    BY <1>2, <1>8 DEF RebuildIndex
  <2> QED  BY <1>1, <1>2, <1>8, <2>1 DEF RebuildIndex, Rests
<1>9. CASE FailRecovery
  <2>1. recovery' = [step |-> "failed", version |-> recovery.version,
                     settled |-> recovery.settled]
    BY <1>2, <1>9 DEF FailRecovery
  <2> QED  BY <1>1, <1>2, <1>9, <2>1 DEF FailRecovery, Rests
<1> QED  BY <1>3, <1>4, <1>5, <1>6, <1>7, <1>8, <1>9

\* A transaction or a settlement has changed the facts, and it will tell of it.
Changes ==
    /\ worker' = worker
    /\ UNCHANGED << dirties, positions, account, lease >>
    /\ BookShape(book') /\ book'.facts = book.facts + 1
    /\ book'.volume \in [Contracts -> Nat]
    /\ events \subseteq events'
    /\ \A e \in events' : e.kind \in {"contract", "account"} /\ e.contract \in Contracts
    /\ \A c \in Contracts : book'.volume[c] = book.volume[c] \/ Announced(c)'
    /\ recovery' = [step |-> recovery'.step, version |-> recovery.version,
                    settled |-> recovery'.settled]
    /\ recovery'.step \notin {"bumped", "indexed"}
    /\ events' # {} \/ recovery'.step # "idle"
    /\ recovery.step # "idle" => recovery'.step # "idle"
    /\ counters' = [trades |-> counters'.trades, incidents |-> counters'.incidents,
                    superseded |-> counters.superseded]

LEMMA ChangesKeepsInv ==
    ASSUME SnapshotInv, Changes
    PROVE  SnapshotInv'
<1>1. StoredTypes
  BY DEF SnapshotInv, PnlTypes
<1>2. /\ worker' = worker /\ counters'.superseded = counters.superseded
      /\ lease' = lease /\ recovery'.version = recovery.version
      /\ UNCHANGED << version, dirty, factDirty, factVersion, positions, account >>
      /\ book'.facts = book.facts + 1 /\ book.facts \in Nat
  BY <1>1 DEF Changes, StoredTypes
<1>3. StoredTypes'
  <2>1. counters' = [trades |-> counters'.trades, incidents |-> counters'.incidents,
                     superseded |-> counters'.superseded]
    BY DEF Changes
  <2>2. recovery' = [step |-> recovery'.step, version |-> recovery'.version,
                     settled |-> recovery'.settled]
    BY DEF Changes
  <2>3. /\ BookShape(book') /\ book'.volume \in [Contracts -> Nat]
        /\ \A e \in events' : e.kind \in {"contract", "account"} /\ e.contract \in Contracts
    BY DEF Changes
  <2>4. account' # NoSnapshot => account'.facts \in Nat /\ account'.facts <= book'.facts
    BY <1>1, <1>2 DEF StoredTypes
  <2> QED  BY <1>1, <1>2, <2>1, <2>2, <2>3, <2>4 DEF StoredTypes, BookShape
<1>4. PnlTypes' /\ LeaseInv'
  <2>1. version <= version' /\ factVersion <= factVersion' /\ book.facts <= book.facts'
    BY <1>1, <1>2 DEF StoredTypes
  <2> QED  BY <1>2, <1>3, <2>1, WorldKeepsTypes
<1>5. \A c \in Contracts : Announced(c) => Announced(c)'
  BY DEF Announced, Changes
<1>6. CacheInv'
  <2>1. ASSUME NEW w \in Workers, NEW s, s = worker[w].cache, CacheKnows(s)
        PROVE  CacheKnows(s)'
    <3>1. \A c \in Contracts :
             s.volume[c] = book'.volume[c] \/ Announced(c)' \/ NewMark(s, c)'
      BY <1>2, <1>5, <2>1 DEF CacheKnows, NewMark, Changes
    <3>2. events' # {} \/ recovery'.step # "idle"
      BY DEF Changes
    <3>3. s.version = version' /\ account' # NoSnapshot => account'.facts <= s.facts
      BY <1>2, <2>1 DEF CacheKnows
    <3> QED  BY <3>1, <3>2, <3>3 DEF CacheKnows
  <2>2. \A w \in Workers :
            LET s == worker[w].cache IN s.ready /\ CacheKnows(s) => CacheKnows(s)'
    BY <1>2, <2>1
  <2> QED  BY <1>2, <2>2, WorldKeepsCache
<1>7. RecoveryInv'
  BY DEF RecoveryInv, Changes
<1>8. AccountInv'
  BY DEF AccountInv, Changes
<1>9. PositionInv => PositionInv'
  <2> SUFFICES ASSUME PositionInv, NEW c \in Contracts, book'.volume[c] > 0,
                      positions[c] # NoSnapshot, ~Announced(c)', dirty[c] = 0
               PROVE  positions[c].volume = book'.volume[c]
    BY <1>2 DEF PositionInv
  <2>1. book'.volume[c] = book.volume[c] /\ ~Announced(c)
    BY <1>5 DEF Changes
  <2> QED  BY <2>1 DEF PositionInv
<1> QED  BY <1>2, <1>4, <1>6, <1>7, <1>8, <1>9 DEF SnapshotInv, ShownInv

LEMMA ChangesIs ==
    ASSUME SnapshotInv,
           (\E c \in Contracts : CommitTrade(c) \/ ChangeMoney(c)) \/ SettleDay
    PROVE  Changes
<1>1. StoredTypes /\ BookShape(book) /\ book.volume \in [Contracts -> Nat] /\ book.facts \in Nat
  BY DEF SnapshotInv, PnlTypes, StoredTypes
<1>2. /\ recovery = [step |-> recovery.step, version |-> recovery.version,
                     settled |-> recovery.settled]
      /\ counters = [trades |-> counters.trades, incidents |-> counters.incidents,
                     superseded |-> counters.superseded]
      /\ \A e \in events : e.kind \in {"contract", "account"} /\ e.contract \in Contracts
  BY <1>1 DEF StoredTypes
<1> PICK b : b = book
  OBVIOUS
<1>3. ASSUME NEW c \in Contracts, CommitTrade(c) PROVE Changes
  <2> PICK v \in 0 .. MaxVolume : book' = [book EXCEPT !.volume[c] = v, !.facts = @ + 1]
    BY <1>3 DEF CommitTrade
  <2> PICK n : n = [b.volume EXCEPT ![c] = v]
    OBVIOUS
  <2>1. book' = [volume |-> n, facts |-> b.facts + 1, day |-> b.day, valued |-> b.valued]
    BY <1>1 DEF BookShape
  <2>2. BookShape(book') /\ book'.volume = n /\ book'.facts = b.facts + 1
    BY <2>1 DEF BookShape
  <2>3. n \in [Contracts -> Nat] /\ \A d \in Contracts \ {c} : n[d] = b.volume[d]
    BY <1>1
  <2> PICK e : e = Event("contract", c)
    OBVIOUS
  <2>4. events' = events \cup {e} /\ e.kind = "contract" /\ e.contract = c
    BY <1>3 DEF CommitTrade, Event
  <2>5. Announced(c)'
    BY <2>4 DEF Announced
  <2>6. \A d \in events' : d.kind \in {"contract", "account"} /\ d.contract \in Contracts
    BY <1>2, <2>4
  <2>7. recovery' = recovery /\ recovery.step \in {"idle", "failed"}
    BY <1>3 DEF CommitTrade, GateIsOpen
  <2>8. counters' = [trades |-> counters'.trades, incidents |-> counters'.incidents,
                     superseded |-> counters.superseded]
    BY <1>2, <1>3 DEF CommitTrade
  <2> QED  BY <1>2, <1>3, <2>2, <2>3, <2>4, <2>5, <2>6, <2>7, <2>8 DEF CommitTrade, Changes
<1>4. ASSUME NEW c \in Contracts, ChangeMoney(c) PROVE Changes
  <2>1. book' = [volume |-> b.volume, facts |-> b.facts + 1, day |-> b.day,
                 valued |-> b.valued]
    BY <1>1, <1>4 DEF ChangeMoney, BookShape
  <2>2. BookShape(book') /\ book'.volume = b.volume /\ book'.facts = b.facts + 1
    BY <2>1 DEF BookShape
  <2> PICK e : e = Event("account", c)
    OBVIOUS
  <2>4. events' = events \cup {e} /\ e.kind = "account" /\ e.contract = c
    BY <1>4 DEF ChangeMoney, Event
  <2>6. \A d \in events' : d.kind \in {"contract", "account"} /\ d.contract \in Contracts
    BY <1>2, <2>4
  <2>7. recovery' = recovery /\ recovery.step \in {"idle", "failed"}
    BY <1>4 DEF ChangeMoney, GateIsOpen
  <2>8. counters' = [trades |-> counters'.trades, incidents |-> counters'.incidents,
                     superseded |-> counters.superseded]
    BY <1>2, <1>4 DEF ChangeMoney
  <2> QED  BY <1>1, <1>2, <1>4, <2>2, <2>4, <2>6, <2>7, <2>8 DEF ChangeMoney, Changes
<1>5. CASE SettleDay
  <2>1. book' = [volume |-> b.volume, facts |-> b.facts + 1, day |-> b.day + 1,
                 valued |-> Clean]
    BY <1>1, <1>5 DEF SettleDay, BookShape
  <2>2. BookShape(book') /\ book'.volume = b.volume /\ book'.facts = b.facts + 1
    BY <2>1 DEF BookShape
  <2> PICK open : open = {c \in Contracts : book.volume[c] > 0}
    OBVIOUS
  <2>3. recovery' = [step |-> "posted", version |-> recovery.version, settled |-> open]
    BY <1>2, <1>5 DEF SettleDay
  <2>4. counters' = [trades |-> counters'.trades, incidents |-> counters'.incidents,
                     superseded |-> counters.superseded]
    BY <1>2, <1>5 DEF SettleDay
  <2> QED  BY <1>1, <1>2, <1>5, <2>2, <2>3, <2>4 DEF SettleDay, Changes
<1> QED  BY <1>3, <1>4, <1>5

LEMMA MarkDirtyKeepsInv ==
    ASSUME SnapshotInv, NEW e \in events, MarkDirty(e)
    PROVE  SnapshotInv'
<1>1. StoredTypes
  BY DEF SnapshotInv, PnlTypes
<1>2. /\ UNCHANGED << worker, book, lease, positions, account, recovery, counters >>
      /\ events' = events \ {e} /\ e.contract \in Contracts
  BY <1>1 DEF MarkDirty, StoredTypes
<1>3. \/ /\ e.kind = "contract" /\ version' = version + 1
         /\ dirty' = [dirty EXCEPT ![e.contract] = version + 1]
         /\ UNCHANGED << factDirty, factVersion >>
      \/ /\ e.kind = "account" /\ factDirty' = TRUE /\ factVersion' = factVersion + 1
         /\ UNCHANGED << version, dirty >>
  BY DEF MarkDirty, MarkContract, MarkAccountFact
<1>4. /\ version \in Nat /\ factVersion \in Nat /\ version' \in {version, version + 1}
      /\ factVersion' \in {factVersion, factVersion + 1}
      /\ dirty \in [Contracts -> Nat] /\ \A c \in Contracts : dirty[c] <= version
  BY <1>1, <1>3 DEF StoredTypes
<1>5. /\ dirty' \in [Contracts -> Nat] /\ factDirty' \in BOOLEAN
      /\ \A c \in Contracts : dirty'[c] = dirty[c] \/ dirty'[c] = version'
      /\ \A c \in Contracts : dirty'[c] <= version'
  <2>1. CASE e.kind = "contract"
    <3>1. version' = version + 1 /\ dirty' = [dirty EXCEPT ![e.contract] = version + 1]
          /\ factDirty' = factDirty
      BY <1>3, <2>1
    <3> QED  BY <1>1, <1>4, <3>1 DEF StoredTypes
  <2>2. CASE e.kind # "contract"
    BY <1>1, <1>3, <1>4, <2>2 DEF StoredTypes
  <2> QED  BY <2>1, <2>2
<1>6. StoredTypes'
  <2>1. /\ version' \in Nat /\ factVersion' \in Nat /\ recovery.version <= version'
    BY <1>1, <1>4 DEF StoredTypes
  <2> QED  BY <1>1, <1>2, <1>5, <2>1 DEF StoredTypes
<1>7. PnlTypes' /\ LeaseInv'
  <2>1. version <= version' /\ factVersion <= factVersion' /\ book.facts <= book.facts'
    BY <1>1, <1>2, <1>4 DEF StoredTypes
  <2> QED  BY <1>2, <1>6, <2>1, WorldKeepsTypes
<1>8. ASSUME NEW c \in Contracts, Announced(c)
      PROVE  \/ Announced(c)'
             \/ c = e.contract /\ dirty'[c] = version + 1
  <2> PICK f \in events : f.kind = "contract" /\ f.contract = c
    BY <1>8 DEF Announced
  <2>1. CASE f = e
    <3>1. e.kind = "contract" /\ e.contract = c
      BY <2>1
    <3>2. dirty' = [dirty EXCEPT ![c] = version + 1]
      BY <1>3, <3>1
    <3> QED  BY <1>4, <3>1, <3>2
  <2>2. CASE f # e
    BY <1>2, <2>2 DEF Announced
  <2> QED  BY <2>1, <2>2
<1>9. \A c \in Contracts : dirty'[c] = dirty[c] \/ dirty'[c] = version + 1
  BY <1>3, <1>4
<1>10. ASSUME NEW s, CacheTypes(s), CacheKnows(s)
       PROVE  CacheKnows(s)'
  <2>1. /\ s.contracts \in [Contracts -> Nat] /\ s.account[2] \in Nat
        /\ \A c \in Contracts : s.contracts[c] <= version
        /\ s.account[2] <= factVersion /\ s.version \in Nat /\ s.version <= version
    BY <1>10 DEF CacheTypes
  <2>2. \A c \in Contracts : dirty'[c] = version + 1 => NewMark(s, c)'
    BY <1>4, <2>1 DEF NewMark
  <2>3. \A c \in Contracts : NewMark(s, c) => NewMark(s, c)'
    BY <1>9, <2>2 DEF NewMark
  <2>4. NewFactMark(s)' \/ \E c \in Contracts : NewMark(s, c)'
    <3>1. CASE e.kind = "contract"
      <4>1. dirty'[e.contract] = version + 1
        BY <1>2, <1>3, <1>4, <3>1
      <4> QED  BY <1>2, <2>2, <4>1
    <3>2. CASE e.kind = "account"
      <4>1. factDirty' /\ factVersion' = factVersion + 1
        BY <1>3, <3>2
      <4> QED  BY <1>4, <2>1, <4>1 DEF NewFactMark
    <3> QED  BY <1>3, <3>1, <3>2
  <2>5. ASSUME NEW c \in Contracts
        PROVE  s.volume[c] = book'.volume[c] \/ Announced(c)' \/ NewMark(s, c)'
    BY <1>2, <1>8, <1>10, <2>2, <2>3 DEF CacheKnows
  <2>6. s.version = version' /\ account' # NoSnapshot => account'.facts <= s.facts
    BY <1>2, <1>4, <1>10, <2>1 DEF CacheKnows
  <2> QED  BY <2>4, <2>5, <2>6 DEF CacheKnows
<1>11. CacheInv'
  <2>1. \A w \in Workers :
            LET s == worker[w].cache IN s.ready /\ CacheKnows(s) => CacheKnows(s)'
    <3>1. ASSUME NEW w \in Workers, NEW s, s = worker[w].cache, CacheKnows(s)
          PROVE  CacheKnows(s)'
      BY <1>10, <3>1, WorkerFields
    <3> QED  BY <1>2, <3>1
  <2> QED  BY <1>2, <2>1, WorldKeepsCache
<1>12. RecoveryInv'
  BY <1>2 DEF SnapshotInv, RecoveryInv
<1>13. AccountInv'
  <2>1. factDirty' \/ \E c \in Contracts : dirty'[c] # 0
    <3>1. CASE e.kind = "contract"
      <4>1. dirty'[e.contract] = version + 1
        BY <1>2, <1>3, <1>4, <3>1
      <4> QED  BY <1>2, <1>4, <4>1
    <3>2. CASE e.kind = "account"
      BY <1>3, <3>2
    <3> QED  BY <1>3, <3>1, <3>2
  <2> QED  BY <2>1 DEF AccountInv
<1>14. PositionInv => PositionInv'
  <2> SUFFICES ASSUME PositionInv, NEW c \in Contracts, book.volume[c] > 0,
                      positions[c] # NoSnapshot, ~Announced(c)', dirty'[c] = 0
               PROVE  positions[c].volume = book.volume[c]
    BY <1>2 DEF PositionInv
  <2>1. dirty'[c] # version + 1
    BY <1>4
  <2>2. ~Announced(c) /\ dirty[c] = 0
    BY <1>8, <1>9, <2>1
  <2> QED  BY <2>2 DEF PositionInv
<1> QED  BY <1>2, <1>7, <1>11, <1>12, <1>13, <1>14 DEF SnapshotInv, ShownInv

LEMMA DeleteKeepsInv ==
    ASSUME SnapshotInv, DeleteSnapshots
    PROVE  SnapshotInv'
<1>1. StoredTypes
  BY DEF SnapshotInv, PnlTypes
<1>2. /\ UNCHANGED << worker, book, events, version, dirty, factDirty, factVersion, lease,
                      counters >>
      /\ account' = NoSnapshot
      /\ positions' = [c \in Contracts |-> IF c \in recovery.settled THEN NoSnapshot
                                           ELSE positions[c]]
  BY DEF DeleteSnapshots
<1>3. recovery' = [step |-> "deleted", version |-> recovery.version,
                   settled |-> recovery.settled]
  <2>1. recovery = [step |-> recovery.step, version |-> recovery.version,
                    settled |-> recovery.settled]
    BY <1>1 DEF StoredTypes
  <2> QED  BY <2>1 DEF DeleteSnapshots
<1>4. recovery'.step = "deleted" /\ recovery'.version = recovery.version
      /\ recovery' = [step |-> recovery'.step, version |-> recovery'.version,
                      settled |-> recovery'.settled]
  BY <1>3
<1>5. StoredTypes'
  <2>1. positions' = [c \in Contracts |-> positions'[c]]
    BY <1>2
  <2> QED  BY <1>1, <1>2, <1>4, <2>1 DEF StoredTypes
<1>6. PnlTypes' /\ LeaseInv'
  <2>1. version <= version' /\ factVersion <= factVersion' /\ book.facts <= book.facts'
    BY <1>1, <1>2 DEF StoredTypes
  <2> QED  BY <1>2, <1>5, <2>1, WorldKeepsTypes
<1>7. CacheInv'
  <2>1. ASSUME NEW w \in Workers, NEW s, s = worker[w].cache, CacheKnows(s)
        PROVE  CacheKnows(s)'
    BY <1>2, <1>4, <2>1 DEF CacheKnows, NewMark, NewFactMark, Announced
  <2>2. \A w \in Workers :
            LET s == worker[w].cache IN s.ready /\ CacheKnows(s) => CacheKnows(s)'
    BY <1>2, <2>1
  <2> QED  BY <1>2, <2>2, WorldKeepsCache
<1>8. RecoveryInv'
  BY <1>4 DEF RecoveryInv
<1>9. AccountInv'
  BY <1>2 DEF AccountInv
<1>10. PositionInv => PositionInv'
  BY <1>2 DEF PositionInv, Announced
<1> QED  BY <1>2, <1>6, <1>7, <1>8, <1>9, <1>10 DEF SnapshotInv, ShownInv

LEMMA BumpKeepsInv ==
    ASSUME SnapshotInv, BumpVersion
    PROVE  SnapshotInv'
<1>1. StoredTypes
  BY DEF SnapshotInv, PnlTypes
<1>2. /\ UNCHANGED << worker, book, events, dirty, factDirty, factVersion, lease,
                      positions, account, counters >>
      /\ version' = version + 1 /\ version \in Nat
  BY <1>1 DEF BumpVersion, StoredTypes
<1> PICK n \in Nat : n = version + 1
  BY <1>2
<1>3. recovery' = [step |-> "bumped", version |-> n, settled |-> recovery.settled]
  <2>1. recovery = [step |-> recovery.step, version |-> recovery.version,
                    settled |-> recovery.settled]
    BY <1>1 DEF StoredTypes
  <2> QED  BY <2>1 DEF BumpVersion
<1>4. recovery'.step = "bumped" /\ recovery'.version = n
      /\ recovery' = [step |-> recovery'.step, version |-> recovery'.version,
                      settled |-> recovery'.settled]
  BY <1>3
<1>5. StoredTypes'
  <2>1. dirty \in [Contracts -> Nat] /\ \A c \in Contracts : dirty[c] <= n
    BY <1>1, <1>2 DEF StoredTypes
  <2> QED  BY <1>1, <1>2, <1>4, <2>1 DEF StoredTypes
<1>6. PnlTypes' /\ LeaseInv'
  <2>1. version <= version' /\ factVersion <= factVersion' /\ book.facts <= book.facts'
    BY <1>1, <1>2 DEF StoredTypes
  <2> QED  BY <1>2, <1>5, <2>1, WorldKeepsTypes
<1>7. \A w \in Workers : worker[w].cache.version \in Nat /\ worker[w].cache.version <= version
  BY WorkerFields DEF CacheTypes
<1>8. CacheInv'
  <2>1. ASSUME NEW w \in Workers, NEW s, s = worker[w].cache, CacheKnows(s)
        PROVE  CacheKnows(s)'
    <3>1. s.version # version'
      BY <1>2, <1>7, <2>1
    <3>2. \A c \in Contracts : NewMark(s, c)' <=> NewMark(s, c)
      BY <1>2 DEF NewMark
    <3> QED  BY <1>2, <1>4, <2>1, <3>1, <3>2 DEF CacheKnows, Announced
  <2>2. \A w \in Workers :
            LET s == worker[w].cache IN s.ready /\ CacheKnows(s) => CacheKnows(s)'
    BY <1>2, <2>1
  <2> QED  BY <1>2, <2>2, WorldKeepsCache
<1>9. RecoveryInv'
  BY <1>2, <1>4, <1>7 DEF RecoveryInv
<1>10. AccountInv'
  BY <1>4 DEF AccountInv
<1>11. PositionInv => PositionInv'
  BY <1>2 DEF PositionInv, Announced
<1> QED  BY <1>2, <1>6, <1>8, <1>9, <1>10, <1>11 DEF SnapshotInv, ShownInv

LEMMA BaselinesKeepInv ==
    ASSUME SnapshotInv, WriteBaselines
    PROVE  SnapshotInv'
<1>1. StoredTypes
  BY DEF SnapshotInv, PnlTypes
<1>2. /\ UNCHANGED << worker, book, events, version, dirty, factDirty, factVersion, lease,
                      counters >>
      /\ recovery.step = "indexed" /\ version = recovery.version /\ version \in Nat
      /\ account' = [facts |-> book.facts, value |-> BaselineTotal]
      /\ positions' = [c \in Contracts |->
                          IF c \in OpenInBook THEN Snap(book.volume[c], book.valued[c])
                                              ELSE positions[c]]
  BY <1>1 DEF WriteBaselines, StoredTypes
<1>3. recovery' = [step |-> "idle", version |-> recovery.version,
                   settled |-> recovery.settled]
  <2>1. recovery = [step |-> recovery.step, version |-> recovery.version,
                    settled |-> recovery.settled]
    BY <1>1 DEF StoredTypes
  <2> QED  BY <2>1 DEF WriteBaselines
<1>4. recovery'.step = "idle" /\ recovery'.version = recovery.version
      /\ recovery' = [step |-> recovery'.step, version |-> recovery'.version,
                      settled |-> recovery'.settled]
  BY <1>3
<1>5. account'.facts = book.facts /\ book.facts \in Nat
  BY <1>1, <1>2 DEF StoredTypes
<1>6. StoredTypes'
  <2>1. positions' = [c \in Contracts |-> positions'[c]]
    BY <1>2
  <2>2. account'.facts <= book.facts
    BY <1>5
  <2> QED  BY <1>1, <1>2, <1>4, <1>5, <2>1, <2>2 DEF StoredTypes
<1>7. PnlTypes' /\ LeaseInv'
  <2>1. version <= version' /\ factVersion <= factVersion' /\ book.facts <= book.facts'
    BY <1>1, <1>2 DEF StoredTypes
  <2> QED  BY <1>2, <1>6, <2>1, WorldKeepsTypes
<1>8. \A w \in Workers :
         LET s == worker[w].cache IN s.ready /\ s.version = version => s.facts = book.facts
  BY <1>2 DEF SnapshotInv, RecoveryInv
<1>9. CacheInv'
  <2>1. ASSUME NEW w \in Workers, NEW s, s = worker[w].cache, s.ready, CacheKnows(s)
        PROVE  CacheKnows(s)'
    <3>1. s.version = version => s.facts = book.facts
      BY <1>8, <2>1
    <3>2. \A c \in Contracts : NewMark(s, c)' <=> NewMark(s, c)
      BY <1>2 DEF NewMark
    <3>3. s.version = version => account'.facts <= s.facts
      BY <1>5, <3>1
    <3> QED  BY <1>2, <2>1, <3>1, <3>2, <3>3 DEF CacheKnows, Announced
  <2>2. \A w \in Workers :
            LET s == worker[w].cache IN s.ready /\ CacheKnows(s) => CacheKnows(s)'
    BY <1>2, <2>1
  <2> QED  BY <1>2, <2>2, WorldKeepsCache
<1>10. RecoveryInv'
  BY <1>4 DEF RecoveryInv
<1>11. AccountInv'
  BY <1>2, <1>5 DEF AccountInv
<1>12. PositionInv'
  <2> SUFFICES ASSUME NEW c \in Contracts, book.volume[c] > 0
               PROVE  positions'[c].volume = book.volume[c]
    BY <1>2 DEF PositionInv
  <2>1. c \in OpenInBook
    BY DEF OpenInBook
  <2> QED  BY <1>2, <2>1 DEF Snap
<1> QED  BY <1>2, <1>7, <1>9, <1>10, <1>11, <1>12 DEF SnapshotInv, ShownInv

-----------------------------------------------------------------------------
(* Every behaviour.                                                        *)

LEMMA SnapshotStart ==
    ASSUME PnlInit
    PROVE  SnapshotInv
<1>1. /\ book = [volume |-> Clean, facts |-> 0, day |-> 0, valued |-> Clean]
      /\ events = {} /\ version = 0 /\ dirty = Clean /\ factDirty = FALSE /\ factVersion = 0
      /\ lease = None /\ account = NoSnapshot
      /\ positions = [c \in Contracts |-> NoSnapshot]
      /\ recovery = [step |-> "idle", version |-> 0, settled |-> {}]
      /\ worker = [w \in Workers |-> NewWorker]
      /\ counters = [trades |-> 0, incidents |-> 0, superseded |-> 0]
  BY DEF PnlInit
<1>2. Clean \in [Contracts -> Nat] /\ \A c \in Contracts : Clean[c] = 0
  BY DEF Clean
<1>3. StoredTypes
  <2> PICK k : k = Clean
    OBVIOUS
  <2>1. book = [volume |-> k, facts |-> 0, day |-> 0, valued |-> k]
    BY <1>1
  <2>2. BookShape(book) /\ book.volume = k /\ book.facts = 0
    BY <2>1 DEF BookShape
  <2>3. positions = [c \in Contracts |-> positions[c]]
    BY <1>1
  <2>4. /\ recovery.version = 0
        /\ recovery = [step |-> recovery.step, version |-> recovery.version,
                       settled |-> recovery.settled]
        /\ counters = [trades |-> counters.trades, incidents |-> counters.incidents,
                       superseded |-> counters.superseded]
    BY <1>1
  <2>5. /\ dirty \in [Contracts -> Nat] /\ \A c \in Contracts : dirty[c] <= version
        /\ book.volume \in [Contracts -> Nat] /\ book.facts \in Nat
    BY <1>1, <1>2, <2>2
  <2>6. /\ version \in Nat /\ factVersion \in Nat
        /\ recovery.version \in Nat /\ recovery.version <= version
    BY <1>1, <2>4
  <2>7. /\ \A e \in events : e.kind \in {"contract", "account"} /\ e.contract \in Contracts
        /\ account = NoSnapshot
    BY <1>1
  <2>8. factDirty \in BOOLEAN
    BY <1>1
  <2> QED  BY <2>2, <2>3, <2>4, <2>5, <2>6, <2>7, <2>8 DEF StoredTypes
<1>4. /\ WorkerTypes(NewWorker) /\ NewWorker.cache.ready = FALSE /\ NewWorker.step = "idle"
  <2>1. /\ WorkerShape(NewWorker) /\ NewWorker.cycle = NoCycle /\ NewWorker.cache = NoCache
        /\ NewWorker.step = "idle" /\ NewWorker.holds = FALSE /\ NewWorker.superseded = FALSE
    BY DEF WorkerShape, NewWorker
  <2> QED  BY <1>3, <2>1, EmptyCycle, EmptyCache DEF WorkerTypes, CycleSteps
<1>5. PnlTypes
  BY <1>1, <1>3, <1>4 DEF PnlTypes
<1>6. LeaseInv /\ CacheInv /\ RecoveryInv
  BY <1>1, <1>4 DEF LeaseInv, CycleRuns, CacheInv, RecoveryInv
<1>7. ShownInv
  BY <1>1, <1>2 DEF ShownInv, AccountInv, PositionInv
<1> QED  BY <1>5, <1>6, <1>7 DEF SnapshotInv

\* A step of a worker is one of these.
LEMMA WorkerStepIs ==
    ASSUME SnapshotInv, NEW w \in Workers, Worker(w) \/ WorkerDies(w)
    PROVE  Works(w) \/ Acquires(w) \/ Reloads(w) \/ Refreshes(w) \/ Shows(w)
<1>1. CASE Acquire(w)
  BY <1>1, AcquiresLease
<1>2. CASE LoseLease(w)
  BY <1>2, LosesLease
<1>3. CASE \E force \in BOOLEAN : BeginFlush(w, force)
  BY <1>3, BeginsFlush
<1>4. CASE LoadVersion(w)
  BY <1>4, LoadsVersion
<1>5. CASE LoadFacts(w)
  BY <1>5, LoadsFacts
<1>6. CASE EndEarly(w)
  BY <1>6, EndsEarly
<1>7. CASE GiveUp(w)
  BY <1>7, GivesUp
<1>8. CASE Calculate(w)
  BY <1>8, Calculates
<1>9. CASE Write(w)
  BY <1>9, WritesOrWorks
<1>10. CASE RejectWrite(w)
  BY <1>10, IsRejected
<1>11. CASE WorkerDies(w)
  BY <1>11, Dies
<1> QED  BY <1>1, <1>2, <1>3, <1>4, <1>5, <1>6, <1>7, <1>8, <1>9, <1>10, <1>11
         DEF Worker, Flush

LEMMA PnlStepIs ==
    ASSUME SnapshotInv, [PnlNext]_pnlVars
    PROVE  \/ \E w \in Workers :
                 Works(w) \/ Acquires(w) \/ Reloads(w) \/ Refreshes(w) \/ Shows(w)
           \/ Rests \/ Changes \/ \E e \in events : MarkDirty(e)
           \/ DeleteSnapshots \/ BumpVersion \/ WriteBaselines
<1>1. CASE PnlNext
  <2>1. CASE \E c \in Contracts : CommitTrade(c) \/ ChangeMoney(c)
    BY <2>1, ChangesIs
  <2>2. CASE \E e \in events : MarkDirty(e)
    BY <2>2
  <2>3. CASE \E c \in Contracts, p \in Prices : Tick(c, p)
    BY <2>3, RestsIs
  <2>4. CASE \E w \in Workers : Worker(w) \/ WorkerDies(w)
    BY <2>4, WorkerStepIs
  <2>5. CASE ExpireLease \/ Persist \/ RepeatRecovery
    BY <2>5, RestsIs DEF Persist
  <2>6. CASE SettleDay
    BY <2>6, ChangesIs
  <2>7. CASE Recover
    BY <2>7, RestsIs DEF Recover
  <2> QED  BY <1>1, <2>1, <2>2, <2>3, <2>4, <2>5, <2>6, <2>7 DEF PnlNext
<1>2. CASE UNCHANGED pnlVars
  <2>1. /\ UNCHANGED << book, recovery, counters, worker, lease, events, version, dirty,
                        factDirty, factVersion, positions, account >>
    BY <1>2 DEF pnlVars
  <2>2. StoredTypes
    BY DEF SnapshotInv, PnlTypes
  <2> QED  BY <2>1, <2>2 DEF Rests, StoredTypes
<1> QED  BY <1>1, <1>2

LEMMA SnapshotStep ==
    ASSUME SnapshotInv, [PnlNext]_pnlVars
    PROVE  SnapshotInv'
BY PnlStepIs, WorksKeepsInv, AcquiresKeepsInv, ReloadsKeepsInv, RefreshesKeepsInv,
   ShowsKeepsInv, RestsKeepsInv, ChangesKeepsInv, MarkDirtyKeepsInv, DeleteKeepsInv,
   BumpKeepsInv, BaselinesKeepInv

LEMMA SnapshotHolds == PnlSpec => []SnapshotInv
<1>1. PnlInit => SnapshotInv
  BY SnapshotStart
<1>2. SnapshotInv /\ [PnlNext]_pnlVars => SnapshotInv'
  BY SnapshotStep
<1> QED  BY <1>1, <1>2, PTL DEF PnlSpec

\* What the stored facts, the marks and the workers' records are: no cache, no listed mark
\* and no account that is shown is ahead of what is stored, and only the holder of a
\* lease runs a cycle.
THEOREM PnlTypesHold == PnlSpec => []PnlTypes
<1>1. SnapshotInv => PnlTypes
  BY DEF SnapshotInv
<1> QED  BY <1>1, SnapshotHolds, PTL

\* No dirty mark is cleared that still has something to tell, for any number of workers,
\* contracts, transactions, expired leases, crashes and settlements: once every event
\* has been marked and every mark worked off, the account is shown with the latest
\* committed facts and the positions with their volumes (CleanMeansCurrent).
THEOREM CleanMarksMeanCurrentFacts == PnlSpec => []CleanMeansCurrent
<1>1. SnapshotInv => CleanMeansCurrent
  <2> SUFFICES ASSUME SnapshotInv, Quiet, counters.superseded = 0
               PROVE  /\ account # NoSnapshot => account.facts = book.facts
                      /\ \A c \in OpenInBook : positions[c] # NoSnapshot =>
                            positions[c].volume = book.volume[c]
    BY DEF CleanMeansCurrent
  <2>1. AccountInv /\ PositionInv
    BY DEF SnapshotInv, ShownInv
  <2>2. events = {} /\ ~factDirty /\ recovery.step = "idle"
        /\ \A c \in Contracts : dirty[c] = 0
    BY DEF Quiet, Clean
  <2>3. account # NoSnapshot => account.facts = book.facts
    BY <2>1, <2>2 DEF AccountInv
  <2>4. \A c \in OpenInBook : positions[c] # NoSnapshot =>
            positions[c].volume = book.volume[c]
    BY <2>1, <2>2 DEF PositionInv, Announced, OpenInBook
  <2> QED  BY <2>3, <2>4
<1> QED  BY <1>1, SnapshotHolds, PTL

\* Facts that are shown are replaced by facts as new or newer, whoever writes them: a
\* cycle of a worker, whatever it read before others wrote, or a settlement's recovery.
THEOREM ShownFactsGoForward == PnlSpec => NeverOlderFacts
<1>1. ASSUME SnapshotInv, [PnlNext]_pnlVars, account # NoSnapshot, account' # NoSnapshot,
             counters'.superseded = 0
      PROVE  account'.facts >= account.facts
  <2>1. account.facts \in Nat /\ account.facts <= book.facts /\ book.facts \in Nat
    BY <1>1 DEF SnapshotInv, PnlTypes, StoredTypes
  <2>2. CASE account' = account
    BY <2>1, <2>2
  <2>3. CASE \E w \in Workers : Shows(w)
    <3> PICK w \in Workers : Shows(w)
      BY <2>3
    <3>1. counters.superseded = 0
      BY <1>1 DEF Shows
    <3>2. CacheKnows(worker[w].cache) /\ worker[w].cache.version = version
          /\ ResultFits(worker[w])
      BY <1>1, <3>1, ShowsFromKnown
    <3>3. account' = account \/ account'.facts = worker[w].cache.facts
      BY <3>2 DEF Shows, ResultFits
    <3>4. account.facts <= worker[w].cache.facts
      BY <1>1, <3>2 DEF CacheKnows
    <3>5. worker[w].cache.facts \in Nat
      BY <1>1, WorkerFields DEF CacheTypes
    <3> QED  BY <2>1, <3>3, <3>4, <3>5
  <2>4. CASE WriteBaselines
    <3>1. account'.facts = book.facts
      BY <2>4 DEF WriteBaselines
    <3> QED  BY <2>1, <3>1
  <2>5. CASE DeleteSnapshots
    BY <1>1, <2>5 DEF DeleteSnapshots
  <2>6. ASSUME ~ \E w \in Workers : Shows(w), ~WriteBaselines, ~DeleteSnapshots
        PROVE  account' = account
    BY <1>1, <2>6, PnlStepIs DEF Works, Acquires, Reloads, Refreshes, Loads, Core, Rests, Changes,
                            MarkDirty, BumpVersion
  <2> QED  BY <2>2, <2>3, <2>4, <2>5, <2>6
<1>2. SnapshotInv /\ [PnlNext]_pnlVars
        => (account # NoSnapshot /\ account' # NoSnapshot /\ counters'.superseded = 0
              => account'.facts >= account.facts)
  BY <1>1
<1> QED  BY <1>2, SnapshotHolds, PTL DEF PnlSpec, NeverOlderFacts

=============================================================================
