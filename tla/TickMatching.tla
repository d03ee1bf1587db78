----------------------------- MODULE TickMatching -----------------------------
(***************************************************************************)
(* The matching process of one market: a thread consumes the stream of     *)
(* ticks and offers each tick to the orders it finds in the index of       *)
(* active orders, and another consumes the order events and offers a new   *)
(* order to the latest cached tick, or executes a market order against the *)
(* quote it was priced with.  Both settle through the same transaction.    *)
(* A message is acknowledged when every order has had a definite answer;   *)
(* otherwise it stays pending and is taken again, until it is a dead       *)
(* letter.                                                                 *)
(*                                                                         *)
(* Three queues meet here and nothing orders them: the tick stream, the    *)
(* order events as the index consumer reads them (ActiveOrderIndex) and    *)
(* the same events as the arrival thread reads them.                       *)
(*                                                                         *)
(* Abstracted: the orders all buy one contract, at a price of one limit or *)
(* as market orders; a quote offers Quoted lots; a batch is handled message by message *)
(* (a pending one or the next new one); the accounting of a fill, which    *)
(* OrderLedger has; malformed messages and bodies that the stream trimmed, *)
(* which are acknowledged without matching.                                *)
(***************************************************************************)
EXTENDS Naturals, Sequences, FiniteSets, FiniteSetsExt, Functions

CONSTANTS
    Limit,         \* the limit price of the limit orders
    Lots,          \* volume of an order
    Quoted,        \* volume of a quote
    Prices,
    MaxRetries,    \* market_matching_max_retries, order_event_max_retries
    MaxOrders,     \* bound on orders
    MaxTicks,      \* bound on ticks
    MaxEvents      \* bound on ticks and faults (exceptions, crashes, missing
                   \* quotes), together

Orders == 1 .. MaxOrders
TickIds == 1 .. MaxTicks

ASSUME MatchingAssumption ==
    /\ \A n \in {Lots, Quoted, MaxRetries} : n \in Nat \ {0}
    /\ \A n \in {Limit, MaxOrders, MaxTicks, MaxEvents} : n \in Nat
    /\ Prices \subseteq Nat

VARIABLES
    orders,    \* order rows: type, status, lots left, a market order's quote
    trades,    \* trade rows: order, tick and volume
    ticks,     \* prices in the stream; the last one is also the cached quote
    index,     \* orders in the set of the contract
    group,     \* tick consumer group: last message delivered, pending, dead
    failures,  \* failure counts of the ticks
    matcher,   \* the thread of the ticks
    arrivals,  \* where the arrival event of each order is, and its failures
    arrival,   \* the thread of the order events
    faults,    \* exceptions, crashes and missing quotes so far
    offered    \* history: orders a tick found in the index, active and in reach

ledger == << orders, trades >>
tickSide == << group, failures, matcher >>
arrivalSide == << arrivals, arrival >>
vars == << ledger, ticks, index, tickSide, arrivalSide, faults, offered >>

Resting == [tick |-> 0, step |-> "IDLE", todo |-> {}, volume |-> 0, failed |-> FALSE]
Waiting == [order |-> 0, step |-> "IDLE", tick |-> 0, volume |-> 0]

Init ==
    /\ orders = [o \in Orders |-> [type |-> "LIMIT", status |-> "NONE", left |-> Lots,
                                tick |-> 0]]
    /\ trades = {}
    /\ ticks = << >>
    /\ index = {}
    /\ group = [last |-> 0, pending |-> {}, dead |-> {}]
    /\ failures = [t \in TickIds |-> 0]
    /\ matcher = Resting
    /\ arrivals = [o \in Orders |-> [at |-> "NONE", failures |-> 0]]
    /\ arrival = Waiting
    /\ faults = 0
    /\ offered = {}

Active(o) == orders[o].status = "ACTIVE" /\ orders[o].left > 0

Market(o) == orders[o].type = "MARKET"

Reaches(o, t) == Market(o) \/ ticks[t] <= Limit

Traded(o, t) == \E trade \in trades : trade.order = o /\ trade.tick = t

Fault ==
    /\ faults + Len(ticks) < MaxEvents
    /\ faults' = faults + 1

-----------------------------------------------------------------------------
(* Around the process: quotes, the order API and the index consumer.       *)

\* One script writes the cache and the stream.
PublishTick(price) ==
    /\ Len(ticks) < MaxTicks /\ faults + Len(ticks) < MaxEvents
    /\ ticks' = Append(ticks, price)
    /\ UNCHANGED << ledger, index, tickSide, arrivalSide, faults, offered >>

\* A market order is priced with the live quote and keeps it.
AcceptOrder(o) ==
    /\ orders[o].status = "NONE"
    /\ \A earlier \in 1 .. o - 1 : orders[earlier].status # "NONE"
    /\ \/ orders' = [orders EXCEPT ![o].status = "ACTIVE"]
       \/ /\ ticks # << >>
          /\ orders' = [orders EXCEPT ![o].status = "ACTIVE", ![o].type = "MARKET",
                                      ![o].tick = Len(ticks)]
    /\ arrivals' = [arrivals EXCEPT ![o].at = "NEW"]
    /\ UNCHANGED << trades, ticks, index, tickSide, arrival, faults, offered >>

CancelOrder(o) ==
    /\ Active(o)
    /\ orders' = [orders EXCEPT ![o].status = "DONE"]
    /\ UNCHANGED << trades, ticks, index, tickSide, arrivalSide, faults, offered >>

\* The index consumer has come to an event of the order.
IndexOrder(o) ==
    /\ ~Market(o) /\ o \notin index /\ Active(o)
    /\ index' = index \cup {o}
    /\ UNCHANGED << ledger, ticks, tickSide, arrivalSide, faults, offered >>

UnindexOrder(o) ==
    /\ o \in index /\ ~Active(o)
    /\ index' = index \ {o}
    /\ UNCHANGED << ledger, ticks, tickSide, arrivalSide, faults, offered >>

-----------------------------------------------------------------------------
(* The settlement transaction, and the look at the row before it.          *)

FillOf(o) == IF orders[o].left < Quoted THEN orders[o].left ELSE Quoted

\* Mutant: no trade row is looked for.
SettleOrderAgain(o, t, volume) ==
    LET fill == IF volume < orders[o].left THEN volume ELSE orders[o].left IN
    IF ~Active(o)
      THEN UNCHANGED ledger
      ELSE /\ trades' = trades \cup {[order |-> o, tick |-> t, volume |-> fill]}
           /\ orders' = [orders EXCEPT ![o].left = @ - fill,
                                       ![o].status = IF orders[o].left = fill
                                                       THEN "DONE" ELSE @]

\* Under the row lock: a repetition and an order that has ended change nothing.
SettleOrder(o, t, volume) ==
    LET fill == IF volume < orders[o].left THEN volume ELSE orders[o].left IN
    IF Traded(o, t) \/ ~Active(o)
      THEN UNCHANGED ledger
      ELSE /\ trades' = trades \cup {[order |-> o, tick |-> t, volume |-> fill]}
           /\ orders' = [orders EXCEPT ![o].left = @ - fill,
                                       ![o].status = IF orders[o].left = fill
                                                       THEN "DONE" ELSE @]

-----------------------------------------------------------------------------
(* The thread of the ticks.                                                *)

\* Mutant: nobody claims the messages that are pending.
TakeableNew(t) == t = group.last + 1 /\ t <= Len(ticks)

\* run_once claims what has been pending for long and then reads what is new.
Takeable(t) == t \in group.pending \/ (t = group.last + 1 /\ t <= Len(ticks))

Take(t) ==
    /\ matcher.step = "IDLE" /\ Takeable(t)
    /\ group' = [group EXCEPT !.last = IF t > @ THEN t ELSE @,
                              !.pending = @ \cup {t}]

\* The index names the candidates, and only it.
TakeTick(t) ==
    /\ Take(t)
    /\ matcher' = [Resting EXCEPT !.tick = t, !.step = "LOOK", !.todo = index]
    /\ offered' = offered \cup {<< o, t >> : o \in {i \in index : Active(i) /\ Reaches(i, t)}}
    /\ UNCHANGED << ledger, ticks, index, failures, arrivalSide, faults >>

FailRead(t) ==
    /\ Fault
    /\ Take(t)
    /\ matcher' = [Resting EXCEPT !.tick = t, !.step = "LOOK", !.failed = TRUE]
    /\ UNCHANGED << ledger, ticks, index, failures, arrivalSide, offered >>

Candidate == Min(matcher.todo)

\* The row is read without a lock.
LookAtCandidate ==
    LET o == Candidate IN
    /\ matcher.step = "LOOK" /\ matcher.todo # {}
    /\ matcher' = IF Active(o) /\ Reaches(o, matcher.tick)
                    THEN [matcher EXCEPT !.step = "SETTLE", !.volume = FillOf(o)]
                    ELSE [matcher EXCEPT !.todo = @ \ {o}]
    /\ UNCHANGED << ledger, ticks, index, group, failures, arrivalSide, faults, offered >>

NextCandidate(failed) ==
    matcher' = [matcher EXCEPT !.step = "LOOK", !.todo = @ \ {Candidate}, !.volume = 0,
                               !.failed = failed]

SettleCandidate ==
    /\ matcher.step = "SETTLE"
    /\ SettleOrder(Candidate, matcher.tick, matcher.volume)
    /\ NextCandidate(matcher.failed)
    /\ UNCHANGED << ticks, index, group, failures, arrivalSide, faults, offered >>

\* An exception over one candidate does not stop the others, and is raised after
\* them.  A commit may have succeeded all the same.
FailCandidate ==
    /\ Fault
    /\ \/ matcher.step = "LOOK" /\ matcher.todo # {} /\ UNCHANGED ledger
       \/ matcher.step = "SETTLE" /\ UNCHANGED ledger
       \/ matcher.step = "SETTLE" /\ SettleOrder(Candidate, matcher.tick, matcher.volume)
    /\ NextCandidate(TRUE)
    /\ UNCHANGED << ticks, index, group, failures, arrivalSide, offered >>

Finished == matcher.step = "LOOK" /\ matcher.todo = {}

\* Mutant: the first error is forgotten when the loop ends.
AllAnsweredAlways == TRUE

AllAnswered == ~matcher.failed

AcknowledgeTick ==
    /\ Finished /\ AllAnswered
    /\ group' = [group EXCEPT !.pending = @ \ {matcher.tick}]
    /\ failures' = [failures EXCEPT ![matcher.tick] = 0]
    /\ matcher' = Resting
    /\ UNCHANGED << ledger, ticks, index, arrivalSide, faults, offered >>

FailAcknowledge ==
    /\ Fault
    /\ Finished /\ AllAnswered
    /\ matcher' = [matcher EXCEPT !.failed = TRUE]
    /\ UNCHANGED << ledger, ticks, index, group, failures, arrivalSide, offered >>

\* The failure is counted and the tick stays pending; at the limit it is a dead
\* letter first and acknowledged after that.
CountFailure ==
    LET t == matcher.tick IN
    /\ Finished /\ ~AllAnswered
    /\ matcher' = Resting
    /\ IF failures[t] + 1 >= MaxRetries
         THEN /\ group' = [group EXCEPT !.dead = @ \cup {t}, !.pending = @ \ {t}]
              /\ failures' = [failures EXCEPT ![t] = 0]
         ELSE /\ failures' = [failures EXCEPT ![t] = @ + 1]
              /\ UNCHANGED group
    /\ UNCHANGED << ledger, ticks, index, arrivalSide, faults, offered >>

\* Redis fails as well, or still: before the count, before the dead letter or
\* after it.
FailCount ==
    LET t == matcher.tick IN
    /\ Finished /\ ~AllAnswered
    /\ matcher' = Resting
    /\ \/ UNCHANGED << group, failures >>
       \/ /\ failures[t] + 1 >= MaxRetries
          /\ group' = [group EXCEPT !.dead = @ \cup {t}]
          /\ UNCHANGED failures
    /\ UNCHANGED << ledger, ticks, index, arrivalSide, faults, offered >>

-----------------------------------------------------------------------------
(* The thread of the order events.                                         *)

\* The cached quote, if there is one.
QuoteFor(o) == IF Market(o) THEN orders[o].tick ELSE Len(ticks)

Arrived(o) ==
    /\ arrival.step = "IDLE" /\ arrivals[o].at \in {"NEW", "PENDING"}
    /\ arrivals' = [arrivals EXCEPT ![o].at = "PENDING"]

\* An order that has ended is ignored.
TakeArrival(o) ==
    LET quote == QuoteFor(o) IN
    /\ Arrived(o)
    /\ arrival' = IF Active(o) /\ quote # 0
                    THEN [Waiting EXCEPT !.order = o, !.step = "LOOK", !.tick = quote]
                    ELSE [Waiting EXCEPT !.order = o, !.step = "ACK"]
    /\ UNCHANGED << ledger, ticks, index, tickSide, faults, offered >>

\* The source is down or not subscribed: the order waits for the next tick.
TakeArrivalWithoutQuote(o) ==
    /\ Fault
    /\ ~Market(o)
    /\ Arrived(o)
    /\ arrival' = [Waiting EXCEPT !.order = o, !.step = "ACK"]
    /\ UNCHANGED << ledger, ticks, index, tickSide, offered >>

StepAfterMatch == IF Market(arrival.order) THEN "REMAINDER" ELSE "ACK"

LookAtArrival ==
    LET o == arrival.order IN
    /\ arrival.step = "LOOK"
    /\ arrival' = IF Active(o) /\ Reaches(o, arrival.tick)
                    THEN [arrival EXCEPT !.step = "SETTLE", !.volume = FillOf(o)]
                    ELSE [arrival EXCEPT !.step = StepAfterMatch, !.tick = 0]
    /\ UNCHANGED << ledger, ticks, index, tickSide, arrivals, faults, offered >>

SettleArrival ==
    /\ arrival.step = "SETTLE"
    /\ SettleOrder(arrival.order, arrival.tick, arrival.volume)
    /\ arrival' = [arrival EXCEPT !.step = StepAfterMatch, !.tick = 0, !.volume = 0]
    /\ UNCHANGED << ticks, index, tickSide, arrivals, faults, offered >>

HasRemainder(o) == Active(o)

\* What the quote could not fill of a market order is cancelled.
CancelRemainder ==
    LET o == arrival.order IN
    /\ arrival.step = "REMAINDER"
    /\ orders' = IF HasRemainder(o) THEN [orders EXCEPT ![o].status = "DONE"] ELSE orders
    /\ arrival' = [arrival EXCEPT !.step = "ACK"]
    /\ UNCHANGED << trades, ticks, index, tickSide, arrivals, faults, offered >>

AcknowledgeArrival ==
    /\ arrival.step = "ACK"
    /\ arrivals' = [arrivals EXCEPT ![arrival.order] = [at |-> "DONE", failures |-> 0]]
    /\ arrival' = Waiting
    /\ UNCHANGED << ledger, ticks, index, tickSide, faults, offered >>

\* An exception at any step; the settlement may have committed all the same.
FailArrival ==
    LET o == arrival.order
        count == arrivals[o].failures + 1 IN
    /\ arrival.step # "IDLE"
    /\ Fault
    /\ \/ UNCHANGED ledger
       \/ arrival.step = "SETTLE" /\ SettleOrder(o, arrival.tick, arrival.volume)
    /\ arrivals' = [arrivals EXCEPT ![o] =
                      IF count >= MaxRetries THEN [at |-> "DEAD", failures |-> 0]
                                             ELSE [at |-> "PENDING", failures |-> count]]
    /\ arrival' = Waiting
    /\ UNCHANGED << ticks, index, tickSide, offered >>

\* The threads share a process; what they held stays pending.
Crash ==
    /\ matcher.step # "IDLE" \/ arrival.step # "IDLE"
    /\ Fault
    /\ matcher' = Resting /\ arrival' = Waiting
    /\ UNCHANGED << ledger, ticks, index, group, failures, arrivals, offered >>

-----------------------------------------------------------------------------
MatcherStep ==
    \/ LookAtCandidate \/ SettleCandidate \/ AcknowledgeTick \/ CountFailure

ArrivalStep ==
    \/ LookAtArrival \/ SettleArrival \/ CancelRemainder \/ AcknowledgeArrival

Next ==
    \/ \E price \in Prices : PublishTick(price)
    \/ \E o \in Orders :
         AcceptOrder(o) \/ CancelOrder(o) \/ IndexOrder(o) \/ UnindexOrder(o)
    \/ \E t \in TickIds : TakeTick(t) \/ FailRead(t)
    \/ MatcherStep \/ FailCandidate \/ FailAcknowledge \/ FailCount
    \/ \E o \in Orders : TakeArrival(o) \/ TakeArrivalWithoutQuote(o)
    \/ ArrivalStep \/ FailArrival \/ Crash

Spec == Init /\ [][Next]_vars

\* Both threads loop for ever, and idle times pass.
Fairness ==
    /\ WF_vars(MatcherStep) /\ WF_vars(ArrivalStep)
    /\ \A t \in TickIds : WF_vars(TakeTick(t))
    /\ \A o \in Orders : WF_vars(TakeArrival(o))

FairSpec == Spec /\ Fairness

-----------------------------------------------------------------------------
(* Properties.                                                             *)

\* Every variable stays within its type.
TypeOK ==
    /\ orders \in [Orders -> [type : {"LIMIT", "MARKET"}, status : {"NONE", "ACTIVE", "DONE"},
                              left : 0 .. Lots, tick : 0 .. MaxTicks]]
    /\ trades \subseteq [order : Orders, tick : TickIds, volume : 1 .. Lots]
    /\ ticks \in Seq(Prices) /\ Len(ticks) <= MaxTicks
    /\ index \subseteq Orders /\ offered \subseteq Orders \X TickIds
    /\ group.last \in 0 .. MaxTicks /\ group.pending \subseteq 1 .. group.last
    /\ group.dead \subseteq 1 .. group.last
    /\ failures \in [TickIds -> 0 .. MaxRetries]
    /\ matcher.tick \in 0 .. MaxTicks /\ matcher.todo \subseteq Orders
    /\ arrival.tick \in 0 .. MaxTicks /\ faults \in 0 .. MaxEvents

FilledBy(o) == {trade \in trades : trade.order = o}
Filled(o) == SumFunctionOnSet([trade \in trades |-> trade.volume], FilledBy(o))

\* However the two threads offer an order the same quote, repeat it after an
\* exception, a lost answer or a crash, and race with a cancellation: what the
\* order has lost is what its trades say, one trade a quote, none after its end.
TradesExplainOrders ==
    \A o \in Orders :
      /\ orders[o].left + Filled(o) = Lots
      /\ \A a, b \in FilledBy(o) : a.tick = b.tick => a = b

Acknowledged == (1 .. group.last) \ (group.pending \cup group.dead)

\* An acknowledged tick has filled every active order within its reach that it
\* found in the index, in whichever of its attempts, unless the order has ended.
AcknowledgedTicksWereOffered ==
    \A pair \in offered :
      pair[2] \in Acknowledged => Traded(pair[1], pair[2]) \/ ~Active(pair[1])

\* Once quotes, orders and faults have ended, every tick and every order event is
\* acknowledged or a dead letter, and a market order has ended unless its event is
\* one.
MessagesAreHandled ==
    <>[](/\ group.last = Len(ticks) /\ group.pending = {}
         /\ \A o \in Orders : arrivals[o].at \notin {"NEW", "PENDING"}
         /\ \A o \in Orders : Market(o) /\ Active(o) => arrivals[o].at = "DEAD")

=============================================================================
