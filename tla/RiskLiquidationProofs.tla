------------------------ MODULE RiskLiquidationProofs ------------------------
(***************************************************************************)
(* Risk control for any number of workers, funds, losses, retries and      *)
(* faults: what liquidation sells is there, its orders follow its tasks,   *)
(* and a deficit is not lost sight of.                                     *)
(*                                                                         *)
(* The lease has no fence, so the argument is about the time in which no   *)
(* worker has lost it within a cycle: then one worker is in a cycle, and   *)
(* what it has read of the account and of its task still holds when it     *)
(* acts.  What a worker that lost the lease cannot break - the lots, the   *)
(* single task, the task of a state of liquidation - is proved without it. *)
(***************************************************************************)
EXTENDS RiskLiquidation, Sums, TLAPS

-----------------------------------------------------------------------------
(* The invariant.                                                          *)

Keys == {NoKey} \cup (Nat \X Nat)
Order == [task : Nat, volume : Nat, price : Int, left : Nat, active : BOOLEAN]

InTask == {"ordering", "recording", "retrying", "unavailable", "withdraw", "finish"}
InReview == {"cancelling", "cancelled", "again", "creating"}

\* The part of the types that the argument needs.
AccountType ==
    /\ loss \in Int /\ held \in Int /\ opening \in Nat /\ slack \in Int /\ cover \in Int
    /\ state \in States /\ dirty \in BOOLEAN

OrderType ==
    /\ IsFiniteSet(DOMAIN orders)
    /\ orders = [key \in DOMAIN orders |-> orders[key]]
    /\ DOMAIN orders \subseteq Keys
    /\ \A key \in DOMAIN orders : orders[key] \in Order

Task == [status : {"PENDING", "LIQUIDATING", "COMPLETED", "FAILED"}, retries : Nat,
         version : Nat, pending : Keys, last : Keys]
Pcs == {"idle", "list", "review", "clearing", "tasks", "release"} \cup InReview \cup InTask
Worker == [pc : Pcs, current : BOOLEAN, cancelled : BOOLEAN, task : Nat,
           key : Keys, volume : Nat]

TaskType == tasks \in Seq(Task)
WorkerType == workers \in [Workers -> Worker]

\* Orders and workers name tasks that exist.
TasksExist ==
    /\ \A key \in DOMAIN orders : orders[key].task \in DOMAIN tasks
    /\ \A w \in Workers : workers[w].pc \in InTask => workers[w].task \in DOMAIN tasks

TypeOK == AccountType /\ OrderType /\ TaskType /\ WorkerType /\ TasksExist

\* A worker in a cycle has the lease.
LeaseHeld == \A w \in Workers : workers[w].pc # "idle" => lease = w

\* What the worker knows of the account between its two reviews.
ReviewKnows(w) ==
    /\ workers[w].pc \in InReview =>
         state \notin {"LIQUIDATION_PENDING", "LIQUIDATING"}
    /\ workers[w].pc \in InReview /\ workers[w].current
       /\ state = "VALUATION_UNAVAILABLE" => unmarked
    /\ workers[w].pc = "clearing" /\ workers[w].current /\ InDeficit => unmarked

\* What it knows of its task before it creates the order.
TaskKnows(w) ==
    workers[w].pc = "ordering" =>
      /\ OrdersOf(workers[w].task) = {}
      /\ tasks[workers[w].task].status # "COMPLETED"

CycleKnows == LeaseHeld /\ \A w \in Workers : ReviewKnows(w) /\ TaskKnows(w)

RiskInv ==
    /\ TypeOK
    /\ OrdersFollowTasks
    /\ DeficitIsHandled
    /\ lost \/ CycleKnows

-----------------------------------------------------------------------------
(* The lots that working orders may still close.                           *)

Lefts == [key \in DOMAIN orders |-> orders[key].left]

LEMMA FrozenType ==
    ASSUME OrderType
    PROVE  /\ IsFiniteSet(Working) /\ Frozen \in Nat
           /\ \A key \in Working : Lefts[key] \in Nat
<1>1. IsFiniteSet(Working) /\ Working \subseteq DOMAIN orders
  BY FS_Subset DEF OrderType, Working
<1>2. \A key \in Working : Lefts[key] \in Nat
  BY <1>1 DEF OrderType, Order, Lefts
<1>3. SumFunctionOnSet(Lefts, Working) \in Nat
  <2> DEFINE f == Lefts  S == Working
  <2> HIDE DEF f, S
  <2>1. IsFiniteSet(S) /\ \A key \in S : f[key] \in Nat
    BY <1>1, <1>2 DEF f, S
  <2>2. SumFunctionOnSet(f, S) \in Nat
    BY <2>1, SumOfNaturals
  <2> QED  BY <2>2 DEF f, S
<1> QED  BY <1>1, <1>2, <1>3 DEF Frozen, Lefts

\* Fewer orders work, none for more than before.
LEMMA FrozenFalls ==
    ASSUME OrderType, OrderType', Working' \subseteq Working,
           \A key \in Working' : orders'[key].left = orders[key].left
    PROVE  Frozen' <= Frozen /\ Frozen' \in Nat
<1>1. Frozen' = SumFunctionOnSet(Lefts', Working') /\ Frozen = SumFunctionOnSet(Lefts, Working)
  BY DEF Frozen, Lefts
<1>2. /\ IsFiniteSet(Working) /\ IsFiniteSet(Working') /\ Frozen \in Nat
      /\ \A key \in Working : Lefts[key] \in Nat
  BY FrozenType, FS_Subset
<1>3. \A key \in Working' : Lefts'[key] = Lefts[key]
  BY DEF Lefts, Working
<1>4. SumFunctionOnSet(Lefts', Working') = SumFunctionOnSet(Lefts, Working')
  BY <1>2, <1>3, SumDependsOnValues
<1>5. SumFunctionOnSet(Lefts, Working') <= SumFunctionOnSet(Lefts, Working)
  BY <1>2, SumOfPart
<1>6. SumFunctionOnSet(Lefts, Working') \in Nat
  BY <1>2, SumOfNaturals
<1> QED  BY <1>1, <1>4, <1>5, <1>6

\* One order has d lots more to close, or fewer.
LEMMA FrozenMoves ==
    ASSUME OrderType, NEW key \in Working, NEW d \in Int, Working' = Working,
           \A k \in Working \ {key} : orders'[k].left = orders[k].left,
           orders'[key].left = orders[key].left + d,
           DOMAIN orders' = DOMAIN orders
    PROVE  Frozen' = Frozen + d
<1>1. Frozen' = SumFunctionOnSet(Lefts', Working) /\ Frozen = SumFunctionOnSet(Lefts, Working)
  BY DEF Frozen, Lefts
<1>2. IsFiniteSet(Working) /\ \A k \in Working : Lefts[k] \in Int
  BY FrozenType
<1>3. /\ \A k \in Working \ {key} : Lefts'[k] = Lefts[k]
      /\ Lefts'[key] = Lefts[key] + d
  BY DEF Lefts, Working
<1>4. SumFunctionOnSet(Lefts', Working) = SumFunctionOnSet(Lefts, Working) + d
  BY <1>2, <1>3, SumChanges
<1> QED  BY <1>1, <1>4

\* One order more works.
LEMMA FrozenGrows ==
    ASSUME OrderType, OrderType', NEW key, key \notin Working, Working' = Working \cup {key},
           \A k \in Working : orders'[k].left = orders[k].left
    PROVE  Frozen' = Frozen + orders'[key].left
<1>1. Frozen' = SumFunctionOnSet(Lefts', Working') /\ Frozen = SumFunctionOnSet(Lefts, Working)
  BY DEF Frozen, Lefts
<1>2. /\ IsFiniteSet(Working) /\ \A k \in Working : Lefts[k] \in Int
      /\ Frozen \in Int
  BY FrozenType
<1>3. \A k \in Working : Lefts'[k] = Lefts[k]
  BY DEF Lefts, Working
<1>4. Lefts'[key] \in Int /\ Lefts'[key] = orders'[key].left
  BY DEF Lefts, Working, OrderType, Order
<1>5. SumFunctionOnSet(Lefts', Working) = SumFunctionOnSet(Lefts, Working)
  BY <1>2, <1>3, SumDependsOnValues
<1>6. SumFunctionOnSet(Lefts', Working \cup {key})
        = Lefts'[key] + SumFunctionOnSet(Lefts', Working)
  BY <1>2, <1>3, <1>4, SumAdds
<1> QED  BY <1>1, <1>2, <1>4, <1>5, <1>6

\* A fill takes its lots from the order and from the position.
LEMMA FillLeaves ==
    ASSUME OrderType, OrderType', NEW key \in Working, NEW lots \in 1 .. orders[key].left,
           DOMAIN orders' = DOMAIN orders,
           \A k \in DOMAIN orders : k # key => orders'[k] = orders[k],
           orders'[key].left = orders[key].left - lots,
           orders'[key].active = (lots < orders[key].left)
    PROVE  Frozen' = Frozen - lots
<1>1. orders[key].left \in Nat /\ Frozen \in Nat
  BY FrozenType DEF OrderType, Order, Working
<1>2. CASE lots < orders[key].left
  <2>1. Working' = Working
    BY <1>2 DEF Working
  <2>2. Frozen' = Frozen + (0 - lots)
    BY <1>1, <2>1, FrozenMoves DEF Working
  <2> QED  BY <1>1, <2>2
<1>3. CASE lots = orders[key].left
  <2>1. Working' = Working \ {key} /\ Working \subseteq DOMAIN orders
    <3>1. ~ (lots < orders[key].left)
      BY <1>1, <1>3
    <3>2. ~ orders'[key].active
      BY <3>1
    <3> QED  BY <3>2 DEF Working
  <2>2. Frozen' = SumFunctionOnSet(Lefts', Working \ {key})
    BY <2>1 DEF Frozen, Lefts
  <2>3. SumFunctionOnSet(Lefts', Working \ {key}) = SumFunctionOnSet(Lefts, Working \ {key})
    <3>1. IsFiniteSet(Working \ {key})
      BY FrozenType, FS_RemoveElement
    <3>2. \A k \in Working \ {key} : Lefts'[k] = Lefts[k]
      BY <2>1 DEF Lefts
    <3> QED  BY <3>1, <3>2, SumDependsOnValues
  <2>4. Frozen = Lefts[key] + SumFunctionOnSet(Lefts, Working \ {key})
    <3>1. Frozen = SumFunctionOnSet(Lefts, Working)
      BY DEF Frozen, Lefts
    <3>2. IsFiniteSet(Working) /\ \A k \in Working : Lefts[k] \in Int
      BY FrozenType
    <3> QED  BY <3>1, <3>2, SumTakesOut
  <2>5. Lefts[key] = lots
    BY <1>3, <2>1 DEF Lefts
  <2>6. SumFunctionOnSet(Lefts, Working \ {key}) \in Int
    <3>1. IsFiniteSet(Working \ {key}) /\ \A k \in Working \ {key} : Lefts[k] \in Int
      BY FrozenType, FS_RemoveElement
    <3> QED  BY <3>1, SumType
  <2> QED  BY <2>2, <2>3, <2>4, <2>5, <2>6
<1> QED  BY <1>1, <1>2, <1>3

-----------------------------------------------------------------------------
(* What the steps have in common.                                          *)

LEMMA MinOfTwo ==
    ASSUME NEW m \in Int, NEW n \in Int
    PROVE  Min({m, n}) \in {m, n} /\ Min({m, n}) =< m
<1>1. \E x \in {m, n} : \A y \in {m, n} : x =< y
  OBVIOUS
<1> QED  BY <1>1 DEF Min

LEMMA OrdersStay ==
    ASSUME UNCHANGED orders
    PROVE  Working' = Working /\ Frozen' = Frozen /\ \A t : OrdersOf(t)' = OrdersOf(t)
BY DEF Working, Frozen, OrdersOf

LEMMA TasksStay == ASSUME UNCHANGED tasks PROVE ActiveTasks' = ActiveTasks
BY DEF ActiveTasks

\* A step that leaves lots, orders and tasks alone.
LEMMA FollowsOn ==
    ASSUME RiskInv, UNCHANGED << held, orders, tasks >>, lost => lost'
    PROVE  OrdersFollowTasks'
<1>1. NothingOversold'
  BY OrdersStay DEF RiskInv, OrdersFollowTasks, NothingOversold
<1>2. OneTask'
  BY TasksStay DEF RiskInv, OrdersFollowTasks, OneTask
<1>3. OneOrderWorks' /\ CompletedLeavesNothing'
  BY OrdersStay DEF RiskInv, OrdersFollowTasks, OneOrderWorks, CompletedLeavesNothing
<1> QED  BY <1>1, <1>2, <1>3 DEF OrdersFollowTasks

\* A step that leaves state and tasks alone, and the risk numbers watched.
LEMMA HandledOn ==
    ASSUME RiskInv, UNCHANGED << state, tasks >>, DeficitIsWatched'
    PROVE  DeficitIsHandled'
BY TasksStay DEF RiskInv, DeficitIsHandled, LiquidationHasTask

\* A step that leaves the workers alone, and what they know.
LEMMA KnowsOn ==
    ASSUME RiskInv, lost' = lost,
           UNCHANGED << orders, state, slack, cover, tasks, unmarked, lease, workers >>
    PROVE  lost' \/ CycleKnows'
BY OrdersStay DEF RiskInv, CycleKnows, LeaseHeld, ReviewKnows, InDeficit, TaskKnows

\* As long as no worker has lost the lease in its cycle, one is in a cycle.
LEMMA OthersIdle ==
    ASSUME RiskInv, ~lost, NEW w \in Workers, workers[w].pc # "idle"
    PROVE  lease = w /\ \A v \in Workers \ {w} : workers[v].pc = "idle"
BY DEF RiskInv, CycleKnows, LeaseHeld

\* So a worker's step is about what this worker knows.
LEMMA CycleStep ==
    ASSUME RiskInv, ~lost, NEW w \in Workers, workers[w].pc # "idle",
           \A v \in Workers \ {w} : workers'[v].pc = workers[v].pc,
           workers'[w].pc # "idle" => lease' = w,
           ReviewKnows(w)', TaskKnows(w)'
    PROVE  CycleKnows'
<1>1. \A v \in Workers \ {w} : workers'[v].pc = "idle"
  BY OthersIdle
<1>2. LeaseHeld'
  BY <1>1 DEF LeaseHeld
<1>3. \A v \in Workers \ {w} : ReviewKnows(v)' /\ TaskKnows(v)'
  BY <1>1 DEF ReviewKnows, InDeficit, TaskKnows, InReview
<1> QED  BY <1>2, <1>3 DEF CycleKnows

-----------------------------------------------------------------------------
(* The market, the owner and the matching.                                 *)

LEMMA MarketMovesStep ==
    ASSUME RiskInv, NEW to \in 0 .. MaxLoss, MarketMoves(to)
    PROVE  RiskInv'
<1>1. /\ UNCHANGED << held, opening, orders, state, slack, cover, tasks, dirty, unmarked >>
      /\ UNCHANGED << lease, workers, lost >> /\ loss' \in Int
  BY BoundsAssumption DEF MarketMoves, account, numbers, marks
<1>2. TypeOK'
  BY <1>1 DEF RiskInv, TypeOK, AccountType, OrderType, TaskType, WorkerType, TasksExist
<1>3. DeficitIsHandled'
  BY <1>1, HandledOn DEF RiskInv, DeficitIsHandled, DeficitIsWatched, InDeficit
<1> QED  BY <1>1, <1>2, <1>3, FollowsOn, KnowsOn DEF RiskInv

LEMMA QuoteChangesStep ==
    ASSUME RiskInv, QuoteEnds("old") \/ QuoteEnds("missing") \/ QuoteReturns
    PROVE  RiskInv'
<1>1. /\ UNCHANGED << held, opening, orders, state, slack, cover, tasks, dirty, unmarked >>
      /\ UNCHANGED << loss, lease, workers, lost >>
  BY DEF QuoteEnds, QuoteReturns, account, numbers, marks, bounds
<1>2. TypeOK'
  BY <1>1 DEF RiskInv, TypeOK, AccountType, OrderType, TaskType, WorkerType, TasksExist
<1>3. DeficitIsHandled'
  BY <1>1, HandledOn DEF RiskInv, DeficitIsHandled, DeficitIsWatched, InDeficit
<1> QED  BY <1>1, <1>2, <1>3, FollowsOn, KnowsOn DEF RiskInv

\* Opening freezes no more than is left, so it leaves no deficit.
LEMMA UserOpensStep ==
    ASSUME RiskInv, NEW lots \in OpenVolumes, UserOpens(lots)
    PROVE  RiskInv'
<1>1. /\ UNCHANGED << loss, held, orders, state, tasks, dirty, unmarked, lease >>
      /\ UNCHANGED << workers, lost >>
      /\ cover' = cover /\ opening' \in Nat /\ slack' \in Nat
  BY BoundsAssumption
     DEF UserOpens, market, numbers, marks, RiskInv, TypeOK, AccountType
<1>2. TypeOK'
  BY <1>1 DEF RiskInv, TypeOK, AccountType, OrderType, TaskType, WorkerType, TasksExist
<1>3. DeficitIsHandled'
  BY <1>1, HandledOn DEF RiskInv, DeficitIsHandled, DeficitIsWatched, InDeficit
<1>4. lost' \/ CycleKnows'
  BY <1>1, OrdersStay DEF RiskInv, CycleKnows, LeaseHeld, ReviewKnows, InDeficit, TaskKnows
<1> QED  BY <1>1, <1>2, <1>3, <1>4, FollowsOn DEF RiskInv

LEMMA OpeningFillsStep ==
    ASSUME RiskInv, OpeningFills
    PROVE  RiskInv'
<1>1. /\ UNCHANGED << loss, orders, state, slack, cover, tasks, dirty, unmarked, lease >>
      /\ UNCHANGED << workers, lost >>
      /\ held' = held + opening /\ opening' = 0 /\ opening \in Nat /\ held \in Int
  BY DEF OpeningFills, market, numbers, marks, bounds, RiskInv, TypeOK, AccountType
<1>2. TypeOK'
  BY <1>1 DEF RiskInv, TypeOK, AccountType, OrderType, TaskType, WorkerType, TasksExist
<1>3. DeficitIsHandled'
  BY <1>1, HandledOn DEF RiskInv, DeficitIsHandled, DeficitIsWatched, InDeficit
<1>4. OrdersFollowTasks'
  <2>1. Frozen \in Int
    BY FrozenType DEF RiskInv, TypeOK
  <2>2. NothingOversold'
    BY <1>1, <2>1, OrdersStay DEF RiskInv, OrdersFollowTasks, NothingOversold
  <2> QED  BY <1>1, <2>2, OrdersStay, TasksStay
           DEF RiskInv, OrdersFollowTasks, OneTask, OneOrderWorks, CompletedLeavesNothing
<1> QED  BY <1>1, <1>2, <1>3, <1>4, KnowsOn DEF RiskInv

\* The orders' lots in a step that changes one of them.
LEMMA LiquidationFillsStep ==
    ASSUME RiskInv, NEW key \in DOMAIN orders, NEW lots \in 1 .. orders[key].left,
           NEW borne \in {0, loss}, LiquidationFills(key, lots, borne)
    PROVE  RiskInv'
<1>1. /\ UNCHANGED << loss, opening, state, slack, cover, tasks, dirty, unmarked, lease >>
      /\ UNCHANGED << workers, lost >>
      /\ orders' = [orders EXCEPT ![key].left = @ - lots,
                                  ![key].active = lots < orders[key].left]
      /\ held' = held - lots /\ key \in Working
  BY DEF LiquidationFills, market, numbers, marks, bounds
<1>2. /\ orders[key] \in Order /\ orders[key].left \in Nat /\ lots \in Nat
      /\ held \in Int
  BY DEF RiskInv, TypeOK, AccountType, OrderType, Order
<1>3. /\ DOMAIN orders' = DOMAIN orders
      /\ \A k \in DOMAIN orders : k # key => orders'[k] = orders[k]
      /\ orders'[key] = [orders[key] EXCEPT !.left = orders[key].left - lots,
                                            !.active = lots < orders[key].left]
  BY <1>1, <1>2 DEF RiskInv, TypeOK, OrderType
<1>4. /\ orders'[key] \in Order /\ orders'[key].task = orders[key].task
      /\ orders'[key].left = orders[key].left - lots
      /\ orders'[key].active = (lots < orders[key].left)
  <2>1. orders[key] = [task |-> orders[key].task, volume |-> orders[key].volume,
                       price |-> orders[key].price, left |-> orders[key].left,
                       active |-> orders[key].active]
    BY <1>2 DEF Order
  <2>2. orders'[key] = [task |-> orders[key].task, volume |-> orders[key].volume,
                        price |-> orders[key].price, left |-> orders[key].left - lots,
                        active |-> (lots < orders[key].left)]
    BY <1>3, <2>1
  <2>3. orders[key].left - lots \in Nat
    BY <1>2
  <2> QED  BY <1>2, <2>2, <2>3 DEF Order
<1>5. OrderType' /\ \A k \in DOMAIN orders' : orders'[k].task = orders[k].task
  BY <1>1, <1>3, <1>4 DEF RiskInv, TypeOK, OrderType
<1>6. TypeOK'
  BY <1>1, <1>2, <1>3, <1>5
     DEF RiskInv, TypeOK, AccountType, TaskType, WorkerType, TasksExist
<1>7. Working' \subseteq Working
  BY <1>1, <1>3 DEF Working
<1>8. NothingOversold'
  <2>1. OrderType /\ OrderType' /\ Frozen \in Nat
    BY <1>6, FrozenType DEF RiskInv, TypeOK
  <2>2. Frozen' = Frozen - lots
    BY <1>1, <1>3, <1>4, <2>1, FillLeaves
  <2> QED  BY <1>1, <1>2, <2>1, <2>2 DEF RiskInv, OrdersFollowTasks, NothingOversold
<1>9. OrdersFollowTasks'
  BY <1>1, <1>5, <1>7, <1>8, TasksStay
     DEF RiskInv, OrdersFollowTasks, OneTask, OneOrderWorks, CompletedLeavesNothing, Working
<1>10. DeficitIsHandled'
  BY <1>1, HandledOn DEF RiskInv, DeficitIsHandled, DeficitIsWatched, InDeficit
<1>11. lost' \/ CycleKnows'
  <2>1. \A t : OrdersOf(t)' \subseteq OrdersOf(t)
    BY <1>5, <1>7 DEF OrdersOf, Working
  <2> QED  BY <1>1, <2>1 DEF RiskInv, CycleKnows, LeaseHeld, ReviewKnows, InDeficit, TaskKnows
<1> QED  BY <1>6, <1>9, <1>10, <1>11 DEF RiskInv

\* An order is cancelled.
LEMMA OrderEnds ==
    ASSUME RiskInv, NEW key, orders' = [orders EXCEPT ![key].active = FALSE],
           UNCHANGED << held, tasks, lost >>
    PROVE  /\ OrderType' /\ OrdersFollowTasks'
           /\ \A k \in DOMAIN orders' : orders'[k].task \in DOMAIN tasks
           /\ \A t : OrdersOf(t)' \subseteq OrdersOf(t)
<1>1. /\ DOMAIN orders' = DOMAIN orders /\ orders' = [k \in DOMAIN orders' |-> orders'[k]]
      /\ \A k \in DOMAIN orders :
            orders'[k] = IF k = key THEN [orders[k] EXCEPT !.active = FALSE] ELSE orders[k]
  BY DEF RiskInv, TypeOK, OrderType
<1>2. \A k \in DOMAIN orders :
         /\ orders'[k] \in Order
         /\ orders'[k].task = orders[k].task /\ orders'[k].left = orders[k].left
         /\ orders'[k].active => orders[k].active
  <2>1. SUFFICES ASSUME NEW k \in DOMAIN orders
                 PROVE  /\ orders'[k] \in Order
                        /\ orders'[k].task = orders[k].task
                        /\ orders'[k].left = orders[k].left
                        /\ orders'[k].active => orders[k].active
    OBVIOUS
  <2>2. PICK o \in Order : o = orders[k]
    BY DEF RiskInv, TypeOK, OrderType
  <2>3. [o EXCEPT !.active = FALSE] \in Order
        /\ [o EXCEPT !.active = FALSE].task = o.task /\ [o EXCEPT !.active = FALSE].left = o.left
        /\ [o EXCEPT !.active = FALSE].active = FALSE
    BY DEF Order
  <2> QED  BY <1>1, <2>2, <2>3
<1>3. OrderType' /\ Working' \subseteq Working
  BY <1>1, <1>2 DEF RiskInv, TypeOK, OrderType, Working
<1>4. NothingOversold'
  <2>1. Frozen' <= Frozen /\ Frozen' \in Nat /\ Frozen \in Nat
    BY <1>1, <1>2, <1>3, FrozenFalls, FrozenType DEF RiskInv, TypeOK, Working
  <2> QED  BY <2>1 DEF RiskInv, TypeOK, AccountType, OrdersFollowTasks, NothingOversold
<1>5. OneOrderWorks' /\ CompletedLeavesNothing' /\ OneTask'
  BY <1>1, <1>2, <1>3, TasksStay
     DEF RiskInv, OrdersFollowTasks, OneTask, OneOrderWorks, CompletedLeavesNothing, Working
<1>6. /\ \A k \in DOMAIN orders' : orders'[k].task \in DOMAIN tasks
      /\ \A t : OrdersOf(t)' \subseteq OrdersOf(t)
  BY <1>1, <1>2, <1>3 DEF RiskInv, TypeOK, TasksExist, OrdersOf, Working
<1> QED  BY <1>3, <1>4, <1>5, <1>6 DEF OrdersFollowTasks

LEMMA UserCancelsStep ==
    ASSUME RiskInv, NEW key \in DOMAIN orders, UserCancels(key)
    PROVE  RiskInv'
<1>1. /\ UNCHANGED << loss, held, opening, state, slack, cover, tasks, dirty, unmarked, lease >>
      /\ UNCHANGED << workers, lost >>
      /\ orders' = [orders EXCEPT ![key].active = FALSE]
  BY DEF UserCancels, market, numbers, marks, bounds
<1>2. TypeOK' /\ OrdersFollowTasks' /\ \A t : OrdersOf(t)' \subseteq OrdersOf(t)
  BY <1>1, OrderEnds DEF RiskInv, TypeOK, AccountType, TaskType, WorkerType, TasksExist
<1>3. DeficitIsHandled'
  BY <1>1, HandledOn DEF RiskInv, DeficitIsHandled, DeficitIsWatched, InDeficit
<1>4. lost' \/ CycleKnows'
  BY <1>1, <1>2 DEF RiskInv, CycleKnows, LeaseHeld, ReviewKnows, InDeficit, TaskKnows
<1> QED  BY <1>2, <1>3, <1>4 DEF RiskInv

-----------------------------------------------------------------------------
(* The persistence worker.                                                 *)

\* What a valuation can make of state and risk numbers.
LEMMA RevaluedType ==
    ASSUME AccountType, Revalued
    PROVE  /\ slack' \in Int /\ cover' \in Int /\ state' \in States
           /\ state' \in {"LIQUIDATION_PENDING", "LIQUIDATING"} => state' = state
BY BoundsAssumption
   DEF AccountType, Revalued, ValuedState, TrueSlack, TrueCover, numbers, States

LEMMA ValueStep ==
    ASSUME RiskInv, Value
    PROVE  RiskInv'
<1>1. /\ UNCHANGED << loss, held, opening, orders, tasks, dirty, lease, workers, lost >>
      /\ unmarked' = TRUE /\ Revalued
  BY DEF Value, market, numbers, bounds
<1>2. /\ slack' \in Int /\ cover' \in Int /\ state' \in States
      /\ state' \in {"LIQUIDATION_PENDING", "LIQUIDATING"} => state' = state
  BY <1>1, RevaluedType DEF RiskInv, TypeOK
<1>3. TypeOK'
  BY <1>1, <1>2 DEF RiskInv, TypeOK, AccountType, OrderType, TaskType, WorkerType, TasksExist
<1>4. DeficitIsHandled'
  BY <1>1, <1>2, TasksStay
     DEF RiskInv, DeficitIsHandled, DeficitIsWatched, InDeficit, LiquidationHasTask
<1>5. lost' \/ CycleKnows'
  BY <1>1, <1>2, OrdersStay DEF RiskInv, CycleKnows, LeaseHeld, ReviewKnows, InDeficit, TaskKnows
<1> QED  BY <1>1, <1>3, <1>4, <1>5, FollowsOn DEF RiskInv

\* A mark makes every worker's version stale; what it knows besides stays.
LEMMA StaleKnows ==
    ASSUME RiskInv, UNCHANGED << state, orders, tasks, lease, lost >>,
           \A w \in Workers : /\ workers'[w].current = FALSE
                              /\ workers'[w].pc = workers[w].pc
                              /\ workers'[w].task = workers[w].task
    PROVE  lost' \/ CycleKnows'
<1>1. ASSUME ~lost, NEW w \in Workers PROVE ReviewKnows(w)' /\ TaskKnows(w)'
  <2>1. ReviewKnows(w) /\ TaskKnows(w)
    BY <1>1 DEF RiskInv, CycleKnows
  <2>2. ReviewKnows(w)'
    BY <2>1 DEF ReviewKnows, InDeficit
  <2>3. TaskKnows(w)'
    BY <2>1, OrdersStay DEF TaskKnows
  <2> QED  BY <2>2, <2>3
<1>2. ~lost => LeaseHeld'
  BY DEF RiskInv, CycleKnows, LeaseHeld
<1> QED  BY <1>1, <1>2 DEF CycleKnows

\* After a mark, no worker's version is the current one.
LEMMA MarkStep ==
    ASSUME RiskInv, Mark
    PROVE  RiskInv'
<1>1. /\ UNCHANGED << loss, held, opening, orders, state, slack, cover, tasks, lease, lost >>
      /\ dirty' = TRUE
      /\ workers' = [w \in Workers |-> [workers[w] EXCEPT !.current = FALSE]]
  BY DEF Mark, MarkDirty, market, numbers, account, bounds
<1>2. \A w \in Workers : /\ workers'[w] \in Worker /\ workers'[w].current = FALSE
                         /\ workers'[w].pc = workers[w].pc
                         /\ workers'[w].task = workers[w].task
  BY <1>1 DEF RiskInv, TypeOK, WorkerType, Worker
<1>3. TypeOK'
  BY <1>1, <1>2 DEF RiskInv, TypeOK, AccountType, OrderType, TaskType, WorkerType, TasksExist
<1>4. DeficitIsHandled'
  BY <1>1, HandledOn DEF DeficitIsWatched, InDeficit
<1>5. lost' \/ CycleKnows'
  BY <1>1, <1>2, StaleKnows
<1> QED  BY <1>1, <1>3, <1>4, <1>5, FollowsOn DEF RiskInv

-----------------------------------------------------------------------------
(* The risk worker: review.                                                *)

\* A step of worker w that only moves w on.
LEMMA MovesOn ==
    ASSUME RiskInv, NEW w \in Workers, NEW pc \in Pcs, Goto(w, pc),
           pc \in InTask => workers[w].pc \in InTask
    PROVE  /\ WorkerType' /\ workers'[w].pc = pc
           /\ workers'[w].current = workers[w].current
           /\ workers'[w].task = workers[w].task
           /\ \A v \in Workers \ {w} : workers'[v] = workers[v]
           /\ \A v \in Workers : workers'[v].pc \in InTask =>
                                   workers'[v].task \in DOMAIN tasks
BY DEF RiskInv, TypeOK, WorkerType, Worker, TasksExist, Goto

LEMMA AcquireStep ==
    ASSUME RiskInv, NEW w \in Workers, Acquire(w)
    PROVE  RiskInv'
<1>1. /\ UNCHANGED << loss, held, opening, orders, state, slack, cover, tasks, dirty, unmarked >>
      /\ lost' = lost /\ lease = "none" /\ lease' = w /\ Goto(w, "list")
  BY DEF Acquire, market, numbers, account, marks, bounds
<1>2. /\ WorkerType' /\ workers'[w].pc = "list"
      /\ \A v \in Workers \ {w} : workers'[v] = workers[v]
      /\ \A v \in Workers : workers'[v].pc \in InTask => workers'[v].task \in DOMAIN tasks
  <2>1. "list" \in Pcs /\ "list" \notin InTask
    BY DEF Pcs, InTask
  <2> QED  BY <1>1, <2>1, MovesOn
<1>3. TypeOK'
  BY <1>1, <1>2 DEF RiskInv, TypeOK, AccountType, OrderType, TaskType, TasksExist
<1>4. DeficitIsHandled'
  BY <1>1, HandledOn DEF RiskInv, DeficitIsHandled, DeficitIsWatched, InDeficit
<1>5. ASSUME ~lost PROVE CycleKnows'
  <2>1. \A v \in Workers \ {w} : workers'[v].pc = "idle"
    BY <1>1, <1>2, <1>5, WorkersAssumption DEF RiskInv, CycleKnows, LeaseHeld
  <2> QED  BY <1>1, <1>2, <2>1 DEF CycleKnows, LeaseHeld, ReviewKnows, InDeficit, TaskKnows, InReview
<1> QED  BY <1>1, <1>3, <1>4, <1>5, FollowsOn DEF RiskInv

LEMMA ReconcileStep ==
    ASSUME RiskInv, NEW w \in Workers, Reconcile(w)
    PROVE  RiskInv'
<1>1. /\ UNCHANGED << loss, held, opening, orders, state, slack, cover, tasks, lease, lost >>
      /\ dirty' = TRUE
      /\ workers' = [v \in Workers |-> [workers[v] EXCEPT !.current = FALSE]]
  BY DEF Reconcile, MarkDirty, market, numbers, account, bounds
<1>2. \A v \in Workers : /\ workers'[v] \in Worker /\ workers'[v].current = FALSE
                         /\ workers'[v].pc = workers[v].pc
                         /\ workers'[v].task = workers[v].task
  BY <1>1 DEF RiskInv, TypeOK, WorkerType, Worker
<1>3. TypeOK'
  BY <1>1, <1>2 DEF RiskInv, TypeOK, AccountType, OrderType, TaskType, WorkerType, TasksExist
<1>4. DeficitIsHandled'
  BY <1>1, HandledOn DEF DeficitIsWatched, InDeficit
<1>5. lost' \/ CycleKnows'
  BY <1>1, <1>2, StaleKnows
<1> QED  BY <1>1, <1>3, <1>4, <1>5, FollowsOn DEF RiskInv

LEMMA ListStep ==
    ASSUME RiskInv, NEW w \in Workers, List(w)
    PROVE  RiskInv'
<1>1. /\ UNCHANGED << loss, held, opening, orders, state, slack, cover, tasks, dirty, unmarked >>
      /\ UNCHANGED << lease, lost >> /\ workers[w].pc = "list"
      /\ workers' = [workers EXCEPT ![w].pc = IF dirty THEN "review" ELSE "tasks",
                                    ![w].current = dirty]
  BY DEF List, market, numbers, account, marks, bounds
<1>2. /\ workers'[w].pc \in {"review", "tasks"}
      /\ \A v \in Workers \ {w} : workers'[v] = workers[v]
      /\ WorkerType'
  <2>1. PICK pc \in {"review", "tasks"}, now \in BOOLEAN :
           pc = (IF dirty THEN "review" ELSE "tasks") /\ now = dirty
    BY DEF RiskInv, TypeOK, AccountType
  <2>2. PICK x \in Worker : x = workers[w]
    BY DEF RiskInv, TypeOK, WorkerType
  <2>3. /\ [[x EXCEPT !.pc = pc] EXCEPT !.current = now] \in Worker
        /\ [[x EXCEPT !.pc = pc] EXCEPT !.current = now].pc = pc
    BY DEF Worker, Pcs
  <2>4. /\ workers \in [Workers -> Worker]
        /\ workers' = [workers EXCEPT ![w] = [[x EXCEPT !.pc = pc] EXCEPT !.current = now]]
    BY <1>1, <2>1, <2>2 DEF RiskInv, TypeOK, WorkerType
  <2> QED  BY <2>3, <2>4 DEF WorkerType
<1>3. TypeOK'
  BY <1>1, <1>2 DEF RiskInv, TypeOK, AccountType, OrderType, TaskType, TasksExist, InTask
<1>4. DeficitIsHandled'
  BY <1>1, HandledOn DEF RiskInv, DeficitIsHandled, DeficitIsWatched, InDeficit
<1>5. ASSUME ~lost PROVE CycleKnows'
  BY <1>1, <1>2, <1>5, OthersIdle, CycleStep DEF ReviewKnows, InDeficit, TaskKnows, InReview
<1> QED  BY <1>1, <1>3, <1>4, <1>5, FollowsOn DEF RiskInv

\* A step after which a state of liquidation is the one there was.
LEMMA HandledMoves ==
    ASSUME RiskInv, UNCHANGED tasks, DeficitIsWatched',
           state' \in {"LIQUIDATION_PENDING", "LIQUIDATING"} => state' = state
    PROVE  DeficitIsHandled'
BY TasksStay DEF RiskInv, DeficitIsHandled, LiquidationHasTask

\* A deficit is never assessed as safe, and an assessment brings no liquidation.
LEMMA AssessedFacts ==
    ASSUME AccountType
    PROVE  /\ Assessed(state) \in States
           /\ Assessed(state) \in {"LIQUIDATION_PENDING", "LIQUIDATING",
                                   "VALUATION_UNAVAILABLE"}
                => Assessed(state) = state
           /\ InDeficit => Assessed(state) \notin SafeStates
BY ThresholdAssumption DEF AccountType, Assessed, States, SafeStates

LEMMA ReviewStepOne ==
    ASSUME RiskInv, NEW w \in Workers, Review(w)
    PROVE  RiskInv'
<1>1. /\ UNCHANGED << loss, held, opening, orders, slack, cover, tasks, dirty, unmarked >>
      /\ UNCHANGED << lease, lost >> /\ workers[w].pc = "review"
      /\ state' = Assessed(state)
  BY DEF Review, market, numbers, marks, bounds
<1>2. PICK pc \in {"cancelling", "clearing", "tasks"} :
         /\ Goto(w, pc)
         /\ pc = "cancelling" => state' = "MARGIN_DEFICIT"
         /\ pc = "clearing" => state' \in SafeStates
  BY DEF Review, SafeStates
<1>3. /\ state' \in States
      /\ InDeficit => state' \notin SafeStates
      /\ state' \in {"LIQUIDATION_PENDING", "LIQUIDATING"} => state' = state
  BY <1>1, AssessedFacts DEF RiskInv, TypeOK
<1>4. /\ WorkerType' /\ workers'[w].pc = pc
      /\ \A v \in Workers \ {w} : workers'[v] = workers[v]
      /\ \A v \in Workers : workers'[v].pc \in InTask => workers'[v].task \in DOMAIN tasks
  <2>1. pc \in Pcs /\ pc \notin InTask
    BY DEF Pcs, InReview, InTask
  <2> QED  BY <1>2, <2>1, MovesOn
<1>5. TypeOK'
  BY <1>1, <1>3, <1>4 DEF RiskInv, TypeOK, AccountType, OrderType, TaskType, TasksExist
<1>6. DeficitIsHandled'
  BY <1>1, <1>3, HandledMoves DEF RiskInv, DeficitIsHandled, DeficitIsWatched, InDeficit
<1>7. ASSUME ~lost PROVE CycleKnows'
  <2>1. ReviewKnows(w)' /\ TaskKnows(w)'
    BY <1>1, <1>2, <1>3, <1>4 DEF ReviewKnows, InDeficit, TaskKnows, InReview, RiskInv, TypeOK, AccountType
  <2> QED  BY <1>1, <1>4, <1>7, <2>1, OthersIdle, CycleStep
<1> QED  BY <1>1, <1>5, <1>6, <1>7, FollowsOn DEF RiskInv

LEMMA CancelOpeningStep ==
    ASSUME RiskInv, NEW w \in Workers, CancelOpening(w)
    PROVE  RiskInv'
<1>1. /\ UNCHANGED << loss, held, orders, state, cover, tasks, dirty, unmarked >>
      /\ UNCHANGED << lease, lost >> /\ workers[w].pc = "cancelling"
      /\ opening' = 0 /\ slack' = slack + opening /\ opening \in Nat /\ slack \in Int
      /\ workers' = [workers EXCEPT ![w].pc = "cancelled", ![w].cancelled = opening > 0]
  BY DEF CancelOpening, market, numbers, marks, bounds, RiskInv, TypeOK, AccountType
<1>2. (opening > 0) \in BOOLEAN
  OBVIOUS
<1>3. /\ workers'[w].pc = "cancelled" /\ workers'[w].current = workers[w].current
      /\ \A v \in Workers \ {w} : workers'[v] = workers[v]
      /\ WorkerType'
  BY <1>1, <1>2 DEF RiskInv, TypeOK, WorkerType, Worker, Pcs, InReview
<1>4. TypeOK'
  <2>1. AccountType'
    BY <1>1 DEF RiskInv, TypeOK, AccountType
  <2>2. TasksExist'
    BY <1>1, <1>3 DEF RiskInv, TypeOK, TasksExist, InTask
  <2> QED  BY <1>1, <1>3, <2>1, <2>2 DEF RiskInv, TypeOK, OrderType, TaskType
<1>5. DeficitIsHandled'
  BY <1>1, HandledOn DEF RiskInv, DeficitIsHandled, DeficitIsWatched, InDeficit
<1>6. ASSUME ~lost PROVE CycleKnows'
  <2>1. ReviewKnows(w)
    BY <1>6 DEF RiskInv, CycleKnows
  <2>2. ReviewKnows(w)' /\ TaskKnows(w)'
    BY <1>1, <1>3, <2>1 DEF ReviewKnows, InDeficit, TaskKnows, InReview
  <2> QED  BY <1>1, <1>3, <1>6, <2>2, OthersIdle, CycleStep
<1> QED  BY <1>1, <1>4, <1>5, <1>6, FollowsOn DEF RiskInv

LEMMA RevalueCancelledStep ==
    ASSUME RiskInv, NEW w \in Workers, RevalueCancelled(w)
    PROVE  RiskInv'
<1>1. /\ UNCHANGED << loss, held, opening, orders, tasks, unmarked, lease, lost >>
      /\ workers[w].pc = "cancelled"
  BY DEF RevalueCancelled, market, numbers, bounds
<1>2. CASE workers[w].cancelled
  <2>1. /\ Revalued /\ dirty' = TRUE
        /\ workers' = [v \in Workers |-> [[workers EXCEPT ![w].pc = "again"][v]
                                            EXCEPT !.current = FALSE]]
    BY <1>2 DEF RevalueCancelled, MarkDirty
  <2>2. /\ slack' \in Int /\ cover' \in Int /\ state' \in States
        /\ state' \in {"LIQUIDATION_PENDING", "LIQUIDATING"} => state' = state
    BY <2>1, RevaluedType DEF RiskInv, TypeOK
  <2>3. /\ WorkerType' /\ workers'[w].pc = "again"
        /\ \A v \in Workers : workers'[v].current = FALSE
        /\ \A v \in Workers \ {w} : /\ workers'[v].pc = workers[v].pc
                                    /\ workers'[v].task = workers[v].task
    <3>1. PICK x \in Worker : x = [workers[w] EXCEPT !.pc = "again"]
      BY DEF RiskInv, TypeOK, WorkerType, Worker, Pcs, InReview
    <3>2. x.pc = "again"
      BY <3>1 DEF RiskInv, TypeOK, WorkerType, Worker
    <3>3. /\ [workers EXCEPT ![w] = x] \in [Workers -> Worker]
          /\ [workers EXCEPT ![w].pc = "again"] = [workers EXCEPT ![w] = x]
      BY <3>1 DEF RiskInv, TypeOK, WorkerType
    <3>4. \A y \in Worker : /\ [y EXCEPT !.current = FALSE] \in Worker
                           /\ [y EXCEPT !.current = FALSE].current = FALSE
                           /\ [y EXCEPT !.current = FALSE].pc = y.pc
                           /\ [y EXCEPT !.current = FALSE].task = y.task
      BY DEF Worker
    <3>5. /\ workers' = [v \in Workers |-> [[workers EXCEPT ![w] = x][v] EXCEPT !.current = FALSE]]
          /\ \A v \in Workers \ {w} : [workers EXCEPT ![w] = x][v] = workers[v]
          /\ [workers EXCEPT ![w] = x][w] = x
      BY <2>1, <3>3 DEF RiskInv, TypeOK, WorkerType
    <3> QED  BY <3>2, <3>3, <3>4, <3>5 DEF WorkerType
  <2>4. TypeOK'
    BY <1>1, <2>1, <2>2, <2>3
       DEF RiskInv, TypeOK, AccountType, OrderType, TaskType, TasksExist, InTask
  <2>5. DeficitIsHandled'
    BY <1>1, <2>1, <2>2, HandledMoves DEF DeficitIsWatched, InDeficit
  <2>6. ASSUME ~lost PROVE CycleKnows'
    <3>1. ReviewKnows(w)
      BY <2>6 DEF RiskInv, CycleKnows
    <3>2. ReviewKnows(w)' /\ TaskKnows(w)'
      BY <1>1, <2>2, <2>3, <3>1 DEF ReviewKnows, InDeficit, TaskKnows, InReview
    <3> QED  BY <1>1, <2>3, <2>6, <3>2, OthersIdle, CycleStep
  <2> QED  BY <1>1, <2>4, <2>5, <2>6, FollowsOn DEF RiskInv
<1>3. CASE ~workers[w].cancelled
  <2>1. UNCHANGED << slack, cover, state, dirty >> /\ Goto(w, "again")
    BY <1>3 DEF RevalueCancelled, numbers
  <2>2. /\ WorkerType' /\ workers'[w].pc = "again"
        /\ workers'[w].current = workers[w].current
        /\ \A v \in Workers \ {w} : workers'[v] = workers[v]
        /\ \A v \in Workers : workers'[v].pc \in InTask => workers'[v].task \in DOMAIN tasks
    <3>1. "again" \in Pcs /\ "again" \notin InTask
      BY DEF Pcs, InReview, InTask
    <3> QED  BY <2>1, <3>1, MovesOn
  <2>3. TypeOK'
    BY <1>1, <2>1, <2>2 DEF RiskInv, TypeOK, AccountType, OrderType, TaskType, TasksExist
  <2>4. DeficitIsHandled'
    BY <1>1, <2>1, HandledOn DEF RiskInv, DeficitIsHandled, DeficitIsWatched, InDeficit
  <2>5. ASSUME ~lost PROVE CycleKnows'
    <3>1. ReviewKnows(w)
      BY <2>5 DEF RiskInv, CycleKnows
    <3>2. ReviewKnows(w)' /\ TaskKnows(w)'
      BY <1>1, <2>1, <2>2, <3>1 DEF ReviewKnows, InDeficit, TaskKnows, InReview
    <3> QED  BY <1>1, <2>2, <2>5, <3>2, OthersIdle, CycleStep
  <2> QED  BY <1>1, <2>1, <2>3, <2>4, <2>5, FollowsOn DEF RiskInv
<1> QED  BY <1>2, <1>3

LEMMA ReviewAgainStep ==
    ASSUME RiskInv, NEW w \in Workers, ReviewAgain(w)
    PROVE  RiskInv'
<1>1. /\ UNCHANGED << loss, held, opening, orders, slack, cover, tasks, dirty, unmarked >>
      /\ UNCHANGED << lease, lost >> /\ workers[w].pc = "again"
      /\ state' = Assessed(state)
  BY DEF ReviewAgain, market, numbers, marks, bounds
<1>2. PICK pc \in {"creating", "clearing"} :
         /\ Goto(w, pc)
         /\ pc = "creating" <=> state' = "MARGIN_DEFICIT"
  BY DEF ReviewAgain
<1>3. /\ state' \in States
      /\ InDeficit => state' \notin SafeStates
      /\ state' \in {"LIQUIDATION_PENDING", "LIQUIDATING", "VALUATION_UNAVAILABLE"}
           => state' = state
  BY <1>1, AssessedFacts DEF RiskInv, TypeOK
<1>4. /\ WorkerType' /\ workers'[w].pc = pc
      /\ workers'[w].current = workers[w].current
      /\ \A v \in Workers \ {w} : workers'[v] = workers[v]
      /\ \A v \in Workers : workers'[v].pc \in InTask => workers'[v].task \in DOMAIN tasks
  <2>1. pc \in Pcs /\ pc \notin InTask
    BY DEF Pcs, InReview, InTask
  <2> QED  BY <1>2, <2>1, MovesOn
<1>5. TypeOK'
  BY <1>1, <1>3, <1>4 DEF RiskInv, TypeOK, AccountType, OrderType, TaskType, TasksExist
<1>6. DeficitIsHandled'
  BY <1>1, <1>3, HandledMoves DEF RiskInv, DeficitIsHandled, DeficitIsWatched, InDeficit
<1>7. ASSUME ~lost PROVE CycleKnows'
  <2>1. ReviewKnows(w)
    BY <1>7 DEF RiskInv, CycleKnows
  <2>2. ReviewKnows(w)' /\ TaskKnows(w)'
    BY <1>1, <1>2, <1>3, <1>4, <2>1
       DEF ReviewKnows, InDeficit, TaskKnows, InReview, RiskInv, TypeOK, AccountType, States, SafeStates
  <2> QED  BY <1>1, <1>4, <1>7, <2>2, OthersIdle, CycleStep
<1> QED  BY <1>1, <1>5, <1>6, <1>7, FollowsOn DEF RiskInv

LEMMA CreateTaskStep ==
    ASSUME RiskInv, NEW w \in Workers, CreateTask(w)
    PROVE  RiskInv'
<1>1. /\ UNCHANGED << loss, held, opening, orders, slack, cover, dirty, unmarked, lease, lost >>
      /\ workers[w].pc = "creating" /\ Goto(w, "tasks")
  BY DEF CreateTask, market, numbers, marks, bounds
<1>2. /\ WorkerType' /\ workers'[w].pc = "tasks"
      /\ \A v \in Workers \ {w} : workers'[v] = workers[v]
      /\ \A v \in Workers : workers'[v].pc \in InTask => workers'[v].task \in DOMAIN tasks
  <2>1. "tasks" \in Pcs /\ "tasks" \notin InTask
    BY DEF Pcs, InTask
  <2> QED  BY <1>1, <2>1, MovesOn
<1>3. ASSUME ~lost PROVE CycleKnows'
  <2>1. ReviewKnows(w)' /\ TaskKnows(w)'
    BY <1>2 DEF ReviewKnows, InDeficit, TaskKnows, InReview
  <2> QED  BY <1>1, <1>2, <1>3, <2>1, OthersIdle, CycleStep
<1>4. CASE ActiveTasks # {}
  <2>1. UNCHANGED << tasks, state >>
    BY <1>4 DEF CreateTask
  <2>2. TypeOK'
    BY <1>1, <1>2, <2>1 DEF RiskInv, TypeOK, AccountType, OrderType, TaskType, TasksExist
  <2>3. DeficitIsHandled'
    BY <1>1, <2>1, HandledOn DEF RiskInv, DeficitIsHandled, DeficitIsWatched, InDeficit
  <2> QED  BY <1>1, <1>3, <2>1, <2>2, <2>3, FollowsOn DEF RiskInv
<1>5. CASE ActiveTasks = {}
  <2>1. /\ state' = "LIQUIDATION_PENDING"
        /\ \/ tasks' = Append(tasks, NewTask)
           \/ \E t \in Forgotten : tasks' = [tasks EXCEPT ![t] = NewTask]
    BY <1>5 DEF CreateTask
  <2>2. tasks \in Seq(Task) /\ NewTask \in Task
    BY DEF RiskInv, TypeOK, TaskType, NewTask, Task, Keys
  <2>3. PICK n \in Nat :
           /\ tasks' \in Seq(Task) /\ DOMAIN tasks' = DOMAIN tasks \cup {n}
           /\ \A t \in DOMAIN tasks : t # n => tasks'[t] = tasks[t]
           /\ tasks'[n] = NewTask
           /\ \A key \in DOMAIN orders : orders[key].task # n
    <3>1. CASE tasks' = Append(tasks, NewTask)
      <4>1. /\ tasks' \in Seq(Task) /\ Len(tasks) \in Nat
            /\ DOMAIN tasks = 1 .. Len(tasks) /\ DOMAIN tasks' = 1 .. Len(tasks) + 1
            /\ \A t \in DOMAIN tasks : tasks'[t] = tasks[t]
            /\ tasks'[Len(tasks) + 1] = NewTask
        BY <2>2, <3>1
      <4>2. \A key \in DOMAIN orders : orders[key].task # Len(tasks) + 1
        BY <4>1 DEF RiskInv, TypeOK, TasksExist
      <4> QED  BY <4>1, <4>2
    <3>2. ASSUME NEW t \in Forgotten, tasks' = [tasks EXCEPT ![t] = NewTask]
          PROVE  /\ t \in Nat /\ tasks' \in Seq(Task)
                 /\ DOMAIN tasks' = DOMAIN tasks \cup {t}
                 /\ \A u \in DOMAIN tasks : u # t => tasks'[u] = tasks[u]
                 /\ tasks'[t] = NewTask
                 /\ \A key \in DOMAIN orders : orders[key].task # t
      <4>1. /\ t \in DOMAIN tasks /\ Len(tasks) \in Nat /\ DOMAIN tasks = 1 .. Len(tasks)
            /\ \A key \in DOMAIN orders : orders[key].task # t
        BY <2>2, <3>2 DEF Forgotten
      <4>2. tasks' \in Seq(Task) /\ DOMAIN tasks' = DOMAIN tasks
        BY <2>2, <3>2, <4>1
      <4>3. /\ tasks'[t] = NewTask
            /\ \A u \in DOMAIN tasks : u # t => tasks'[u] = tasks[u]
        BY <2>2, <3>2, <4>1
      <4> QED  BY <4>1, <4>2, <4>3
    <3> QED  BY <2>1, <3>1, <3>2
  <2>4. TypeOK'
    <3>1. AccountType'
      BY <1>1, <2>1 DEF RiskInv, TypeOK, AccountType, States
    <3>2. TasksExist'
      BY <1>1, <1>2, <2>3 DEF RiskInv, TypeOK, TasksExist
    <3> QED  BY <1>1, <1>2, <2>3, <3>1, <3>2 DEF RiskInv, TypeOK, OrderType, TaskType
  <2>5. ActiveTasks' = {n}
    <3>1. \A t \in DOMAIN tasks : t # n => tasks'[t].status \notin ActiveTaskStatuses
      BY <1>5, <2>3 DEF ActiveTasks
    <3>2. tasks'[n].status \in ActiveTaskStatuses
      BY <2>3 DEF NewTask, ActiveTaskStatuses
    <3> QED  BY <2>3, <3>1, <3>2 DEF ActiveTasks
  <2>6. OrdersFollowTasks'
    <3>1. NothingOversold' /\ OneOrderWorks'
      BY <1>1, OrdersStay DEF RiskInv, OrdersFollowTasks, NothingOversold, OneOrderWorks
    <3>2. CompletedLeavesNothing'
      BY <1>1, <2>3, OrdersStay
         DEF RiskInv, TypeOK, TasksExist, OrdersFollowTasks, CompletedLeavesNothing, Working
    <3> QED  BY <2>5, <3>1, <3>2 DEF OrdersFollowTasks, OneTask
  <2>7. DeficitIsHandled'
    BY <1>1, <2>5
       DEF RiskInv, DeficitIsHandled, DeficitIsWatched, InDeficit, LiquidationHasTask
  <2> QED  BY <1>1, <1>3, <2>4, <2>6, <2>7 DEF RiskInv
<1> QED  BY <1>4, <1>5

\* The mark that is cleared is the one the worker has read before its review.
LEMMA ClearStep ==
    ASSUME RiskInv, NEW w \in Workers, Clear(w)
    PROVE  RiskInv'
<1>1. /\ UNCHANGED << loss, held, opening, orders, state, slack, cover, tasks, unmarked >>
      /\ UNCHANGED << lease, lost >> /\ workers[w].pc = "clearing" /\ Goto(w, "tasks")
      /\ dirty' \in BOOLEAN
      /\ dirty /\ ~dirty' => workers[w].current
  BY DEF Clear, Clears, market, numbers, account, bounds, RiskInv, TypeOK, AccountType
<1>2. /\ WorkerType' /\ workers'[w].pc = "tasks"
      /\ \A v \in Workers \ {w} : workers'[v] = workers[v]
      /\ \A v \in Workers : workers'[v].pc \in InTask => workers'[v].task \in DOMAIN tasks
  <2>1. "tasks" \in Pcs /\ "tasks" \notin InTask
    BY DEF Pcs, InTask
  <2> QED  BY <1>1, <2>1, MovesOn
<1>3. TypeOK'
  BY <1>1, <1>2 DEF RiskInv, TypeOK, AccountType, OrderType, TaskType, TasksExist
<1>4. DeficitIsHandled'
  <2>1. lost \/ ReviewKnows(w)
    BY DEF RiskInv, CycleKnows
  <2>2. DeficitIsWatched'
    BY <1>1, <2>1 DEF RiskInv, DeficitIsHandled, DeficitIsWatched, InDeficit, ReviewKnows
  <2> QED  BY <1>1, <2>2, HandledOn
<1>5. ASSUME ~lost PROVE CycleKnows'
  <2>1. ReviewKnows(w)' /\ TaskKnows(w)'
    BY <1>2 DEF ReviewKnows, InDeficit, TaskKnows, InReview
  <2> QED  BY <1>1, <1>2, <1>5, <2>1, OthersIdle, CycleStep
<1> QED  BY <1>1, <1>3, <1>4, <1>5, FollowsOn DEF RiskInv

\* A step that takes a worker out of its review, or out of the execution of a task.
LEMMA LeavesStep ==
    ASSUME RiskInv, NEW w \in Workers, workers[w].pc # "idle",
           NEW pc \in {"tasks", "release"}, Goto(w, pc),
           UNCHANGED << loss, held, opening, orders, state, slack, cover, tasks, dirty, unmarked,
                        lease, lost >>
    PROVE  RiskInv'
<1>1. /\ WorkerType' /\ workers'[w].pc = pc
      /\ \A v \in Workers \ {w} : workers'[v] = workers[v]
      /\ \A v \in Workers : workers'[v].pc \in InTask => workers'[v].task \in DOMAIN tasks
  <2>1. pc \in Pcs /\ pc \notin InTask
    BY DEF Pcs, InTask
  <2> QED  BY <2>1, MovesOn
<1>2. TypeOK'
  BY <1>1 DEF RiskInv, TypeOK, AccountType, OrderType, TaskType, TasksExist
<1>3. DeficitIsHandled'
  BY HandledOn DEF RiskInv, DeficitIsHandled, DeficitIsWatched, InDeficit
<1>4. ASSUME ~lost PROVE CycleKnows'
  <2>1. ReviewKnows(w)' /\ TaskKnows(w)'
    BY <1>1 DEF ReviewKnows, InDeficit, TaskKnows, InReview
  <2> QED  BY <1>1, <1>4, <2>1, OthersIdle, CycleStep
<1> QED  BY <1>2, <1>3, <1>4, FollowsOn DEF RiskInv

LEMMA StopCycleStep ==
    ASSUME RiskInv, NEW w \in Workers, StopCycle(w)
    PROVE  RiskInv'
BY LeavesStep DEF StopCycle, market, numbers, account, marks, bounds

LEMMA ReviewFailsStep ==
    ASSUME RiskInv, NEW w \in Workers, ReviewFails(w)
    PROVE  RiskInv'
BY LeavesStep DEF ReviewFails, market, numbers, account, marks, bounds

\* A worker that is idle again: it has died, or it has finished its cycle.
LEMMA IdlesStep ==
    ASSUME RiskInv, NEW w \in Workers, workers' = [workers EXCEPT ![w] = NewWorker],
           workers[w].pc # "idle",
           UNCHANGED << loss, held, opening, orders, state, slack, cover, tasks, dirty, unmarked,
                        lost >>
    PROVE  RiskInv'
<1>1. /\ WorkerType' /\ workers'[w].pc = "idle"
      /\ \A v \in Workers \ {w} : workers'[v] = workers[v]
  BY DEF RiskInv, TypeOK, WorkerType, Worker, NewWorker, Pcs, Keys
<1>2. TypeOK'
  BY <1>1 DEF RiskInv, TypeOK, AccountType, OrderType, TaskType, TasksExist, InTask
<1>3. DeficitIsHandled'
  BY HandledOn DEF RiskInv, DeficitIsHandled, DeficitIsWatched, InDeficit
<1>4. ASSUME ~lost PROVE CycleKnows'
  <2>1. ReviewKnows(w)' /\ TaskKnows(w)'
    BY <1>1 DEF ReviewKnows, InDeficit, TaskKnows, InReview
  <2> QED  BY <1>1, <1>4, <2>1, OthersIdle, CycleStep
<1> QED  BY <1>2, <1>3, <1>4, FollowsOn DEF RiskInv

LEMMA ReleaseStep ==
    ASSUME RiskInv, NEW w \in Workers, Release(w)
    PROVE  RiskInv'
BY IdlesStep DEF Release, market, numbers, account, marks, bounds

LEMMA CrashStep ==
    ASSUME RiskInv, NEW w \in Workers, Crash(w)
    PROVE  RiskInv'
BY IdlesStep DEF Crash, market, numbers, account, marks, bounds

\* The lease of an idle worker expires, or the history remembers.
LEMMA ExpireLeaseStep ==
    ASSUME RiskInv, ExpireLease
    PROVE  RiskInv'
<1>1. /\ UNCHANGED << loss, held, opening, orders, state, slack, cover, tasks, dirty, unmarked >>
      /\ UNCHANGED workers /\ lease' = "none"
      /\ lost' = TRUE \/ (lost' = lost /\ \E w \in Workers : lease = w /\ workers[w].pc = "idle")
  BY DEF ExpireLease, market, numbers, account, marks
<1>2. TypeOK'
  BY <1>1 DEF RiskInv, TypeOK, AccountType, OrderType, TaskType, WorkerType, TasksExist
<1>3. DeficitIsHandled'
  BY <1>1, HandledOn DEF RiskInv, DeficitIsHandled, DeficitIsWatched, InDeficit
<1>4. lost' \/ CycleKnows'
  <2>1. SUFFICES ASSUME ~lost, lost' = lost,
                        NEW w \in Workers, lease = w, workers[w].pc = "idle"
                 PROVE  CycleKnows'
    BY <1>1
  <2>2. LeaseHeld'
    BY <1>1, <2>1 DEF RiskInv, CycleKnows, LeaseHeld
  <2> QED  BY <1>1, <2>1, <2>2, OrdersStay DEF RiskInv, CycleKnows, ReviewKnows, InDeficit, TaskKnows
<1> QED  BY <1>1, <1>2, <1>3, <1>4, FollowsOn DEF RiskInv

-----------------------------------------------------------------------------
(* The risk worker: execution of the task.                                 *)

\* A step that moves tasks on: an active one may end, and is completed only when no
\* order of it works.
LEMMA TasksMove ==
    ASSUME RiskInv, UNCHANGED << held, orders, lost >>, DOMAIN tasks' = DOMAIN tasks,
           \A t \in DOMAIN tasks :
              \/ tasks'[t].status = tasks[t].status
              \/ t \in ActiveTasks /\ (tasks'[t].status = "COMPLETED" => OrdersOf(t) = {})
    PROVE  OrdersFollowTasks' /\ ActiveTasks' \subseteq ActiveTasks
<1>1. ActiveTasks' \subseteq ActiveTasks
  BY DEF ActiveTasks
<1>2. NothingOversold' /\ OneOrderWorks'
  BY OrdersStay DEF RiskInv, OrdersFollowTasks, NothingOversold, OneOrderWorks
<1>3. OneTask'
  BY <1>1 DEF RiskInv, OrdersFollowTasks, OneTask
<1>4. CompletedLeavesNothing'
  <2>1. SUFFICES ASSUME ~lost, NEW key \in Working
                 PROVE  tasks'[orders[key].task].status # "COMPLETED"
    BY OrdersStay DEF CompletedLeavesNothing
  <2>2. /\ orders[key].task \in DOMAIN tasks
        /\ tasks[orders[key].task].status # "COMPLETED"
    BY <2>1 DEF RiskInv, TypeOK, TasksExist, OrdersFollowTasks, CompletedLeavesNothing, Working
  <2>3. key \in OrdersOf(orders[key].task)
    BY DEF OrdersOf
  <2> QED  BY <2>2, <2>3
<1> QED  BY <1>1, <1>2, <1>3, <1>4 DEF OrdersFollowTasks

\* What such a step leaves of the types.
LEMMA TaskStepType ==
    ASSUME RiskInv, UNCHANGED << loss, held, opening, orders, slack, cover, dirty >>,
           state' \in States, tasks' \in Seq(Task), DOMAIN tasks' = DOMAIN tasks, WorkerType',
           \A w \in Workers : workers'[w].pc \in InTask => workers'[w].task \in DOMAIN tasks
    PROVE  TypeOK'
<1>1. AccountType'
  BY DEF RiskInv, TypeOK, AccountType
<1>2. TasksExist'
  BY DEF RiskInv, TypeOK, TasksExist
<1> QED  BY <1>1, <1>2 DEF RiskInv, TypeOK, OrderType, TaskType

\* A worker that leaves the execution of a task knows nothing.
LEMMA LeavesTask ==
    ASSUME RiskInv, NEW w \in Workers, workers[w].pc # "idle",
           UNCHANGED << lease, lost >>,
           \A v \in Workers \ {w} : workers'[v] = workers[v],
           workers'[w].pc \in {"release", "withdraw", "recording", "retrying",
                               "unavailable", "finish"}
    PROVE  lost' \/ CycleKnows'
<1>1. ReviewKnows(w)' /\ TaskKnows(w)'
  BY DEF ReviewKnows, InDeficit, TaskKnows, InReview
<1> QED  BY <1>1, OthersIdle, CycleStep

\* One task's record changes.
LEMMA TaskChanges ==
    ASSUME RiskInv, NEW t \in DOMAIN tasks, NEW task \in Task,
           tasks' = [tasks EXCEPT ![t] = task]
    PROVE  /\ tasks' \in Seq(Task) /\ DOMAIN tasks' = DOMAIN tasks
           /\ \A s \in DOMAIN tasks : tasks'[s] = IF s = t THEN task ELSE tasks[s]
BY DEF RiskInv, TypeOK, TaskType

LEMMA ActiveTasksExist ==
    ASSUME RiskInv, NEW t \in ActiveTasks
    PROVE  /\ t \in DOMAIN tasks /\ t \in Nat
           /\ tasks[t] \in Task /\ tasks[t].status \in ActiveTaskStatuses
BY DEF RiskInv, TypeOK, TaskType, ActiveTasks

LEMMA MaxOfThree ==
    ASSUME NEW l \in Int, NEW m \in Int, NEW n \in Int
    PROVE  Max({l, m, n}) \in {l, m, n} /\ Max({l, m, n}) >= l
<1>1. \E x \in {l, m, n} : \A y \in {l, m, n} : x >= y
  OBVIOUS
<1> QED  BY <1>1 DEF Max

LEMMA CandidateType ==
    ASSUME RiskInv, Available > 0
    PROVE  Candidate \in Nat
<1>1. Available \in Int /\ slack \in Int /\ cover \in Int
  BY FrozenType DEF RiskInv, TypeOK, AccountType, Available
<1>2. Volume \in Int /\ Volume >= 1
  <2>1. RecoverySlack - cover \in Int /\ -slack \in Int
    BY <1>1, ThresholdAssumption
  <2> QED  BY <2>1, MaxOfThree DEF Volume
<1>3. Candidate \in {Available, Volume}
  BY <1>1, <1>2, MinOfTwo DEF Candidate
<1> QED  BY <1>1, <1>2, <1>3

LEMMA PrepareStep ==
    ASSUME RiskInv, NEW w \in Workers, Prepare(w)
    PROVE  RiskInv'
<1>1. /\ UNCHANGED << loss, held, opening, orders, slack, cover, dirty, unmarked, lease, lost >>
      /\ workers[w].pc = "tasks"
  BY DEF Prepare, market, numbers, marks, bounds
<1>2. CASE Goto(w, "release") /\ UNCHANGED << state, tasks >>
  BY <1>1, <1>2, LeavesStep
<1>3. ASSUME NEW t \in ActiveTasks, state \in SafeStates, UNCHANGED state,
             IF Completes(t)
             THEN /\ tasks' = [tasks EXCEPT ![t] = Completed(@)]
                  /\ Goto(w, "release")
             ELSE /\ UNCHANGED tasks
                  /\ \E key \in OrdersOf(t) :
                        workers' = [workers EXCEPT ![w].pc = "withdraw",
                                      ![w].task = t, ![w].key = key]
      PROVE  RiskInv'
  <2>1. t \in DOMAIN tasks /\ t \in Nat /\ tasks[t] \in Task
    BY ActiveTasksExist
  <2>2. CASE Completes(t)
    <3>1. Completed(tasks[t]) \in Task /\ Completed(tasks[t]).status = "COMPLETED"
      BY <2>1 DEF Completed, Task, Keys
    <3>2. /\ tasks' \in Seq(Task) /\ DOMAIN tasks' = DOMAIN tasks
          /\ \A s \in DOMAIN tasks : tasks'[s] = IF s = t THEN Completed(tasks[t]) ELSE tasks[s]
      BY <1>3, <2>1, <2>2, <3>1, TaskChanges
    <3>3. OrdersFollowTasks'
      BY <1>1, <2>2, <3>2, TasksMove DEF Completes
    <3>4. DeficitIsHandled'
      BY <1>1, <1>3 DEF RiskInv, DeficitIsHandled, DeficitIsWatched, InDeficit, LiquidationHasTask,
                        SafeStates
    <3>5. /\ WorkerType' /\ workers'[w].pc = "release"
          /\ \A v \in Workers \ {w} : workers'[v] = workers[v]
          /\ \A v \in Workers : workers'[v].pc \in InTask => workers'[v].task \in DOMAIN tasks
      <4>1. "release" \in Pcs /\ "release" \notin InTask
        BY DEF Pcs, InTask
      <4> QED  BY <1>3, <2>2, <4>1, MovesOn
    <3>6. TypeOK'
      BY <1>1, <1>3, <3>2, <3>5, TaskStepType DEF RiskInv, TypeOK, AccountType
    <3> QED  BY <1>1, <3>3, <3>4, <3>5, <3>6, LeavesTask DEF RiskInv
  <2>3. CASE ~Completes(t)
    <3>1. PICK key \in OrdersOf(t) :
             workers' = [workers EXCEPT ![w].pc = "withdraw", ![w].task = t, ![w].key = key]
      BY <1>3, <2>3
    <3>2. key \in Keys
      BY DEF OrdersOf, Working, RiskInv, TypeOK, OrderType
    <3>3. /\ WorkerType' /\ workers'[w].pc = "withdraw" /\ workers'[w].task = t
          /\ \A v \in Workers \ {w} : workers'[v] = workers[v]
      <4>1. "withdraw" \in Pcs /\ t \in Nat /\ workers \in [Workers -> Worker]
        BY <2>1 DEF RiskInv, TypeOK, WorkerType, Pcs, InTask
      <4> QED  BY <3>1, <3>2, <4>1 DEF WorkerType, Worker
    <3>4. TypeOK'
      BY <1>1, <1>3, <2>1, <2>3, <3>3, TaskStepType
         DEF RiskInv, TypeOK, AccountType, TaskType, TasksExist
    <3>5. DeficitIsHandled'
      BY <1>1, <1>3, <2>3, HandledOn DEF RiskInv, DeficitIsHandled, DeficitIsWatched, InDeficit
    <3> QED  BY <1>1, <1>3, <2>3, <3>3, <3>4, <3>5, FollowsOn, LeavesTask DEF RiskInv
  <2> QED  BY <2>2, <2>3
<1>4. ASSUME NEW t \in ActiveTasks, OrdersOf(t) = {}, Available > 0,
             state' = "LIQUIDATING",
             tasks' = [tasks EXCEPT ![t].status = "LIQUIDATING",
                         ![t].pending = PreparedKey(t),
                         ![t].version = IF PreparedKey(t) = tasks[t].pending
                                        THEN @ ELSE @ + 1],
             workers' = [workers EXCEPT ![w].pc = "ordering", ![w].task = t,
                           ![w].key = PreparedKey(t), ![w].volume = Candidate]
      PROVE  RiskInv'
  <2>1. t \in DOMAIN tasks /\ t \in Nat /\ tasks[t] \in Task
    BY ActiveTasksExist
  <2>2. PreparedKey(t) \in Keys /\ Candidate \in Nat
    BY <1>4, <2>1, CandidateType DEF PreparedKey, Keys, Task
  <2> DEFINE version == IF PreparedKey(t) = tasks[t].pending THEN tasks[t].version
                        ELSE tasks[t].version + 1
             task == [tasks[t] EXCEPT !.status = "LIQUIDATING", !.pending = PreparedKey(t),
                                      !.version = version]
  <2>3. version \in Nat
    BY <2>1 DEF Task
  <2>4. tasks' = [tasks EXCEPT ![t] = task]
    BY <1>4, <2>1 DEF RiskInv, TypeOK, TaskType
  <2> HIDE DEF version
  <2>5. task \in Task /\ task.status = "LIQUIDATING"
    BY <2>1, <2>2, <2>3 DEF Task
  <2> HIDE DEF task
  <2>6. /\ tasks' \in Seq(Task) /\ DOMAIN tasks' = DOMAIN tasks
        /\ \A s \in DOMAIN tasks : tasks'[s] = IF s = t THEN task ELSE tasks[s]
    BY <2>1, <2>4, <2>5, TaskChanges
  <2>7. OrdersFollowTasks'
    BY <1>1, <2>5, <2>6, TasksMove
  <2>8. DeficitIsHandled'
    <3>1. t \in ActiveTasks'
      BY <2>1, <2>5, <2>6 DEF ActiveTasks, ActiveTaskStatuses
    <3> QED  BY <1>1, <3>1 DEF RiskInv, DeficitIsHandled, DeficitIsWatched, InDeficit, LiquidationHasTask
  <2>9. /\ WorkerType' /\ workers'[w].pc = "ordering" /\ workers'[w].task = t
        /\ \A v \in Workers \ {w} : workers'[v] = workers[v]
    <3> DEFINE next == [workers[w] EXCEPT !.pc = "ordering", !.task = t,
                          !.key = PreparedKey(t), !.volume = Candidate]
    <3>1. workers' = [workers EXCEPT ![w] = next]
      BY <1>4 DEF RiskInv, TypeOK, WorkerType
    <3>2. /\ next \in Worker /\ next.pc = "ordering" /\ next.task = t
      <4>1. workers[w] \in Worker /\ "ordering" \in Pcs
        BY DEF RiskInv, TypeOK, WorkerType, Pcs, InTask
      <4> QED  BY <2>1, <2>2, <4>1 DEF Worker
    <3> HIDE DEF next
    <3> QED  BY <3>1, <3>2 DEF RiskInv, TypeOK, WorkerType
  <2>10. TypeOK'
    <3>1. \A v \in Workers : workers'[v].pc \in InTask => workers'[v].task \in DOMAIN tasks
      BY <2>1, <2>9 DEF RiskInv, TypeOK, TasksExist
    <3>2. state' \in States
      BY <1>4 DEF States
    <3> QED  BY <1>1, <2>6, <2>9, <3>1, <3>2, TaskStepType
  <2>11. ASSUME ~lost PROVE CycleKnows'
    <3>1. ReviewKnows(w)' /\ TaskKnows(w)'
      <4>1. ReviewKnows(w)'
        BY <2>9 DEF ReviewKnows, InDeficit, InReview
      <4>2. TaskKnows(w)'
        BY <1>1, <1>4, <2>1, <2>5, <2>6, <2>9, OrdersStay DEF TaskKnows
      <4> QED  BY <4>1, <4>2
    <3> QED  BY <1>1, <2>9, <2>11, <3>1, OthersIdle, CycleStep
  <2> QED  BY <1>1, <2>7, <2>8, <2>10, <2>11 DEF RiskInv
<1> QED  BY <1>2, <1>3, <1>4 DEF Prepare

\* A step within the execution of a task that only moves the worker on.
LEMMA TaskGoesOn ==
    ASSUME RiskInv, NEW w \in Workers, workers[w].pc \in InTask,
           NEW pc \in {"release", "recording", "retrying", "unavailable", "finish"},
           Goto(w, pc),
           UNCHANGED << loss, held, opening, orders, state, slack, cover, tasks, dirty, unmarked,
                        lease, lost >>
    PROVE  RiskInv'
<1>1. /\ WorkerType' /\ workers'[w].pc = pc
      /\ \A v \in Workers \ {w} : workers'[v] = workers[v]
      /\ \A v \in Workers : workers'[v].pc \in InTask => workers'[v].task \in DOMAIN tasks
  <2>1. pc \in Pcs
    BY DEF Pcs, InTask
  <2> QED  BY <2>1, MovesOn
<1>2. TypeOK'
  BY <1>1 DEF RiskInv, TypeOK, AccountType, OrderType, TaskType, TasksExist
<1>3. DeficitIsHandled'
  BY HandledOn DEF RiskInv, DeficitIsHandled, DeficitIsWatched, InDeficit
<1>4. lost' \/ CycleKnows'
  BY <1>1, LeavesTask DEF InTask
<1> QED  BY <1>2, <1>3, <1>4, FollowsOn DEF RiskInv

\* The order a worker creates: the lots are there, and its task has none.
LEMMA OrderIsCreated ==
    ASSUME RiskInv, NEW w \in Workers, workers[w].pc = "ordering",
           workers[w].key \notin DOMAIN orders, workers[w].volume <= Available,
           orders' = WithOrder(w),
           NEW pc \in {"recording", "retrying"}, Goto(w, pc),
           UNCHANGED << loss, held, opening, state, slack, cover, tasks, dirty, unmarked, lease,
                        lost >>
    PROVE  RiskInv'
<1> DEFINE key == workers[w].key
           order == [task |-> workers[w].task, volume |-> workers[w].volume,
                     price |-> loss, left |-> workers[w].volume, active |-> TRUE]
<1>1. /\ DOMAIN orders' = DOMAIN orders \cup {key} /\ orders'[key] = order
      /\ \A k \in DOMAIN orders : orders'[k] = orders[k]
      /\ orders' = [k \in DOMAIN orders' |-> orders'[k]]
  BY DEF WithOrder
<1>2. /\ workers[w].task \in DOMAIN tasks /\ workers[w].task \in Nat /\ key \in Keys
      /\ workers[w].volume \in Nat /\ loss \in Int
  BY DEF RiskInv, TypeOK, AccountType, WorkerType, Worker, TasksExist, InTask
<1>3. /\ order \in Order /\ order.task = workers[w].task /\ order.active
      /\ order.left = workers[w].volume
  BY <1>2 DEF Order
<1> HIDE DEF key, order
<1>4. OrderType'
  BY <1>1, <1>2, <1>3, FS_AddElement DEF RiskInv, TypeOK, OrderType
<1>5. Working' = Working \cup {key} /\ key \notin Working
  BY <1>1, <1>3 DEF Working, key
<1>6. NothingOversold'
  <2>1. Frozen' = Frozen + workers[w].volume
    BY <1>1, <1>3, <1>4, <1>5, FrozenGrows DEF RiskInv, TypeOK, Working
  <2>2. Frozen \in Nat /\ held \in Int
    BY FrozenType DEF RiskInv, TypeOK, AccountType
  <2> QED  BY <1>2, <2>1, <2>2 DEF NothingOversold, Available
<1>7. OrdersFollowTasks'
  <2>1. \A k \in Working : orders'[k] = orders[k]
    BY <1>1 DEF Working
  <2>2. ASSUME ~lost PROVE OneOrderWorks' /\ CompletedLeavesNothing'
    <3>1. /\ \A k \in Working : orders[k].task # workers[w].task
          /\ tasks[workers[w].task].status # "COMPLETED"
      BY <2>2 DEF RiskInv, CycleKnows, TaskKnows, OrdersOf
    <3>2. OneOrderWorks'
      BY <1>1, <1>3, <1>5, <2>1, <2>2, <3>1
         DEF RiskInv, OrdersFollowTasks, OneOrderWorks
    <3>3. CompletedLeavesNothing'
      BY <1>1, <1>3, <1>5, <2>1, <2>2, <3>1
         DEF RiskInv, OrdersFollowTasks, CompletedLeavesNothing
    <3> QED  BY <3>2, <3>3
  <2>3. OneTask'
    BY TasksStay DEF RiskInv, OrdersFollowTasks, OneTask
  <2> QED  BY <1>6, <2>2, <2>3 DEF OrdersFollowTasks, OneOrderWorks, CompletedLeavesNothing
<1>8. /\ WorkerType' /\ workers'[w].pc = pc
      /\ \A v \in Workers \ {w} : workers'[v] = workers[v]
      /\ \A v \in Workers : workers'[v].pc \in InTask => workers'[v].task \in DOMAIN tasks
  <2>1. pc \in Pcs /\ workers[w].pc \in InTask
    BY DEF Pcs, InTask
  <2> QED  BY <2>1, MovesOn
<1>9. TypeOK'
  <2>1. TasksExist'
    BY <1>1, <1>2, <1>3, <1>8 DEF RiskInv, TypeOK, TasksExist
  <2> QED  BY <1>4, <1>8, <2>1 DEF RiskInv, TypeOK, AccountType, TaskType
<1>10. DeficitIsHandled'
  BY HandledOn DEF RiskInv, DeficitIsHandled, DeficitIsWatched, InDeficit
<1>11. lost' \/ CycleKnows'
  BY <1>8, LeavesTask
<1> QED  BY <1>7, <1>9, <1>10, <1>11 DEF RiskInv

LEMMA CreateOrderStep ==
    ASSUME RiskInv, NEW w \in Workers, CreateOrder(w)
    PROVE  RiskInv'
<1>1. /\ UNCHANGED << loss, held, opening, state, slack, cover, tasks, dirty, unmarked, lease, lost >>
      /\ workers[w].pc = "ordering" /\ workers[w].pc \in InTask
  BY DEF CreateOrder, market, numbers, marks, bounds, InTask
<1>2. \/ \E pc \in {"unavailable", "recording", "retrying"} :
            Goto(w, pc) /\ UNCHANGED orders
      \/ \E pc \in {"recording", "retrying"} :
            /\ Goto(w, pc) /\ orders' = WithOrder(w)
            /\ workers[w].key \notin DOMAIN orders /\ workers[w].volume <= Available
  BY DEF CreateOrder
<1> QED  BY <1>1, <1>2, TaskGoesOn, OrderIsCreated

LEMMA RecordOrderStep ==
    ASSUME RiskInv, NEW w \in Workers, RecordOrder(w)
    PROVE  RiskInv'
<1> DEFINE t == workers[w].task
           task == [tasks[t] EXCEPT !.retries = 0, !.pending = NoKey, !.last = workers[w].key]
<1>1. /\ UNCHANGED << loss, held, opening, orders, state, slack, cover, dirty, unmarked, lease, lost >>
      /\ workers[w].pc = "recording" /\ workers[w].pc \in InTask /\ Goto(w, "release")
  BY DEF RecordOrder, market, numbers, marks, bounds, InTask
<1>2. t \in DOMAIN tasks /\ tasks[t] \in Task /\ workers[w].key \in Keys
  BY <1>1 DEF RiskInv, TypeOK, TaskType, TasksExist, WorkerType, Worker
<1>3. UNCHANGED tasks \/ tasks' = [tasks EXCEPT ![t] = task]
  BY <1>2 DEF RecordOrder, RiskInv, TypeOK, TaskType
<1>4. task \in Task /\ task.status = tasks[t].status
  BY <1>2 DEF Task, Keys
<1> HIDE DEF task, t
<1>5. CASE UNCHANGED tasks
  BY <1>1, <1>5, TaskGoesOn
<1>6. CASE tasks' = [tasks EXCEPT ![t] = task]
  <2>1. /\ tasks' \in Seq(Task) /\ DOMAIN tasks' = DOMAIN tasks
        /\ \A s \in DOMAIN tasks : tasks'[s] = IF s = t THEN task ELSE tasks[s]
    BY <1>2, <1>4, <1>6, TaskChanges
  <2>2. OrdersFollowTasks' /\ ActiveTasks' = ActiveTasks
    BY <1>1, <1>4, <2>1, TasksMove DEF ActiveTasks
  <2>3. DeficitIsHandled'
    BY <1>1, <2>2 DEF RiskInv, DeficitIsHandled, DeficitIsWatched, InDeficit, LiquidationHasTask
  <2>4. /\ WorkerType' /\ workers'[w].pc = "release"
        /\ \A v \in Workers \ {w} : workers'[v] = workers[v]
        /\ \A v \in Workers : workers'[v].pc \in InTask => workers'[v].task \in DOMAIN tasks
    <3>1. "release" \in Pcs
      BY DEF Pcs
    <3> QED  BY <1>1, <3>1, MovesOn
  <2>5. TypeOK'
    BY <1>1, <2>1, <2>4, TaskStepType DEF RiskInv, TypeOK, AccountType
  <2> QED  BY <1>1, <2>2, <2>3, <2>4, <2>5, LeavesTask DEF RiskInv
<1> QED  BY <1>3, <1>5, <1>6

\* An active task ends, or goes back to pending, as its worker leaves it.
LEMMA TaskIsLeft ==
    ASSUME RiskInv, NEW w \in Workers, workers[w].pc \in InTask, Goto(w, "release"),
           UNCHANGED << loss, held, opening, orders, slack, cover, dirty, unmarked, lease, lost >>,
           NEW t \in ActiveTasks, NEW task \in Task, tasks' = [tasks EXCEPT ![t] = task],
           task.status = "COMPLETED" => OrdersOf(t) = {},
           state' \in States,
           state' \in {"LIQUIDATION_PENDING", "LIQUIDATING"} =>
             task.status \in ActiveTaskStatuses
    PROVE  RiskInv'
<1>1. t \in DOMAIN tasks
  BY ActiveTasksExist
<1>2. /\ tasks' \in Seq(Task) /\ DOMAIN tasks' = DOMAIN tasks
      /\ \A s \in DOMAIN tasks : tasks'[s] = IF s = t THEN task ELSE tasks[s]
  BY <1>1, TaskChanges
<1>3. OrdersFollowTasks'
  BY <1>2, TasksMove
<1>4. DeficitIsHandled'
  <2>1. task.status \in ActiveTaskStatuses => t \in ActiveTasks'
    BY <1>1, <1>2 DEF ActiveTasks
  <2> QED  BY <2>1 DEF RiskInv, DeficitIsHandled, DeficitIsWatched, InDeficit, LiquidationHasTask
<1>5. /\ WorkerType' /\ workers'[w].pc = "release"
      /\ \A v \in Workers \ {w} : workers'[v] = workers[v]
      /\ \A v \in Workers : workers'[v].pc \in InTask => workers'[v].task \in DOMAIN tasks
  <2>1. "release" \in Pcs
    BY DEF Pcs
  <2> QED  BY <2>1, MovesOn
<1>6. TypeOK'
  BY <1>2, <1>5, TaskStepType
<1>7. lost' \/ CycleKnows'
  BY <1>5, LeavesTask DEF InTask
<1> QED  BY <1>3, <1>4, <1>6, <1>7 DEF RiskInv

LEMMA RecordRetryStep ==
    ASSUME RiskInv, NEW w \in Workers, RecordRetry(w)
    PROVE  RiskInv'
<1> DEFINE t == workers[w].task
           last == tasks[t].retries + 1 >= MaxRetries
           task == [tasks[t] EXCEPT !.retries = @ + 1,
                                    !.status = IF last THEN "FAILED" ELSE "PENDING",
                                    !.pending = IF last THEN NoKey ELSE @]
<1>1. /\ UNCHANGED << loss, held, opening, orders, slack, cover, dirty, unmarked, lease, lost >>
      /\ workers[w].pc \in InTask /\ Goto(w, "release")
  BY DEF RecordRetry, market, numbers, marks, bounds, InTask
<1>2. CASE t \notin ActiveTasks
  <2>1. UNCHANGED << tasks, state >>
    BY <1>2 DEF RecordRetry
  <2> QED  BY <1>1, <2>1, TaskGoesOn
<1>3. CASE t \in ActiveTasks
  <2>1. t \in DOMAIN tasks /\ tasks[t] \in Task
    BY <1>3, ActiveTasksExist
  <2>2. tasks' = [tasks EXCEPT ![t] = task]
    BY <1>3, <2>1 DEF RecordRetry, RiskInv, TypeOK, TaskType
  <2>3. state' = IF last THEN "MARGIN_DEFICIT" ELSE state
    BY <1>3 DEF RecordRetry, StateAfterFailure
  <2>4. /\ task \in Task /\ task.status \in {"FAILED", "PENDING"}
        /\ ~last => task.status = "PENDING"
    <3> DEFINE status == IF last THEN "FAILED" ELSE "PENDING"
               pending == IF last THEN NoKey ELSE tasks[t].pending
    <3>1. /\ status \in {"FAILED", "PENDING"} /\ pending \in Keys
          /\ ~last => status = "PENDING"
      <4> HIDE DEF last
      <4> QED  BY <2>1 DEF Task, Keys
    <3>2. task = [tasks[t] EXCEPT !.retries = tasks[t].retries + 1, !.status = status,
                                  !.pending = pending]
      BY <2>1 DEF Task
    <3> HIDE DEF status, pending, last, task
    <3>3. tasks[t].retries + 1 \in Nat
      BY <2>1 DEF Task
    <3>4. task.status = status
      BY <2>1, <3>2 DEF Task
    <3>5. task \in Task
      BY <2>1, <3>1, <3>2, <3>3 DEF Task
    <3> QED  BY <3>1, <3>4, <3>5
  <2>5. /\ state' \in States
        /\ state' \in {"LIQUIDATION_PENDING", "LIQUIDATING"} => ~last
    BY <2>3 DEF RiskInv, TypeOK, AccountType, States
  <2> HIDE DEF task, last, t
  <2> QED  BY <1>1, <1>3, <2>2, <2>4, <2>5, TaskIsLeft DEF ActiveTaskStatuses
<1> QED  BY <1>2, <1>3

LEMMA MarkUnavailableStep ==
    ASSUME RiskInv, NEW w \in Workers, MarkUnavailable(w)
    PROVE  RiskInv'
<1> DEFINE t == workers[w].task
           task == [tasks[t] EXCEPT !.status = "PENDING"]
<1>1. /\ UNCHANGED << loss, held, opening, orders, slack, cover, dirty, unmarked, lease, lost >>
      /\ workers[w].pc \in InTask /\ Goto(w, "release")
  BY DEF MarkUnavailable, market, numbers, marks, bounds, InTask
<1>2. CASE t \notin ActiveTasks
  <2>1. UNCHANGED << tasks, state >>
    BY <1>2 DEF MarkUnavailable
  <2> QED  BY <1>1, <2>1, TaskGoesOn
<1>3. CASE t \in ActiveTasks
  <2>1. t \in DOMAIN tasks /\ tasks[t] \in Task
    BY <1>3, ActiveTasksExist
  <2>2. tasks' = [tasks EXCEPT ![t] = task] /\ state' = "VALUATION_UNAVAILABLE"
    BY <1>3, <2>1 DEF MarkUnavailable, RiskInv, TypeOK, TaskType
  <2>3. task \in Task /\ task.status = "PENDING"
    BY <2>1 DEF Task
  <2> HIDE DEF task, t
  <2> QED  BY <1>1, <1>3, <2>2, <2>3, TaskIsLeft DEF States
<1> QED  BY <1>2, <1>3

LEMMA WithdrawStep ==
    ASSUME RiskInv, NEW w \in Workers, Withdraw(w)
    PROVE  RiskInv'
<1> DEFINE key == workers[w].key
<1>1. /\ UNCHANGED << loss, held, opening, state, slack, cover, tasks, dirty, unmarked, lease, lost >>
      /\ workers[w].pc = "withdraw" /\ workers[w].pc \in InTask
  BY DEF Withdraw, market, numbers, marks, bounds, InTask
<1>2. CASE UNCHANGED orders /\ Goto(w, "retrying")
  BY <1>1, <1>2, TaskGoesOn
<1>3. CASE orders' = [orders EXCEPT ![key].active = FALSE] /\ Goto(w, "finish")
  <2>1. /\ OrderType' /\ OrdersFollowTasks'
        /\ \A k \in DOMAIN orders' : orders'[k].task \in DOMAIN tasks
    BY <1>1, <1>3, OrderEnds
  <2>2. /\ WorkerType' /\ workers'[w].pc = "finish"
        /\ \A v \in Workers \ {w} : workers'[v] = workers[v]
        /\ \A v \in Workers : workers'[v].pc \in InTask => workers'[v].task \in DOMAIN tasks
    <3>1. "finish" \in Pcs
      BY DEF Pcs, InTask
    <3> QED  BY <1>1, <1>3, <3>1, MovesOn
  <2>3. TypeOK'
    BY <1>1, <2>1, <2>2 DEF RiskInv, TypeOK, AccountType, TaskType, TasksExist
  <2>4. DeficitIsHandled'
    BY <1>1, HandledOn DEF RiskInv, DeficitIsHandled, DeficitIsWatched, InDeficit
  <2>5. lost' \/ CycleKnows'
    BY <1>1, <2>2, LeavesTask
  <2> QED  BY <2>1, <2>3, <2>4, <2>5 DEF RiskInv
<1> QED  BY <1>2, <1>3 DEF Withdraw

LEMMA FinishStep ==
    ASSUME RiskInv, NEW w \in Workers, Finish(w)
    PROVE  RiskInv'
<1> DEFINE t == workers[w].task
           done == t \in ActiveTasks /\ state \in SafeStates /\ Completes(t)
<1>1. /\ UNCHANGED << loss, held, opening, orders, state, slack, cover, dirty, unmarked, lease, lost >>
      /\ workers[w].pc \in InTask /\ Goto(w, "release")
  BY DEF Finish, market, numbers, marks, bounds, InTask
<1>2. CASE ~done
  <2>1. UNCHANGED tasks
    BY <1>2 DEF Finish
  <2> QED  BY <1>1, <2>1, TaskGoesOn
<1>3. CASE done
  <2>1. t \in DOMAIN tasks /\ tasks[t] \in Task
    BY <1>3, ActiveTasksExist
  <2>2. tasks' = [tasks EXCEPT ![t] = Completed(tasks[t])]
    BY <1>3, <2>1 DEF Finish, RiskInv, TypeOK, TaskType
  <2>3. Completed(tasks[t]) \in Task
    BY <2>1 DEF Completed, Task, Keys
  <2>4. OrdersOf(t) = {} /\ state' \in SafeStates /\ state' \in States
    BY <1>1, <1>3 DEF Completes, States, SafeStates
  <2>5. state' \notin {"LIQUIDATION_PENDING", "LIQUIDATING"}
    BY <2>4 DEF SafeStates
  <2> HIDE DEF t
  <2> QED  BY <1>1, <1>3, <2>2, <2>3, <2>4, <2>5, TaskIsLeft
<1> QED  BY <1>2, <1>3

-----------------------------------------------------------------------------
(* The theorems.                                                           *)

LEMMA RiskInvInit == Init => RiskInv
<1> SUFFICES ASSUME Init PROVE RiskInv
  OBVIOUS
<1>1. /\ orders = << >> /\ tasks = << >> /\ DOMAIN orders = {}
      /\ state = "NORMAL" /\ slack \in Nat /\ cover = slack /\ held \in Nat
      /\ ~InDeficit
  BY BoundsAssumption, ThresholdAssumption DEF Init, InDeficit
<1>2. NewWorker \in Worker /\ NewWorker.pc = "idle"
  BY DEF NewWorker, Worker, Pcs, Keys
<1>3. TypeOK
  <2>1. AccountType /\ TaskType
    <3>1. AccountType
      <4>1. loss \in Int /\ opening \in Nat
        BY DEF Init
      <4>2. dirty \in BOOLEAN
        BY Zenon DEF Init
      <4>3. held \in Int /\ slack \in Int /\ cover \in Int /\ state \in States
        BY <1>1 DEF States
      <4> QED  BY <4>1, <4>2, <4>3 DEF AccountType
    <3>2. << >> \in Seq(Task)
      OBVIOUS
    <3> QED  BY <1>1, <3>1, <3>2 DEF TaskType
  <2>2. OrderType
    BY <1>1, FS_EmptySet DEF OrderType
  <2>3. WorkerType /\ TasksExist
    BY <1>1, <1>2 DEF Init, WorkerType, TasksExist, InTask
  <2> QED  BY <2>1, <2>2, <2>3 DEF TypeOK
<1>4. Working = {} /\ ActiveTasks = {}
  BY <1>1 DEF Working, ActiveTasks
<1>5. OrdersFollowTasks
  <2>1. Frozen = 0
    BY <1>4, SumEmpty DEF Frozen
  <2> QED  BY <1>1, <1>4, <2>1
           DEF OrdersFollowTasks, NothingOversold, OneTask, OneOrderWorks, CompletedLeavesNothing
<1>6. DeficitIsHandled
  BY <1>1 DEF DeficitIsHandled, DeficitIsWatched, InDeficit, LiquidationHasTask
<1>7. CycleKnows
  BY <1>2 DEF Init, CycleKnows, LeaseHeld, ReviewKnows, InDeficit, TaskKnows, InReview
<1> QED  BY <1>3, <1>5, <1>6, <1>7 DEF RiskInv

LEMMA RiskInvStep == RiskInv /\ [Next]_vars => RiskInv'
<1> SUFFICES ASSUME RiskInv, [Next]_vars PROVE RiskInv'
  OBVIOUS
<1>1. ASSUME NEW to \in 0 .. MaxLoss, MarketMoves(to) PROVE RiskInv'
  BY <1>1, MarketMovesStep
<1>2. CASE QuoteEnds("old") \/ QuoteEnds("missing") \/ QuoteReturns
  BY <1>2, QuoteChangesStep
<1>3. ASSUME NEW lots \in OpenVolumes, UserOpens(lots) PROVE RiskInv'
  BY <1>3, UserOpensStep
<1>4. CASE OpeningFills
  BY <1>4, OpeningFillsStep
<1>5. ASSUME NEW key \in DOMAIN orders, UserCancels(key) PROVE RiskInv'
  BY <1>5, UserCancelsStep
<1>6. ASSUME NEW key \in DOMAIN orders, NEW lots \in 1 .. orders[key].left,
             NEW borne \in {0, loss}, LiquidationFills(key, lots, borne)
      PROVE  RiskInv'
  BY <1>6, LiquidationFillsStep
<1>7. CASE Value \/ Mark
  BY <1>7, ValueStep, MarkStep
<1>8. ASSUME NEW w \in Workers, Acquire(w) \/ List(w) \/ Reconcile(w) PROVE RiskInv'
  BY <1>8, AcquireStep, ListStep, ReconcileStep
<1>9. ASSUME NEW w \in Workers, ReviewStep(w) PROVE RiskInv'
  BY <1>9, ReviewStepOne, CancelOpeningStep, RevalueCancelledStep, ReviewAgainStep,
     CreateTaskStep, ClearStep DEF ReviewStep
<1>10. ASSUME NEW w \in Workers, TaskStep(w) PROVE RiskInv'
  BY <1>10, PrepareStep, CreateOrderStep, RecordOrderStep, RecordRetryStep,
     MarkUnavailableStep, WithdrawStep, FinishStep, ReleaseStep DEF TaskStep
<1>11. ASSUME NEW w \in Workers, StopCycle(w) \/ ReviewFails(w) \/ Crash(w) PROVE RiskInv'
  BY <1>11, StopCycleStep, ReviewFailsStep, CrashStep
<1>12. CASE ExpireLease
  BY <1>12, ExpireLeaseStep
<1>13. CASE UNCHANGED vars
  <2>1. /\ UNCHANGED << loss, held, opening, orders, state, slack, cover, tasks, dirty, unmarked >>
        /\ UNCHANGED << lease, workers, lost >>
    BY <1>13 DEF vars
  <2>2. TypeOK'
    BY <2>1 DEF RiskInv, TypeOK, AccountType, OrderType, TaskType, WorkerType, TasksExist
  <2>3. DeficitIsHandled'
    BY <2>1, HandledOn DEF RiskInv, DeficitIsHandled, DeficitIsWatched, InDeficit
  <2> QED  BY <2>1, <2>2, <2>3, FollowsOn, KnowsOn DEF RiskInv
<1> QED  BY <1>1, <1>2, <1>3, <1>4, <1>5, <1>6, <1>7, <1>8, <1>9, <1>10, <1>11, <1>12, <1>13
         DEF Next, WorkerStep

THEOREM RiskInvHolds == Spec => []RiskInv
<1> QED  BY RiskInvInit, RiskInvStep, PTL DEF Spec

\* Liquidation only reduces the position: working orders never close more lots than
\* are held.  The account has one task at most that is not done, a task has one
\* working order at most, and a completed task none.
THEOREM OrdersAlwaysFollowTasks == Spec => []OrdersFollowTasks
<1>1. RiskInv => OrdersFollowTasks
  BY DEF RiskInv
<1> QED  BY <1>1, RiskInvHolds, PTL

\* A deficit in the account row stays known to the risk worker until it has been dealt
\* with, and an account in a state of liquidation has a task.
THEOREM DeficitIsAlwaysHandled == Spec => []DeficitIsHandled
<1>1. RiskInv => DeficitIsHandled
  BY DEF RiskInv
<1> QED  BY <1>1, RiskInvHolds, PTL

=============================================================================
