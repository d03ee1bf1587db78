---------------------------- MODULE RiskLiquidation ----------------------------
(***************************************************************************)
(* Risk control of one futures account.  The persistence worker values the *)
(* account and marks it dirty for the risk worker.  The risk worker, one   *)
(* of several that share a lease without a fence, assesses the account's   *)
(* state in a transaction, cancels its opening orders, has it valued       *)
(* again, creates a liquidation task, and executes the tasks: it prepares  *)
(* a reduce-only order under the account's lock, with an idempotency key   *)
(* it has stored first, creates the order in another transaction and       *)
(* records it in a third.                                                  *)
(*                                                                         *)
(* The risk ratio is its margin (one for each lot) against its equity.     *)
(* Here it is the difference, its cover, and the thresholds are those of   *)
(* the ratio: an account is in deficit below LiquidationSlack, gets a      *)
(* warning below WarningSlack and has recovered from RecoverySlack on.  It *)
(* is in deficit too when its cover is less than its opening order takes.  *)
(*                                                                         *)
(* Not modelled: options (protected pairs), several candidates, the amount *)
(* of a commission, the settlement gate, the owner's own closing orders    *)
(* and the risk events.                                                    *)
(***************************************************************************)
EXTENDS Integers, Sequences, FiniteSets, FiniteSetsExt

CONSTANTS
    Workers,
    Funds,            \* equity before any loss
    InitialLots,      \* lots the account holds
    LiquidationSlack, \* 1 is a risk_liquidation_ratio of 1.00, and more a lower one
    WarningSlack, RecoverySlack,
    Fee,              \* 1 where closing costs a commission, a fraction of a lot's
                      \*  margin, and 0 where it is free
    MaxLoss,          \* bound on the market's loss
    MaxRetries,       \* settings.risk_liquidation_max_retries
    OpenVolumes,      \* lots the owner may ask for
    MaxOpens,         \* bound: opening orders of the owner
    MaxMoves,         \* bound: moves of the market
    MaxFaults,        \* bound: crashes, lost leases, failed calls, lost quotes
                      \*  and cancellations by the owner
    MaxTroubles       \* bound: moves and faults together

\* AccountRiskStateService.validate_thresholds.
ASSUME ThresholdAssumption ==
    /\ LiquidationSlack \in Nat \ {0} /\ WarningSlack \in Nat /\ RecoverySlack \in Nat
    /\ LiquidationSlack < WarningSlack /\ WarningSlack < RecoverySlack
\* The account starts without a deficit.
ASSUME BoundsAssumption ==
    /\ Funds \in Nat /\ InitialLots \in Nat /\ Funds - InitialLots >= LiquidationSlack
    /\ MaxLoss \in Nat /\ Fee \in {0, 1}
    /\ MaxRetries \in Nat \ {0} /\ OpenVolumes \subseteq Nat \ {0}
    /\ MaxOpens \in Nat /\ MaxMoves \in Nat /\ MaxFaults \in Nat /\ MaxTroubles \in Nat

ASSUME WorkersAssumption == "none" \notin Workers

States == {"NORMAL", "WARNING", "MARGIN_DEFICIT", "LIQUIDATION_PENDING",
           "LIQUIDATING", "RECOVERED", "VALUATION_UNAVAILABLE"}
OpenBlockedStates == {"MARGIN_DEFICIT", "LIQUIDATION_PENDING", "LIQUIDATING",
                      "VALUATION_UNAVAILABLE"}
SafeStates == {"NORMAL", "WARNING", "RECOVERED"}
ActiveTaskStatuses == {"PENDING", "LIQUIDATING"}

NoKey == <<>>
NewWorker == [pc |-> "idle", current |-> FALSE, cancelled |-> FALSE,
              task |-> 0, key |-> NoKey, volume |-> 0]
NewTask == [status |-> "PENDING", retries |-> 0, version |-> 1, pending |-> NoKey,
            last |-> NoKey]

VARIABLES
    loss,      \* what the market has taken
    quote,     \* the latest tick: "usable", "old" or "missing"
    held,      \* lots held
    opening,   \* lots of the active opening order
    orders,    \* liquidation orders, by their key: [task, volume, price, left, active]
    state,     \* account.risk_state
    slack,     \* account.risk_available_cash
    cover,     \* account.risk_ratio: what the last valuation found the equity to be
               \*  above the margin
    cash,      \* account.available_cash
    tasks,     \* liquidation tasks, in the order of their creation
    dirty,     \* the account is in the risk worker's dirty set
    unmarked,  \* a valuation is committed, its dirty mark not yet written
    lease,     \* owner of the risk worker's lease, or "none"
    workers,
    lost,      \* history: a worker has lost the lease within its cycle
    opens, moves, faults   \* history counters for the bounds

vars == <<loss, quote, held, opening, orders, state, slack, cover, cash, tasks,
          dirty, unmarked, lease, workers, lost, opens, moves, faults>>

market == <<loss, quote>>
numbers == <<slack, cover, cash>>
account == <<held, opening, orders, state, numbers, tasks>>
marks == <<dirty, unmarked>>
bounds == <<opens, moves, lost>>

Init ==
    /\ loss = 0 /\ quote = "usable"
    /\ held = InitialLots
    /\ opening = 0
    /\ orders = <<>>
    /\ state = "NORMAL"
    /\ slack = Funds - InitialLots /\ cover = slack /\ cash = slack
    /\ tasks = <<>>
    /\ dirty = FALSE /\ unmarked = FALSE
    /\ lease = "none"
    /\ workers = [w \in Workers |-> NewWorker]
    /\ lost = FALSE
    /\ opens = 0 /\ moves = 0 /\ faults = 0

Fault ==
    /\ faults < MaxFaults /\ moves + faults < MaxTroubles
    /\ faults' = faults + 1

TrueCover == Funds - loss - held
TrueSlack == TrueCover - opening
Working == {key \in DOMAIN orders : orders[key].active}
Frozen == SumFunctionOnSet([key \in DOMAIN orders |-> orders[key].left], Working)
Available == held - Frozen
ActiveTasks == {t \in DOMAIN tasks : tasks[t].status \in ActiveTaskStatuses}

\* The account row shows a deficit.
InDeficit == slack < 0 \/ cover < LiquidationSlack

\* AccountRiskStateService.evaluate.
Assessed(current) ==
    IF current = "VALUATION_UNAVAILABLE" THEN current
    ELSE IF InDeficit
    THEN IF current \in {"LIQUIDATION_PENDING", "LIQUIDATING"} THEN current
         ELSE "MARGIN_DEFICIT"
    ELSE IF cover < WarningSlack \/ (current # "NORMAL" /\ cover < RecoverySlack)
    THEN "WARNING"
    ELSE IF current \in {"NORMAL", "RECOVERED"} THEN "NORMAL" ELSE "RECOVERED"

\* mark_dirty: a version any worker has read before is not the current one now.
MarkDirty(ws) == dirty' = TRUE /\ workers' = [w \in Workers |-> [ws[w] EXCEPT !.current = FALSE]]

Goto(w, pc) == workers' = [workers EXCEPT ![w].pc = pc]

-----------------------------------------------------------------------------
(* The account's market, its owner and the matching of its orders.         *)

\* A tick with another price.
MarketMoves(to) ==
    /\ moves < MaxMoves /\ moves + faults < MaxTroubles
    /\ to # loss /\ quote = "usable"
    /\ loss' = to
    /\ moves' = moves + 1
    /\ UNCHANGED <<quote, account, marks, lease, workers, lost, opens, faults>>

\* No tick comes any more: the latest is too old to value the account with, or lost.
QuoteEnds(to) ==
    /\ quote = "usable"
    /\ Fault
    /\ quote' = to
    /\ UNCHANGED <<loss, account, marks, lease, workers, bounds>>

QuoteReturns ==
    /\ quote # "usable"
    /\ quote' = "usable"
    /\ UNCHANGED <<loss, account, marks, lease, workers, bounds, faults>>

\* create_order with OPEN, and freeze_open_funds.
UserOpens(lots) ==
    /\ opens < MaxOpens
    /\ opening = 0
    /\ state \notin OpenBlockedStates
    /\ cash >= lots /\ slack >= lots
    /\ opening' = lots
    /\ slack' = slack - lots /\ cash' = cash - lots
    /\ opens' = opens + 1
    /\ UNCHANGED <<market, held, orders, state, cover, tasks, marks, lease, workers,
                   lost, moves, faults>>

OpeningFills ==
    /\ opening > 0
    /\ held' = held + opening
    /\ opening' = 0
    /\ UNCHANGED <<market, orders, state, numbers, tasks, marks, lease, workers,
                   bounds, faults>>

\* A limit order to sell trades as long as the bid has not fallen below it.
\* Settling the trade releases margin to the available cash, which bears the
\* loss of the lots - none or all of it - and leaves the account's risk numbers as
\* they are.
LiquidationFills(key, lots, borne) ==
    /\ key \in Working
    /\ loss <= orders[key].price
    /\ lots \in 1 .. orders[key].left
    /\ cash' = cash + lots - borne
    /\ held' = held - lots
    /\ orders' = [orders EXCEPT ![key].left = @ - lots,
                                ![key].active = lots < orders[key].left]
    /\ UNCHANGED <<market, opening, state, slack, cover, tasks, marks, lease, workers,
                   bounds, faults>>

UserCancels(key) ==
    /\ key \in Working
    /\ Fault
    /\ orders' = [orders EXCEPT ![key].active = FALSE]
    /\ UNCHANGED <<market, held, opening, state, numbers, tasks, marks, lease,
                   workers, bounds>>

-----------------------------------------------------------------------------
(* The persistence worker.                                                 *)

\* What a complete valuation makes of the state: it leaves alone those the risk
\* worker moves through.
ValuedState(deficit) ==
    IF state \notin {"NORMAL", "VALUATION_UNAVAILABLE"} THEN state
    ELSE IF deficit THEN "MARGIN_DEFICIT" ELSE "NORMAL"

\* _recalculate_locked_account.
Revalued ==
    IF quote = "usable" \/ held = 0
    THEN /\ slack' = TrueSlack /\ cover' = TrueCover /\ cash' = TrueSlack
         /\ state' = ValuedState(TrueSlack < 0)
    ELSE UNCHANGED numbers /\ state' = "VALUATION_UNAVAILABLE"

\* persist_batch values an account whose facts or quotes have changed,
Value ==
    /\ ~unmarked
    /\ Revalued
    /\ <<numbers, state>>' # <<numbers, state>>
    /\ unmarked' = TRUE
    /\ UNCHANGED <<market, held, opening, orders, tasks, dirty, lease, workers,
                   bounds, faults>>

\* and then marks it.  When the mark fails, the account stays dirty for its
\* valuation, which is repeated, and so is the mark.
Mark ==
    /\ unmarked
    /\ unmarked' = FALSE
    /\ MarkDirty(workers)
    /\ UNCHANGED <<market, account, lease, bounds, faults>>

-----------------------------------------------------------------------------
(* The risk worker: review of the account.                                 *)

Acquire(w) ==
    /\ workers[w].pc = "idle"
    /\ lease = "none"
    /\ lease' = w
    /\ Goto(w, "list")
    /\ UNCHANGED <<market, account, marks, bounds, faults>>

\* _recover_all_accounts_if_due marks every account, every 60 seconds.
Reconcile(w) ==
    /\ workers[w].pc = "list"
    /\ ~dirty
    /\ MarkDirty(workers)
    /\ UNCHANGED <<market, account, unmarked, lease, bounds, faults>>

\* list_dirty reads the dirty accounts with their versions.
List(w) ==
    /\ workers[w].pc = "list"
    /\ workers' = [workers EXCEPT ![w].pc = IF dirty THEN "review" ELSE "tasks",
                                  ![w].current = dirty]
    /\ UNCHANGED <<market, account, marks, lease, bounds, faults>>

\* _evaluate_and_commit, the first time: a deficit goes on to the opening
\* orders; a state that is not final is looked at again in the next cycle.
Review(w) ==
    /\ workers[w].pc = "review"
    /\ state' = Assessed(state)
    /\ Goto(w, CASE state' = "MARGIN_DEFICIT" -> "cancelling"
                 [] state' \in SafeStates     -> "clearing"
                 [] OTHER                     -> "tasks")
    /\ UNCHANGED <<market, held, opening, orders, numbers, tasks, marks, lease,
                   bounds, faults>>

\* _cancel_open_orders.
CancelOpening(w) ==
    /\ workers[w].pc = "cancelling"
    /\ workers' = [workers EXCEPT ![w].pc = "cancelled", ![w].cancelled = opening > 0]
    /\ slack' = slack + opening /\ cash' = cash + opening
    /\ opening' = 0
    /\ UNCHANGED <<market, held, orders, state, cover, tasks, marks, lease, bounds, faults>>

\* recalculate_account, if an order has been cancelled: valuation and mark.
RevalueCancelled(w) ==
    /\ workers[w].pc = "cancelled"
    /\ IF workers[w].cancelled
       THEN Revalued /\ MarkDirty([workers EXCEPT ![w].pc = "again"])
       ELSE Goto(w, "again") /\ UNCHANGED <<numbers, state, dirty>>
    /\ UNCHANGED <<market, held, opening, orders, tasks, unmarked, lease, bounds, faults>>

\* _evaluate_and_commit, the second time.
ReviewAgain(w) ==
    /\ workers[w].pc = "again"
    /\ state' = Assessed(state)
    /\ Goto(w, IF state' = "MARGIN_DEFICIT" THEN "creating" ELSE "clearing")
    /\ UNCHANGED <<market, held, opening, orders, numbers, tasks, marks, lease,
                   bounds, faults>>

\* Failed tasks that nothing refers to any more.
Forgotten ==
    {t \in DOMAIN tasks :
        /\ tasks[t].status = "FAILED"
        /\ \A key \in DOMAIN orders : orders[key].task # t
        /\ \A w \in Workers : workers[w].task # t}

\* _create_task.  A forgotten task gives its place to the new one: tasks that fail for
\* ever would have no bound.
CreateTask(w) ==
    /\ workers[w].pc = "creating"
    /\ IF ActiveTasks # {}
       THEN UNCHANGED <<tasks, state>>
       ELSE /\ IF Forgotten = {} THEN tasks' = Append(tasks, NewTask)
               ELSE \E t \in Forgotten : tasks' = [tasks EXCEPT ![t] = NewTask]
            /\ state' = "LIQUIDATION_PENDING"
    /\ Goto(w, "tasks")
    /\ UNCHANGED <<market, held, opening, orders, numbers, marks, lease, bounds, faults>>

\* Mutant: the mark is cleared whatever its version.
ClearsAlways(w) == TRUE

Clears(w) == workers[w].current

\* complete_dirty.
Clear(w) ==
    /\ workers[w].pc = "clearing"
    /\ dirty' = (dirty /\ ~Clears(w))
    /\ Goto(w, "tasks")
    /\ UNCHANGED <<market, account, unmarked, lease, bounds, faults>>

-----------------------------------------------------------------------------
(* The risk worker: execution of the task.                                 *)

\* Before the next task the lease is renewed if that is due; a worker that finds
\* it lost stops the cycle.
StopCycle(w) ==
    /\ workers[w].pc = "tasks"
    /\ lease # w
    /\ Goto(w, "release")
    /\ UNCHANGED <<market, account, marks, lease, bounds, faults>>

\* Mutant: an order that has been filled in part is taken for done.
OrdersOfUntouched(t) ==
    {key \in Working : orders[key].task = t /\ orders[key].left = orders[key].volume}

\* The task's orders that are accepted or partially filled.
OrdersOf(t) == {key \in Working : orders[key].task = t}

\* A task of an account that has recovered is completed when its order is gone.
Completes(t) == OrdersOf(t) = {}

\* _complete_locked.
Completed(task) == [task EXCEPT !.status = "COMPLETED", !.pending = NoKey]

\* _select: as many lots as bring the account back to the recovery threshold, by
\* the numbers of the account row.
Volume == Max({1, RecoverySlack - cover, -slack})
Candidate == Min({Available, Volume})

\* The idempotency key is stored before the order is created, and used again
\* until the order has been recorded.
PreparedKey(t) ==
    IF tasks[t].pending = NoKey THEN <<t, tasks[t].version>> ELSE tasks[t].pending

\* _prepare, under the locks of account and task.
Prepare(w) ==
    /\ workers[w].pc = "tasks"
    /\ \/ /\ \/ ActiveTasks = {}
             \/ state = "VALUATION_UNAVAILABLE"
             \/ \E t \in ActiveTasks :
                   state \notin SafeStates /\ (OrdersOf(t) # {} \/ Available <= 0)
          /\ Goto(w, "release")
          /\ UNCHANGED <<state, tasks>>
       \/ \E t \in ActiveTasks :
             /\ state \in SafeStates
             /\ UNCHANGED state
             /\ IF Completes(t)
                THEN /\ tasks' = [tasks EXCEPT ![t] = Completed(@)]
                     /\ Goto(w, "release")
                ELSE /\ UNCHANGED tasks
                     /\ \E key \in OrdersOf(t) :
                           workers' = [workers EXCEPT ![w].pc = "withdraw",
                                         ![w].task = t, ![w].key = key]
       \/ \E t \in ActiveTasks :
             /\ state \notin SafeStates \cup {"VALUATION_UNAVAILABLE"}
             /\ OrdersOf(t) = {} /\ Available > 0
             /\ state' = "LIQUIDATING"
             /\ tasks' = [tasks EXCEPT ![t].status = "LIQUIDATING",
                             ![t].pending = PreparedKey(t),
                             ![t].version = IF PreparedKey(t) = tasks[t].pending
                                            THEN @ ELSE @ + 1]
             /\ workers' = [workers EXCEPT ![w].pc = "ordering", ![w].task = t,
                              ![w].key = PreparedKey(t), ![w].volume = Candidate]
    /\ UNCHANGED <<market, held, opening, orders, numbers, marks, lease, bounds, faults>>

\* create_order's idempotency: the key's order, if its fields are the request's.
SameRequest(w) ==
    /\ orders[workers[w].key].volume = workers[w].volume
    /\ orders[workers[w].key].price = loss

WithOrder(w) ==
    [key \in DOMAIN orders \cup {workers[w].key} |->
        IF key = workers[w].key
        THEN [task |-> workers[w].task, volume |-> workers[w].volume,
              price |-> loss, left |-> workers[w].volume, active |-> TRUE]
        ELSE orders[key]]

\* Mutant: closing is subject to the rules of opening.
CommissionCoveredAsForOpening == cash >= Fee /\ state \notin OpenBlockedStates

\* freeze_close_order_commission: closing is not subject to the rules of opening, but the
\* available cash must cover the commission.
CommissionCovered == cash >= Fee

\* execute_task reads the counter price of the latest tick, however old, and creates
\* the order; the lots and the commission must be there.  The call may fail, also
\* after the order has been committed.
CreateOrder(w) ==
    LET exists == workers[w].key \in DOMAIN orders
        accepted == ~exists /\ workers[w].volume <= Available /\ CommissionCovered
    IN  /\ workers[w].pc = "ordering"
        /\ \/ /\ quote = "missing"
              /\ Goto(w, "unavailable")
              /\ UNCHANGED <<orders, faults>>
           \/ /\ quote # "missing" /\ accepted
              /\ orders' = WithOrder(w)
              /\ \/ Goto(w, "recording") /\ UNCHANGED faults
                 \/ Goto(w, "retrying") /\ Fault
           \/ /\ quote # "missing" /\ ~accepted
              /\ Goto(w, IF exists /\ SameRequest(w) THEN "recording" ELSE "retrying")
              /\ UNCHANGED <<orders, faults>>
        /\ UNCHANGED <<market, held, opening, state, numbers, tasks, marks, lease, bounds>>

\* _record_order.
RecordOrder(w) ==
    LET t == workers[w].task
        task == tasks[t]
    IN  /\ workers[w].pc = "recording"
        /\ tasks' = IF task.last = workers[w].key /\ task.pending = NoKey THEN tasks
                    ELSE [tasks EXCEPT ![t].retries = 0, ![t].pending = NoKey,
                                       ![t].last = workers[w].key]
        /\ Goto(w, "release")
        /\ UNCHANGED <<market, held, opening, orders, state, numbers, marks, lease,
                       bounds, faults>>

\* Without a task the account must not stay in a state of liquidation.
StateAfterFailure == "MARGIN_DEFICIT"

\* _record_retry: the last retry ends the task.
RecordRetry(w) ==
    LET t == workers[w].task
        last == tasks[t].retries + 1 >= MaxRetries
    IN  /\ workers[w].pc = "retrying"
        /\ IF t \in ActiveTasks
           THEN /\ tasks' = [tasks EXCEPT ![t].retries = @ + 1,
                                ![t].status = IF last THEN "FAILED" ELSE "PENDING",
                                ![t].pending = IF last THEN NoKey ELSE @]
                /\ state' = IF last THEN StateAfterFailure ELSE state
           ELSE UNCHANGED <<tasks, state>>
        /\ Goto(w, "release")
        /\ UNCHANGED <<market, held, opening, orders, numbers, marks, lease, bounds, faults>>

\* _mark_valuation_unavailable.
MarkUnavailable(w) ==
    /\ workers[w].pc = "unavailable"
    /\ IF workers[w].task \in ActiveTasks
       THEN /\ tasks' = [tasks EXCEPT ![workers[w].task].status = "PENDING"]
            /\ state' = "VALUATION_UNAVAILABLE"
       ELSE UNCHANGED <<tasks, state>>
    /\ Goto(w, "release")
    /\ UNCHANGED <<market, held, opening, orders, numbers, marks, lease, bounds, faults>>

\* CANCEL_RECOVERED_ORDER: the rest of the order is cancelled.  An order that has
\* been filled cannot be, and the call may fail.
Withdraw(w) ==
    LET key == workers[w].key IN
    /\ workers[w].pc = "withdraw"
    /\ \/ /\ orders[key].left > 0
          /\ orders' = [orders EXCEPT ![key].active = FALSE]
          /\ Goto(w, "finish")
          /\ UNCHANGED faults
       \/ /\ IF orders[key].left > 0 THEN Fault ELSE UNCHANGED faults
          /\ Goto(w, "retrying")
          /\ UNCHANGED orders
    /\ UNCHANGED <<market, held, opening, state, numbers, tasks, marks, lease, bounds>>

\* _complete_after_recovery_cancel.
Finish(w) ==
    LET t == workers[w].task IN
    /\ workers[w].pc = "finish"
    /\ tasks' = IF t \in ActiveTasks /\ state \in SafeStates /\ Completes(t)
                THEN [tasks EXCEPT ![t] = Completed(@)] ELSE tasks
    /\ Goto(w, "release")
    /\ UNCHANGED <<market, held, opening, orders, state, numbers, marks, lease,
                   bounds, faults>>

\* release_lease, at the end of every cycle.
Release(w) ==
    /\ workers[w].pc = "release"
    /\ lease' = IF lease = w THEN "none" ELSE lease
    /\ workers' = [workers EXCEPT ![w] = NewWorker]
    /\ UNCHANGED <<market, account, marks, bounds, faults>>

\* A call of the review fails, and the account stays dirty.
ReviewFails(w) ==
    /\ workers[w].pc \in {"review", "cancelling", "cancelled", "again", "creating"}
    /\ Fault
    /\ Goto(w, "tasks")
    /\ UNCHANGED <<market, account, marks, lease, bounds>>

\* A worker dies and is started again.
Crash(w) ==
    /\ workers[w].pc # "idle"
    /\ Fault
    /\ workers' = [workers EXCEPT ![w] = NewWorker]
    /\ UNCHANGED <<market, account, marks, lease, bounds>>

\* The lease outlives its owner, or ends under it.
ExpireLease ==
    /\ lease # "none"
    /\ \/ /\ \E w \in Workers : lease = w /\ workers[w].pc = "idle"
          /\ UNCHANGED <<faults, lost>>
       \/ /\ \E w \in Workers : lease = w /\ workers[w].pc # "idle"
          /\ Fault
          /\ lost' = TRUE
    /\ lease' = "none"
    /\ UNCHANGED <<market, account, marks, workers, opens, moves>>

-----------------------------------------------------------------------------
ReviewStep(w) ==
    \/ Review(w) \/ CancelOpening(w) \/ RevalueCancelled(w) \/ ReviewAgain(w)
    \/ CreateTask(w) \/ Clear(w)

TaskStep(w) ==
    \/ Prepare(w) \/ CreateOrder(w) \/ RecordOrder(w) \/ RecordRetry(w)
    \/ MarkUnavailable(w) \/ Withdraw(w) \/ Finish(w) \/ Release(w)

WorkerStep(w) == Acquire(w) \/ List(w) \/ ReviewStep(w) \/ TaskStep(w)

Next ==
    \/ \E to \in 0 .. MaxLoss : MarketMoves(to)
    \/ QuoteEnds("old") \/ QuoteEnds("missing") \/ QuoteReturns
    \/ \E lots \in OpenVolumes : UserOpens(lots)
    \/ OpeningFills
    \/ \E key \in DOMAIN orders :
          \/ UserCancels(key)
          \/ \E lots \in 1 .. orders[key].left, borne \in {0, loss} :
                LiquidationFills(key, lots, borne)
    \/ Value \/ Mark
    \/ \E w \in Workers : \/ WorkerStep(w) \/ Reconcile(w) \/ StopCycle(w)
                            \/ ReviewFails(w) \/ Crash(w)
    \/ ExpireLease

\* The workers' loops go on, a lease nobody renews expires, the accounts are
\* reconciled every minute, a lost quote comes back, and an order that can trade
\* does.
Fairness ==
    /\ WF_vars(Value) /\ WF_vars(Mark) /\ WF_vars(ExpireLease)
    /\ \A w \in Workers : WF_vars(WorkerStep(w)) /\ SF_vars(Reconcile(w))
    /\ WF_vars(QuoteReturns)
    /\ WF_vars(\E key \in DOMAIN orders, borne \in {0, loss} :
                  LiquidationFills(key, orders[key].left, borne))

Spec == Init /\ [][Next]_vars
FairSpec == Spec /\ Fairness

-----------------------------------------------------------------------------
(* Properties.                                                             *)

\* The lots a working order may still close are there: liquidation only reduces
\* the position, also when orders of several tasks work at a time.
NothingOversold == Frozen <= held

\* A task closes one order at a time, whatever calls fail and workers die, as long
\* as no worker has lost the lease within its cycle.
OneOrderWorks ==
    lost \/ \A k, j \in Working : orders[k].task = orders[j].task => k = j

\* A task that has been completed has left no order behind that goes on closing,
\* as long as no worker has lost the lease within its cycle.  (One that has failed
\* may have: the orders of the next task come on top of it.)
CompletedLeavesNothing ==
    lost \/ \A key \in Working : tasks[orders[key].task].status # "COMPLETED"

\* A deficit that is in the account row is never lost sight of: the account is in
\* the risk worker's dirty set, or its mark is on its way.
DeficitIsWatched == InDeficit => dirty \/ unmarked \/ lost

\* An account in a state of liquidation has a task.
LiquidationHasTask ==
    state \in {"LIQUIDATION_PENDING", "LIQUIDATING"} => ActiveTasks # {}

\* An account has one task at most that is not done.
OneTask == \A s, t \in ActiveTasks : s = t

OrdersFollowTasks == NothingOversold /\ OneTask /\ OneOrderWorks /\ CompletedLeavesNothing

DeficitIsHandled == DeficitIsWatched /\ LiquidationHasTask

\* The working order can no longer trade, and nothing replaces it.
Stranded == \E key \in Working : orders[key].price < loss

\* A deficit that liquidation cannot end: every order is refused for its commission.
Unpayable == cash < Fee

Settled ==
    /\ numbers = <<TrueSlack, TrueCover, TrueSlack>>
    /\ state = Assessed(state)
    /\ state \in SafeStates => ActiveTasks = {}
    /\ InDeficit => held = 0 \/ Unpayable

\* In the end the account is valued, its state says so, tasks are done, and a
\* deficit has been liquidated - unless the market has left the working order or
\* the account cannot pay the commission of a closing order, as no futures account in
\* deficit can at the default risk_liquidation_ratio of 1.00.
Converges == <>[]Settled \/ <>[]Stranded

=============================================================================
