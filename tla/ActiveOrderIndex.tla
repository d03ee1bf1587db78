--------------------------- MODULE ActiveOrderIndex ---------------------------
(***************************************************************************)
(* The Redis index of active orders, which tells the matching processes    *)
(* which orders to look at and the market-data process which contracts to  *)
(* subscribe to.  PostgreSQL holds the facts; the index follows them.      *)
(*                                                                         *)
(* Order rows change and commit their events; the events arrive in a Redis *)
(* stream as EventDelivery promises (any order, any number of copies, none  *)
(* lost: an event the outbox gives up is left to an operator).             *)
(* Consumers of one group take messages in batches, read the order row     *)
(* without a lock, and write the index by one atomic Lua script.  They may *)
(* fail, die and take over each other's messages.  A rebuild may be run to *)
(* repair the index from the rows.                                         *)
(*                                                                         *)
(* Abstracted: the content of an event (the code reads the row instead),   *)
(* the processed-event keys (they only label the outcome), the sets by     *)
(* account and underlying, which the scripts write with the rest, and      *)
(* market orders, whose type keeps them out: all orders are limit-like.    *)
(***************************************************************************)
EXTENDS Naturals, Sequences, FiniteSets, FiniteSetsExt

CONSTANTS
    OrderCount,    \* bound: orders have row ids 1 .. OrderCount
    ContractOf,
    Consumers,
    BatchSize,     \* messages a consumer takes at once
    PageSize,      \* rows a rebuild reads at once
    MaxRetries,    \* order_event_max_retries
    SlowConsumers, \* may pending_idle_ms pass while a live consumer holds on?
    MaxVersion,    \* bound: changes of an order row
    MaxChanges,    \* bound: changes of all of them
    MaxCopies,     \* bound: copies of an event in the stream
    MaxIncidents   \* bound on exceptions, processes that die and rebuilds, together

OrderIds == 1 .. OrderCount
Contracts == {ContractOf[o] : o \in OrderIds}
Versions == 0 .. MaxVersion
Events == OrderIds \X (Versions \ {0})

ASSUME OrderAssumption ==
    OrderCount \in Nat /\ DOMAIN ContractOf = OrderIds
ASSUME BoundsAssumption ==
    /\ SlowConsumers \in BOOLEAN
    /\ \A n \in {BatchSize, PageSize, MaxRetries, MaxCopies} : n \in Nat \ {0}
    /\ \A n \in {MaxVersion, MaxChanges, MaxIncidents} : n \in Nat

VARIABLES
    rows,          \* order rows: status, and how often they have changed
    stream,        \* published events
    group,         \* the consumer group: last message delivered, those pending,
                   \* those pending for long, and the dead letters
    failures,      \* failure counts, by message
    consumers,     \* messages taken, and how far the first one is
    index,         \* version of the row in the index; 0 if there is none
    contracts,     \* contracts with active orders
    rebuild,       \* the rebuild process
    counters       \* what the bounds count

delivery == << rows, stream >>
consuming == << group, failures, consumers >>
indexVars == << delivery, consuming, index, contracts, rebuild, counters >>

ConsumerSteps == {"READ", "ADD", "DETAIL", "REMOVE", "ACK", "DEAD", "DEADACK"}
RebuildSteps == {"IDLE", "PAGE", "UPSERT", "CHECK", "REPAIR", "DETAIL", "REMOVE",
                 "CONTRACTS"}

Idle == [round |-> "STALE", todo |-> {}, step |-> "READ", seen |-> 0,
         detail |-> FALSE]
Stopped == [step |-> "IDLE", snapshot |-> {}, found |-> {}, page |-> {},
            detail |-> FALSE]

IndexInit ==
    /\ rows = [o \in OrderIds |-> [status |-> "NONE", version |-> 0]]
    /\ stream = << >>
    /\ group = [last |-> 0, pending |-> {}, stale |-> {}, dead |-> {}]
    /\ failures = << >>
    /\ consumers = [c \in Consumers |-> Idle]
    /\ index = [o \in OrderIds |-> 0]
    /\ contracts = {}
    /\ rebuild = Stopped
    /\ counters = [errors |-> 0, crashes |-> 0, rebuilds |-> 0]

MayHappen == counters.errors + counters.crashes + counters.rebuilds < MaxIncidents

-----------------------------------------------------------------------------
(* The order rows and their events.                                        *)

committed == {e \in Events : e[2] <= rows[e[1]].version}

Delivery == INSTANCE EventDelivery WITH lost <- {}

\* A handler of the ledger accepts, changes or ends an order, with its event.
ChangeOrder(o) ==
    /\ rows[o].status # "DONE"
    /\ rows[o].version < MaxVersion /\ Cardinality(committed) < MaxChanges
    /\ \E status \in {"ACTIVE", "DONE"} :
         /\ rows[o].status = "NONE" => status = "ACTIVE"
         /\ rows' = [rows EXCEPT ![o] = [status |-> status, version |-> @.version + 1]]
    /\ Delivery!Commit({<< o, rows[o].version + 1 >>})
    /\ UNCHANGED << consuming, index, contracts, rebuild, counters >>

Deliver(e) ==
    /\ UNCHANGED rows
    /\ Delivery!Publish(e)
    /\ failures' = Append(failures, 0)
    /\ UNCHANGED << group, consumers, index, contracts, rebuild, counters >>

-----------------------------------------------------------------------------
(* The Lua scripts: each is one atomic step on the index.                  *)

\* Mutant: a partially filled order counts as ended.
ListedIfUntouched(o) == rows[o].status = "ACTIVE" /\ rows[o].version = 1

Listed(o) == rows[o].status = "ACTIVE"

Indexed(contract) == {o \in OrderIds : ContractOf[o] = contract /\ index[o] # 0}

Upsert(o, version) ==
    /\ index' = [index EXCEPT ![o] = version]
    /\ contracts' = contracts \cup {ContractOf[o]}

StillNeeded(o) == Indexed(ContractOf[o]) \ {o} # {}

\* The name of the contract comes from the detail read before the script.
Unindex(o, detail) ==
    /\ index' = [index EXCEPT ![o] = 0]
    /\ contracts' = IF detail /\ ~StillNeeded(o)
                      THEN contracts \ {ContractOf[o]} ELSE contracts

-----------------------------------------------------------------------------
(* The consumers.                                                          *)

\* The "size" lowest members of a set of numbers.
Lowest(set, size) == {n \in set : Cardinality({k \in set : k < n}) < size}

\* Mutant: nobody takes over the messages of a consumer that died.
ClaimNothing(c) ==
    /\ consumers[c].todo = {} /\ consumers[c].round = "STALE"
    /\ consumers' = [consumers EXCEPT ![c].round = "NEW"]
    /\ UNCHANGED << delivery, group, failures, index, contracts, rebuild, counters >>

\* run_once takes over stale messages first and then reads new ones.
ClaimStale(c) ==
    LET batch == Lowest(group.stale, BatchSize) IN
    /\ consumers[c].todo = {} /\ consumers[c].round = "STALE"
    /\ consumers' = [consumers EXCEPT ![c] = [Idle EXCEPT !.todo = batch,
                                                          !.round = "NEW"]]
    /\ group' = [group EXCEPT !.stale = @ \ batch]
    /\ UNCHANGED << delivery, failures, index, contracts, rebuild, counters >>

ReadNew(c) ==
    LET last == Min({group.last + BatchSize, Len(stream)})
        batch == group.last + 1 .. last
    IN
    /\ consumers[c].todo = {} /\ consumers[c].round = "NEW"
    /\ consumers' = [consumers EXCEPT ![c] = [Idle EXCEPT !.todo = batch]]
    /\ group' = [group EXCEPT !.pending = @ \cup batch,
                              !.last = last]
    /\ UNCHANGED << delivery, failures, index, contracts, rebuild, counters >>

\* A batch is worked off in the order of the stream.
Message(c) == Min(consumers[c].todo)
OrderOf(c) == stream[Message(c)][1]
ConsumerAt(c, step) == consumers[c].todo # {} /\ consumers[c].step = step
Holds(c, m) == m \in consumers[c].todo
GoOn(c) ==
    consumers' = [consumers EXCEPT ![c] = [Idle EXCEPT !.round = consumers[c].round,
                                                       !.todo = consumers[c].todo \ {Message(c)}]]

\* The order row, read without a lock, decides; the event only names it.
ReadOrder(c) ==
    LET o == OrderOf(c) IN
    /\ ConsumerAt(c, "READ")
    /\ consumers' = [consumers EXCEPT ![c].step = IF Listed(o) THEN "ADD" ELSE "DETAIL",
                                      ![c].seen = rows[o].version]
    /\ UNCHANGED << delivery, group, failures, index, contracts, rebuild, counters >>

AddActiveOrder(c) ==
    /\ ConsumerAt(c, "ADD")
    /\ Upsert(OrderOf(c), consumers[c].seen)
    /\ consumers' = [consumers EXCEPT ![c].step = "ACK"]
    /\ UNCHANGED << delivery, group, failures, rebuild, counters >>

ReadDetail(c) ==
    /\ ConsumerAt(c, "DETAIL")
    /\ consumers' = [consumers EXCEPT ![c].step = "REMOVE",
                                      ![c].detail = index[OrderOf(c)] # 0]
    /\ UNCHANGED << delivery, group, failures, index, contracts, rebuild, counters >>

RemoveActiveOrder(c) ==
    /\ ConsumerAt(c, "REMOVE")
    /\ Unindex(OrderOf(c), consumers[c].detail)
    /\ consumers' = [consumers EXCEPT ![c].step = "ACK"]
    /\ UNCHANGED << delivery, group, failures, rebuild, counters >>

Acknowledge(c) ==
    /\ ConsumerAt(c, "ACK") \/ ConsumerAt(c, "DEADACK")
    /\ group' = [group EXCEPT !.pending = @ \ {Message(c)},
                              !.stale = @ \ {Message(c)}]
    /\ failures' = [failures EXCEPT ![Message(c)] = 0]
    /\ GoOn(c)
    /\ UNCHANGED << delivery, index, contracts, rebuild, counters >>

\* Mutant: a message that failed is acknowledged.
AfterFailureAcknowledged(count) == "ACK"

AfterFailure(count) == IF count >= MaxRetries THEN "DEAD" ELSE "RETRY"

\* An exception while the message is processed or acknowledged.  If Redis cannot
\* count it either, the message simply stays pending.
Fail(c) ==
    LET m == Message(c) IN
    /\ \E step \in {"READ", "ADD", "DETAIL", "REMOVE", "ACK"} : ConsumerAt(c, step)
    /\ MayHappen
    /\ counters' = [counters EXCEPT !.errors = @ + 1]
    /\ \/ /\ failures' = [failures EXCEPT ![m] = @ + 1]
          /\ IF AfterFailure(failures[m] + 1) = "RETRY"
               THEN GoOn(c)
               ELSE consumers' =
                      [consumers EXCEPT ![c].step = AfterFailure(failures[m] + 1)]
       \/ UNCHANGED failures /\ GoOn(c)
    /\ UNCHANGED << delivery, group, index, contracts, rebuild >>

DeadLetter(c) ==
    /\ ConsumerAt(c, "DEAD")
    /\ group' = [group EXCEPT !.dead = @ \cup {Message(c)}]
    /\ consumers' = [consumers EXCEPT ![c].step = "DEADACK"]
    /\ UNCHANGED << delivery, failures, index, contracts, rebuild, counters >>

FailDeadLetter(c) ==
    /\ ConsumerAt(c, "DEAD") \/ ConsumerAt(c, "DEADACK")
    /\ MayHappen
    /\ counters' = [counters EXCEPT !.errors = @ + 1]
    /\ GoOn(c)
    /\ UNCHANGED << delivery, group, failures, index, contracts, rebuild >>

\* The messages of a consumer that died stay pending until another takes over.
Crash(c) ==
    /\ consumers[c].todo # {}
    /\ MayHappen
    /\ counters' = [counters EXCEPT !.crashes = @ + 1]
    /\ consumers' = [consumers EXCEPT ![c] = Idle]
    /\ UNCHANGED << delivery, group, failures, index, contracts, rebuild >>

\* pending_idle_ms have passed since the message was last delivered.
BecomeStale(m) ==
    /\ m \in group.pending \ group.stale
    /\ SlowConsumers \/ \A c \in Consumers : ~Holds(c, m)
    /\ group' = [group EXCEPT !.stale = @ \cup {m}]
    /\ UNCHANGED << delivery, failures, consumers, index, contracts, rebuild, counters >>

-----------------------------------------------------------------------------
(* The rebuild.                                                            *)

StartRebuild ==
    /\ rebuild.step = "IDLE"
    /\ MayHappen
    /\ counters' = [counters EXCEPT !.rebuilds = @ + 1]
    /\ rebuild' = [Stopped EXCEPT !.step = "PAGE",
                                  !.snapshot = {o \in OrderIds : index[o] # 0}]
    /\ UNCHANGED << delivery, consuming, index, contracts >>

ReadPage ==
    LET beyond(o) == \A q \in rebuild.found : q < o
        page == Lowest({o \in OrderIds : Listed(o) /\ beyond(o)}, PageSize)
    IN
    /\ rebuild.step = "PAGE"
    /\ rebuild' = IF page = {}
                    THEN [rebuild EXCEPT !.step = "CHECK"]
                    ELSE [rebuild EXCEPT !.step = "UPSERT",
                                         !.found = @ \cup page,
                                         !.page = {<< o, rows[o].version >> : o \in page}]
    /\ UNCHANGED << delivery, consuming, index, contracts, counters >>

\* An upsert that raises is logged and skipped.
UpsertOrSkip(o, version) ==
    \/ Upsert(o, version) /\ UNCHANGED counters
    \/ /\ MayHappen
       /\ counters' = [counters EXCEPT !.errors = @ + 1]
       /\ UNCHANGED << index, contracts >>

UpsertListed ==
    /\ rebuild.step \in {"UPSERT", "REPAIR"}
    /\ \E order \in rebuild.page :
         /\ \A other \in rebuild.page : order[1] <= other[1]
         /\ UpsertOrSkip(order[1], order[2])
         /\ rebuild' = [rebuild EXCEPT !.page = @ \ {order},
                                       !.step = IF @ = "REPAIR" THEN "CHECK"
                                                ELSE IF rebuild.page = {order} THEN "PAGE" ELSE @]
    /\ UNCHANGED << delivery, consuming >>

\* An order that was indexed at the start but is on no page is looked up again.
CheckLeftOver ==
    /\ rebuild.step = "CHECK"
    /\ \E o \in rebuild.snapshot \ rebuild.found :
         rebuild' = [rebuild EXCEPT !.found = @ \cup {o},
                                    !.page = {<< o, rows[o].version >>},
                                    !.step = IF Listed(o) THEN "REPAIR" ELSE "DETAIL"]
    /\ UNCHANGED << delivery, consuming, index, contracts, counters >>

ReadLeftOverDetail ==
    /\ rebuild.step = "DETAIL"
    /\ \E order \in rebuild.page :
         rebuild' = [rebuild EXCEPT !.detail = index[order[1]] # 0, !.step = "REMOVE"]
    /\ UNCHANGED << delivery, consuming, index, contracts, counters >>

\* Without its detail only a stray member of active_orders:all is left to clear.
RemoveLeftOver ==
    /\ rebuild.step = "REMOVE"
    /\ \E order \in rebuild.page :
         IF rebuild.detail THEN Unindex(order[1], TRUE) ELSE UNCHANGED << index, contracts >>
    /\ rebuild' = [rebuild EXCEPT !.page = {}, !.step = "CHECK"]
    /\ UNCHANGED << delivery, consuming, counters >>

LeftOversChecked ==
    /\ rebuild.step = "CHECK" /\ rebuild.snapshot \subseteq rebuild.found
    /\ rebuild' = [rebuild EXCEPT !.step = "CONTRACTS"]
    /\ UNCHANGED << delivery, consuming, index, contracts, counters >>

\* Mutant: the set of the contract's orders is not looked at.
DesertedAlways(contract) == TRUE

Deserted(contract) == Indexed(contract) = {}

\* One script per contract; an exception ends the loop early.
ReconcileContract ==
    /\ rebuild.step = "CONTRACTS"
    /\ \E contract \in contracts :
         Deserted(contract) /\ contracts' = contracts \ {contract}
    /\ UNCHANGED << delivery, consuming, index, rebuild, counters >>

FinishRebuild ==
    /\ rebuild.step = "CONTRACTS"
    /\ rebuild' = Stopped
    /\ UNCHANGED << delivery, consuming, index, contracts, counters >>

CrashRebuild ==
    /\ rebuild.step # "IDLE"
    /\ MayHappen
    /\ counters' = [counters EXCEPT !.crashes = @ + 1]
    /\ rebuild' = Stopped
    /\ UNCHANGED << delivery, consuming, index, contracts >>

-----------------------------------------------------------------------------
ConsumerStep(c) ==
    \/ ClaimStale(c) \/ ReadNew(c) \/ ReadOrder(c) \/ AddActiveOrder(c)
    \/ ReadDetail(c) \/ RemoveActiveOrder(c) \/ Acknowledge(c) \/ DeadLetter(c)

RebuildStep ==
    \/ ReadPage \/ UpsertListed \/ CheckLeftOver \/ ReadLeftOverDetail
    \/ RemoveLeftOver \/ LeftOversChecked \/ FinishRebuild

IndexNext ==
    \/ \E o \in OrderIds : ChangeOrder(o)
    \/ \E e \in Events : Deliver(e)
    \/ \E c \in Consumers :
         ConsumerStep(c) \/ Fail(c) \/ FailDeadLetter(c) \/ Crash(c)
    \/ \E m \in DOMAIN stream : BecomeStale(m)
    \/ StartRebuild \/ RebuildStep \/ ReconcileContract \/ CrashRebuild

IndexSpec == IndexInit /\ [][IndexNext]_indexVars

\* The outbox delivers (EventDelivery's fairness, which OutboxPublisher shows),
\* the consumers loop for ever, idle times pass, and a rebuild runs to its end.
MaxMessages == OrderCount * MaxVersion * MaxCopies

IndexFairness ==
    /\ \A e \in Events : WF_indexVars(e \notin Delivery!Published /\ Deliver(e))
    /\ \A c \in Consumers : WF_indexVars(ConsumerStep(c))
    /\ \A m \in 1 .. MaxMessages : WF_indexVars(m \in DOMAIN stream /\ BecomeStale(m))
    /\ WF_indexVars(RebuildStep)

IndexFairSpec == IndexSpec /\ IndexFairness

-----------------------------------------------------------------------------
(* Properties.                                                             *)

Row == [status : {"NONE", "ACTIVE", "DONE"}, version : Versions]
Group == [last : Nat, pending : SUBSET Nat, stale : SUBSET Nat, dead : SUBSET Nat]
Consumer == [round : {"STALE", "NEW"}, todo : SUBSET Nat, step : ConsumerSteps,
             seen : Versions, detail : BOOLEAN]
Rebuild == [step : RebuildSteps, snapshot : SUBSET OrderIds, found : SUBSET OrderIds,
            page : SUBSET (OrderIds \X Versions), detail : BOOLEAN]

\* Every variable stays within its type, and every message that somebody holds
\* or counts is one that was delivered.
IndexTypeOK ==
    /\ rows \in [OrderIds -> Row]
    /\ stream \in Seq(Events)
    /\ group \in Group /\ group.last <= Len(stream)
    /\ group.pending \cup group.stale \cup group.dead \subseteq 1 .. group.last
    /\ failures \in Seq(Nat) /\ Len(failures) = Len(stream)
    /\ consumers \in [Consumers -> Consumer]
    /\ \A c \in Consumers : consumers[c].todo \subseteq 1 .. group.last
    /\ index \in [OrderIds -> Versions]
    /\ contracts \subseteq Contracts
    /\ rebuild \in Rebuild
    /\ counters \in [errors : Nat, crashes : Nat, rebuilds : Nat]

MessagesOf(o) == {m \in DOMAIN stream : stream[m][1] = o}

Target(o) ==
    IF rows[o].status = "ACTIVE" THEN rows[o].version ELSE 0

\* Nothing is under way for the order: its events are delivered, acknowledged
\* and none of them is a dead letter.
AtRest(o) ==
    /\ \A e \in committed : e[1] = o => e \in Delivery!Published
    /\ \A m \in MessagesOf(o) :
         /\ m <= group.last /\ m \notin group.pending \cup group.dead
         /\ \A c \in Consumers : ~Holds(c, m)
    /\ rebuild.step = "IDLE"

\* With one writer and nothing under way for an order, the index shows the order
\* as its row is: no acknowledgement comes before the work, no order of delivery,
\* copy, failure or restart leaves an older version behind; and the contracts are
\* at all times those of the indexed orders.  (A rebuild that runs next to the
\* consumer may write back an order that has ended since.)
IndexFollowsOrders ==
    counters.rebuilds = 0 =>
      /\ \A o \in OrderIds : AtRest(o) => index[o] = Target(o)
      /\ contracts = {ContractOf[o] : o \in {q \in OrderIds : index[q] # 0}}

\* The contract of every indexed order is subscribed to: the scripts of two
\* orders of a contract never take the contract from under an order.
ContractsCoverIndex == \A o \in OrderIds : index[o] # 0 => ContractOf[o] \in contracts

\* Whoever removes an order from the index, consumer or rebuild, and however old
\* its view of the row: the order has ended, and no tick can miss it.
OnlyFinishedOrdersLeaveIndex ==
    [][ \A o \in OrderIds :
          (index[o] # 0 /\ index'[o] = 0) => rows[o].status = "DONE" ]_indexVars

\* With one writer, in the end every order is in the index as its row is, unless
\* an event of it has become a dead letter.
IndexConverges ==
    <>[](\/ counters.rebuilds > 0
         \/ \A o \in OrderIds :
              index[o] = Target(o) \/ MessagesOf(o) \cap group.dead # {})

=============================================================================
