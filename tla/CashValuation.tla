---------------------------- MODULE CashValuation ----------------------------
(***************************************************************************)
(* The valuation of cash-security accounts.  Three workers share Redis and *)
(* PostgreSQL: the fact worker keeps the routing index (which accounts a   *)
(* tick touches) and marks an account dirty when one of its positions has  *)
(* changed; the tick worker marks the accounts a tick touches; and one     *)
(* persistence worker of several - the owner of a lease, fenced by a token *)
(* in the database - values dirty accounts: it computes in a transaction   *)
(* that has locked the fence and the account, writes the Redis snapshot    *)
(* while it owns the lease, and clears the dirty mark if it has not been   *)
(* renewed.                                                                *)
(*                                                                         *)
(* A tick is its event time, and so is its price.  A position's market     *)
(* value is what the last valuation computed: volume times mark.           *)
(*                                                                         *)
(* Not modelled: dead letters after ten failures of one message, the loss  *)
(* of Redis, the change of the trading day (a tick of another day is one   *)
(* that cannot be used), and pending shares.                               *)
(***************************************************************************)
EXTENDS Integers, Sequences, FiniteSets, Functions, SequencesExt

CONSTANTS
    Positions, Accounts, Contracts,
    AccountOf,        \* [Positions -> Accounts]
    ContractOf,       \* [Positions -> Contracts]
    Writers,          \* processes of the persistence worker
    Rebuilders,       \* the workers that restart, and so rebuild the index,
                      \*  while the other runs: those of {"fact", "tick"}
    MaxTick,          \* bound: event times of ticks are 1 .. MaxTick
    MaxVolume,        \* bound on the volume of a position
    MaxFacts,         \* bound: committed changes of positions
    MaxFaults         \* bound: crashes, lost leases, failed calls, redeliveries,
                      \*  late and outdated ticks

ASSUME RoutesAssumption ==
    /\ AccountOf \in [Positions -> Accounts]
    /\ ContractOf \in [Positions -> Contracts]
    /\ Rebuilders \subseteq {"fact", "tick"}
ASSUME FiniteAssumption ==
    /\ IsFiniteSet(Positions) /\ IsFiniteSet(Accounts)
    /\ "none" \notin Positions /\ "none" \notin Writers
ASSUME BoundsAssumption ==
    /\ MaxTick \in Nat
    /\ MaxVolume \in Nat
    /\ MaxFacts \in Nat
    /\ MaxFaults \in Nat

NoTick == [time |-> 0, usable |-> FALSE]
NoLease == [owner |-> "none", token |-> 0]
NoRead == [position |-> "none", open |-> FALSE]
NoRebuild == {"none"}
NoValuation == [revision |-> 0, value |-> 0]
NoResult == [complete |-> FALSE, valuation |-> NoValuation]
NewWriter == [pc |-> "idle", token |-> 0, batch |-> <<>>,
              ticks |-> <<>>, result |-> NoResult]

VARIABLES
    rows,        \* position rows: [volume, mark, value]
    accountRows, \* account rows: [value, available]
    latest,      \* the latest tick of each contract in Redis
    factStream,  \* positions of the facts not yet acknowledged
    tickStream,  \* contracts of the ticks not yet acknowledged
    index,       \* positions in the routing index
    reader,      \* the fact worker between its database read and its write
    rebuild,     \* by worker: the open positions its rebuild has read
    overtaken,   \* history: positions whose last fact was handled while the tick
                 \*  worker's rebuild was between its read and its write
    dirty,       \* version of each account's dirty mark, 0 when it is clean
    sequence,    \* the version counter
    lease,       \* the writer's lease in Redis
    issued,      \* the fencing tokens given out
    fence,       \* the writer's fence in the database
    writers,
    locked,      \* the writer whose transaction is open, or "none"
    revision,    \* valuations committed, per account
    snapshot,    \* the valuation each Redis snapshot shows
    changes, faults   \* history counters for the bounds

valuationVars ==
    <<rows, accountRows, latest, factStream, tickStream, index, reader, rebuild,
      overtaken, dirty, sequence, lease, issued, fence, writers, locked, revision,
      snapshot, changes, faults>>

database == <<rows, accountRows, fence, revision>>
streams == <<factStream, tickStream, latest>>
routes == <<index, reader, rebuild, overtaken>>
marks == <<dirty, sequence>>
leases == <<lease, issued>>

Open(p) == rows[p].volume > 0
PositionsOf(a) == {p \in Positions : AccountOf[p] = a}
OpenPositions(a) == {p \in PositionsOf(a) : Open(p)}
MarketValue(a, valued) ==
    SumFunctionOnSet([p \in Positions |-> valued[p].value], OpenPositions(a))

Current(w) == Head(writers[w].batch)
Mine(w) == [owner |-> w, token |-> writers[w].token]

ValuationInit ==
    /\ rows = [p \in Positions |-> [volume |-> 0, mark |-> 0, value |-> 0]]
    /\ accountRows = [a \in Accounts |-> [value |-> 0, available |-> TRUE]]
    /\ latest = [c \in Contracts |-> NoTick]
    /\ factStream = <<>>
    /\ tickStream = <<>>
    /\ index = {}
    /\ reader = NoRead
    /\ rebuild = [worker \in Rebuilders |-> NoRebuild]
    /\ overtaken = {}
    /\ dirty = [a \in Accounts |-> 0]
    /\ sequence = 0
    /\ lease = NoLease
    /\ issued = 0
    /\ fence = NoLease
    /\ writers = [w \in Writers |-> NewWriter]
    /\ locked = "none"
    /\ revision = [a \in Accounts |-> 0]
    /\ snapshot = [a \in Accounts |-> NoValuation]
    /\ changes = 0
    /\ faults = 0

Fault == faults < MaxFaults /\ faults' = faults + 1

-----------------------------------------------------------------------------
(* What the workers react to.                                              *)

\* A trade or a settlement changes a position, under the account's lock, and
\* its fact goes through the outbox to the stream.  A holding that is sold out
\* has no value any more.
ChangePosition(p, volume) ==
    /\ changes < MaxFacts
    /\ \A w \in Writers : locked = w => Current(w).account # AccountOf[p]
    /\ volume # rows[p].volume
    /\ rows' = [rows EXCEPT ![p].volume = volume,
                            ![p].value = IF volume = 0 THEN 0 ELSE @]
    /\ factStream' = Append(factStream, p)
    /\ changes' = changes + 1
    /\ UNCHANGED <<accountRows, latest, tickStream, routes, marks, leases, fence,
                   writers, locked, revision, snapshot, faults>>

\* The feed publishes a tick: hash and stream in one script.  A callback may
\* come after a REST snapshot that is newer: the script lets it overwrite.
PublishTick(c, time) ==
    /\ time # latest[c].time
    /\ IF time > latest[c].time THEN UNCHANGED faults ELSE Fault
    /\ latest' = [latest EXCEPT ![c] = [time |-> time, usable |-> TRUE]]
    /\ tickStream' = Append(tickStream, c)
    /\ UNCHANGED <<database, factStream, routes, marks, leases, writers, locked,
                   snapshot, changes>>

\* The latest tick grows too old to be used.
TickGrowsOld(c) ==
    /\ latest[c].usable
    /\ Fault
    /\ latest' = [latest EXCEPT ![c].usable = FALSE]
    /\ UNCHANGED <<database, factStream, tickStream, routes, marks, leases,
                   writers, locked, snapshot, changes>>

-----------------------------------------------------------------------------
(* Routing.                                                                *)

\* mark_accounts_dirty: each account gets a fresh version.
MarkDirty(accounts) ==
    /\ sequence' = sequence + 1
    /\ dirty' = [a \in Accounts |-> IF a \in accounts THEN sequence + 1 ELSE dirty[a]]

Rebuilding(worker) == worker \in Rebuilders /\ rebuild[worker] # NoRebuild

\* rebuild_active_index, when a worker starts: the database is read first and the
\* index replaced afterwards.
BeginRebuild(worker) ==
    /\ ~Rebuilding(worker)
    /\ Fault
    /\ rebuild' = [rebuild EXCEPT ![worker] = {p \in Positions : Open(p)}]
    /\ reader' = IF worker = "fact" THEN NoRead ELSE reader
    /\ UNCHANGED <<database, streams, index, overtaken, marks, leases, writers,
                   locked, snapshot, changes>>

EndRebuild(worker) ==
    /\ Rebuilding(worker)
    /\ index' = rebuild[worker]
    /\ rebuild' = [rebuild EXCEPT ![worker] = NoRebuild]
    /\ UNCHANGED <<database, streams, reader, overtaken, marks, leases, writers,
                   locked, snapshot, changes, faults>>

\* A message that has been handled is acknowledged, unless the worker dies first:
\* then it is delivered again.
Acknowledged(stream) ==
    \/ stream' = Tail(stream) /\ UNCHANGED faults
    \/ stream' = stream /\ Fault

\* refresh_active_index_for_position reads the row the fact is about,
ReadFact ==
    /\ factStream # <<>>
    /\ reader = NoRead
    /\ ~Rebuilding("fact")
    /\ reader' = [position |-> Head(factStream), open |-> Open(Head(factStream))]
    /\ UNCHANGED <<database, streams, index, rebuild, overtaken, marks, leases,
                   writers, locked, snapshot, changes, faults>>

\* enters the position into the index or removes it; then its account is marked.
HandleFact ==
    /\ reader # NoRead
    /\ index' = IF reader.open THEN index \cup {reader.position}
                ELSE index \ {reader.position}
    /\ MarkDirty({AccountOf[reader.position]})
    /\ overtaken' = IF Rebuilding("tick") THEN overtaken \cup {reader.position}
                    ELSE overtaken \ {reader.position}
    /\ Acknowledged(factStream)
    /\ reader' = NoRead
    /\ UNCHANGED <<database, latest, tickStream, rebuild, leases, writers, locked,
                   snapshot, changes>>

\* The tick worker marks the accounts the index has for the contract.
HandleTick ==
    /\ tickStream # <<>>
    /\ ~Rebuilding("tick")
    /\ LET touched == {AccountOf[p] : p \in {q \in index :
                                             ContractOf[q] = Head(tickStream)}}
       IN  IF touched = {} THEN UNCHANGED marks ELSE MarkDirty(touched)
    /\ Acknowledged(tickStream)
    /\ UNCHANGED <<database, latest, factStream, routes, leases, writers, locked,
                   snapshot, changes>>

-----------------------------------------------------------------------------
(* The persistence worker.                                                 *)

\* run_once without a token: acquire_writer_lease gives the next token.
Acquire(w) ==
    /\ writers[w].pc = "idle" /\ writers[w].token = 0
    /\ lease = NoLease
    /\ issued' = issued + 1
    /\ lease' = [owner |-> w, token |-> issued + 1]
    /\ writers' = [writers EXCEPT ![w].token = issued + 1, ![w].pc = "activate"]
    /\ UNCHANGED <<database, streams, routes, marks, locked, snapshot, changes, faults>>

\* The fence takes a token that is not older than its own.
MayActivate(w) == fence.token <= writers[w].token

\* activate_writer_fence; the lease is given back when the token is too old.
Activate(w) ==
    /\ writers[w].pc = "activate"
    /\ locked = "none"
    /\ IF MayActivate(w)
       THEN /\ fence' = Mine(w)
            /\ writers' = [writers EXCEPT ![w].pc = "list"]
            /\ UNCHANGED lease
       ELSE /\ lease' = IF lease = Mine(w) THEN NoLease ELSE lease
            /\ writers' = [writers EXCEPT ![w] = NewWriter]
            /\ UNCHANGED fence
    /\ UNCHANGED <<rows, accountRows, revision, streams, routes, marks, issued, locked,
                   snapshot, changes, faults>>

\* The database call raises: the token is kept, the fence is not activated.
ActivateRaises(w) ==
    /\ writers[w].pc = "activate"
    /\ Fault
    /\ writers' = [writers EXCEPT ![w].pc = "idle"]
    /\ UNCHANGED <<database, streams, routes, marks, leases, locked, snapshot, changes>>

\* run_once with a token: renew_writer_lease.
Renew(w) ==
    /\ writers[w].pc = "idle" /\ writers[w].token # 0
    /\ writers' = [writers EXCEPT ![w] =
                      IF lease = Mine(w) THEN [@ EXCEPT !.pc = "list"] ELSE NewWriter]
    /\ UNCHANGED <<database, streams, routes, marks, leases, locked, snapshot,
                   changes, faults>>

\* Mutant: the lease is set without an expiry.
ExpireLeaseNever == FALSE /\ UNCHANGED valuationVars

\* The lease outlives its owner, or ends under it.
ExpireLease ==
    /\ lease # NoLease
    /\ \/ writers[lease.owner].token # lease.token /\ UNCHANGED faults
       \/ Fault
    /\ lease' = NoLease
    /\ UNCHANGED <<database, streams, routes, marks, issued, writers, locked,
                   snapshot, changes>>

\* list_dirty_accounts.
List(w) ==
    /\ writers[w].pc = "list"
    /\ LET ids == SetToSeq({a \in Accounts : dirty[a] # 0})
       IN  writers' = [writers EXCEPT ![w].pc = IF ids = <<>> THEN "idle" ELSE "begin",
                         ![w].batch = [i \in DOMAIN ids |->
                            [account |-> ids[i], version |-> dirty[ids[i]]]]]
    /\ UNCHANGED <<database, streams, routes, marks, leases, locked, snapshot,
                   changes, faults>>

\* The next account of the batch.
NextOf(writer) ==
    [writer EXCEPT !.batch = Tail(@), !.pc = IF Len(writer.batch) = 1 THEN "idle" ELSE "begin",
       !.ticks = <<>>, !.result = NoResult]

\* is_current.
FenceIsMine(w) == fence = Mine(w)

\* The transaction of one account: it locks the fence, then the account, then
\* reads the ticks.  A batch ends when the fence is another writer's.
Begin(w) ==
    /\ writers[w].pc = "begin"
    /\ locked = "none"
    /\ IF FenceIsMine(w)
       THEN /\ locked' = w
            /\ writers' = [writers EXCEPT ![w].pc = "value", ![w].ticks = latest]
       ELSE /\ writers' = [writers EXCEPT ![w].pc = "idle", ![w].batch = <<>>]
            /\ UNCHANGED locked
    /\ UNCHANGED <<database, streams, routes, marks, leases, snapshot, changes, faults>>

TickOf(w, p) == writers[w].ticks[ContractOf[p]]

\* Mutant: a tick older than the mark is taken.
ResolvedAny(w, p) == TickOf(w, p).usable

\* The tick may be used, and does not take the mark back.
Resolved(w, p) == TickOf(w, p).usable /\ TickOf(w, p).time >= rows[p].mark

Valued(w, a) ==
    [p \in Positions |->
        IF p \in OpenPositions(a)
        THEN [rows[p] EXCEPT !.mark = TickOf(w, p).time,
                             !.value = rows[p].volume * TickOf(w, p).time]
        ELSE rows[p]]

\* _recalculate_locked_account and the commit: either every open position is
\* valued, or, when a tick cannot be used, the account becomes unavailable.
Commit(w) ==
    LET a == Current(w).account
        unresolved == {p \in OpenPositions(a) : ~Resolved(w, p)}
        marksDown == accountRows[a].available /\ \E p \in unresolved : ~TickOf(w, p).usable
        changed == unresolved = {} \/ marksDown
    IN  /\ writers[w].pc = "value"
        /\ rows' = IF unresolved = {} THEN Valued(w, a) ELSE rows
        /\ accountRows' = [accountRows EXCEPT ![a] =
              [value |-> IF unresolved = {} THEN MarketValue(a, Valued(w, a)) ELSE @.value,
               available |-> unresolved = {} \/ (@.available /\ ~marksDown)]]
        /\ revision' = IF changed THEN [revision EXCEPT ![a] = @ + 1] ELSE revision
        /\ writers' = [writers EXCEPT ![w].pc = IF changed THEN "snapshot" ELSE "complete",
              ![w].result = [complete |-> unresolved = {},
                             valuation |-> [revision |-> revision'[a],
                                            value |-> accountRows'[a].value]]]
        /\ locked' = "none"
        /\ UNCHANGED <<fence, streams, routes, marks, leases, snapshot, changes, faults>>

\* The transaction fails and is rolled back; the account stays dirty.
RollBack(w) ==
    /\ writers[w].pc = "value"
    /\ Fault
    /\ locked' = "none"
    /\ writers' = [writers EXCEPT ![w] = NextOf(@)]
    /\ UNCHANGED <<database, streams, routes, marks, leases, snapshot, changes>>

OwnsLease(w) == lease = Mine(w)

\* write_cycle_snapshots_if_lease_value_owned, one script; it may also fail.
WriteSnapshot(w) ==
    LET a == Current(w).account IN
    /\ writers[w].pc = "snapshot"
    /\ \/ /\ OwnsLease(w)
          /\ snapshot' = [snapshot EXCEPT ![a] = writers[w].result.valuation]
          /\ writers' = [writers EXCEPT ![w].pc = "complete"]
          /\ UNCHANGED faults
       \/ /\ ~OwnsLease(w)
          /\ writers' = [writers EXCEPT ![w] = NextOf(@)]
          /\ UNCHANGED <<snapshot, faults>>
       \/ /\ Fault
          /\ writers' = [writers EXCEPT ![w] = NextOf(@)]
          /\ UNCHANGED snapshot
    /\ UNCHANGED <<database, streams, routes, marks, leases, locked, changes>>

\* Mutant: the mark is cleared even when it has been renewed.
StillCurrentNot(w) == TRUE

StillCurrent(w) == dirty[Current(w).account] = Current(w).version

\* complete_dirty_account.
Complete(w) ==
    /\ writers[w].pc = "complete"
    /\ dirty' = IF writers[w].result.complete /\ StillCurrent(w)
                THEN [dirty EXCEPT ![Current(w).account] = 0] ELSE dirty
    /\ writers' = [writers EXCEPT ![w] = NextOf(@)]
    /\ UNCHANGED <<database, streams, routes, sequence, leases, locked, snapshot,
                   changes, faults>>

\* A writer dies and is started again.
Crash(w) ==
    /\ writers[w] # NewWriter
    /\ Fault
    /\ writers' = [writers EXCEPT ![w] = NewWriter]
    /\ locked' = IF locked = w THEN "none" ELSE locked
    /\ UNCHANGED <<database, streams, routes, marks, leases, snapshot, changes>>

\* A writer is asked to stop between two rounds and gives its lease back.
Stop(w) ==
    /\ writers[w].pc = "idle" /\ writers[w].token # 0
    /\ Fault
    /\ lease' = IF OwnsLease(w) THEN NoLease ELSE lease
    /\ writers' = [writers EXCEPT ![w] = NewWriter]
    /\ UNCHANGED <<database, streams, routes, marks, issued, locked, snapshot, changes>>

-----------------------------------------------------------------------------
WriterStep(w) ==
    \/ Acquire(w) \/ Activate(w) \/ Renew(w) \/ List(w) \/ Begin(w)
    \/ Commit(w) \/ WriteSnapshot(w) \/ Complete(w)

ValuationNext ==
    \/ \E p \in Positions, volume \in 0 .. MaxVolume : ChangePosition(p, volume)
    \/ \E c \in Contracts : TickGrowsOld(c) \/ \E time \in 1 .. MaxTick : PublishTick(c, time)
    \/ \E worker \in Rebuilders : BeginRebuild(worker) \/ EndRebuild(worker)
    \/ ReadFact \/ HandleFact \/ HandleTick
    \/ ExpireLease
    \/ \E w \in Writers : WriterStep(w) \/ ActivateRaises(w) \/ RollBack(w)
                            \/ Crash(w) \/ Stop(w)

\* The workers' loops go on; a lease nobody renews expires.
ValuationFairness ==
    /\ \A worker \in Rebuilders : WF_valuationVars(EndRebuild(worker))
    /\ WF_valuationVars(ReadFact) /\ WF_valuationVars(HandleFact) /\ WF_valuationVars(HandleTick)
    /\ \A w \in Writers : WF_valuationVars(WriterStep(w))
    /\ WF_valuationVars(ExpireLease)

ValuationSpec == ValuationInit /\ [][ValuationNext]_valuationVars
ValuationFairSpec == ValuationSpec /\ ValuationFairness

-----------------------------------------------------------------------------
(* Properties.                                                             *)

\* No valuation takes a position's mark back to an older tick, whichever writer
\* commits it, however late it is, and although the feed may publish an older
\* tick over a newer one.
MarkNeverOlder == [][\A p \in Positions : rows'[p].mark >= rows[p].mark]_rows

\* The Redis snapshot of an account never goes back to an earlier valuation: what
\* a writer has committed is not published once its lease has passed on.
SnapshotNeverOlder == 
    [][\A a \in Accounts : snapshot'[a].revision >= snapshot[a].revision]_snapshot

\* Valuations are committed in the order of the fencing tokens: the fence never
\* goes back, and whoever commits still has it.
EpochsInOrder ==
    [][/\ fence'.token >= fence.token
       /\ revision' # revision => \E w \in Writers : locked = w /\ fence = Mine(w)]_valuationVars

\* Neither the rows nor what is shown of them nor the fence falls back, whichever
\* writers take turns.
NothingFallsBack == MarkNeverOlder /\ SnapshotNeverOlder /\ EpochsInOrder

Unhandled(p) == \E i \in DOMAIN factStream : factStream[i] = p
Unread(c) == \E i \in DOMAIN tickStream : tickStream[i] = c

Valuation(a) ==
    /\ \A p \in OpenPositions(a) :
          /\ rows[p].mark = latest[ContractOf[p]].time
          /\ rows[p].value = rows[p].volume * rows[p].mark
    /\ accountRows[a].value = MarketValue(a, rows)
    /\ accountRows[a].available \/ \E p \in OpenPositions(a) : ~latest[ContractOf[p]].usable
    /\ snapshot[a].value = accountRows[a].value

\* An account that is not marked dirty and has no message on its way is valued:
\* every position at its contract's latest tick, the account and its Redis
\* snapshot at their sum - unless a rebuild of the tick worker has overtaken one
\* of its facts, so that ticks may have passed it by.
CleanIsValued ==
    \A a \in Accounts :
        /\ dirty[a] = 0
        /\ \A p \in PositionsOf(a) : ~Unhandled(p) /\ ~Unread(ContractOf[p])
        /\ PositionsOf(a) \cap overtaken = {}
        => Valuation(a)

\* Ticks of a holding's contract are routed to its account once the position's
\* fact has been handled, whatever rebuilds of the two workers come between, one
\* after the other or at once.  The one case that loses a route is that a fact is
\* handled between the read and the write of a rebuild of the tick worker: the
\* write takes the holding out again until its next fact.
RoutesCoverHoldings ==
    \A p \in Positions : Open(p) /\ ~Unhandled(p) /\ p \notin overtaken => p \in index

\* No holding is forgotten: its ticks reach its account, and an account with
\* nothing left to do is valued.
HoldingsAreValued == CleanIsValued /\ RoutesCoverHoldings

\* A writer renews a lease whose token it has not entered into the fence: its
\* batches end before they begin, and nobody else gets the lease.
Barren ==
    \E w \in Writers : /\ lease = Mine(w)
                       /\ writers[w].token # fence.token
                       /\ writers[w].pc # "activate"

\* Every account is valued in the end if its ticks can be used, unless a writer
\* keeps the lease after it has failed to activate its fence, or a rebuild of the
\* tick worker has overtaken a fact of the account.
Converges ==
    \/ <>[](\A a \in Accounts :
              /\ PositionsOf(a) \cap overtaken = {}
              /\ \A p \in OpenPositions(a) : /\ latest[ContractOf[p]].usable
                                             /\ latest[ContractOf[p]].time >= rows[p].mark
              => Valuation(a))
    \/ <>[]Barren

=============================================================================
