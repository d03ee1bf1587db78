----------------------------- MODULE RealtimePnl -----------------------------
(***************************************************************************)
(* Realtime profit and loss of one account.  PostgreSQL holds the facts     *)
(* (lots and money); Redis shows a snapshot of them valued at the latest    *)
(* prices.                                                                 *)
(*                                                                         *)
(*   trades, orders   --outbox stream-->  TradeEventPnlWorker: marks what   *)
(*                                        has changed as dirty              *)
(*   ticks            --tick stream--->   RealtimePnlWorker, the one writer *)
(*                                        of snapshots, by a lease          *)
(*   snapshots        --dirty sets---->   PnlSnapshotPersistenceWorker:     *)
(*                                        values the account in PostgreSQL  *)
(*   settlement       ---------------->   rewrites the snapshots            *)
(*                                                                         *)
(* A cycle of the writer reads the dirty marks, the version of the position *)
(* cache, the facts, the prices and the old snapshots, each at its own time,*)
(* and writes all results by one Lua script, if it still has the lease and  *)
(* the version is still the one it has read.  Dirty marks are cleared only  *)
(* if they are still those it has read.                                    *)
(*                                                                         *)
(* Abstracted: a contract has at most one position of the account, worth its*)
(* volume times the price of a tick; margins, options and risk states are   *)
(* left out.  Redis keeps what it holds, a trade event is not dead-lettered, *)
(* and a message of the tick stream is a trigger: what it says is read again *)
(* from market:latest.                                                      *)
(***************************************************************************)
EXTENDS Integers, Sequences, FiniteSets, FiniteSetsExt, Functions

CONSTANTS
    Workers,            \* instances of RealtimePnlWorker
    Contracts,
    Prices,
    None,               \* no worker, no version
    MaxVolume,          \* bound: lots of a position
    MaxTrades,          \* bound: trades and other transactions of the account
    MaxTicks,           \* bound: ticks
    MaxIncidents        \* bound: batches of the persistence worker, leases that
                        \* expire under a holder, workers that die, settlements
                        \* and repeated recoveries, together

ASSUME PnlAssumption ==
    /\ None \notin Workers
    /\ Prices \subseteq Nat
    /\ \A n \in {MaxVolume, MaxTrades, MaxTicks, MaxIncidents} : n \in Nat

VARIABLES
    book,       \* PostgreSQL: volumes, number of the last transaction, day,
                \* and what the persisted valuation was computed from
    events,     \* committed events that TradeEventPnlWorker has not marked
    ticks,      \* ticks published: contract, price and day
    pending,    \* ids of ticks whose message is not acknowledged
    version,    \* pnl:position_cache_version
    dirty,      \* dirty contracts and their versions; 0 if clean
    factDirty,  \* the account is in the set of dirty account facts
    factVersion,\* its version, which is never removed
    lease,      \* holder of the writer's lease
    positions,  \* snapshots of positions
    account,    \* snapshot of the account
    index,      \* contracts whose index lists the position
    toPersist,  \* entities whose snapshot is to be persisted
    persister,  \* step of the persistence worker and the dirty marks it took
    recovery,   \* step of the settlement's recovery of Redis, the version it
                \* has set, and the positions its batch has settled
    worker,     \* the workers
    counters    \* what the bounds count

committed == << book, events >>
stream    == << ticks, pending >>
dirties   == << version, dirty, factDirty, factVersion >>
shown     == << positions, account, index >>
pnlVars   == << book, events, ticks, pending, version, dirty, factDirty, factVersion,
                lease, positions, account, index, toPersist, persister, recovery,
                worker, counters >>

-----------------------------------------------------------------------------
(* Values.                                                                 *)

NoTick == 0
NoSnapshot == << >>
Entities == Contracts \cup {"account"}
Clean == [c \in Contracts |-> 0]

\* A position as a snapshot shows it, and what it is worth.
Snap(volume, tick) == [volume |-> volume, tick |-> tick]
Value(s) == IF s.tick = NoTick THEN 0 ELSE s.volume * ticks[s.tick].price

NoCycle == [force |-> FALSE, ticks |-> {}, dirty |-> Clean, fact |-> 0, external |-> 0]
NoCache == [ready |-> FALSE, volume |-> Clean, valued |-> Clean, facts |-> 0,
            day |-> 0, version |-> 0, contracts |-> Clean,
            account |-> << Clean, 0 >>]
NoResult == [done |-> {}, failed |-> {}, positions |-> << >>,
             account |-> NoSnapshot, add |-> {}, remove |-> {}]
NewWorker == [holds |-> FALSE, step |-> "idle", price |-> Clean, indexed |-> None,
              superseded |-> FALSE, cache |-> NoCache, cycle |-> NoCycle,
              result |-> NoResult]

PnlInit ==
    /\ book = [volume |-> Clean, facts |-> 0, day |-> 0, valued |-> Clean]
    /\ events = {}
    /\ ticks = << >> /\ pending = {}
    /\ version = 0 /\ dirty = Clean /\ factDirty = FALSE /\ factVersion = 0
    /\ lease = None
    /\ positions = [c \in Contracts |-> NoSnapshot] /\ account = NoSnapshot /\ index = {}
    /\ toPersist = {}
    /\ persister = [step |-> "idle", taken |-> {}, stale |-> {}]
    /\ recovery = [step |-> "idle", version |-> 0, settled |-> {}]
    /\ worker = [w \in Workers |-> NewWorker]
    /\ counters = [trades |-> 0, incidents |-> 0, superseded |-> 0]

-----------------------------------------------------------------------------
(* Facts, their events, and ticks.                                         *)

\* The outbox row that a transaction commits with its facts.
Event(kind, c) == [id |-> book.facts + 1, kind |-> kind, contract |-> c]

\* The gate keeps trading out until the settlement has tried to recover Redis.
GateIsOpen == recovery.step \in {"idle", "failed"}

\* A fill commits: lots and money change, TRADE_CREATED tells of it.
CommitTrade(c) ==
    /\ GateIsOpen
    /\ counters.trades < MaxTrades
    /\ \E v \in (0 .. MaxVolume) \ {book.volume[c]} :
          book' = [book EXCEPT !.volume[c] = v, !.facts = @ + 1]
    /\ events' = events \cup {Event("contract", c)}
    /\ counters' = [counters EXCEPT !.trades = @ + 1]
    /\ UNCHANGED << stream, dirties, lease, shown, toPersist,
                    persister, recovery, worker >>

\* An order is accepted or cancelled: only money changes.
ChangeMoney(c) ==
    /\ GateIsOpen
    /\ counters.trades < MaxTrades
    /\ book' = [book EXCEPT !.facts = @ + 1]
    /\ events' = events \cup {Event("account", c)}
    /\ counters' = [counters EXCEPT !.trades = @ + 1]
    /\ UNCHANGED << stream, dirties, lease, shown, toPersist,
                    persister, recovery, worker >>

MarkContract(c) ==
    /\ version' = version + 1
    /\ dirty' = [dirty EXCEPT ![c] = version + 1]
    /\ UNCHANGED << factDirty, factVersion >>

MarkAccountFact ==
    /\ factDirty' = TRUE
    /\ factVersion' = factVersion + 1
    /\ UNCHANGED << version, dirty >>

\* TradeEventPnlWorker marks what an event changed and acknowledges it; one
\* that is delivered again is known by its processed key.
MarkDirty(e) ==
    /\ events' = events \ {e}
    /\ \/ e.kind = "contract" /\ MarkContract(e.contract)
       \/ e.kind = "account" /\ MarkAccountFact
    /\ UNCHANGED << book, stream, lease, shown, toPersist, persister, recovery,
                    worker, counters >>

\* The market-data process writes market:latest and publishes the tick.
Tick(c, p) ==
    /\ Len(ticks) < MaxTicks
    /\ ticks' = Append(ticks, [contract |-> c, price |-> p, day |-> book.day])
    /\ pending' = pending \cup {Len(ticks) + 1}
    /\ UNCHANGED << committed, dirties, lease, shown, toPersist, persister,
                    recovery, worker, counters >>

\* market:latest of contract c.
Latest(c) == Max({NoTick} \cup {i \in DOMAIN ticks : ticks[i].contract = c})

\* A price values a position only in the trading day of both.
Usable(i, day) == i # NoTick /\ ticks[i].day = day

-----------------------------------------------------------------------------
(* The lease of a worker.                                                 *)

\* What a worker's step leaves alone: everything but the worker.
Outside == << committed, stream, dirties, lease, shown, toPersist, persister,
              recovery, counters >>

\* SET NX.  From now on the caches of the others may grow old unnoticed.
Acquire(w) ==
    /\ ~worker[w].holds
    /\ lease = None
    /\ lease' = w
    /\ worker' = [v \in Workers |->
                    IF v = w THEN [worker[w] EXCEPT !.holds = TRUE]
                    ELSE [worker[v] EXCEPT !.superseded = TRUE]]
    /\ UNCHANGED << committed, stream, dirties, shown, toPersist, persister,
                    recovery, counters >>

\* The holder has not renewed in time, or no worker renews any more.
ExpireLease ==
    /\ lease # None
    /\ IF worker[lease].holds
       THEN /\ counters.incidents < MaxIncidents
            /\ counters' = [counters EXCEPT !.incidents = @ + 1]
       ELSE UNCHANGED counters
    /\ lease' = None
    /\ UNCHANGED << committed, stream, dirties, shown, toPersist, persister,
                    recovery, worker >>

\* The process dies and is started again; its messages stay pending.
WorkerDies(w) ==
    /\ counters.incidents < MaxIncidents
    /\ worker[w] # NewWorker
    /\ worker' = [worker EXCEPT ![w] = NewWorker]
    /\ counters' = [counters EXCEPT !.incidents = @ + 1]
    /\ UNCHANGED << committed, stream, dirties, lease, shown, toPersist, persister,
                    recovery >>

-----------------------------------------------------------------------------
(* A cycle of the worker.                                                  *)

\* A worker that fails to renew learns that it has lost the lease; one for
\* which renewal is not due trusts what it remembers.
LoseLease(w) ==
    /\ worker[w].holds /\ worker[w].step = "idle"
    /\ lease # w
    /\ worker' = [worker EXCEPT ![w].holds = FALSE]
    /\ UNCHANGED Outside

\* A worker reads new messages, and those another consumer has left pending
\* for long, then lists what is dirty.  A cycle that would find nothing is left
\* out.
HasWork(w) ==
    \/ pending # {} \/ dirty # Clean \/ factDirty
    \/ ~worker[w].cache.ready \/ worker[w].cache.version # version

BeginFlush(w, force) ==
    /\ worker[w].holds /\ worker[w].step = "idle"
    /\ force \/ HasWork(w)
    /\ worker' = [worker EXCEPT
          ![w].step = "listed",
          ![w].cycle = [force |-> force, ticks |-> pending, dirty |-> dirty,
                        fact |-> IF factDirty THEN factVersion ELSE 0,
                        external |-> 0]]
    /\ UNCHANGED Outside

LoadVersion(w) ==
    /\ worker[w].step = "listed"
    /\ worker' = [worker EXCEPT ![w].step = "versioned",
                                ![w].cycle.external = version]
    /\ UNCHANGED Outside

\* get_cycle_snapshot: dirty contracts and accounts that this cache has not
\* seen at this version are read again; everything is, if asked for, if there
\* is nothing yet or it has expired, or if the version moved for no known reason.
AccountKey(w) == << worker[w].cycle.dirty, worker[w].cycle.fact >>
ChangedContracts(w) ==
    {c \in Contracts : /\ worker[w].cycle.dirty[c] # 0
                       /\ worker[w].cache.contracts[c] # worker[w].cycle.dirty[c]}
AccountChanged(w) ==
    /\ AccountKey(w) # << Clean, 0 >>
    /\ worker[w].cache.account # AccountKey(w)
\* Mutant: a cycle in full is content with what it has in its cache.
MustReloadIfNew(w) == ~worker[w].cache.ready
MustReload(w) ==
    \/ worker[w].cycle.force
    \/ ~worker[w].cache.ready
    \/ /\ worker[w].cycle.external # worker[w].cache.version
       /\ ChangedContracts(w) = {}

\* Local records of versions: cleared by a reload, then those of this cycle.
SeenContracts(w, seen) ==
    [c \in Contracts |-> IF worker[w].cycle.dirty[c] # 0
                         THEN worker[w].cycle.dirty[c] ELSE seen[c]]
SeenAccount(w, seen) ==
    IF AccountKey(w) # << Clean, 0 >> THEN AccountKey(w) ELSE seen

Reloaded(w) ==
    [ready |-> TRUE, volume |-> book.volume, valued |-> book.valued,
     facts |-> book.facts, day |-> book.day,
     version |-> worker[w].cycle.external,
     contracts |-> SeenContracts(w, Clean),
     account |-> SeenAccount(w, << Clean, 0 >>)]

Refreshed(w) ==
    LET cache == worker[w].cache
        again == ChangedContracts(w)
        row == AccountChanged(w) \/ \E c \in again : book.volume[c] > 0
    IN [cache EXCEPT
          !.volume = [c \in Contracts |-> IF c \in again THEN book.volume[c]
                                                         ELSE cache.volume[c]],
          !.valued = [c \in Contracts |-> IF c \in again THEN book.valued[c]
                                                         ELSE cache.valued[c]],
          !.facts = IF row THEN book.facts ELSE @,
          !.day = IF row THEN book.day ELSE @,
          !.version = worker[w].cycle.external,
          !.contracts = SeenContracts(w, @),
          !.account = SeenAccount(w, @)]

\* One consistent read of the database.
LoadFacts(w) ==
    /\ worker[w].step = "versioned"
    /\ \/ /\ worker' = [worker EXCEPT ![w].step = "loaded",
                                      ![w].superseded = lease # w,
                                      ![w].cache = Reloaded(w)]
          /\ UNCHANGED counters
       \/ /\ ~MustReload(w)
          /\ worker' = [worker EXCEPT ![w].step = "loaded",
                                      ![w].cache = Refreshed(w)]
          /\ counters' = [counters EXCEPT !.superseded =
                            IF worker[w].superseded THEN 1 ELSE @]
    /\ UNCHANGED << committed, stream, dirties, lease, shown, toPersist, persister,
                    recovery >>

Open(w) == {c \in Contracts : worker[w].cache.volume[c] > 0}

\* _reconcile_active_indexes, before the calculation.
RebuildsIndex(w) ==
    /\ worker[w].cycle.force \/ worker[w].indexed # worker[w].cache.version
    /\ version = worker[w].cache.version
IndexSeen(w) == IF RebuildsIndex(w) THEN Open(w) ELSE index

Keys(w) ==
    {ticks[i].contract : i \in worker[w].cycle.ticks}
        \cup {c \in Contracts : worker[w].cycle.dirty[c] # 0}
        \cup (IF worker[w].cycle.force THEN Open(w) ELSE {})

\* The price this worker has last calculated with is the latest one still.
Unchanged(w, c) ==
    /\ ~worker[w].cycle.force
    /\ worker[w].cycle.dirty[c] = 0
    /\ Latest(c) # NoTick
    /\ worker[w].price[c] = ticks[Latest(c)].price

Requested(w) == {c \in Keys(w) : ~Unchanged(w, c)}
Failed(w) == {c \in Requested(w) \cap Open(w) :
                 ~Usable(Latest(c), worker[w].cache.day)}
Valued(w) == (Requested(w) \cap Open(w)) \ Failed(w)

\* Positions of the index that are not open, if they have a snapshot to zero.
Closed(w) == {c \in (Requested(w) \ Open(w)) \cap IndexSeen(w) :
                 positions[c] # NoSnapshot}

NewPositions(w) ==
    [c \in Valued(w) \cup Closed(w) |->
        IF c \in Valued(w) THEN Snap(worker[w].cache.volume[c], Latest(c))
                           ELSE Snap(0, NoTick)]

AsPersisted(w, c) == Snap(worker[w].cache.volume[c], worker[w].cache.valued[c])

\* What the account's total counts for a position before this cycle, ...
OldValue(w, c) ==
    Value(IF positions[c] # NoSnapshot THEN positions[c] ELSE AsPersisted(w, c))

\* ... and for one that this cycle does not calculate, in a total from scratch.
KeptValue(w, c) ==
    IF positions[c] # NoSnapshot THEN Value(positions[c])
    ELSE IF Usable(Latest(c), worker[w].cache.day)
         THEN Value(Snap(worker[w].cache.volume[c], Latest(c)))
         ELSE Value(AsPersisted(w, c))

DirtyDone(w) == {c \in Requested(w) \ Failed(w) : worker[w].cycle.dirty[c] # 0}
Affected(w) ==
    \/ worker[w].cycle.fact # 0
    \/ Failed(w) \cup DirtyDone(w) \cup DOMAIN NewPositions(w) # {}
FromScratch(w) ==
    worker[w].cycle.force \/ account = NoSnapshot \/ DirtyDone(w) # {}

NewTotal(w) ==
    LET new == NewPositions(w)
        Total(c) == IF c \in DOMAIN new THEN Value(new[c]) ELSE KeptValue(w, c)
        Delta(c) == Value(new[c]) - OldValue(w, c)
    IN  IF FromScratch(w) THEN MapThenSumSet(Total, Open(w))
        ELSE account.value + MapThenSumSet(Delta, DOMAIN new)

NewAccount(w) == [facts |-> worker[w].cache.facts, value |-> NewTotal(w)]

Skipped(w) == {i \in worker[w].cycle.ticks : ticks[i].contract \notin Requested(w)}
IndexedNow(w) == IF RebuildsIndex(w) THEN worker[w].cache.version
                                     ELSE worker[w].indexed

\* A cycle with nothing to calculate ends once the index is rebuilt and the
\* messages of unchanged prices are acknowledged.
EndEarly(w) ==
    /\ worker[w].step = "loaded"
    /\ Requested(w) = {} /\ worker[w].cycle.fact = 0
    /\ index' = IndexSeen(w)
    /\ pending' = pending \ Skipped(w)
    /\ worker' = [worker EXCEPT
          ![w].step = "idle", ![w].indexed = IndexedNow(w),
          ![w].cycle = NoCycle]
    /\ UNCHANGED << committed, ticks, dirties, lease, positions, account, toPersist,
                    persister, recovery, counters >>

\* The lease is checked again before messages are acknowledged unprocessed.
GiveUp(w) ==
    /\ worker[w].step = "loaded"
    /\ Skipped(w) # {} /\ lease # w
    /\ index' = IndexSeen(w)
    /\ worker' = [worker EXCEPT
          ![w].step = "idle", ![w].holds = FALSE,
          ![w].indexed = IndexedNow(w), ![w].cycle = NoCycle]
    /\ UNCHANGED << committed, stream, dirties, lease, positions, account, toPersist,
                    persister, recovery, counters >>

\* process_batch.
Calculate(w) ==
    /\ worker[w].step = "loaded"
    /\ Requested(w) # {} \/ worker[w].cycle.fact # 0
    /\ index' = IndexSeen(w)
    /\ pending' = pending \ Skipped(w)
    /\ worker' = [worker EXCEPT
          ![w].step = "calculated",
          ![w].indexed = IndexedNow(w),
          ![w].result =
              [done |-> Requested(w) \ Failed(w), failed |-> Failed(w),
               tick |-> [c \in Contracts |-> Latest(c)],
               positions |-> NewPositions(w),
               account |-> IF Affected(w) THEN NewAccount(w) ELSE NoSnapshot,
               add |-> Valued(w) \ IndexSeen(w), remove |-> Closed(w)]]
    /\ UNCHANGED << committed, ticks, dirties, lease, positions, account, toPersist,
                    persister, recovery, counters >>

Writes(w) ==
    DOMAIN worker[w].result.positions # {} \/ worker[w].result.account # NoSnapshot
\* Mutant: the script does not compare the version of the position cache.
FencedByLease(w) == lease = w
Fenced(w) == lease = w /\ version = worker[w].cache.version

Written(w) ==
    DOMAIN worker[w].result.positions
        \cup (IF worker[w].result.account # NoSnapshot THEN {"account"} ELSE {})

\* One script: all of it or nothing.
WriteSnapshots(w) ==
    LET result == worker[w].result
    IN /\ Writes(w) => Fenced(w)
       /\ positions' = [c \in Contracts |-> IF c \in DOMAIN result.positions
                                           THEN result.positions[c]
                                           ELSE positions[c]]
       /\ account' = IF result.account # NoSnapshot THEN result.account ELSE account
       /\ index' = (index \cup result.add) \ result.remove
       /\ toPersist' = toPersist \cup Written(w)
       /\ persister' = [persister EXCEPT !.stale =
                            IF persister.step = "idle" THEN {} ELSE @ \cup Written(w)]

\* complete_dirty_contract: a mark that was set again meanwhile stays.
\* Mutant: it is removed whatever its version.
CleanedWhatever(w) == worker[w].result.done
Cleaned(w) == {c \in worker[w].result.done : dirty[c] = worker[w].cycle.dirty[c]}

\* Acknowledge, remember prices, clear the dirty marks that are still the same.
\* The messages of a failed contract are kept, or dead-lettered at the limit.
Complete(w) ==
    LET result == worker[w].result
        cycle == worker[w].cycle
        Of(S) == {i \in worker[w].cycle.ticks : ticks[i].contract \in S}
    IN /\ \E lost \in {{}, result.failed} :
             /\ pending' = pending \ Of(result.done \cup lost)
             /\ worker' = [worker EXCEPT
                   ![w].step = "idle",
                   ![w].price = [c \in Contracts |->
                       IF c \in result.done /\ result.tick[c] # NoTick
                       THEN ticks[result.tick[c]].price ELSE @[c]],
                   ![w].cycle = NoCycle, ![w].result = NoResult]
       /\ dirty' = [c \in Contracts |-> IF c \in Cleaned(w) THEN 0 ELSE dirty[c]]
       /\ factDirty' = (factDirty /\ ~( /\ cycle.fact = factVersion
                                        /\ result.account # NoSnapshot ))

\* A process that dies after the script leaves marks and messages as they were.
Write(w) ==
    /\ worker[w].step = "calculated"
    /\ WriteSnapshots(w)
    /\ \/ Complete(w) /\ UNCHANGED counters
       \/ /\ counters.incidents < MaxIncidents
          /\ counters' = [counters EXCEPT !.incidents = @ + 1]
          /\ worker' = [worker EXCEPT ![w] = NewWorker]
          /\ UNCHANGED << pending, dirty, factDirty >>
    /\ UNCHANGED << committed, ticks, version, factVersion, lease, recovery >>

\* A rejected write counts as a lost lease, whichever condition failed; its
\* messages stay pending.
RejectWrite(w) ==
    /\ worker[w].step = "calculated"
    /\ Writes(w) /\ ~Fenced(w)
    /\ worker' = [worker EXCEPT ![w].step = "idle", ![w].holds = FALSE,
                                ![w].cycle = NoCycle, ![w].result = NoResult]
    /\ UNCHANGED Outside

-----------------------------------------------------------------------------
(* PnlSnapshotPersistenceWorker.                                           *)

\* persist_batch lists the marks; then one transaction values all positions at
\* the latest prices.  If one has no price of its day, the marks stay.
CanValue == \A c \in Contracts : book.volume[c] > 0 => Usable(Latest(c), book.day)

Revalued == [c \in Contracts |-> IF book.volume[c] > 0 THEN Latest(c)
                                                      ELSE book.valued[c]]

ValueAccount ==
    /\ persister.step = "idle" /\ toPersist # {}
    /\ counters.incidents < MaxIncidents
    /\ GateIsOpen /\ CanValue
    /\ book' = [book EXCEPT !.valued = Revalued]
    /\ persister' = [step |-> "valued", taken |-> toPersist, stale |-> {}]
    /\ counters' = [counters EXCEPT !.incidents = @ + 1]
    /\ UNCHANGED << events, stream, dirties, lease, shown, toPersist,
                    recovery, worker >>

\* A mark that a cycle has set anew meanwhile has another version: it stays.
Persisted == persister.taken \ persister.stale

ClearDirty ==
    /\ persister.step = "valued"
    /\ toPersist' = toPersist \ Persisted
    /\ persister' = [step |-> "idle", taken |-> {}, stale |-> {}]
    /\ UNCHANGED << committed, stream, dirties, lease, shown, recovery, worker,
                    counters >>

-----------------------------------------------------------------------------
(* The daily settlement: facts first, then _recover_redis.                 *)

SettleDay ==
    /\ GateIsOpen
    /\ counters.incidents < MaxIncidents
    /\ book' = [book EXCEPT !.facts = @ + 1, !.day = @ + 1, !.valued = Clean]
    /\ recovery' = [recovery EXCEPT !.step = "posted",
                      !.settled = {c \in Contracts : book.volume[c] > 0}]
    /\ counters' = [counters EXCEPT !.incidents = @ + 1]
    /\ UNCHANGED << events, stream, dirties, lease, shown, toPersist,
                    persister, worker >>

\* The command for a day that is completed only recovers Redis again.
RepeatRecovery ==
    /\ GateIsOpen
    /\ counters.incidents < MaxIncidents
    /\ recovery' = [recovery EXCEPT !.step = "posted"]
    /\ counters' = [counters EXCEPT !.incidents = @ + 1]
    /\ UNCHANGED << committed, stream, dirties, lease, shown, toPersist, persister,
                    worker >>

OpenInBook == {c \in Contracts : book.volume[c] > 0}

\* A position that the batch has not settled refuses the recovery.
DeleteSnapshots ==
    /\ recovery.step = "posted"
    /\ OpenInBook \subseteq recovery.settled
    /\ positions' = [c \in Contracts |-> IF c \in recovery.settled THEN NoSnapshot
                                       ELSE positions[c]]
    /\ account' = NoSnapshot
    /\ recovery' = [recovery EXCEPT !.step = "deleted"]
    /\ UNCHANGED << committed, stream, dirties, lease, index, toPersist, persister,
                    worker, counters >>

BumpVersion ==
    /\ recovery.step = "deleted"
    /\ version' = version + 1
    /\ recovery' = [recovery EXCEPT !.step = "bumped", !.version = version + 1]
    /\ UNCHANGED << committed, stream, dirty, factDirty, factVersion, lease, shown,
                    toPersist, persister, worker, counters >>

RebuildIndex ==
    /\ recovery.step = "bumped"
    /\ version = recovery.version
    /\ index' = OpenInBook
    /\ recovery' = [recovery EXCEPT !.step = "indexed"]
    /\ UNCHANGED << committed, stream, dirties, lease, positions, account, toPersist,
                    persister, worker, counters >>

BaselineTotal ==
    MapThenSumSet(LAMBDA c : Value(Snap(book.volume[c], book.valued[c])), OpenInBook)

\* The baselines of the new day, as they were persisted; not to be persisted.
WriteBaselines ==
    /\ recovery.step = "indexed"
    /\ version = recovery.version
    /\ positions' = [c \in Contracts |->
                       IF c \in OpenInBook THEN Snap(book.volume[c], book.valued[c])
                                           ELSE positions[c]]
    /\ account' = [facts |-> book.facts, value |-> BaselineTotal]
    /\ index' = index \cup OpenInBook
    /\ recovery' = [recovery EXCEPT !.step = "idle"]
    /\ UNCHANGED << committed, stream, dirties, lease, toPersist, persister, worker,
                    counters >>

\* A refused position, another version than its own, or Redis not answering:
\* cache_status is FAILED, and trading opens.
FailRecovery ==
    /\ ~GateIsOpen
    /\ recovery' = [recovery EXCEPT !.step = "failed"]
    /\ UNCHANGED << committed, stream, dirties, lease, shown, toPersist, persister,
                    worker, counters >>

-----------------------------------------------------------------------------
Flush(w) ==
    \/ LoadVersion(w) \/ LoadFacts(w) \/ EndEarly(w) \/ GiveUp(w)
    \/ Calculate(w) \/ Write(w) \/ RejectWrite(w)

Worker(w) ==
    \/ Acquire(w) \/ LoseLease(w)
    \/ \E force \in BOOLEAN : BeginFlush(w, force)
    \/ Flush(w)

Persist == ValueAccount \/ ClearDirty
Recover == DeleteSnapshots \/ BumpVersion \/ RebuildIndex \/ WriteBaselines
              \/ FailRecovery

PnlNext ==
    \/ \E c \in Contracts : CommitTrade(c) \/ ChangeMoney(c)
    \/ \E e \in events : MarkDirty(e)
    \/ \E c \in Contracts, p \in Prices : Tick(c, p)
    \/ \E w \in Workers : Worker(w) \/ WorkerDies(w)
    \/ ExpireLease
    \/ Persist
    \/ SettleDay \/ RepeatRecovery \/ Recover

PnlSpec == PnlInit /\ [][PnlNext]_pnlVars

\* Workers loop for ever; a cycle in full is due every minute, however many
\* cycles there are in between; a lease that nobody renews expires.
PnlFairness ==
    /\ WF_pnlVars(\E e \in events : MarkDirty(e))
    /\ WF_pnlVars(ExpireLease)
    /\ WF_pnlVars(\E w \in Workers : Acquire(w))
    /\ WF_pnlVars(Recover)
    /\ \A w \in Workers : /\ WF_pnlVars(LoseLease(w))
                          /\ WF_pnlVars(Flush(w))
                          /\ SF_pnlVars(BeginFlush(w, TRUE))

PnlFairSpec == PnlSpec /\ PnlFairness

-----------------------------------------------------------------------------
(* Properties.                                                             *)

PnlTypeOK ==
    /\ book \in [volume : [Contracts -> 0 .. MaxVolume], facts : Nat, day : Nat,
                 valued : [Contracts -> 0 .. MaxTicks]]
    /\ pending \subseteq DOMAIN ticks
    /\ dirty \in [Contracts -> 0 .. version]
    /\ lease \in Workers \cup {None}
    /\ index \subseteq Contracts
    /\ toPersist \subseteq Entities
    /\ \A w \in Workers :
          /\ worker[w].cache.version <= version

\* Every committed fact has been marked, every mark worked off, and the last
\* recovery of a settlement succeeded.
Quiet ==
    /\ events = {} /\ dirty = Clean /\ ~factDirty
    /\ recovery.step = "idle"

\* No mark is cleared that still has something to tell: when nothing is dirty,
\* an account that is shown is shown with the latest committed facts, and
\* positions with their volumes.  (Unless a worker has got the lease back and
\* worked on with what it had cached before others held it; see README.)
CleanMeansCurrent ==
    Quiet /\ counters.superseded = 0 =>
        /\ account # NoSnapshot => account.facts = book.facts
        /\ \A c \in OpenInBook :
              positions[c] # NoSnapshot => positions[c].volume = book.volume[c]

\* Facts that are shown are never replaced by older ones, whichever worker
\* writes, and whatever its cycle has been reading meanwhile.
NeverOlderFacts ==
    [][account # NoSnapshot /\ account' # NoSnapshot /\ counters'.superseded = 0
         => account'.facts >= account.facts]_pnlVars

\* In the end what is shown is the facts at the latest prices.  (After a recovery
\* that failed, a cycle writes the account only if it has a position.)
Shown(c) == Snap(book.volume[c], Latest(c))
Current ==
    /\ account # NoSnapshot /\ (OpenInBook # {} \/ recovery.step = "idle") =>
          account.facts = book.facts
    /\ CanValue /\ OpenInBook # {} =>
          /\ \A c \in OpenInBook : positions[c] = Shown(c)
          /\ account.value = MapThenSumSet(LAMBDA c : Value(Shown(c)), OpenInBook)
Converges == <>[]Current
=============================================================================
