------------------------------- MODULE MarketFeed -------------------------------
(***************************************************************************)
(* The market data subscriber of one market domain.  Its main loop derives *)
(* the codes that orders, positions and temporary requests want, and keeps *)
(* one connection of the SDK subscribed to them; the SDK's thread puts the *)
(* ticks it receives into a bounded queue; a snapshot thread fetches the   *)
(* last tick of every code newly subscribed from the database and puts it  *)
(* into the same queue; a consumer thread validates and publishes to Redis.*)
(* A tick is its code and its event time, a natural number per code.       *)
(*                                                                         *)
(* A subscription generation is an integer in the code and is only ever    *)
(* compared with the current one: here a snapshot carries a flag that says *)
(* whether its generation is still the current one.                        *)
(*                                                                         *)
(* Not modelled: the mapping of codes to those of the source, validation   *)
(* of a tick, codes the database has no tick of, the counters of the       *)
(* status, and the drain of the queue when the process is stopped (a stop  *)
(* is a Restart).                                                          *)
(***************************************************************************)
EXTENDS Integers, Sequences, FiniteSets, FiniteSetsExt, SequencesExt

CONSTANTS
    Codes,
    QueueSize,        \* settings' bound of the tick queue
    MaxRequests,      \* temporary subscriptions one account may hold
    FeedTicks,        \* bound: ticks of the market
    MaxChanges,       \* bound: changes of the codes that are wanted
    MaxFaults         \* bound: failed calls, broken connections, restarts, and
                      \*  snapshots written by the API process

ASSUME FeedAssumption ==
    /\ IsFiniteSet(Codes) /\ QueueSize \in Nat \ {0} /\ MaxRequests \in Nat
    /\ FeedTicks \in Nat /\ MaxChanges \in Nat /\ MaxFaults \in Nat

None == [time |-> 0, byOrder |-> FALSE]
NotPending == {}

VARIABLES
    wanted,      \* codes of active orders, positions and margin dependencies
    requests,    \* codes of the temporary requests, until they expire
    market,      \* per code, the event time of the market's last tick
    wire,        \* ticks the connection has sent and not delivered
    channels,    \* the SDK's confirmed subscriptions
    conn,        \* "none", "alive" or "dead" (its threads have ended)
    pc,          \* of the main loop
    sub,         \* the subscription service
    mapped,      \* codes of the current code mapping
    waiting,     \* disconnected and waiting for the reconnection
    backoff,     \* the time of the next attempt has not come
    issue,       \* what the SDK last said of its session
    error,       \* last_error
    dropped,     \* a tick has been dropped from a full queue lately
    boot,        \* bootstrap: codes requested, and codes waiting for a retry
    jobs,        \* queries of the snapshot thread, first the oldest
    queue,       \* ticks to be processed
    seen,        \* per code: last live event time, and the bootstrap watermark;
                 \*  history: when the code was last given up, as the market's time
    latest,      \* Redis: the last tick published per code
    skipped,     \* history: codes whose snapshot has been lost after its query
    changes, feedFaults   \* history counters for the bounds

source == <<market, wire, channels, conn>>
loop == <<pc, sub, mapped, waiting, backoff>>
health == <<issue, error, dropped>>
ingest == <<boot, jobs, queue, seen>>
demand == <<wanted, requests>>
feedVars == <<demand, source, loop, health, ingest, latest, skipped, changes, feedFaults>>

NewSub == [requested |-> {}, subscribed |-> {}, failed |-> {},
           pending |-> NotPending, aged |-> FALSE]
NewBoot == [requested |-> {}, retry |-> {}]
NewSeen == [c \in Codes |-> [live |-> 0, watermark |-> 0, since |-> 0]]

FeedInit ==
    /\ wanted \in SUBSET Codes /\ requests \in {{}, Codes}
    /\ market = [c \in Codes |-> 1]
    /\ wire = <<>> /\ channels = {} /\ conn = "none"
    /\ pc = "observe" /\ sub = NewSub /\ mapped = {}
    /\ waiting = FALSE /\ backoff = FALSE
    /\ issue = "none" /\ error = "none" /\ dropped = FALSE
    /\ boot = NewBoot /\ jobs = <<>> /\ queue = <<>> /\ seen = NewSeen
    /\ latest = [c \in Codes |-> None]
    /\ skipped = {}
    /\ changes = 0 /\ feedFaults = 0

FeedFault == feedFaults < MaxFaults /\ feedFaults' = feedFaults + 1
Change == changes < MaxChanges /\ changes' = changes + 1

\* get_desired_codes.
Desired == wanted \cup requests
AllSubscribed(s) == s.requested # {} /\ s.subscribed = s.requested

-----------------------------------------------------------------------------
(* Demand: the indexes of orders and positions, and temporary requests.    *)

Want(c) ==
    /\ Change
    /\ wanted' = IF c \in wanted THEN wanted \ {c} ELSE wanted \cup {c}
    /\ UNCHANGED <<requests, source, loop, health, ingest, latest, skipped, feedFaults>>

\* REQUEST_CODES_SCRIPT: an option and its underlying are requested together,
\* within the account's limit.
Prepare(codes) ==
    /\ Change
    /\ Cardinality(requests \cup codes) <= MaxRequests
    /\ requests' = requests \cup codes
    /\ UNCHANGED <<wanted, source, loop, health, ingest, latest, skipped, feedFaults>>

Expire ==
    /\ requests # {}
    /\ Change
    /\ requests' = {}
    /\ UNCHANGED <<wanted, source, loop, health, ingest, latest, skipped, feedFaults>>

-----------------------------------------------------------------------------
(* The source and the SDK's threads.                                       *)

Tick(c) ==
    /\ MapThenSumSet(LAMBDA d : market[d], Codes) < Cardinality(Codes) + FeedTicks
    /\ market' = [market EXCEPT ![c] = @ + 1]
    /\ wire' = IF conn = "alive" /\ c \in channels
               THEN Append(wire, [code |-> c, time |-> market[c] + 1]) ELSE wire
    /\ UNCHANGED <<demand, channels, conn, loop, health, ingest, latest, skipped,
                   changes, feedFaults>>

\* The callback's generation changes with the mapping.
Live(tick) ==
    [code |-> tick.code, time |-> tick.time, kind |-> "LIVE", current |-> pc # "replacing"]

\* on_quote: a tick of a code that is mapped goes into the queue, unless it is full.
OnQuote ==
    /\ wire # <<>>
    /\ wire' = Tail(wire)
    /\ IF Head(wire).code \notin mapped THEN UNCHANGED <<queue, dropped>>
       ELSE IF Len(queue) < QueueSize
       THEN queue' = Append(queue, Live(Head(wire))) /\ UNCHANGED dropped
       ELSE dropped' = TRUE /\ UNCHANGED queue
    /\ UNCHANGED <<demand, market, channels, conn, loop, issue, error, boot, jobs,
                   seen, latest, skipped, changes, feedFaults>>

\* _recent_queue_drops looks back over a window.
DropForgotten ==
    /\ dropped
    /\ dropped' = FALSE
    /\ UNCHANGED <<demand, source, loop, issue, error, ingest, latest, skipped,
                   changes, feedFaults>>

\* on_message and on_error: the session is broken or lags behind, and recovers; a
\* session that has lost ticks because it lagged does not.
OnMessage(state) ==
    /\ conn = "alive"
    /\ \/ /\ state # "recovered" /\ FeedFault
          /\ issue' = state
          /\ error' = "other"
       \/ /\ state = "recovered" /\ issue \notin {"none", "slow_consumer"}
          /\ issue' = "none"
          /\ error' = "none"
          /\ UNCHANGED feedFaults
    /\ UNCHANGED <<demand, source, loop, dropped, ingest, latest, skipped, changes>>

ConnectionDies ==
    /\ conn = "alive"
    /\ FeedFault
    /\ conn' = "dead"
    /\ wire' = <<>>
    /\ UNCHANGED <<demand, market, channels, loop, health, ingest, latest, skipped, changes>>

-----------------------------------------------------------------------------
(* The main loop.                                                          *)

\* mark_requested: a new generation, nothing acknowledged yet.
MarkRequested(codes) == [NewSub EXCEPT !.requested = codes]

Outdated(items) == [i \in DOMAIN items |-> [items[i] EXCEPT !.current = FALSE]]

\* The snapshots on their way are of an older generation now.
NewGeneration(codes) ==
    /\ sub' = MarkRequested(codes)
    /\ jobs' = Outdated(jobs)
    /\ queue' = Outdated(queue)

\* Mutant: the debounce time starts again with every observation.
FewerCodesAnew ==
    [change |-> FALSE, codes |-> {},
     sub |-> [sub EXCEPT !.pending = {Desired}, !.aged = FALSE]]

\* Codes are given up when the same set has been wanted for the debounce time.
FewerCodes ==
    IF sub.pending = {Desired}
    THEN [change |-> sub.aged, codes |-> Desired, sub |-> sub]
    ELSE [change |-> FALSE, codes |-> {},
          sub |-> [sub EXCEPT !.pending = {Desired}, !.aged = FALSE]]

\* observe: new codes are taken at once, together with the old ones.
Observed ==
    LET added == Desired \ sub.requested
        calm == [sub EXCEPT !.pending = NotPending, !.aged = FALSE]
    IN  IF Desired = sub.requested THEN [change |-> FALSE, codes |-> {}, sub |-> calm]
        ELSE IF added = {} THEN FewerCodes
        ELSE [change |-> TRUE, codes |-> sub.requested \cup added, sub |-> calm]

DebouncePasses ==
    /\ sub.pending # NotPending /\ ~sub.aged
    /\ sub' = [sub EXCEPT !.aged = TRUE]
    /\ UNCHANGED <<demand, source, pc, mapped, waiting, backoff, health, ingest,
                   latest, skipped, changes, feedFaults>>

BackoffPasses ==
    /\ backoff
    /\ backoff' = FALSE
    /\ UNCHANGED <<demand, source, pc, sub, mapped, waiting, health, ingest, latest,
                   skipped, changes, feedFaults>>

Forgotten(codes) ==
    [c \in Codes |-> IF c \in codes THEN [live |-> 0, watermark |-> 0, since |-> market[c]]
                     ELSE seen[c]]

\* run_once, when a thread of the connection has ended: _mark_disconnected.
Disconnect ==
    /\ pc = "observe" /\ conn = "dead"
    /\ conn' = "none" /\ channels' = {}
    /\ waiting' = TRUE /\ backoff' = TRUE
    /\ UNCHANGED <<demand, market, wire, pc, sub, mapped, health, ingest, latest,
                   skipped, changes, feedFaults>>

\* run_once with nothing wanted any more.
StopAll ==
    /\ pc = "observe" /\ conn # "dead"
    /\ Observed.change /\ Observed.codes = {}
    /\ conn' = "none" /\ channels' = {} /\ wire' = <<>>
    /\ NewGeneration({})
    /\ boot' = NewBoot
    /\ seen' = Forgotten(Codes)
    /\ waiting' = FALSE /\ backoff' = FALSE
    /\ error' = "none"
    /\ pc' = "publish"
    /\ UNCHANGED <<demand, market, mapped, issue, dropped, latest, skipped, changes, feedFaults>>

\* _replace_subscription begins: what belongs to codes that are removed is
\* forgotten, and the generation changes.
BeginReplace(codes) ==
    /\ NewGeneration(codes)
    /\ boot' = [requested |-> boot.requested \ (sub.requested \ codes),
                retry |-> boot.retry \ (sub.requested \ codes)]
    /\ seen' = Forgotten(sub.requested \ codes)
    /\ pc' = "replacing"

\* _start_subscription begins.
BeginStart(codes) ==
    /\ NewGeneration(codes)
    /\ waiting' = FALSE
    /\ pc' = "starting"
    /\ UNCHANGED <<boot, seen>>

\* run_once with other codes to subscribe to.
ApplyChange ==
    /\ pc = "observe" /\ conn # "dead"
    /\ Observed.change /\ Observed.codes # {}
    /\ backoff' = FALSE
    /\ IF conn = "alive"
       THEN BeginReplace(Observed.codes) /\ UNCHANGED waiting
       ELSE BeginStart(Observed.codes)
    /\ UNCHANGED <<demand, source, mapped, health, latest, skipped, changes, feedFaults>>

\* run_once without a change: failed codes are subscribed to again and a lost
\* connection is made again, both after the delay.
Maintain ==
    /\ pc = "observe" /\ conn # "dead"
    /\ ~Observed.change
    /\ \/ /\ sub.failed # {} /\ ~backoff
          /\ BeginReplace(sub.requested)
          /\ UNCHANGED waiting
       \/ /\ sub.failed = {} \/ backoff
          /\ conn = "none" /\ sub.requested # {}
          /\ IF backoff
             THEN /\ waiting' = TRUE
                  /\ sub' = Observed.sub
                  /\ pc' = "publish"
                  /\ UNCHANGED <<jobs, queue, boot, seen>>
             ELSE BeginStart(sub.requested)
       \/ /\ sub.failed = {} \/ backoff
          /\ conn = "alive" \/ sub.requested = {}
          /\ sub' = Observed.sub
          /\ pc' = "publish"
          /\ UNCHANGED <<waiting, jobs, queue, boot, seen>>
    /\ UNCHANGED <<demand, source, mapped, backoff, health, latest, skipped, changes, feedFaults>>

\* _schedule_bootstrap_snapshots: one query for the codes that have had none.
Schedule(codes) ==
    LET added == codes \ (boot.requested \cup boot.retry) IN
    IF added = {} THEN UNCHANGED <<boot, jobs>>
    ELSE /\ boot' = [boot EXCEPT !.requested = @ \cup added]
         /\ jobs' = Append(jobs, [codes |-> added, current |-> TRUE])

\* on_subscribe with the report of the current generation: a code once confirmed
\* stays so.
OnSubscribe(confirmed) ==
    /\ sub' = [sub EXCEPT !.subscribed = @ \cup confirmed,
                          !.failed = sub.requested \ (sub.subscribed \cup confirmed)]
    /\ IF AllSubscribed(sub')
       THEN backoff' = FALSE /\ error' = "none"
       ELSE backoff' = TRUE /\ error' = "partial"
    /\ Schedule(sub'.subscribed)

\* replace_codes: the SDK confirms all the channels, or leaves one out.
Confirmed == {sub.requested} \cup
             IF feedFaults < MaxFaults THEN {sub.requested \ {c} : c \in sub.requested} ELSE {}

\* _replace_subscription goes on: the mapping and the SDK's channels are replaced.
Replace ==
    /\ pc = "replacing" /\ conn = "alive"
    /\ mapped' = sub.requested
    /\ \E confirmed \in Confirmed :
          /\ IF confirmed = sub.requested THEN UNCHANGED feedFaults ELSE FeedFault
          /\ channels' = confirmed
          /\ OnSubscribe(confirmed)
    /\ pc' = "publish"
    /\ UNCHANGED <<demand, market, wire, conn, waiting, issue, dropped, queue, seen,
                   latest, skipped, changes>>

\* It fails, in the database or in the SDK, or because the connection is gone.
ReplaceFails ==
    /\ pc = "replacing"
    /\ IF conn = "alive" THEN FeedFault ELSE UNCHANGED feedFaults
    /\ conn' = "none" /\ channels' = {} /\ wire' = <<>>
    /\ waiting' = TRUE /\ backoff' = TRUE
    /\ error' \in {error, "other"}
    /\ pc' = "publish"
    /\ UNCHANGED <<demand, market, sub, mapped, issue, dropped, ingest, latest,
                   skipped, changes>>

\* _start_subscription goes on: a new client, the channels, the report.
Start ==
    /\ pc = "starting"
    /\ mapped' = sub.requested
    /\ conn' = "alive" /\ wire' = <<>>
    /\ \E confirmed \in Confirmed :
          /\ IF confirmed = sub.requested THEN UNCHANGED feedFaults ELSE FeedFault
          /\ channels' = confirmed
          /\ OnSubscribe(confirmed)
    /\ pc' = "publish"
    /\ UNCHANGED <<demand, market, waiting, issue, dropped, queue, seen, latest,
                   skipped, changes>>

\* It fails before the report or, in listen, after it: the client is closed.
StartFails ==
    /\ pc = "starting"
    /\ FeedFault
    /\ waiting' = TRUE /\ backoff' = TRUE
    /\ error' = "other"
    /\ \/ UNCHANGED <<sub, boot, jobs>>
       \/ /\ sub' = [sub EXCEPT !.subscribed = sub.requested]
          /\ Schedule(sub.requested)
    /\ pc' = "publish"
    /\ UNCHANGED <<demand, source, mapped, issue, dropped, queue, seen, latest,
                   skipped, changes>>

\* _derive_status.
Status ==
    IF sub.requested = {} THEN "IDLE"
    ELSE IF waiting \/ issue = "disconnected" THEN "DISCONNECTED"
    ELSE IF issue = "slow_consumer" \/ sub.failed # {} \/ dropped THEN "DEGRADED"
    ELSE IF conn = "alive" /\ AllSubscribed(sub) THEN "RUNNING"
    ELSE "CONNECTING"

\* run_once ends: the status is published, and codes whose query has failed are
\* queried again.
Publish ==
    /\ pc = "publish"
    /\ Schedule(sub.subscribed)
    /\ pc' = "observe"
    /\ UNCHANGED <<demand, source, sub, mapped, waiting, backoff, health, queue,
                   seen, latest, skipped, changes, feedFaults>>

-----------------------------------------------------------------------------
(* The snapshot thread and the consumer.                                   *)

\* The database may lag one tick behind the market.
Stored(c, lag) == Max({1, market[c] - lag})

Snapshots(job, lag) ==
    LET tick(c) == [code |-> c, time |-> Stored(c, lag), kind |-> "REST",
                    current |-> job.current]
        codes == SetToSeq(job.codes)
    IN  [i \in DOMAIN codes |-> tick(codes[i])]

\* History: a code that has no price yet has lost its snapshot.
Lost(codes) == skipped \cup {c \in codes : latest[c] = None}

\* completed: the snapshots go into the queue as far as there is room.
JobSucceeds ==
    /\ jobs # <<>>
    /\ \E lag \in {0, 1} :
          LET ticks == Snapshots(Head(jobs), lag)
              room == Min({Len(ticks), QueueSize - Len(queue)})
          IN  /\ queue' = queue \o SubSeq(ticks, 1, room)
              /\ skipped' = Lost({ticks[i].code : i \in room + 1 .. Len(ticks)})
    /\ jobs' = Tail(jobs)
    /\ boot' = [boot EXCEPT !.retry = @ \ Head(jobs).codes]
    /\ UNCHANGED <<demand, source, loop, health, seen, latest, changes, feedFaults>>

\* Mutant: codes whose query has failed are not queried again.
ToRetryNever(codes) == [boot EXCEPT !.retry = @ \cup codes]

\* A query that has failed is repeated after a while.
ToRetry(codes) == [requested |-> boot.requested \ codes, retry |-> boot.retry \cup codes]

JobFails ==
    /\ jobs # <<>>
    /\ FeedFault
    /\ boot' = ToRetry(Head(jobs).codes)
    /\ jobs' = Tail(jobs)
    /\ UNCHANGED <<demand, source, loop, health, queue, seen, latest, skipped, changes>>

RetryDue ==
    /\ boot.retry # {}
    /\ boot' = [boot EXCEPT !.retry = {}]
    /\ UNCHANGED <<demand, source, loop, health, jobs, queue, seen, latest, skipped,
                   changes, feedFaults>>

\* PUBLISH_MARKET_TICK_SCRIPT: a snapshot never replaces a tick as late as itself.
Wins(tick) == tick.kind = "LIVE" \/ latest[tick.code].time < tick.time

Write(tick) ==
    latest' = IF Wins(tick)
              THEN [latest EXCEPT ![tick.code] = [time |-> tick.time,
                                              byOrder |-> tick.kind = "ORDER"]]
              ELSE latest

\* Mutant: live ticks pass the watermark.
ObsoleteSnapshots(tick) ==
    tick.kind = "REST" /\ (~tick.current \/ seen[tick.code].live >= tick.time)

\* A snapshot of an older generation or not later than a live tick, and a live tick
\* not later than the snapshot, are not published.
Obsolete(tick) ==
    IF tick.kind = "REST"
    THEN ~tick.current \/ seen[tick.code].live >= tick.time
    ELSE tick.time <= seen[tick.code].watermark

\* What the worker remembers of a tick the script has taken (PUBLISHED).
Noted(tick) ==
    LET old == seen[tick.code] IN
    IF tick.kind = "REST" THEN [old EXCEPT !.watermark = IF Wins(tick) THEN tick.time ELSE @]
    ELSE [old EXCEPT !.live = Max({@, tick.time}),
                     !.watermark = IF tick.time > @ THEN 0 ELSE @]

\* _process_queued_tick.  It may fail, and the tick is lost.
Process ==
    LET tick == Head(queue) IN
    /\ queue # <<>>
    /\ queue' = Tail(queue)
    /\ \/ /\ Obsolete(tick)
          /\ skipped' = Lost({tick.code})
          /\ UNCHANGED <<latest, seen, feedFaults>>
       \/ /\ ~Obsolete(tick)
          /\ Write(tick)
          /\ seen' = [seen EXCEPT ![tick.code] = Noted(tick)]
          /\ skipped' = skipped \ {tick.code}
          /\ UNCHANGED feedFaults
       \/ /\ ~Obsolete(tick) /\ FeedFault
          /\ skipped' = Lost({tick.code})
          /\ UNCHANGED <<latest, seen>>
    /\ UNCHANGED <<demand, source, loop, health, boot, jobs, changes>>

\* _bootstrap_order_market_data: the API process writes a snapshot of its own.
OrderSnapshot(c) ==
    /\ FeedFault
    /\ \E lag \in {0, 1} :
          Write([code |-> c, time |-> Stored(c, lag), kind |-> "ORDER"])
    /\ skipped' = skipped \ {c}
    /\ UNCHANGED <<demand, source, loop, health, ingest, changes>>

\* The process ends, by itself or by request, and is started again.
Restart ==
    /\ FeedFault
    /\ pc' = "observe" /\ sub' = NewSub /\ mapped' = {}
    /\ waiting' = FALSE /\ backoff' = FALSE
    /\ issue' = "none" /\ error' = "none" /\ dropped' = FALSE
    /\ boot' = NewBoot /\ jobs' = <<>> /\ queue' = <<>> /\ seen' = NewSeen
    /\ conn' = "none" /\ channels' = {} /\ wire' = <<>>
    /\ skipped' = {}
    /\ UNCHANGED <<demand, market, latest, changes>>

-----------------------------------------------------------------------------
LoopStep ==
    Disconnect \/ StopAll \/ ApplyChange \/ Maintain \/ Replace \/ Start \/ Publish

FeedNext ==
    \/ \E c \in Codes : Want(c) \/ Tick(c) \/ OrderSnapshot(c)
    \/ Prepare(Codes) \/ Expire
    \/ OnQuote \/ DropForgotten \/ ConnectionDies
    \/ \E state \in {"disconnected", "slow_consumer", "recovered"} : OnMessage(state)
    \/ LoopStep \/ ReplaceFails \/ StartFails
    \/ DebouncePasses \/ BackoffPasses \/ RetryDue
    \/ JobSucceeds \/ JobFails \/ Process \/ Restart

\* The threads go on, and time passes.
FeedFairness ==
    /\ WF_feedVars(LoopStep) /\ WF_feedVars(pc = "replacing" /\ conn # "alive" /\ ReplaceFails)
    /\ SF_feedVars(DebouncePasses) /\ WF_feedVars(BackoffPasses) /\ WF_feedVars(RetryDue)
    /\ WF_feedVars(JobSucceeds) /\ WF_feedVars(Process) /\ WF_feedVars(DropForgotten)
    /\ WF_feedVars(OnQuote)

FeedSpec == FeedInit /\ [][FeedNext]_feedVars
FeedFairSpec == FeedSpec /\ FeedFairness

-----------------------------------------------------------------------------
(* Properties.                                                             *)

FeedTypeOK ==
    /\ wanted \subseteq Codes /\ requests \subseteq Codes
    /\ conn \in {"none", "alive", "dead"}
    /\ pc \in {"observe", "replacing", "starting", "publish"}
    /\ sub.subscribed \cup sub.failed \subseteq sub.requested
    /\ Len(queue) <= QueueSize

\* The last price of a code never goes back in time: neither does a snapshot replace
\* a later live tick nor a late live tick a later snapshot of the subscriber.  A tick
\* that was sent before the code was given up may, and the subscriber knows nothing of
\* the snapshots the API process writes for an order.
PriceGoesForward ==
    [][\A c \in Codes : latest'[c].time < latest[c].time =>
          latest[c].byOrder \/ Head(queue).time <= seen[c].since]_latest

\* A source is reported as running only while the connection of now carries the
\* channels of all the codes requested, whatever earlier generations were told.
RunningIsComplete ==
    pc = "publish" /\ Status = "RUNNING" => conn = "alive" /\ channels = sub.requested

\* Every code subscribed has a price, or its snapshot is on its way or will be
\* fetched, or has been lost after it was fetched.
SnapshotNotForgotten ==
    \A c \in sub.subscribed \ skipped :
        \/ latest[c] # None
        \/ c \notin boot.requested
        \/ \E i \in DOMAIN jobs : c \in jobs[i].codes
        \/ \E i \in DOMAIN queue : queue[i].code = c

\* Neither channels nor prices are taken to be there that are not.
SubscriptionsAreComplete == RunningIsComplete /\ SnapshotNotForgotten

Subscribed ==
    /\ sub.requested = Desired /\ sub.subscribed = Desired
    /\ IF Desired = {} THEN conn = "none"
       ELSE conn = "alive" /\ channels = Desired /\ mapped = Desired

\* In the end exactly the codes wanted are subscribed to, and reported so unless the
\* session has a fault that is still standing.
Converges ==
    <>[](Subscribed /\ (issue # "none" \/ Status = IF Desired = {} THEN "IDLE" ELSE "RUNNING"))

=============================================================================
