---------------------------- MODULE RealtimeGateway ----------------------------
(***************************************************************************)
(* How a committed fact reaches the page of a trader.  The projection      *)
(* worker turns the published outbox events into the realtime stream; the  *)
(* gateway that holds the lease consumes the stream and routes each event  *)
(* to the connections subscribed to its account; a connection begins with  *)
(* a snapshot read from the database while the events that come meanwhile  *)
(* are buffered.                                                           *)
(*                                                                         *)
(* One account with one aggregate, say an order: a fact is its business    *)
(* version, and an event of the stream is the version it carries, its      *)
(* message id the position in the stream.  One page, with one socket at a  *)
(* time.  Steps of a coroutine between two awaits are one action.          *)
(*                                                                         *)
(* Not modelled: the events of the realtime valuation, which carry a       *)
(* version domain of their own; ownership of accounts and limits (a        *)
(* connection that is refused or revoked is one that closes); dead letters *)
(* (the faults stay below the ten retries) and the trimming of the stream; *)
(* heartbeats and other control events, which share the send queue;        *)
(* what the handler of a connection still does after it was closed.        *)
(***************************************************************************)
EXTENDS Integers, Sequences, FiniteSets, FiniteSetsExt, SequencesExt

CONSTANTS
    Gateways,
    NoGateway,
    QueueSize,        \* ws_send_queue_size
    BufferSize,       \* ws_snapshot_buffer_size
    GatewayBatch,        \* ws_gateway_batch_size
    MaxFacts,         \* bound: versions of the order
    MaxFaults         \* bound: failed calls, crashes, lost leases, closed connections

ASSUME GatewayAssumption ==
    /\ NoGateway \notin Gateways
    /\ QueueSize \in Nat \ {0} /\ BufferSize \in Nat /\ GatewayBatch \in Nat \ {0}
    /\ MaxFacts \in Nat /\ MaxFaults \in Nat

VARIABLES
    fact,        \* the version committed in the database
    arriving,    \* versions whose outbox event is not yet projected
    held,        \* those of them that have failed and are pending
    projected,   \* Redis: business version of the aggregate
    events,      \* stream:realtime-events
    group,       \* the gateways' consumer group: made, last delivered, pending
    lease,       \* ws:gateway:lease
    gw,          \* the gateway processes
    ticket,      \* the page's ticket: "none", "valid" or "expired"
    conn,        \* the socket of the page, on the server's side
    view,        \* what the page shows: a version, and whether a snapshot set it
    failed,      \* history: messages whose routing has failed once
    faults       \* history counter for the bound

projection == <<fact, arriving, held, projected, events>>
consumer == <<group, lease, gw>>
gatewayVars == <<projection, consumer, ticket, conn, view, failed, faults>>

NewGateway == [state |-> "down", batch |-> <<>>, pc |-> "route"]
NoConn ==
    [pc |-> "none", gw |-> NoGateway, subscribed |-> FALSE, loading |-> FALSE,
     buffer |-> <<>>, last |-> 0, cursor |-> 0, read |-> 0, queue |-> <<>>,
     snap |-> 0, got |-> {}]

GatewayInit ==
    /\ fact = 0 /\ arriving = {} /\ held = {} /\ projected = 0 /\ events = <<>>
    /\ group = [made |-> FALSE, last |-> 0, pending |-> {}]
    /\ lease = NoGateway
    /\ gw = [g \in Gateways |-> NewGateway]
    /\ ticket = "none" /\ conn = NoConn
    /\ view = [version |-> 0, bySnapshot |-> TRUE]
    /\ failed = {} /\ faults = 0

Fault == faults < MaxFaults /\ faults' = faults + 1

-----------------------------------------------------------------------------
(* The projection worker.                                                  *)

\* A transaction commits a fact with its outbox event, which is published.
CommitFact ==
    /\ fact < MaxFacts
    /\ fact' = fact + 1
    /\ arriving' = arriving \cup {fact + 1}
    /\ UNCHANGED <<ticket, held, projected, events, consumer, conn, view, failed, faults>>

\* Mutant: pending messages are not claimed.
NextEventsNew == IF arriving = held THEN {} ELSE {Min(arriving \ held)}

\* run_once: pending messages once they are idle, else the next one.
NextEvents ==
    held \cup IF arriving = held THEN {} ELSE {Min(arriving \ held)}

\* Mutant: a late event is written like any other.
ProjectedAlways(v) == [stream |-> Append(events, v), version |-> Max({v, projected})]

\* PUBLISH_PROJECTED_EVENT_ONCE_SCRIPT: a version not later than that of the
\* aggregate is only marked.
Projected(v) ==
    IF v > projected THEN [stream |-> Append(events, v), version |-> v]
    ELSE [stream |-> events, version |-> projected]

Project(v) ==
    /\ v \in NextEvents
    /\ events' = Projected(v).stream /\ projected' = Projected(v).version
    /\ arriving' = arriving \ {v} /\ held' = held \ {v}
    /\ UNCHANGED <<ticket, fact, consumer, conn, view, failed, faults>>

\* _handle fails before or after the script has run; the message stays pending.
ProjectFails(v) ==
    /\ v \in NextEvents
    /\ Fault
    /\ \/ UNCHANGED <<events, projected>>
       \/ events' = Projected(v).stream /\ projected' = Projected(v).version
    /\ held' = held \cup {v}
    /\ UNCHANGED <<ticket, fact, arriving, consumer, conn, view, failed>>

-----------------------------------------------------------------------------
(* Queues and buffers of a connection (ConnectionManager).                 *)

Subscribed(g) == conn.gw = g /\ conn.subscribed

\* close: routes, buffer and queue are thrown away.
Closed == NoConn

\* enqueue: a full queue closes the connection.
Enqueued(c, item) ==
    IF c.pc = "none" \/ Len(c.queue) >= QueueSize THEN Closed
    ELSE [c EXCEPT !.queue = Append(@, item)]

Event(id) == [version |-> events[id], bySnapshot |-> FALSE]

SentEvent(c, id) ==
    LET sent == Enqueued(c, Event(id)) IN
    IF sent.pc = "none" THEN sent
    ELSE [sent EXCEPT !.last = id, !.got = @ \cup {id}]

\* broadcast_to_account, for the connection of the page.
Broadcast(id) ==
    IF conn.loading
    THEN IF Len(conn.buffer) >= BufferSize THEN Closed
         ELSE [conn EXCEPT !.buffer = Append(@, id)]
    ELSE IF id <= conn.last THEN conn
    ELSE SentEvent(conn, id)

\* Mutant: the barrier is the end of the stream after the snapshot was built.
BarrierLate == Len(events)

\* The cursor read before the snapshot.
Barrier == conn.cursor

\* sorted: in the order of the stream, repeated ids too.
Sorted(ids) ==
    CHOOSE s \in [DOMAIN ids -> Range(ids)] :
        /\ \E p \in Bijection(DOMAIN ids, DOMAIN ids) : \A i \in DOMAIN ids : s[i] = ids[p[i]]
        /\ \A i, j \in DOMAIN ids : i < j => s[i] <= s[j]

\* finish_snapshot: the snapshot, then what was buffered after its cursor.
Finished ==
    LET item == [version |-> conn.read, bySnapshot |-> TRUE]
        begun == [Enqueued(conn, item) EXCEPT
                    !.last = Barrier, !.loading = FALSE, !.buffer = <<>>,
                    !.snap = conn.read, !.got = {}, !.pc = "idle"]
    IN  IF Enqueued(conn, item).pc = "none" THEN Closed
        ELSE FoldLeft(LAMBDA c, id : IF c.pc = "none" \/ id <= Barrier THEN c
                                     ELSE SentEvent(c, id),
                      begun, Sorted(conn.buffer))

-----------------------------------------------------------------------------
(* The gateway: lease and consumer.                                        *)

\* start: the lease, then the consumer group, which begins at the stream's end.
Start(g) ==
    /\ gw[g].state = "down" /\ lease = NoGateway
    /\ lease' = g
    /\ group' = IF group.made THEN group
                ELSE [made |-> TRUE, last |-> Len(events), pending |-> {}]
    /\ gw' = [gw EXCEPT ![g].state = "active"]
    /\ UNCHANGED <<ticket, projection, conn, view, failed, faults>>

\* shutdown closes the connections that are registered.
AfterShutdown(g) == IF conn.gw = g /\ conn.pc # "connecting" THEN Closed ELSE conn

\* _handle_lease_lost: found by the renewal, before a message or at its ACK; an
\* error of the renewal counts as a loss.
LoseLease(g) ==
    /\ gw[g].state = "active"
    /\ IF lease = g THEN Fault ELSE UNCHANGED faults
    /\ gw' = [gw EXCEPT ![g] = [NewGateway EXCEPT !.state = "lost"]]
    /\ conn' = AfterShutdown(g)
    /\ UNCHANGED <<ticket, projection, group, lease, view, failed>>

\* The lease runs out: of a process that is gone or inactive, or of one that was
\* too slow to renew it.
ExpireLease ==
    /\ lease # NoGateway
    /\ IF gw[lease].state = "active" THEN Fault ELSE UNCHANGED faults
    /\ lease' = NoGateway
    /\ UNCHANGED <<ticket, projection, group, gw, conn, view, failed>>

\* run: messages that are pending for long are claimed, else new ones are read.
Read(g) ==
    /\ gw[g].state = "active" /\ gw[g].batch = <<>> /\ lease = g
    /\ \/ /\ group.pending # {}
          /\ gw' = [gw EXCEPT ![g].batch = Sorted(SetToSeq(group.pending))]
          /\ UNCHANGED group
       \/ LET to == Min({group.last + GatewayBatch, Len(events)}) IN
          /\ group.last < Len(events)
          /\ gw' = [gw EXCEPT ![g].batch = [i \in 1 .. to - group.last |-> group.last + i]]
          /\ group' = [group EXCEPT !.last = to, !.pending = @ \cup group.last + 1 .. to]
    /\ UNCHANGED <<ticket, projection, lease, conn, view, failed, faults>>

\* _handle: the owner is checked and the message routed.
Route(g) ==
    /\ gw[g].state = "active" /\ gw[g].batch # <<>> /\ gw[g].pc = "route" /\ lease = g
    /\ conn' = IF Subscribed(g) THEN Broadcast(Head(gw[g].batch)) ELSE conn
    /\ gw' = [gw EXCEPT ![g].pc = "ack"]
    /\ UNCHANGED <<ticket, projection, group, lease, view, failed, faults>>

\* FENCED_GATEWAY_ACK_SCRIPT.
MayAcknowledge(g) == lease = g

Acknowledge(g) ==
    /\ gw[g].state = "active" /\ gw[g].batch # <<>> /\ gw[g].pc = "ack"
    /\ MayAcknowledge(g)
    /\ group' = [group EXCEPT !.pending = @ \ {Head(gw[g].batch)}]
    /\ gw' = [gw EXCEPT ![g].batch = Tail(@), ![g].pc = "route"]
    /\ UNCHANGED <<ticket, projection, lease, conn, view, failed, faults>>

\* A call of Redis fails: inside the handling of the message, and the next one of
\* the batch is handled, or before it, and the batch is left pending.
HandleFails(g) ==
    /\ gw[g].state = "active" /\ gw[g].batch # <<>>
    /\ Fault
    /\ \E rest \in {Tail(gw[g].batch), <<>>} :
          /\ gw' = [gw EXCEPT ![g].batch = rest, ![g].pc = "route"]
          /\ failed' = failed \cup (Range(gw[g].batch) \ Range(rest))
    /\ UNCHANGED <<ticket, projection, group, lease, conn, view>>

\* The process ends, and may release its lease before.
Stop(g) ==
    /\ gw[g].state # "down"
    /\ IF gw[g].state = "active" THEN Fault ELSE UNCHANGED faults
    /\ gw' = [gw EXCEPT ![g] = NewGateway]
    /\ lease' \in {lease} \cup IF lease = g THEN {NoGateway} ELSE {}
    /\ conn' = IF conn.gw = g THEN Closed ELSE conn
    /\ UNCHANGED <<ticket, projection, group, view, failed>>

-----------------------------------------------------------------------------
(* The socket of the page.                                                 *)

\* WebSocketTicketService.create, for a page that is not connected.
IssueTicket ==
    /\ conn.pc = "none" /\ ticket # "valid"
    /\ ticket' = "valid"
    /\ UNCHANGED <<projection, consumer, conn, view, failed, faults>>

ExpireTicket ==
    /\ ticket = "valid"
    /\ Fault
    /\ ticket' = "expired"
    /\ UNCHANGED <<projection, consumer, conn, view, failed>>

\* The page connects with its ticket; a gateway that is not active refuses.
Connect(g) ==
    /\ conn.pc = "none" /\ ticket = "valid" /\ gw[g].state = "active"
    /\ conn' = [NoConn EXCEPT !.pc = "connecting", !.gw = g]
    /\ UNCHANGED <<ticket, projection, consumer, view, failed, faults>>

\* consume: the ticket is good for one connection, which is registered then, or
\* refused if the ticket has expired.
Register ==
    /\ conn.pc = "connecting"
    /\ ticket' = "none"
    /\ conn' = IF ticket = "valid" THEN [conn EXCEPT !.pc = "idle"] ELSE Closed
    /\ UNCHANGED <<projection, consumer, view, failed, faults>>

\* The page subscribes, and does so again when the trader chooses the account
\* again: the route is there before the snapshot is read.
Subscribe ==
    /\ conn.pc = "idle"
    /\ IF conn.subscribed THEN Fault ELSE UNCHANGED faults
    /\ conn' = [conn EXCEPT !.pc = "cursor", !.subscribed = TRUE, !.loading = TRUE]
    /\ UNCHANGED <<ticket, projection, consumer, view, failed>>

ReadCursor ==
    /\ conn.pc = "cursor"
    /\ conn' = [conn EXCEPT !.pc = "build", !.cursor = Len(events)]
    /\ UNCHANGED <<ticket, projection, consumer, view, failed, faults>>

\* SnapshotService.build: one REPEATABLE READ transaction.
BuildSnapshot ==
    /\ conn.pc = "build"
    /\ conn' = [conn EXCEPT !.pc = "finish", !.read = fact]
    /\ UNCHANGED <<ticket, projection, consumer, view, failed, faults>>

FinishSnapshot ==
    /\ conn.pc = "finish"
    /\ conn' = Finished
    /\ UNCHANGED <<ticket, projection, consumer, view, failed, faults>>

\* The strict snapshot is refused: a hash is missing, of another version or behind
\* the facts, or facts are dirty.
SnapshotFails ==
    /\ conn.pc = "build"
    /\ Fault
    /\ conn' = Closed
    /\ UNCHANGED <<ticket, projection, consumer, view, failed>>

\* unsubscribe: another account is chosen.
Unsubscribe ==
    /\ conn.pc = "idle" /\ conn.subscribed
    /\ Fault
    /\ conn' = [NoConn EXCEPT !.pc = "idle", !.gw = conn.gw, !.queue = conn.queue]
    /\ UNCHANGED <<ticket, projection, consumer, view, failed>>

\* _sender_loop, and the page applies what it is sent.
Send ==
    /\ conn.queue # <<>>
    /\ view' = Head(conn.queue)
    /\ conn' = [conn EXCEPT !.queue = Tail(@)]
    /\ UNCHANGED <<ticket, projection, consumer, failed, faults>>

\* The monitor or the page closes the connection: no heartbeat, the token has ended
\* or the authorization is gone, the network fails.
CloseConnection ==
    /\ conn.pc # "none"
    /\ Fault
    /\ conn' = Closed
    /\ UNCHANGED <<ticket, projection, consumer, view, failed>>

-----------------------------------------------------------------------------
HandlerStep ==
    \/ Register \/ (~conn.subscribed /\ Subscribe) \/ ReadCursor \/ BuildSnapshot
    \/ FinishSnapshot

ConsumerStep(g) == Read(g) \/ Route(g) \/ Acknowledge(g)

GatewayNext ==
    \/ CommitFact \/ \E v \in 1 .. MaxFacts : Project(v) \/ ProjectFails(v)
    \/ \E g \in Gateways : Start(g) \/ LoseLease(g) \/ Connect(g)
    \/ ExpireLease
    \/ \E g \in Gateways : Read(g) \/ Route(g) \/ Acknowledge(g) \/ HandleFails(g) \/ Stop(g)
    \/ IssueTicket \/ ExpireTicket \/ Register \/ Subscribe \/ ReadCursor \/ BuildSnapshot \/ FinishSnapshot
    \/ SnapshotFails \/ Unsubscribe \/ Send \/ CloseConnection

\* The workers go on, a gateway that has stopped is started again (the containers'
\* restart policy) and one that has lost its lease is stopped by its operators; the
\* page reconnects and subscribes.
GatewayFairness ==
    /\ WF_gatewayVars(\E v \in 1 .. MaxFacts : Project(v))
    /\ WF_gatewayVars(\E g \in Gateways : Start(g)) /\ WF_gatewayVars(ExpireLease)
    /\ \A g \in Gateways :
          /\ WF_gatewayVars(ConsumerStep(g)) /\ WF_gatewayVars(lease # g /\ LoseLease(g))
          /\ WF_gatewayVars(gw[g].state = "lost" /\ Stop(g))
    /\ WF_gatewayVars(IssueTicket) /\ WF_gatewayVars(\E g \in Gateways : Connect(g))
    /\ WF_gatewayVars(HandlerStep) /\ WF_gatewayVars(Send)

GatewaySpec == GatewayInit /\ [][GatewayNext]_gatewayVars
GatewayFairSpec == GatewaySpec /\ GatewayFairness

-----------------------------------------------------------------------------
(* Properties.                                                             *)

GatewayTypeOK ==
    /\ fact \in 0 .. MaxFacts /\ held \subseteq arriving
    /\ lease \in Gateways \cup {NoGateway}
    /\ ticket \in {"none", "valid", "expired"}
    /\ conn.pc \in {"none", "connecting", "idle", "cursor", "build", "finish"}
    /\ Len(conn.queue) <= QueueSize /\ Len(conn.buffer) <= BufferSize

\* The gateway that serves the page: it holds the lease.
Served == conn.subscribed /\ ~conn.loading /\ lease = conn.gw

\* The consumer has done with a message.
Done(id) == id <= group.last /\ id \notin group.pending

\* No event falls between the snapshot and the events after it, nor is it consumed by
\* a gateway for which the page is not connected: once the group is done with an
\* event, the page was sent it or a snapshot that covers it.  Events whose routing
\* has failed once are the exception.
NothingSkipped ==
    Served => \A id \in 1 .. Len(events) :
        Done(id) /\ id \notin failed => id \in conn.got \/ events[id] <= conn.snap

\* The events of an aggregate reach the page in the order of its versions, however
\* the projection was retried: the page only falls back after a snapshot, to an event
\* the snapshot already covers.
EventsGoForward ==
    [][view'.version < view.version => view.bySnapshot]_view

\* An event was skipped because later ones were routed before its retry.
Skipped ==
    \E id \in failed : Done(id) /\ id \notin conn.got /\ events[id] > conn.snap

\* In the end the page shows the last fact, unless it has been skipped.
Converges == <>[](view.version = fact \/ Skipped)

=============================================================================
