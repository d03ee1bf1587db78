--------------------------- MODULE OutboxPublisher ---------------------------
(***************************************************************************)
(* The transactional outbox and the workers that publish it.               *)
(*                                                                         *)
(* A business transaction writes its events as PENDING rows.  A worker     *)
(* claims the rows that are due in one short transaction (FOR UPDATE SKIP  *)
(* LOCKED, PROCESSING with a lease) and publishes them one by one: it      *)
(* reads the row without a lock, calls XADD, and commits the outcome over  *)
(* whatever the row holds by then.  A worker may die anywhere in between,  *)
(* and a slow one may find its lease expired and the row in other hands.   *)
(*                                                                         *)
(* Time is abstracted to "due": next_retry_at is empty or has passed.      *)
(***************************************************************************)
EXTENDS Naturals, Sequences, FiniteSets, SequencesExt, Functions

CONSTANTS
    EventCount,    \* bound: outbox ids 1 .. EventCount, in order of insertion
    Workers,
    BatchSize,     \* batch_size of a claim
    MaxRetries,    \* max_retries of an event
    MaxErrors,     \* bound on XADD calls that raise
    MaxCrashes,    \* bound on workers that die, or fail to commit
    MaxSlow        \* bound on leases that expire in the hands of a live worker

Events == 1 .. EventCount
Statuses == {"NONE", "PENDING", "PROCESSING", "SENT", "FAILED"}
Steps == {"TAKE", "CALL", "SUCCEEDED", "RAISED"}

ASSUME BoundsAssumption ==
    /\ EventCount \in Nat
    /\ BatchSize \in Nat \ {0} /\ MaxRetries \in Nat \ {0}
    /\ MaxErrors \in Nat /\ MaxCrashes \in Nat /\ MaxSlow \in Nat

ASSUME WorkersAssumption == IsFiniteSet(Workers)

VARIABLES
    outbox,        \* outbox_event
    workers,       \* claimed events still to publish, and how far the first is
    stream,        \* the Redis stream of order events
    raised,        \* by event: how often XADD raised
    effective,     \* by event: how often it did so although it took effect
    expiries,      \* by event: how often a lease expired
    slow, crashes  \* the counters of the bounds

counters == << raised, effective, expiries, slow, crashes >>
vars == << outbox, workers, stream, counters >>

Idle == [todo |-> << >>, step |-> "TAKE", retries |-> 0]

Init ==
    /\ outbox = [e \in Events |-> [status |-> "NONE", retries |-> 0, due |-> FALSE]]
    /\ workers = [w \in Workers |-> Idle]
    /\ stream = << >>
    /\ raised = [e \in Events |-> 0] /\ effective = [e \in Events |-> 0]
    /\ expiries = [e \in Events |-> 0]
    /\ slow = 0 /\ crashes = 0

-----------------------------------------------------------------------------
Published == {stream[m] : m \in DOMAIN stream}
Copies(e) == Cardinality({m \in DOMAIN stream : stream[m] = e})
Held(e) == \E w \in Workers : \E i \in DOMAIN workers[w].todo : workers[w].todo[i] = e

\* A business transaction commits: its events become visible together.
Commit(n) ==
    LET new == {e \in Events : outbox[e].status = "NONE"} IN
    /\ n \in 1 .. Cardinality(new)
    /\ outbox' = [e \in Events |->
                    IF e \in new /\ Cardinality({f \in new : f <= e}) <= n
                      THEN [status |-> "PENDING", retries |-> 0, due |-> TRUE]
                      ELSE outbox[e]]
    /\ UNCHANGED << workers, stream, counters >>

\* Mutant: a claimed event is taken again before its lease expires.
ClaimableWhateverLease(e) ==
    outbox[e].status = "PROCESSING" \/ (outbox[e].status = "PENDING" /\ outbox[e].due)

\* Mutant: a PROCESSING row belongs to its worker for ever.
ClaimablePending(e) == outbox[e].status = "PENDING" /\ outbox[e].due

Claimable(e) == outbox[e].status \in {"PENDING", "PROCESSING"} /\ outbox[e].due

\* ORDER BY id LIMIT batch_size: as many of the oldest as there are.
OldestOf(due) ==
    LET size == IF Cardinality(due) < BatchSize THEN Cardinality(due) ELSE BatchSize
    IN  {batch \in [1 .. size -> due] :
            /\ \A i, j \in 1 .. size : i < j => batch[i] < batch[j]
            /\ \A e \in due : e \in ToSet(batch) \/ \A i \in 1 .. size : batch[i] < e}

Claim(w) ==
    /\ workers[w].todo = << >>
    /\ \E batch \in OldestOf({e \in Events : Claimable(e)}) :
          /\ batch # << >>
          /\ workers' = [workers EXCEPT ![w].todo = batch]
          /\ outbox' = [e \in Events |->
                          IF e \in ToSet(batch)
                            THEN [outbox[e] EXCEPT !.status = "PROCESSING", !.due = FALSE]
                            ELSE outbox[e]]
    /\ UNCHANGED << stream, counters >>

Current(w) == Head(workers[w].todo)
At(w, step) == workers[w].todo # << >> /\ workers[w].step = step
Finish(w) ==
    workers' = [workers EXCEPT ![w] = [Idle EXCEPT !.todo = Tail(workers[w].todo)]]

\* The row is read without a lock; it is skipped unless it is being processed,
\* by this worker or by another that has taken it over.
Take(w) ==
    LET e == Current(w) IN
    /\ At(w, "TAKE")
    /\ IF outbox[e].status = "PROCESSING"
         THEN workers' = [workers EXCEPT ![w].step = "CALL",
                                         ![w].retries = outbox[e].retries]
         ELSE Finish(w)
    /\ UNCHANGED << outbox, stream, counters >>

Publish(w) ==
    /\ At(w, "CALL")
    /\ stream' = Append(stream, Current(w))
    /\ workers' = [workers EXCEPT ![w].step = "SUCCEEDED"]
    /\ UNCHANGED << outbox, counters >>

\* XADD raises: Redis refused it, or took it and the reply was lost.
Error(w) ==
    LET e == Current(w) IN
    /\ At(w, "CALL")
    /\ SumFunction(raised) < MaxErrors
    /\ workers' = [workers EXCEPT ![w].step = "RAISED"]
    /\ raised' = [raised EXCEPT ![e] = @ + 1]
    /\ \/ UNCHANGED << stream, effective >>
       \/ /\ effective' = [effective EXCEPT ![e] = @ + 1]
          /\ stream' = Append(stream, e)
    /\ UNCHANGED << outbox, expiries, slow, crashes >>

SentRow(row) == [row EXCEPT !.status = "SENT", !.due = FALSE]

MarkSent(w) ==
    /\ At(w, "SUCCEEDED")
    /\ outbox' = [outbox EXCEPT ![Current(w)] = SentRow(@)]
    /\ Finish(w)
    /\ UNCHANGED << stream, counters >>

\* Mutant: a failed call is marked like a successful one.
RetriedRowSent(row, seen) == [row EXCEPT !.status = "SENT", !.due = FALSE]

\* retry_count is the one the worker has read, plus one.
RetriedRow(row, seen) ==
    [row EXCEPT !.retries = seen + 1, !.due = FALSE,
                !.status = IF seen + 1 >= MaxRetries THEN "FAILED" ELSE "PENDING"]

MarkRetry(w) ==
    /\ At(w, "RAISED")
    /\ outbox' = [outbox EXCEPT ![Current(w)] = RetriedRow(@, workers[w].retries)]
    /\ Finish(w)
    /\ UNCHANGED << stream, counters >>

\* next_retry_at passes: the back-off of a PENDING row, the lease of another.
TimePasses(e) ==
    /\ outbox[e].status \in {"PENDING", "PROCESSING"} /\ ~outbox[e].due
    /\ outbox' = [outbox EXCEPT ![e].due = TRUE]
    /\ IF outbox[e].status = "PROCESSING"
         THEN /\ expiries' = [expiries EXCEPT ![e] = @ + 1]
              /\ IF Held(e) THEN slow < MaxSlow /\ slow' = slow + 1
                            ELSE UNCHANGED slow
         ELSE UNCHANGED << expiries, slow >>
    /\ UNCHANGED << workers, stream, raised, effective, crashes >>

\* The process dies, or a database error ends its round: what it had claimed
\* stays PROCESSING.
Crash(w) ==
    /\ workers[w].todo # << >>
    /\ crashes < MaxCrashes
    /\ crashes' = crashes + 1
    /\ workers' = [workers EXCEPT ![w] = Idle]
    /\ UNCHANGED << outbox, stream, raised, effective, expiries, slow >>

WorkerStep(w) ==
    Claim(w) \/ Take(w) \/ Publish(w) \/ Error(w) \/ MarkSent(w) \/ MarkRetry(w)

Next ==
    \/ \E n \in 1 .. Cardinality(Events) : Commit(n)
    \/ \E w \in Workers : WorkerStep(w) \/ Crash(w)
    \/ \E e \in Events : TimePasses(e)

Spec == Init /\ [][Next]_vars

\* The workers loop for ever and time passes; nothing is said of Redis, whose
\* errors are bounded in number only.
Fairness ==
    /\ \A w \in Workers : WF_vars(WorkerStep(w))
    /\ \A e \in Events : WF_vars(TimePasses(e))

FairSpec == Spec /\ Fairness

-----------------------------------------------------------------------------
(* Properties.                                                             *)

\* Every variable stays within its type.
TypeOK ==
    /\ outbox \in [Events -> [status : Statuses, retries : 0 .. MaxRetries,
                              due : BOOLEAN]]
    /\ workers \in [Workers -> [todo : Seq(Events), step : Steps,
                                retries : 0 .. MaxRetries]]
    /\ stream \in Seq(Events)
    /\ raised \in [Events -> 0 .. MaxErrors] /\ effective \in [Events -> 0 .. MaxErrors]
    /\ expiries \in [Events -> Nat]
    /\ slow \in 0 .. MaxSlow /\ crashes \in 0 .. MaxCrashes

\* A row says SENT only if its event is in the stream, whichever worker wrote
\* the row last (mark_sent after publish in _publish_one).
SentMeansPublished == \A e \in Events : outbox[e].status = "SENT" => e \in Published

\* Every copy of an event but the first has an excuse: a lease that expired
\* before its worker was done, or an XADD that raised although it took effect.
\* Two live workers alone never publish an event twice.
RepeatsHaveAnExcuse ==
    \A e \in Events : Copies(e) <= 1 + expiries[e] + effective[e]

\* However many workers write their own, possibly stale retry_count, an event is
\* not given up before as many of its calls have raised as max_retries allows.
GivenUpOnlyAfterMaxRetries ==
    \A e \in Events :
       outbox[e].status = "FAILED" => raised[e] >= MaxRetries

\* The outbox keeps the promise of the abstract event delivery: what is in the
\* stream was committed, and a committed event reaches the stream or, with Redis
\* failing throughout its retries, the FAILED rows an operator sees; it is never
\* just forgotten, whoever dies with it.
Delivery == INSTANCE EventDelivery WITH
    MaxCopies <- Cardinality(Events) * (1 + MaxErrors + MaxCrashes + MaxSlow),
    committed <- {e \in Events : outbox[e].status # "NONE"},
    lost <- {e \in Events : outbox[e].status = "FAILED"}

ImplementsDelivery == Delivery!FairSpec

=============================================================================
