---------------------------- MODULE EventPathProofs ----------------------------
(***************************************************************************)
(* From a row of the outbox to the page: what the rows say is true, and    *)
(* nothing falls in between a page's snapshot and the events after it, for *)
(* any number of events, workers, gateways, errors, crashes and expired    *)
(* leases.                                                                 *)
(*                                                                         *)
(* The argument about the outbox never asks which events a claim picked,   *)
(* only what a worker knows of the event it is at; the one about the page  *)
(* asks where an event that it has not been sent still is.                 *)
(***************************************************************************)
EXTENDS OutboxPublisher, RealtimeGateway, Sums, FiniteSetTheorems, TLAPS

Row == [status : Statuses, retries : Nat, due : BOOLEAN]

\* The part of the types that the argument needs.
RowsAndWorkers ==
    /\ outbox \in [Events -> Row]
    /\ DOMAIN workers = Workers
    /\ \A w \in Workers :
          /\ workers[w] = [todo |-> workers[w].todo, step |-> workers[w].step,
                           retries |-> workers[w].retries]
          /\ workers[w].step \in Steps
          /\ workers[w].todo = << >> => workers[w].step = "TAKE"
    /\ stream \in Seq(Published)
    /\ raised \in [Events -> Nat]

\* What a worker knows of the event it is at, whatever others have done to the
\* row since: it has been published, or its call has raised once more than the
\* retry count it read.
WorkerKnows(w) ==
    /\ At(w, "SUCCEEDED") => Current(w) \in Published
    /\ Current(w) \in Events =>
          /\ At(w, "CALL") => /\ workers[w].retries \in Nat
                              /\ workers[w].retries <= raised[Current(w)]
          /\ At(w, "RAISED") => /\ workers[w].retries \in Nat
                                /\ workers[w].retries < raised[Current(w)]

RowKnows(e) ==
    /\ outbox[e].status = "SENT" => e \in Published
    /\ outbox[e].retries <= raised[e]
    /\ outbox[e].status = "FAILED" => raised[e] >= MaxRetries

OutboxInv ==
    /\ RowsAndWorkers
    /\ \A w \in Workers : WorkerKnows(w)
    /\ \A e \in Events : RowKnows(e)

\* Worker w may still publish e, or give it back to the outbox as PENDING.
Holds(w, e) ==
    \E i \in DOMAIN workers[w].todo :
       workers[w].todo[i] = e /\ (i = 1 => workers[w].step # "SUCCEEDED")

Holders(e) == {w \in Workers : Holds(w, e)}

\* The row can be claimed, or can come to be, without another lease expiring.
Available(e) ==
    \/ outbox[e].status \in {"NONE", "PENDING"}
    \/ outbox[e].status = "PROCESSING" /\ outbox[e].due

\* The copies an event has and those it may still get without another excuse.
WithinExcuses(e) ==
    Copies(e) + Cardinality(Holders(e)) + (IF Available(e) THEN 1 ELSE 0)
      <= 1 + expiries[e] + effective[e]

TodoIsBatch(w) ==
    /\ workers[w].todo \in Seq(Events)
    /\ \A i, j \in DOMAIN workers[w].todo : workers[w].todo[i] = workers[w].todo[j] => i = j

ExcuseInv ==
    /\ effective \in [Events -> Nat] /\ expiries \in [Events -> Nat]
    /\ \A w \in Workers : TodoIsBatch(w)
    /\ \A e \in Events : WithinExcuses(e)

-----------------------------------------------------------------------------
LEMMA InvInit == Init => OutboxInv
<1> SUFFICES ASSUME Init PROVE OutboxInv
  OBVIOUS
<1>1. stream \in Seq(Published)
  BY DEF Init, Published
<1>2. RowsAndWorkers
  BY <1>1 DEF Init, Idle, RowsAndWorkers, Row, Statuses, Steps
<1>3. \A w \in Workers : WorkerKnows(w)
  BY DEF Init, Idle, WorkerKnows, At
<1>4. \A e \in Events : RowKnows(e)
  BY DEF Init, RowKnows
<1> QED  BY <1>2, <1>3, <1>4 DEF OutboxInv

\* The stream only grows.
LEMMA Appended ==
    ASSUME stream \in Seq(Published), NEW e, stream' = Append(stream, e)
    PROVE  stream' \in Seq(Published') /\ Published' = Published \cup {e}
<1>1. /\ DOMAIN stream' = 1 .. Len(stream) + 1
      /\ DOMAIN stream = 1 .. Len(stream)
      /\ Len(stream) \in Nat
      /\ stream'[Len(stream) + 1] = e
      /\ \A m \in DOMAIN stream : stream'[m] = stream[m]
  <2> DEFINE all == Published \cup {e}
  <2>1. stream \in Seq(all) /\ e \in all
    BY DEF Published
  <2> HIDE DEF all
  <2> QED  BY <2>1
<1>2. Published' = Published \cup {e}
  BY <1>1 DEF Published
<1>3. stream' \in Seq(Published \cup {e})
  BY <1>1, stream \in Seq(Published \cup {e})
<1> QED  BY <1>2, <1>3

LEMMA NothingPublished ==
    ASSUME RowsAndWorkers, UNCHANGED stream
    PROVE  stream' \in Seq(Published') /\ Published' = Published
BY DEF RowsAndWorkers, Published

LEMMA CountsKept ==
    ASSUME OutboxInv, UNCHANGED raised
    PROVE  /\ raised' \in [Events -> Nat]
           /\ \A e \in Events : raised'[e] >= raised[e]
BY DEF OutboxInv, RowsAndWorkers

\* A step that writes no row, such as the reading of one or an XADD.
LEMMA RowsKept ==
    ASSUME OutboxInv, UNCHANGED outbox, Published \subseteq Published',
           \A e \in Events : raised'[e] >= raised[e],
           raised' \in [Events -> Nat],
           NEW e \in Events
    PROVE  RowKnows(e)'
BY BoundsAssumption DEF OutboxInv, RowsAndWorkers, RowKnows, Row

\* A worker that has taken no step knows what it knew.
LEMMA WorkerKept ==
    ASSUME OutboxInv, NEW w \in Workers, workers'[w] = workers[w],
           Published \subseteq Published',
           \A e \in Events : raised'[e] >= raised[e],
           raised' \in [Events -> Nat]
    PROVE  WorkerKnows(w)'
BY DEF OutboxInv, RowsAndWorkers, WorkerKnows, At, Current

\* A worker at the beginning of its next event knows nothing yet.
LEMMA WorkerAtStart ==
    ASSUME NEW w \in Workers, workers'[w].step = "TAKE"
    PROVE  WorkerKnows(w)'
BY DEF WorkerKnows, At

LEMMA InvCommit ==
    ASSUME OutboxInv, NEW n, Commit(n)
    PROVE  OutboxInv'
<1> USE DEF Commit, counters
<1>1. /\ stream' \in Seq(Published') /\ Published' = Published
      /\ UNCHANGED << workers, raised >>
  BY NothingPublished DEF OutboxInv
<1>2. /\ outbox' \in [Events -> Row]
      /\ \A e \in Events : outbox'[e] = outbox[e]
            \/ outbox'[e] = [status |-> "PENDING", retries |-> 0, due |-> TRUE]
  BY DEF OutboxInv, RowsAndWorkers, Row, Statuses
<1>3. RowsAndWorkers'
  BY <1>1, <1>2 DEF OutboxInv, RowsAndWorkers
<1>4. ASSUME NEW e \in Events PROVE RowKnows(e)'
  BY <1>1, <1>2 DEF OutboxInv, RowsAndWorkers, RowKnows
<1>5. ASSUME NEW w \in Workers PROVE WorkerKnows(w)'
  BY <1>1, WorkerKept, CountsKept
<1> QED  BY <1>3, <1>4, <1>5 DEF OutboxInv

LEMMA InvClaim ==
    ASSUME OutboxInv, NEW w \in Workers, Claim(w)
    PROVE  OutboxInv'
<1>1. /\ stream' \in Seq(Published') /\ Published' = Published
      /\ UNCHANGED raised
  BY NothingPublished DEF OutboxInv, Claim, counters
<1>2. /\ workers[w].todo = << >>
      /\ \E batch :
            /\ workers' = [workers EXCEPT ![w].todo = batch]
            /\ outbox' = [e \in Events |->
                             IF e \in ToSet(batch)
                               THEN [outbox[e] EXCEPT !.status = "PROCESSING", !.due = FALSE]
                               ELSE outbox[e]]
  BY DEF Claim
<1>3. /\ outbox' \in [Events -> Row]
      /\ \A e \in Events :
            \/ outbox'[e] = outbox[e]
            \/ /\ outbox'[e].status = "PROCESSING"
               /\ outbox'[e].retries = outbox[e].retries
  <2>1. ASSUME NEW row \in Row
        PROVE  LET new == [row EXCEPT !.status = "PROCESSING", !.due = FALSE]
               IN  new \in Row /\ new.status = "PROCESSING" /\ new.retries = row.retries
    BY DEF Row, Statuses
  <2>2. \A e \in Events : outbox[e] \in Row
    BY DEF OutboxInv, RowsAndWorkers
  <2>3. PICK batch :
           outbox' = [e \in Events |->
                        IF e \in ToSet(batch)
                          THEN [outbox[e] EXCEPT !.status = "PROCESSING", !.due = FALSE]
                          ELSE outbox[e]]
    BY <1>2
  <2>4. ASSUME NEW e \in Events
        PROVE  /\ outbox'[e] \in Row
               /\ \/ outbox'[e] = outbox[e]
                  \/ /\ outbox'[e].status = "PROCESSING"
                     /\ outbox'[e].retries = outbox[e].retries
    <3>1. CASE e \in ToSet(batch)
      BY <2>1, <2>2, <2>3, <3>1
    <3>2. CASE e \notin ToSet(batch)
      BY <2>2, <2>3, <3>2
    <3> QED  BY <3>1, <3>2
  <2> QED  BY <2>3, <2>4
<1>4. /\ workers'[w].step = "TAKE"
      /\ \A v \in Workers \ {w} : workers'[v] = workers[v]
  BY <1>2 DEF OutboxInv, RowsAndWorkers
<1>5. RowsAndWorkers'
  <2>1. DOMAIN workers' = Workers
    BY <1>2 DEF OutboxInv, RowsAndWorkers
  <2>2. workers'[w] = [todo |-> workers'[w].todo, step |-> workers'[w].step,
                       retries |-> workers'[w].retries]
    BY <1>2 DEF OutboxInv, RowsAndWorkers
  <2> QED  BY <1>1, <1>3, <1>4, <2>1, <2>2 DEF OutboxInv, RowsAndWorkers, Steps
<1>6. ASSUME NEW e \in Events PROVE RowKnows(e)'
  BY <1>1, <1>3 DEF OutboxInv, RowsAndWorkers, RowKnows
<1>7. ASSUME NEW v \in Workers PROVE WorkerKnows(v)'
  BY <1>1, <1>4, WorkerKept, WorkerAtStart, CountsKept
<1> QED  BY <1>5, <1>6, <1>7 DEF OutboxInv

\* A worker that goes on writes its own entry only.
LEMMA WorkerSteps ==
    ASSUME OutboxInv, NEW w \in Workers, NEW step \in Steps, NEW todo,
           NEW retries, todo = << >> => step = "TAKE",
           workers' = [workers EXCEPT ![w] = [todo |-> todo, step |-> step,
                                              retries |-> retries]]
    PROVE  /\ DOMAIN workers' = Workers
           /\ \A v \in Workers :
                 /\ workers'[v] = [todo |-> workers'[v].todo, step |-> workers'[v].step,
                                   retries |-> workers'[v].retries]
                 /\ workers'[v].step \in Steps
                 /\ workers'[v].todo = << >> => workers'[v].step = "TAKE"
           /\ workers'[w] = [todo |-> todo, step |-> step, retries |-> retries]
           /\ \A v \in Workers \ {w} : workers'[v] = workers[v]
BY DEF OutboxInv, RowsAndWorkers

LEMMA StepOnly ==
    ASSUME OutboxInv, NEW w \in Workers, NEW step,
           workers' = [workers EXCEPT ![w].step = step]
    PROVE  workers' = [workers EXCEPT ![w] = [todo |-> workers[w].todo, step |-> step,
                                              retries |-> workers[w].retries]]
<1>1. workers[w] = [todo |-> workers[w].todo, step |-> workers[w].step,
                    retries |-> workers[w].retries]
  BY DEF OutboxInv, RowsAndWorkers
<1>2. ASSUME NEW a, NEW b, NEW c
      PROVE  [[todo |-> a, step |-> b, retries |-> c] EXCEPT !.step = step]
                = [todo |-> a, step |-> step, retries |-> c]
  OBVIOUS
<1>3. [workers[w] EXCEPT !.step = step]
         = [todo |-> workers[w].todo, step |-> step, retries |-> workers[w].retries]
  BY <1>1, <1>2
<1>4. workers' = [workers EXCEPT ![w] = [workers[w] EXCEPT !.step = step]]
  OBVIOUS
<1> QED  BY <1>3, <1>4

LEMMA FinishStep ==
    ASSUME OutboxInv, NEW w \in Workers, Finish(w)
    PROVE  /\ DOMAIN workers' = Workers
           /\ \A v \in Workers :
                 /\ workers'[v] = [todo |-> workers'[v].todo, step |-> workers'[v].step,
                                   retries |-> workers'[v].retries]
                 /\ workers'[v].step \in Steps
                 /\ workers'[v].todo = << >> => workers'[v].step = "TAKE"
           /\ workers'[w].step = "TAKE"
           /\ \A v \in Workers \ {w} : workers'[v] = workers[v]
<1>1. workers' = [workers EXCEPT ![w] = [todo |-> Tail(workers[w].todo),
                                         step |-> "TAKE", retries |-> 0]]
  <2>1. ASSUME NEW x
        PROVE  [Idle EXCEPT !.todo = x] = [todo |-> x, step |-> "TAKE", retries |-> 0]
    BY DEF Idle
  <2> QED  BY <2>1 DEF Finish
<1>2. "TAKE" \in Steps
  BY DEF Steps
<1> DEFINE todo == Tail(workers[w].todo)
<1> HIDE DEF todo
<1>3. workers' = [workers EXCEPT ![w] = [todo |-> todo, step |-> "TAKE",
                                         retries |-> 0]]
  BY <1>1 DEF todo
<1> QED  BY <1>2, <1>3, WorkerSteps

LEMMA InvTake ==
    ASSUME OutboxInv, NEW w \in Workers, Take(w)
    PROVE  OutboxInv'
<1>1. /\ stream' \in Seq(Published') /\ Published' = Published
      /\ UNCHANGED << outbox, raised >>
  BY NothingPublished DEF OutboxInv, Take, counters
<1>2. ASSUME NEW e \in Events PROVE RowKnows(e)'
  BY <1>1, RowsKept, CountsKept
<1>3. ASSUME NEW v \in Workers, workers'[v] = workers[v] PROVE WorkerKnows(v)'
  BY <1>1, <1>3, WorkerKept, CountsKept
<1>4. CASE outbox[Current(w)].status = "PROCESSING"
  <2> DEFINE seen == outbox[Current(w)].retries
  <2>1. Current(w) \in Events => seen \in Nat
    BY <1>4 DEF OutboxInv, RowsAndWorkers, Row
  <2>2. workers' = [workers EXCEPT ![w] = [todo |-> workers[w].todo, step |-> "CALL",
                                           retries |-> seen]]
    BY <1>4 DEF Take, OutboxInv, RowsAndWorkers
  <2>3. workers[w].todo # << >>
    BY DEF Take, At
  <2>4. RowsAndWorkers' /\ workers'[w] = [todo |-> workers[w].todo, step |-> "CALL",
                                          retries |-> seen]
        /\ \A v \in Workers \ {w} : workers'[v] = workers[v]
    <3> HIDE DEF seen
    <3> QED  BY <1>1, <2>2, <2>3, WorkerSteps DEF OutboxInv, RowsAndWorkers, Steps
  <2>5. WorkerKnows(w)'
    BY <1>1, <2>1, <2>4 DEF OutboxInv, RowKnows, WorkerKnows, At, Current
  <2> QED  BY <1>2, <1>3, <2>4, <2>5 DEF OutboxInv
<1>5. CASE Finish(w)
  <2>1. RowsAndWorkers' /\ workers'[w].step = "TAKE"
        /\ \A v \in Workers \ {w} : workers'[v] = workers[v]
    BY <1>1, <1>5, FinishStep DEF OutboxInv, RowsAndWorkers
  <2> QED  BY <1>2, <1>3, <2>1, WorkerAtStart DEF OutboxInv
<1> QED  BY <1>4, <1>5 DEF Take

LEMMA InvPublish ==
    ASSUME OutboxInv, NEW w \in Workers, Publish(w)
    PROVE  OutboxInv'
<1> DEFINE event == Current(w)
<1>1. /\ stream' \in Seq(Published') /\ Published' = Published \cup {event}
      /\ UNCHANGED << outbox, raised >>
  BY Appended DEF OutboxInv, RowsAndWorkers, Publish, counters
<1>2. /\ workers' = [workers EXCEPT ![w] = [todo |-> workers[w].todo,
                                            step |-> "SUCCEEDED",
                                            retries |-> workers[w].retries]]
      /\ workers[w].todo # << >>
  BY StepOnly DEF Publish, At
<1>3. /\ RowsAndWorkers'
      /\ workers'[w] = [todo |-> workers[w].todo, step |-> "SUCCEEDED",
                        retries |-> workers[w].retries]
      /\ \A v \in Workers \ {w} : workers'[v] = workers[v]
  BY <1>1, <1>2, WorkerSteps DEF OutboxInv, RowsAndWorkers, Steps
<1>4. WorkerKnows(w)'
  BY <1>1, <1>3 DEF WorkerKnows, At, Current
<1>5. ASSUME NEW v \in Workers \ {w} PROVE WorkerKnows(v)'
  BY <1>1, <1>3, WorkerKept, CountsKept
<1>6. ASSUME NEW e \in Events PROVE RowKnows(e)'
  BY <1>1, RowsKept, CountsKept
<1> QED  BY <1>3, <1>4, <1>5, <1>6 DEF OutboxInv

LEMMA InvError ==
    ASSUME OutboxInv, NEW w \in Workers, Error(w)
    PROVE  OutboxInv'
<1> DEFINE event == Current(w)
<1>1. /\ stream' \in Seq(Published') /\ Published \subseteq Published'
      /\ UNCHANGED outbox
  BY Appended, NothingPublished DEF OutboxInv, RowsAndWorkers, Error
<1>2. /\ raised' \in [Events -> Nat]
      /\ \A e \in Events : raised'[e] >= raised[e]
      /\ event \in Events => raised'[event] = raised[event] + 1
  <2>1. raised \in [Events -> Nat]
    BY DEF OutboxInv, RowsAndWorkers
  <2>2. raised' = [raised EXCEPT ![event] = @ + 1]
    BY DEF Error
  <2> HIDE DEF event
  <2>3. ASSUME NEW e \in Events
        PROVE  /\ raised'[e] \in Nat /\ raised'[e] >= raised[e]
               /\ e = event => raised'[e] = raised[e] + 1
    <3>1. raised'[e] = IF e = event THEN raised[e] + 1 ELSE raised[e]
      BY <2>1, <2>2
    <3> QED  BY <2>1, <3>1
  <2>4. raised' = [e \in Events |-> raised'[e]]
    BY <2>1, <2>2
  <2> QED  BY <2>3, <2>4
<1>3. /\ workers' = [workers EXCEPT ![w] = [todo |-> workers[w].todo,
                                            step |-> "RAISED",
                                            retries |-> workers[w].retries]]
      /\ workers[w].todo # << >> /\ workers[w].step = "CALL"
  BY StepOnly DEF Error, At
<1>4. /\ RowsAndWorkers'
      /\ workers'[w] = [todo |-> workers[w].todo, step |-> "RAISED",
                        retries |-> workers[w].retries]
      /\ \A v \in Workers \ {w} : workers'[v] = workers[v]
  BY <1>1, <1>2, <1>3, WorkerSteps DEF OutboxInv, RowsAndWorkers, Steps
<1>5. WorkerKnows(w)'
  BY <1>2, <1>3, <1>4 DEF OutboxInv, RowsAndWorkers, WorkerKnows, At, Current
<1>6. ASSUME NEW v \in Workers \ {w} PROVE WorkerKnows(v)'
  BY <1>1, <1>2, <1>4, WorkerKept
<1>7. ASSUME NEW e \in Events PROVE RowKnows(e)'
  BY <1>1, <1>2, RowsKept
<1> QED  BY <1>4, <1>5, <1>6, <1>7 DEF OutboxInv

\* A worker writes the outcome over whatever the row holds by now.
LEMMA InvOutcome ==
    ASSUME OutboxInv, NEW w \in Workers, NEW row, Finish(w),
           outbox' = [outbox EXCEPT ![Current(w)] = row],
           UNCHANGED << stream, raised >>,
           Current(w) \in Events =>
              /\ row \in Row
              /\ row.status = "SENT" => Current(w) \in Published
              /\ row.retries <= raised[Current(w)]
              /\ row.status = "FAILED" => raised[Current(w)] >= MaxRetries
    PROVE  OutboxInv'
<1>1. stream' \in Seq(Published') /\ Published' = Published
  BY NothingPublished DEF OutboxInv
<1>2. /\ outbox' \in [Events -> Row]
      /\ Current(w) \in Events => outbox'[Current(w)] = row
      /\ \A e \in Events : e # Current(w) => outbox'[e] = outbox[e]
  BY DEF OutboxInv, RowsAndWorkers
<1>3. /\ RowsAndWorkers' /\ workers'[w].step = "TAKE"
      /\ \A v \in Workers \ {w} : workers'[v] = workers[v]
  BY <1>1, <1>2, FinishStep DEF OutboxInv, RowsAndWorkers
<1>4. ASSUME NEW v \in Workers PROVE WorkerKnows(v)'
  BY <1>1, <1>3, WorkerKept, WorkerAtStart, CountsKept
<1>5. ASSUME NEW e \in Events PROVE RowKnows(e)'
  BY <1>1, <1>2 DEF OutboxInv, RowsAndWorkers, RowKnows
<1> QED  BY <1>3, <1>4, <1>5 DEF OutboxInv

LEMMA InvMarkSent ==
    ASSUME OutboxInv, NEW w \in Workers, MarkSent(w)
    PROVE  OutboxInv'
<1> DEFINE row == SentRow(outbox[Current(w)])
<1>1. /\ Finish(w) /\ UNCHANGED << stream, raised >>
      /\ outbox' = [outbox EXCEPT ![Current(w)] = row]
  BY DEF MarkSent, counters
<1>2. ASSUME Current(w) \in Events
      PROVE  /\ row \in Row
             /\ row.status = "SENT" => Current(w) \in Published
             /\ row.retries <= raised[Current(w)]
             /\ row.status = "FAILED" => raised[Current(w)] >= MaxRetries
  <2>1. outbox[Current(w)] \in Row /\ RowKnows(Current(w)) /\ Current(w) \in Published
    BY <1>2 DEF OutboxInv, RowsAndWorkers, WorkerKnows, MarkSent
  <2>2. row \in Row /\ row.status = "SENT" /\ row.retries = outbox[Current(w)].retries
    BY <2>1 DEF SentRow, Row, Statuses
  <2> QED  BY <2>1, <2>2 DEF RowKnows
<1> HIDE DEF row
<1> QED  BY <1>1, <1>2, InvOutcome

LEMMA InvMarkRetry ==
    ASSUME OutboxInv, NEW w \in Workers, MarkRetry(w)
    PROVE  OutboxInv'
<1> DEFINE seen == workers[w].retries
           row == RetriedRow(outbox[Current(w)], seen)
<1>1. /\ Finish(w) /\ UNCHANGED << stream, raised >>
      /\ outbox' = [outbox EXCEPT ![Current(w)] = row]
  BY DEF MarkRetry, counters
<1>2. ASSUME Current(w) \in Events
      PROVE  /\ row \in Row
             /\ row.status = "SENT" => Current(w) \in Published
             /\ row.retries <= raised[Current(w)]
             /\ row.status = "FAILED" => raised[Current(w)] >= MaxRetries
  <2>1. outbox[Current(w)] \in Row /\ seen \in Nat /\ seen < raised[Current(w)]
        /\ raised[Current(w)] \in Nat
    BY <1>2 DEF OutboxInv, RowsAndWorkers, WorkerKnows, MarkRetry
  <2>2. /\ row \in Row /\ row.retries = seen + 1
        /\ row.status = IF seen + 1 >= MaxRetries THEN "FAILED" ELSE "PENDING"
    <3> DEFINE next == IF seen + 1 >= MaxRetries THEN "FAILED" ELSE "PENDING"
    <3>1. row = [outbox[Current(w)] EXCEPT !.retries = seen + 1, !.due = FALSE,
                                           !.status = next]
      BY DEF RetriedRow
    <3>2. next \in Statuses
      BY DEF Statuses
    <3> HIDE DEF next, row
    <3>3. row \in Row /\ row.retries = seen + 1 /\ row.status = next
      <4> DEFINE old == outbox[Current(w)]
                 count == seen + 1
      <4>1. old \in Row /\ count \in Nat
        BY <2>1
      <4>2. row = [old EXCEPT !.retries = count, !.due = FALSE, !.status = next]
        BY <3>1
      <4> HIDE DEF old, count, seen
      <4>3. row \in Row /\ row.retries = count /\ row.status = next
        BY <3>2, <4>1, <4>2 DEF Row
      <4> QED  BY <4>3 DEF count
    <3> QED  BY <3>3 DEF next
  <2> QED  BY <2>1, <2>2, BoundsAssumption
<1> HIDE DEF row
<1> QED  BY <1>1, <1>2, InvOutcome

LEMMA InvTimePasses ==
    ASSUME OutboxInv, NEW e \in Events, TimePasses(e)
    PROVE  OutboxInv'
<1>1. /\ stream' \in Seq(Published') /\ Published' = Published
      /\ UNCHANGED << workers, raised >>
  BY NothingPublished DEF OutboxInv, TimePasses
<1>2. /\ outbox' \in [Events -> Row]
      /\ \A f \in Events : /\ outbox'[f].status = outbox[f].status
                           /\ outbox'[f].retries = outbox[f].retries
  BY DEF OutboxInv, RowsAndWorkers, TimePasses, Row
<1>3. ASSUME NEW f \in Events PROVE RowKnows(f)'
  BY <1>1, <1>2 DEF OutboxInv, RowKnows
<1>4. ASSUME NEW w \in Workers PROVE WorkerKnows(w)'
  BY <1>1, WorkerKept, CountsKept
<1>5. RowsAndWorkers'
  BY <1>1, <1>2 DEF OutboxInv, RowsAndWorkers
<1> QED  BY <1>3, <1>4, <1>5 DEF OutboxInv

LEMMA InvCrash ==
    ASSUME OutboxInv, NEW w \in Workers, Crash(w)
    PROVE  OutboxInv'
<1>1. /\ stream' \in Seq(Published') /\ Published' = Published
      /\ UNCHANGED << outbox, raised >>
  BY NothingPublished DEF OutboxInv, Crash
<1>2. workers' = [workers EXCEPT ![w] = [todo |-> << >>, step |-> "TAKE", retries |-> 0]]
  BY DEF Crash, Idle
<1>3. /\ RowsAndWorkers' /\ workers'[w].step = "TAKE"
      /\ \A v \in Workers \ {w} : workers'[v] = workers[v]
  BY <1>1, <1>2, WorkerSteps DEF OutboxInv, RowsAndWorkers, Steps
<1>4. ASSUME NEW v \in Workers PROVE WorkerKnows(v)'
  BY <1>1, <1>3, WorkerKept, WorkerAtStart, CountsKept
<1>5. ASSUME NEW e \in Events PROVE RowKnows(e)'
  BY <1>1, RowsKept, CountsKept
<1> QED  BY <1>3, <1>4, <1>5 DEF OutboxInv

LEMMA InvNext == OutboxInv /\ [Next]_vars => OutboxInv'
<1> SUFFICES ASSUME OutboxInv, [Next]_vars PROVE OutboxInv'
  OBVIOUS
<1>1. ASSUME NEW n, Commit(n) PROVE OutboxInv'
  BY <1>1, InvCommit
<1>2. ASSUME NEW w \in Workers, WorkerStep(w) PROVE OutboxInv'
  BY <1>2, InvClaim, InvTake, InvPublish, InvError, InvMarkSent, InvMarkRetry
     DEF WorkerStep
<1>3. ASSUME NEW w \in Workers, Crash(w) PROVE OutboxInv'
  BY <1>3, InvCrash
<1>4. ASSUME NEW e \in Events, TimePasses(e) PROVE OutboxInv'
  BY <1>4, InvTimePasses
<1>5. CASE UNCHANGED vars
  BY <1>5 DEF vars, counters, OutboxInv, RowsAndWorkers, WorkerKnows, RowKnows, At,
              Current, Published
<1> QED  BY <1>1, <1>2, <1>3, <1>4, <1>5 DEF Next

LEMMA InvHolds == Spec => []OutboxInv
BY InvInit, InvNext, PTL DEF Spec

\* A row says SENT only if its event is in the stream, whichever of the workers
\* that held it wrote the row last.
THEOREM SentIsPublished == Spec => []SentMeansPublished
<1>1. OutboxInv => SentMeansPublished
  BY DEF OutboxInv, RowKnows, SentMeansPublished
<1> QED  BY <1>1, InvHolds, PTL

\* No event is given up before max_retries of its calls have raised, although
\* workers count from the retry_count they have read, stale as it may be.
THEOREM GivenUpLate == Spec => []GivenUpOnlyAfterMaxRetries
<1>1. OutboxInv => GivenUpOnlyAfterMaxRetries
  BY DEF OutboxInv, RowKnows, GivenUpOnlyAfterMaxRetries
<1> QED  BY <1>1, InvHolds, PTL

-----------------------------------------------------------------------------
(* Copies and their excuses.                                               *)

LEMMA CopiesType ==
    ASSUME RowsAndWorkers, NEW e
    PROVE  Copies(e) \in Nat
<1>1. Len(stream) \in Nat /\ DOMAIN stream = 1 .. Len(stream)
  BY DEF RowsAndWorkers
<1>2. IsFiniteSet(1 .. Len(stream))
  BY <1>1, FS_Interval
<1>3. {m \in DOMAIN stream : stream[m] = e} \in SUBSET (1 .. Len(stream))
  BY <1>1
<1> QED  BY <1>2, <1>3, FS_Subset, FS_CardinalityType DEF Copies

\* One more copy of x, and of nothing else.
LEMMA CopiesAppended ==
    ASSUME RowsAndWorkers, NEW x, stream' = Append(stream, x), NEW e
    PROVE  Copies(e)' = Copies(e) + (IF e = x THEN 1 ELSE 0)
<1> DEFINE S == {m \in DOMAIN stream : stream[m] = e}
           last == Len(stream) + 1
<1>1. /\ DOMAIN stream' = 1 .. last /\ DOMAIN stream = 1 .. Len(stream)
      /\ Len(stream) \in Nat /\ stream'[last] = x
      /\ \A m \in DOMAIN stream : stream'[m] = stream[m]
  <2> DEFINE all == Published \cup {x}
  <2>1. stream \in Seq(all) /\ x \in all
    BY DEF RowsAndWorkers, Published
  <2> HIDE DEF all
  <2> QED  BY <2>1
<1>2. IsFiniteSet(S) /\ last \notin S
  <2>1. IsFiniteSet(1 .. Len(stream)) /\ S \in SUBSET (1 .. Len(stream))
    BY <1>1, FS_Interval
  <2> QED  BY <1>1, <2>1, FS_Subset
<1>3. CASE e = x
  <2>1. {m \in DOMAIN stream' : stream'[m] = e} = S \cup {last}
    BY <1>1, <1>3
  <2>2. Copies(e)' = Cardinality(S \cup {last})
    BY <2>1 DEF Copies
  <2>3. Cardinality(S \cup {last}) = Cardinality(S) + 1
    BY <1>2, FS_AddElement
  <2> QED  BY <1>3, <2>2, <2>3 DEF Copies
<1>4. CASE e # x
  <2>1. {m \in DOMAIN stream' : stream'[m] = e} = S
    BY <1>1, <1>4
  <2>2. Copies(e)' = Copies(e)
    BY <2>1 DEF Copies
  <2> QED  BY <1>4, <2>2, CopiesType
<1> QED  BY <1>3, <1>4

LEMMA HoldersType ==
    ASSUME NEW e
    PROVE  IsFiniteSet(Holders(e)) /\ Cardinality(Holders(e)) \in Nat
BY WorkersAssumption, FS_Subset, FS_CardinalityType DEF Holders

\* Only worker w has moved, so only it can have got hold of e, or given it away.
LEMMA HoldersMove ==
    ASSUME NEW w \in Workers, NEW e, \A v \in Workers \ {w} : workers'[v] = workers[v]
    PROVE  /\ Cardinality(Holders(e))' \in Nat
           /\ Cardinality(Holders(e))' + (IF Holds(w, e) THEN 1 ELSE 0)
                = Cardinality(Holders(e)) + (IF Holds(w, e)' THEN 1 ELSE 0)
<1> DEFINE rest == {v \in Workers \ {w} : Holds(v, e)}
<1>1. IsFiniteSet(rest) /\ w \notin rest /\ Cardinality(rest) \in Nat
  BY WorkersAssumption, FS_Subset, FS_CardinalityType
<1>2. Cardinality(rest \cup {w}) = Cardinality(rest) + 1
  BY <1>1, FS_AddElement
<1>3. Holders(e) = IF Holds(w, e) THEN rest \cup {w} ELSE rest
  BY DEF Holders
<1>4. Holders(e)' = IF Holds(w, e)' THEN rest \cup {w} ELSE rest
  BY DEF Holders, Holds
<1>5. Cardinality(Holders(e)) = Cardinality(rest) + (IF Holds(w, e) THEN 1 ELSE 0)
  BY <1>1, <1>2, <1>3
<1>6. Cardinality(Holders(e))' = Cardinality(rest) + (IF Holds(w, e)' THEN 1 ELSE 0)
  BY <1>1, <1>2, <1>4
<1> QED  BY <1>1, <1>5, <1>6

\* The account of an event's copies after a step of worker w.
LEMMA ExcusesMove ==
    ASSUME OutboxInv, ExcuseInv, NEW w \in Workers, NEW e \in Events,
           \A v \in Workers \ {w} : workers'[v] = workers[v],
           NEW copies \in Nat, Copies(e)' = Copies(e) + copies,
           NEW excuses \in Nat, expiries'[e] + effective'[e] = expiries[e] + effective[e] + excuses,
           expiries'[e] \in Nat, effective'[e] \in Nat,
           copies + (IF Holds(w, e)' THEN 1 ELSE 0) + (IF Available(e)' THEN 1 ELSE 0)
             <= excuses + (IF Holds(w, e) THEN 1 ELSE 0) + (IF Available(e) THEN 1 ELSE 0)
    PROVE  WithinExcuses(e)'
<1>1. /\ Copies(e) \in Nat /\ Cardinality(Holders(e)) \in Nat
      /\ expiries[e] \in Nat /\ effective[e] \in Nat /\ WithinExcuses(e)
  BY CopiesType, HoldersType DEF OutboxInv, ExcuseInv
<1>2. /\ Cardinality(Holders(e))' \in Nat
      /\ Cardinality(Holders(e))' + (IF Holds(w, e) THEN 1 ELSE 0)
           = Cardinality(Holders(e)) + (IF Holds(w, e)' THEN 1 ELSE 0)
  BY HoldersMove
<1> QED  BY <1>1, <1>2 DEF WithinExcuses

\* The same when no copy is added and no excuse found.
LEMMA ExcusesKept ==
    ASSUME OutboxInv, ExcuseInv, NEW w \in Workers, NEW e \in Events,
           \A v \in Workers \ {w} : workers'[v] = workers[v],
           Copies(e)' = Copies(e), UNCHANGED << expiries, effective >>,
           (IF Holds(w, e)' THEN 1 ELSE 0) + (IF Available(e)' THEN 1 ELSE 0)
             <= (IF Holds(w, e) THEN 1 ELSE 0) + (IF Available(e) THEN 1 ELSE 0)
    PROVE  WithinExcuses(e)'
<1> DEFINE held1 == IF Holds(w, e) THEN 1 ELSE 0
           held2 == IF Holds(w, e)' THEN 1 ELSE 0
           free == IF Available(e) THEN 1 ELSE 0
           free2 == IF Available(e)' THEN 1 ELSE 0
<1>1. /\ Copies(e) \in Nat /\ expiries[e] \in Nat /\ effective[e] \in Nat
      /\ Copies(e)' = Copies(e) + 0
      /\ expiries'[e] + effective'[e] = expiries[e] + effective[e] + 0
      /\ expiries'[e] \in Nat /\ effective'[e] \in Nat
  <2>1. Copies(e) \in Nat
    BY CopiesType DEF OutboxInv
  <2>2. expiries[e] \in Nat /\ effective[e] \in Nat
    BY DEF ExcuseInv
  <2> QED  BY <2>1, <2>2
<1>2. held1 \in Nat /\ held2 \in Nat /\ free \in Nat /\ free2 \in Nat
  OBVIOUS
<1>3. 0 + held2 + free2 <= 0 + held1 + free
  <2>1. held2 + free2 <= held1 + free
    OBVIOUS
  <2> HIDE DEF held1, held2, free, free2
  <2> QED  BY <1>2, <2>1
<1> QED  BY <1>1, <1>3, ExcusesMove

\* The head of a worker's events is nowhere else among them.
LEMMA CurrentIsHead ==
    ASSUME ExcuseInv, NEW w \in Workers, workers[w].todo # << >>
    PROVE  /\ Current(w) \in Events /\ Current(w) = workers[w].todo[1]
           /\ 1 \in DOMAIN workers[w].todo
           /\ \A i \in DOMAIN workers[w].todo : i # 1 => workers[w].todo[i] # Current(w)
<1>1. workers[w].todo \in Seq(Events) /\ TodoIsBatch(w)
  BY DEF ExcuseInv, TodoIsBatch
<1>2. 1 \in DOMAIN workers[w].todo /\ Current(w) = workers[w].todo[1]
  BY <1>1 DEF Current
<1> QED  BY <1>1, <1>2 DEF TodoIsBatch

\* A worker that has finished one event holds what it still has to do.
LEMMA FinishHolds ==
    ASSUME OutboxInv, ExcuseInv, NEW w \in Workers, workers[w].todo # << >>, Finish(w)
    PROVE  /\ \A v \in Workers \ {w} : workers'[v] = workers[v]
           /\ \A v \in Workers : TodoIsBatch(v)'
           /\ \A e : e = Current(w) => ~Holds(w, e)'
           /\ \A e : Holds(w, e)' => Holds(w, e)
<1> DEFINE todo == workers[w].todo
<1>1. /\ workers'[w].todo = Tail(todo) /\ workers'[w].step = "TAKE"
      /\ \A v \in Workers \ {w} : workers'[v] = workers[v]
  BY DEF Finish, Idle, OutboxInv, RowsAndWorkers
<1>2. todo \in Seq(Events) /\ todo # << >>
  BY DEF ExcuseInv, TodoIsBatch
<1>3. /\ Tail(todo) \in Seq(Events) /\ DOMAIN Tail(todo) = 1 .. Len(todo) - 1
      /\ DOMAIN todo = 1 .. Len(todo) /\ Len(todo) \in Nat
      /\ \A i \in 1 .. Len(todo) - 1 : Tail(todo)[i] = todo[i + 1]
  BY <1>2
<1>4. \A i, j \in DOMAIN todo : todo[i] = todo[j] => i = j
  BY DEF ExcuseInv, TodoIsBatch
<1> HIDE DEF todo
<1>5. \A i \in DOMAIN Tail(todo) : i + 1 \in DOMAIN todo /\ i + 1 # 1 /\ i \in Nat
  BY <1>3
<1>6. \A i, j \in DOMAIN Tail(todo) : Tail(todo)[i] = Tail(todo)[j] => i = j
  BY <1>3, <1>4, <1>5
<1>7. \A v \in Workers : TodoIsBatch(v)'
  BY <1>1, <1>3, <1>6 DEF ExcuseInv, TodoIsBatch
<1>8. \A e : Holds(w, e)' => \E i \in DOMAIN todo : i # 1 /\ todo[i] = e
  BY <1>1, <1>3, <1>5 DEF Holds
<1>9. \A e : Holds(w, e)' => Holds(w, e)
  BY <1>8 DEF Holds, todo
<1>10. \A e : e = Current(w) => ~Holds(w, e)'
  BY <1>8, CurrentIsHead DEF todo
<1> QED  BY <1>1, <1>7, <1>9, <1>10

LEMMA ExcusesCommit ==
    ASSUME OutboxInv, ExcuseInv, NEW n, Commit(n)
    PROVE  ExcuseInv'
<1>1. UNCHANGED << workers, stream, effective, expiries >>
  BY DEF Commit, counters
<1>2. ASSUME NEW e \in Events PROVE Available(e)' => Available(e)
  BY DEF Commit, Available, OutboxInv, RowsAndWorkers, Row
<1>3. ASSUME NEW e \in Events PROVE WithinExcuses(e)'
  <2>1. Copies(e)' = Copies(e) /\ Holders(e)' = Holders(e)
    BY <1>1 DEF Copies, Holders, Holds
  <2>2. Copies(e) \in Nat /\ Cardinality(Holders(e)) \in Nat /\ WithinExcuses(e)
    BY CopiesType, HoldersType DEF OutboxInv, ExcuseInv
  <2>3. expiries[e] \in Nat /\ effective[e] \in Nat
    BY DEF ExcuseInv
  <2> QED  BY <1>1, <1>2, <2>1, <2>2, <2>3 DEF WithinExcuses
<1> QED  BY <1>1, <1>3 DEF ExcuseInv, TodoIsBatch

\* A claim takes what is available, and leaves it unavailable.
LEMMA ExcusesClaim ==
    ASSUME OutboxInv, ExcuseInv, NEW w \in Workers, Claim(w)
    PROVE  ExcuseInv'
<1> DEFINE due == {e \in Events : Claimable(e)}
<1>1. UNCHANGED << stream, effective, expiries >> /\ workers[w].todo = << >>
  BY DEF Claim, counters
<1>2. PICK batch \in OldestOf(due) :
         /\ workers' = [workers EXCEPT ![w].todo = batch]
         /\ outbox' = [e \in Events |->
                         IF e \in ToSet(batch)
                           THEN [outbox[e] EXCEPT !.status = "PROCESSING", !.due = FALSE]
                           ELSE outbox[e]]
  BY DEF Claim
<1>3. PICK size \in Nat :
         /\ batch \in [1 .. size -> due]
         /\ \A i, j \in 1 .. size : i < j => batch[i] < batch[j]
  <2>1. Cardinality(due) \in Nat
    <3>1. IsFiniteSet(Events)
      BY BoundsAssumption, FS_Interval DEF Events
    <3> QED  BY <3>1, FS_Subset, FS_CardinalityType
  <2>2. (IF Cardinality(due) < BatchSize THEN Cardinality(due) ELSE BatchSize) \in Nat
    BY <2>1, BoundsAssumption
  <2> HIDE DEF due
  <2> QED  BY <2>2 DEF OldestOf
<1>4. /\ batch \in Seq(Events) /\ DOMAIN batch = 1 .. size
      /\ \A i \in 1 .. size : batch[i] \in Events /\ batch[i] \in due
      /\ \A i, j \in 1 .. size : batch[i] = batch[j] => i = j
  <2>1. due \subseteq Events
    OBVIOUS
  <2>2. Events \subseteq Int
    BY BoundsAssumption DEF Events
  <2> HIDE DEF due
  <2>3. \A i \in 1 .. size : batch[i] \in due /\ batch[i] \in Events /\ batch[i] \in Int
    BY <1>3, <2>1, <2>2
  <2>4. ASSUME NEW i \in 1 .. size, NEW j \in 1 .. size, batch[i] = batch[j] PROVE i = j
    <3>1. ~(i < j) /\ ~(j < i)
      BY <1>3, <2>3, <2>4
    <3> QED  BY <1>3, <3>1
  <2>5. batch \in [1 .. size -> Events]
    BY <1>3, <2>3
  <2>6. batch \in Seq(Events)
    BY <1>3, <2>5
  <2> QED  BY <2>3, <2>4, <2>5, <2>6
<1>5. /\ workers'[w].todo = batch /\ workers'[w].step = "TAKE"
      /\ \A v \in Workers \ {w} : workers'[v] = workers[v]
  <2>1. DOMAIN workers = Workers /\ workers[w].step = "TAKE"
    BY <1>1 DEF OutboxInv, RowsAndWorkers
  <2>2. workers[w] = [todo |-> workers[w].todo, step |-> workers[w].step,
                      retries |-> workers[w].retries]
    BY DEF OutboxInv, RowsAndWorkers
  <2>3. workers' = [workers EXCEPT ![w] = [workers[w] EXCEPT !.todo = batch]]
    BY <1>2, <2>1
  <2> HIDE DEF due
  <2>4. workers'[w] = [workers[w] EXCEPT !.todo = batch]
        /\ \A v \in Workers \ {w} : workers'[v] = workers[v]
    BY <2>1, <2>3
  <2> QED  BY <2>1, <2>2, <2>4
<1>6. \A v \in Workers : TodoIsBatch(v)'
  BY <1>4, <1>5 DEF ExcuseInv, TodoIsBatch
<1>7. ASSUME NEW e \in Events PROVE WithinExcuses(e)'
  <2>1. ~Holds(w, e)
    BY <1>1 DEF Holds
  <2>2. Copies(e)' = Copies(e)
    BY <1>1 DEF Copies
  <2>3. /\ expiries[e] \in Nat /\ effective[e] \in Nat /\ Copies(e) \in Nat
        /\ outbox[e] \in Row
    BY CopiesType DEF ExcuseInv, OutboxInv, RowsAndWorkers
  <2>4. CASE e \in ToSet(batch)
    <3>1. e \in due
      BY <1>4, <2>4 DEF ToSet
    <3>2. Available(e)
      BY <3>1 DEF Claimable, Available
    <3>3. outbox'[e].status = "PROCESSING" /\ ~outbox'[e].due
      BY <1>2, <2>3, <2>4 DEF Row
    <3>4. ~Available(e)'
      BY <3>3 DEF Available
    <3> QED  BY <1>1, <1>5, <2>2, <3>2, <3>4, ExcusesKept
  <2>5. CASE e \notin ToSet(batch)
    <3>1. ~Holds(w, e)'
      BY <1>4, <1>5, <2>5 DEF Holds, ToSet
    <3>2. outbox'[e] = outbox[e]
      BY <1>2, <2>5
    <3>3. Available(e)' = Available(e)
      BY <3>2 DEF Available
    <3> QED  BY <1>1, <1>5, <2>1, <2>2, <3>1, <3>3, ExcusesKept
  <2> QED  BY <2>4, <2>5
<1> QED  BY <1>1, <1>6, <1>7 DEF ExcuseInv

\* A worker goes on with its current event: it holds what it held.
LEMMA GoesOnHolds ==
    ASSUME OutboxInv, ExcuseInv, NEW w \in Workers, NEW step,
           workers'[w].todo = workers[w].todo, workers'[w].step = step,
           \A v \in Workers \ {w} : workers'[v] = workers[v],
           step # "SUCCEEDED", workers[w].step # "SUCCEEDED"
    PROVE  /\ \A v \in Workers : TodoIsBatch(v)'
           /\ \A e : Holds(w, e)' <=> Holds(w, e)
BY DEF ExcuseInv, TodoIsBatch, Holds

LEMMA ExcusesTake ==
    ASSUME OutboxInv, ExcuseInv, NEW w \in Workers, Take(w)
    PROVE  ExcuseInv'
<1>1. UNCHANGED << outbox, stream, effective, expiries >> /\ At(w, "TAKE")
  BY DEF Take, counters
<1>2. /\ \A v \in Workers \ {w} : workers'[v] = workers[v]
      /\ \A v \in Workers : TodoIsBatch(v)'
      /\ \A e : Holds(w, e)' => Holds(w, e)
  <2>1. CASE Finish(w)
    BY <1>1, <2>1, FinishHolds DEF At
  <2>2. CASE ~Finish(w)
    <3>1. workers'[w].todo = workers[w].todo /\ workers'[w].step = "CALL"
          /\ \A v \in Workers \ {w} : workers'[v] = workers[v]
      BY <2>2 DEF Take, OutboxInv, RowsAndWorkers
    <3> QED  BY <1>1, <3>1, GoesOnHolds DEF At
  <2> QED  BY <2>1, <2>2
<1>3. ASSUME NEW e \in Events PROVE WithinExcuses(e)'
  <2>1. Copies(e)' = Copies(e) /\ Available(e)' = Available(e)
    BY <1>1 DEF Copies, Available
  <2>2. Holds(w, e)' => Holds(w, e)
    BY <1>2
  <2> QED  BY <1>1, <1>2, <2>1, <2>2, ExcusesKept
<1> QED  BY <1>1, <1>2, <1>3 DEF ExcuseInv

\* With the copy, the worker has given away what allowed it.
LEMMA ExcusesPublish ==
    ASSUME OutboxInv, ExcuseInv, NEW w \in Workers, Publish(w)
    PROVE  ExcuseInv'
<1> DEFINE x == Current(w)
<1>1. /\ UNCHANGED << outbox, effective, expiries >> /\ stream' = Append(stream, x)
      /\ workers[w].todo # << >> /\ workers[w].step = "CALL"
      /\ workers'[w].todo = workers[w].todo /\ workers'[w].step = "SUCCEEDED"
      /\ \A v \in Workers \ {w} : workers'[v] = workers[v]
  BY DEF Publish, At, counters, OutboxInv, RowsAndWorkers
<1>2. Holds(w, x)
  BY <1>1, CurrentIsHead DEF Holds
<1>3. \A e : /\ e = x => ~Holds(w, e)'
             /\ Holds(w, e)' => Holds(w, e)
  BY <1>1, CurrentIsHead DEF Holds
<1>4. \A v \in Workers : TodoIsBatch(v)'
  BY <1>1 DEF ExcuseInv, TodoIsBatch
<1> HIDE DEF x
<1>5. ASSUME NEW e \in Events PROVE WithinExcuses(e)'
  <2>1. Copies(e)' = Copies(e) + (IF e = x THEN 1 ELSE 0)
    BY <1>1, CopiesAppended DEF OutboxInv
  <2>2. Available(e)' = Available(e)
    BY <1>1 DEF Available
  <2>3. expiries[e] \in Nat /\ effective[e] \in Nat /\ Copies(e) \in Nat
    BY CopiesType DEF ExcuseInv, OutboxInv
  <2>6. /\ expiries'[e] + effective'[e] = expiries[e] + effective[e] + 0
        /\ expiries'[e] \in Nat /\ effective'[e] \in Nat
    BY <1>1, <2>3
  <2>4. CASE e = x
    <3>1. Holds(w, e) /\ ~Holds(w, e)' /\ Copies(e)' = Copies(e) + 1
      BY <1>2, <1>3, <2>1, <2>4
    <3>2. 1 + (IF Holds(w, e)' THEN 1 ELSE 0) + (IF Available(e)' THEN 1 ELSE 0)
             <= 0 + (IF Holds(w, e) THEN 1 ELSE 0) + (IF Available(e) THEN 1 ELSE 0)
      BY <2>2, <3>1
    <3> QED  BY ONLY OutboxInv, ExcuseInv, w \in Workers, e \in Events, <1>1, <2>6, <3>1, <3>2,
                     1 \in Nat, 0 \in Nat, ExcusesMove
  <2>5. CASE e # x
    <3>1. Copies(e)' = Copies(e) /\ (Holds(w, e)' => Holds(w, e))
      BY <1>3, <2>1, <2>3, <2>5
    <3> QED  BY <1>1, <2>2, <3>1, ExcusesKept
  <2> QED  BY <2>4, <2>5
<1> QED  BY <1>1, <1>4, <1>5 DEF ExcuseInv

LEMMA ExcusesError ==
    ASSUME OutboxInv, ExcuseInv, NEW w \in Workers, Error(w)
    PROVE  ExcuseInv'
<1> DEFINE x == Current(w)
<1>1. /\ UNCHANGED << outbox, expiries >>
      /\ workers[w].todo # << >> /\ workers[w].step = "CALL"
      /\ workers'[w].todo = workers[w].todo /\ workers'[w].step = "RAISED"
      /\ \A v \in Workers \ {w} : workers'[v] = workers[v]
  BY DEF Error, At, OutboxInv, RowsAndWorkers
<1>2. /\ \A v \in Workers : TodoIsBatch(v)'
      /\ \A e : Holds(w, e)' <=> Holds(w, e)
  BY <1>1, GoesOnHolds
<1>3. \/ UNCHANGED << stream, effective >>
      \/ effective' = [effective EXCEPT ![x] = @ + 1] /\ stream' = Append(stream, x)
  BY DEF Error
<1> HIDE DEF x
<1>4. effective' \in [Events -> Nat]
  BY <1>3 DEF ExcuseInv
<1>5. ASSUME NEW e \in Events PROVE WithinExcuses(e)'
  <2>1. Available(e)' = Available(e) /\ (Holds(w, e)' => Holds(w, e))
    BY <1>1, <1>2 DEF Available
  <2>2. /\ expiries[e] \in Nat /\ effective[e] \in Nat /\ Copies(e) \in Nat
        /\ effective'[e] \in Nat
    BY <1>4, CopiesType DEF ExcuseInv, OutboxInv
  <2>3. CASE UNCHANGED << stream, effective >>
    <3>1. Copies(e)' = Copies(e) + 0
      BY <2>2, <2>3 DEF Copies
    <3> QED  BY <1>1, <2>1, <2>2, <2>3, <3>1, ExcusesMove
  <2>4. CASE effective' = [effective EXCEPT ![x] = @ + 1] /\ stream' = Append(stream, x)
    <3> DEFINE one == IF e = x THEN 1 ELSE 0
    <3>1. Copies(e)' = Copies(e) + one
      BY <2>4, CopiesAppended DEF OutboxInv
    <3>2. effective'[e] = effective[e] + one
      BY <2>2, <2>4 DEF ExcuseInv
    <3>3. one \in Nat
      OBVIOUS
    <3> HIDE DEF one
    <3> QED  BY <1>1, <2>1, <2>2, <3>1, <3>2, <3>3, ExcusesMove
  <2> QED  BY <1>3, <2>3, <2>4
<1> QED  BY <1>1, <1>2, <1>4, <1>5 DEF ExcuseInv

\* The outcome of an event is written by a worker that held it, or had published it.
LEMMA ExcusesOutcome ==
    ASSUME OutboxInv, ExcuseInv, NEW w \in Workers, workers[w].todo # << >>, Finish(w),
           NEW row, outbox' = [outbox EXCEPT ![Current(w)] = row],
           row.status = "SENT" \/ Holds(w, Current(w)),
           UNCHANGED << stream, effective, expiries >>
    PROVE  ExcuseInv'
<1>1. /\ \A v \in Workers \ {w} : workers'[v] = workers[v]
      /\ \A v \in Workers : TodoIsBatch(v)'
      /\ \A e : e = Current(w) => ~Holds(w, e)'
      /\ \A e : Holds(w, e)' => Holds(w, e)
  BY FinishHolds
<1>2. ASSUME NEW e \in Events PROVE WithinExcuses(e)'
  <2>1. Copies(e)' = Copies(e)
    BY DEF Copies
  <2>2. outbox'[e] = IF e = Current(w) THEN row ELSE outbox[e]
    BY DEF OutboxInv, RowsAndWorkers
  <2>3. (IF Holds(w, e)' THEN 1 ELSE 0) + (IF Available(e)' THEN 1 ELSE 0)
          <= (IF Holds(w, e) THEN 1 ELSE 0) + (IF Available(e) THEN 1 ELSE 0)
    <3>1. CASE e # Current(w)
      <4>1. Available(e)' = Available(e)
        BY <2>2, <3>1 DEF Available
      <4> QED  BY <1>1, <4>1
    <3>2. CASE e = Current(w) /\ row.status = "SENT"
      <4>1. ~Available(e)'
        BY <2>2, <3>2 DEF Available
      <4> QED  BY <1>1, <4>1
    <3>3. CASE e = Current(w) /\ Holds(w, e)
      <4>1. ~Holds(w, e)'
        BY <1>1, <3>3
      <4> QED  BY <3>3, <4>1
    <3> QED  BY <3>1, <3>2, <3>3
  <2> QED  BY <1>1, <2>1, <2>3, ExcusesKept
<1> QED  BY <1>1, <1>2 DEF ExcuseInv

LEMMA ExcusesMarkSent ==
    ASSUME OutboxInv, ExcuseInv, NEW w \in Workers, MarkSent(w)
    PROVE  ExcuseInv'
<1> DEFINE row == SentRow(outbox[Current(w)])
<1>1. /\ Finish(w) /\ UNCHANGED << stream, effective, expiries >>
      /\ outbox' = [outbox EXCEPT ![Current(w)] = row] /\ workers[w].todo # << >>
  BY DEF MarkSent, At, counters
<1>2. outbox[Current(w)] \in Row
  BY <1>1, CurrentIsHead DEF OutboxInv, RowsAndWorkers
<1>3. row.status = "SENT"
  BY <1>2 DEF SentRow, Row
<1> HIDE DEF row
<1> QED  BY <1>1, <1>3, ExcusesOutcome

LEMMA ExcusesMarkRetry ==
    ASSUME OutboxInv, ExcuseInv, NEW w \in Workers, MarkRetry(w)
    PROVE  ExcuseInv'
<1> DEFINE row == RetriedRow(outbox[Current(w)], workers[w].retries)
<1>1. /\ Finish(w) /\ UNCHANGED << stream, effective, expiries >>
      /\ outbox' = [outbox EXCEPT ![Current(w)] = row]
      /\ workers[w].todo # << >> /\ workers[w].step = "RAISED"
  BY DEF MarkRetry, At, counters
<1>2. Holds(w, Current(w))
  BY <1>1, CurrentIsHead DEF Holds
<1> HIDE DEF row
<1> QED  BY <1>1, <1>2, ExcusesOutcome

\* A lease that expires is an excuse, and makes the row available.
LEMMA ExcusesTimePasses ==
    ASSUME OutboxInv, ExcuseInv, NEW x \in Events, TimePasses(x)
    PROVE  ExcuseInv'
<1>1. /\ UNCHANGED << workers, stream, effective >>
      /\ outbox' = [outbox EXCEPT ![x].due = TRUE]
      /\ outbox[x].status \in {"PENDING", "PROCESSING"}
  BY DEF TimePasses
<1>2. /\ \A e \in Events \ {x} : outbox'[e] = outbox[e]
      /\ outbox'[x].status = outbox[x].status
  BY <1>1 DEF OutboxInv, RowsAndWorkers, Row
<1>3. /\ expiries' \in [Events -> Nat] /\ \A e \in Events : expiries'[e] >= expiries[e]
      /\ outbox[x].status = "PROCESSING" => expiries'[x] = expiries[x] + 1
  <2>1. expiries \in [Events -> Nat]
    BY DEF ExcuseInv
  <2>2. CASE outbox[x].status = "PROCESSING"
    <3>1. expiries' = [expiries EXCEPT ![x] = @ + 1]
      BY <2>2 DEF TimePasses
    <3> QED  BY <2>1, <3>1
  <2>3. CASE outbox[x].status # "PROCESSING"
    <3>1. expiries' = expiries
      BY <2>3 DEF TimePasses
    <3> QED  BY <2>1, <2>3, <3>1
  <2> QED  BY <2>2, <2>3
<1>4. ASSUME NEW e \in Events PROVE WithinExcuses(e)'
  <2>1. Copies(e)' = Copies(e) /\ Holders(e)' = Holders(e) /\ effective'[e] = effective[e]
    BY <1>1 DEF Copies, Holders, Holds
  <2>2. /\ Copies(e) \in Nat /\ Cardinality(Holders(e)) \in Nat /\ WithinExcuses(e)
        /\ expiries[e] \in Nat /\ effective[e] \in Nat
        /\ expiries'[e] \in Nat /\ expiries'[e] >= expiries[e]
    BY <1>3, CopiesType, HoldersType DEF OutboxInv, ExcuseInv
  <2>3. Available(e)' => Available(e) \/ expiries'[e] = expiries[e] + 1
    BY <1>1, <1>2, <1>3 DEF Available
  <2> QED  BY <2>1, <2>2, <2>3 DEF WithinExcuses
<1> QED  BY <1>1, <1>3, <1>4 DEF ExcuseInv, TodoIsBatch

LEMMA IdleIsBatch ==
    /\ Idle.todo \in Seq(Events)
    /\ \A i, j \in DOMAIN Idle.todo : Idle.todo[i] = Idle.todo[j] => i = j
<1>1. Idle.todo = << >>
  BY DEF Idle
<1>2. << >> \in Seq(Events) /\ DOMAIN << >> = {}
  OBVIOUS
<1> QED  BY <1>1, <1>2

LEMMA ExcusesCrash ==
    ASSUME OutboxInv, ExcuseInv, NEW w \in Workers, Crash(w)
    PROVE  ExcuseInv'
<1>1. /\ UNCHANGED << outbox, stream, effective, expiries >> /\ workers'[w] = Idle
      /\ \A v \in Workers \ {w} : workers'[v] = workers[v]
  BY DEF Crash, OutboxInv, RowsAndWorkers
<1>2. \A e : ~Holds(w, e)'
  BY <1>1 DEF Holds, Idle
<1>3. \A v \in Workers : TodoIsBatch(v)'
  BY <1>1, IdleIsBatch DEF ExcuseInv, TodoIsBatch
<1>4. ASSUME NEW e \in Events PROVE WithinExcuses(e)'
  <2>1. Copies(e)' = Copies(e) /\ Available(e)' = Available(e) /\ ~Holds(w, e)'
    BY <1>1, <1>2 DEF Copies, Available
  <2> QED  BY <1>1, <2>1, ExcusesKept
<1> QED  BY <1>1, <1>3, <1>4 DEF ExcuseInv

LEMMA ExcusesInit == Init => ExcuseInv
<1> SUFFICES ASSUME Init PROVE ExcuseInv
  OBVIOUS
<1>1. ASSUME NEW w \in Workers PROVE workers[w] = Idle /\ TodoIsBatch(w)
  <2>1. workers[w] = Idle
    BY DEF Init
  <2> QED  BY <2>1, IdleIsBatch DEF TodoIsBatch
<1>2. ASSUME NEW e \in Events PROVE WithinExcuses(e)
  <2>1. Holders(e) = {} /\ Cardinality(Holders(e)) = 0
    BY <1>1, FS_EmptySet DEF Holders, Holds, Idle
  <2>2. Copies(e) = 0
    <3>1. {m \in DOMAIN stream : stream[m] = e} = {}
      BY DEF Init
    <3> QED  BY <3>1, FS_EmptySet DEF Copies
  <2>3. expiries[e] = 0 /\ effective[e] = 0
    BY DEF Init
  <2> QED  BY <2>1, <2>2, <2>3 DEF WithinExcuses
<1> QED  BY <1>1, <1>2 DEF Init, ExcuseInv

LEMMA ExcusesNext == OutboxInv /\ ExcuseInv /\ [Next]_vars => ExcuseInv'
<1> SUFFICES ASSUME OutboxInv, ExcuseInv, [Next]_vars PROVE ExcuseInv'
  OBVIOUS
<1>1. ASSUME NEW n, Commit(n) PROVE ExcuseInv'
  BY <1>1, ExcusesCommit
<1>2. ASSUME NEW w \in Workers, WorkerStep(w) PROVE ExcuseInv'
  BY <1>2, ExcusesClaim, ExcusesTake, ExcusesPublish, ExcusesError, ExcusesMarkSent,
     ExcusesMarkRetry DEF WorkerStep
<1>3. ASSUME NEW w \in Workers, Crash(w) PROVE ExcuseInv'
  BY <1>3, ExcusesCrash
<1>4. ASSUME NEW e \in Events, TimePasses(e) PROVE ExcuseInv'
  BY <1>4, ExcusesTimePasses
<1>5. CASE UNCHANGED vars
  BY <1>5 DEF vars, counters, ExcuseInv, TodoIsBatch, WithinExcuses, Copies, Holders, Holds,
              Available
<1> QED  BY <1>1, <1>2, <1>3, <1>4, <1>5 DEF Next

\* However workers, errors, crashes and leases fall together, every copy of an event in
\* the stream but the first has a lease that expired or a lost reply for an excuse.
THEOREM RepeatsAreExcused == Spec => []RepeatsHaveAnExcuse
<1>1. OutboxInv /\ ExcuseInv => RepeatsHaveAnExcuse
  <2> SUFFICES ASSUME OutboxInv, ExcuseInv, NEW e \in Events
               PROVE  Copies(e) <= 1 + expiries[e] + effective[e]
    BY DEF RepeatsHaveAnExcuse
  <2>1. /\ Copies(e) \in Nat /\ Cardinality(Holders(e)) \in Nat /\ WithinExcuses(e)
        /\ expiries[e] \in Nat /\ effective[e] \in Nat
    BY CopiesType, HoldersType DEF OutboxInv, ExcuseInv
  <2> QED  BY <2>1 DEF WithinExcuses
<1> QED  BY <1>1, InvHolds, ExcusesInit, ExcusesNext, PTL DEF Spec

-----------------------------------------------------------------------------
(* The outbox implements the abstract delivery.                            *)

\* Nobody is going to publish e before its lease has expired: a worker has died.
Orphaned(e) == outbox[e].status = "PROCESSING" /\ ~outbox[e].due /\ ~Held(e)

\* Every lease that expires has had a slow worker or a dead one.
LeasesCounted(e) == expiries[e] + (IF Orphaned(e) THEN 1 ELSE 0) <= slow + crashes

ErrorsCounted(e) == effective[e] <= raised[e] /\ raised[e] <= MaxErrors

HeldIsCommitted(w) ==
    \A i \in DOMAIN workers[w].todo : outbox[workers[w].todo[i]].status # "NONE"

PromiseInv ==
    /\ slow \in 0 .. MaxSlow /\ crashes \in 0 .. MaxCrashes
    /\ \A e \in Events : LeasesCounted(e) /\ ErrorsCounted(e)
    /\ \A w \in Workers : HeldIsCommitted(w)

AllInv == OutboxInv /\ ExcuseInv /\ PromiseInv

\* No counter moves, nothing is orphaned and nothing committed is withdrawn.
LEMMA PromiseKept ==
    ASSUME AllInv, UNCHANGED << slow, crashes, expiries, raised, effective >>,
           \A e \in Events : Orphaned(e)' => Orphaned(e),
           \A w \in Workers : HeldIsCommitted(w)'
    PROVE  PromiseInv'
<1>1. ASSUME NEW e \in Events PROVE LeasesCounted(e)'
  <2>1. LeasesCounted(e) /\ expiries[e] \in Nat /\ slow \in Nat /\ crashes \in Nat
    BY DEF AllInv, PromiseInv, ExcuseInv
  <2>2. CASE Orphaned(e)'
    <3>1. Orphaned(e)
      BY <2>2
    <3> QED  BY <2>1, <2>2, <3>1 DEF LeasesCounted
  <2>3. CASE ~Orphaned(e)'
    <3>1. expiries[e] <= slow + crashes
      BY <2>1 DEF LeasesCounted
    <3> QED  BY <2>1, <2>3, <3>1 DEF LeasesCounted
  <2> QED  BY <2>2, <2>3
<1>2. ASSUME NEW e \in Events PROVE ErrorsCounted(e)'
  BY DEF AllInv, PromiseInv, ErrorsCounted
<1> QED  BY <1>1, <1>2 DEF AllInv, PromiseInv

LEMMA TodoIsEvents ==
    ASSUME AllInv, NEW w \in Workers
    PROVE  /\ workers[w].todo \in Seq(Events)
           /\ \A i \in DOMAIN workers[w].todo : workers[w].todo[i] \in Events
<1>1. workers[w].todo \in Seq(Events)
  BY DEF AllInv, ExcuseInv, TodoIsBatch
<1> QED  BY <1>1

\* A worker that has finished with an event holds the others still.
LEMMA FinishKeepsOthers ==
    ASSUME AllInv, NEW w \in Workers, workers[w].todo # << >>, Finish(w)
    PROVE  /\ \A e : e # Current(w) => (Held(e) => Held(e)')
           /\ \A i \in DOMAIN workers'[w].todo :
                 \E j \in DOMAIN workers[w].todo : workers'[w].todo[i] = workers[w].todo[j]
           /\ \A v \in Workers \ {w} : workers'[v] = workers[v]
<1> DEFINE todo == workers[w].todo
<1>1. /\ workers'[w].todo = Tail(todo)
      /\ \A v \in Workers \ {w} : workers'[v] = workers[v]
  BY DEF Finish, Idle, AllInv, OutboxInv, RowsAndWorkers
<1>2. todo \in Seq(Events) /\ todo # << >>
  BY TodoIsEvents
<1>3. /\ DOMAIN Tail(todo) = 1 .. Len(todo) - 1
      /\ DOMAIN todo = 1 .. Len(todo) /\ Len(todo) \in Nat
      /\ \A i \in 1 .. Len(todo) - 1 : Tail(todo)[i] = todo[i + 1]
  BY <1>2
<1>4. \A i \in DOMAIN Tail(todo) : i + 1 \in DOMAIN todo /\ Tail(todo)[i] = todo[i + 1]
  <2> HIDE DEF todo
  <2> QED  BY <1>3
<1>5. \A i \in DOMAIN todo : i # 1 => i - 1 \in DOMAIN Tail(todo) /\ Tail(todo)[i - 1] = todo[i]
  <2> HIDE DEF todo
  <2>1. ASSUME NEW i \in DOMAIN todo, i # 1 PROVE i - 1 \in 1 .. Len(todo) - 1
    BY <1>3, <2>1
  <2>2. ASSUME NEW i \in DOMAIN todo, i # 1
        PROVE  i - 1 \in DOMAIN Tail(todo) /\ Tail(todo)[i - 1] = todo[i]
    <3>1. Tail(todo)[i - 1] = todo[i - 1 + 1] /\ i - 1 + 1 = i
      BY <1>3, <2>1, <2>2
    <3> QED  BY <1>3, <2>1, <2>2, <3>1
  <2> QED  BY <2>2
<1>6. Current(w) = todo[1]
  BY <1>2, CurrentIsHead DEF AllInv
<1>7. ASSUME NEW e, e # Current(w), Held(e) PROVE Held(e)'
  <2>1. PICK v \in Workers : \E i \in DOMAIN workers[v].todo : workers[v].todo[i] = e
    BY <1>7 DEF Held
  <2>i. PICK i \in DOMAIN workers[v].todo : workers[v].todo[i] = e
    BY <2>1
  <2>2. CASE v # w
    BY <1>1, <2>1, <2>2 DEF Held
  <2>3. CASE v = w
    <3>1. i \in DOMAIN todo /\ todo[i] = e /\ i # 1
      BY <1>6, <1>7, <2>i, <2>3
    <3>2. i - 1 \in DOMAIN workers'[w].todo /\ workers'[w].todo[i - 1] = e
      BY <1>1, <1>5, <3>1
    <3> QED  BY <3>2 DEF Held
  <2> QED  BY <2>2, <2>3
<1>8. ASSUME NEW i \in DOMAIN workers'[w].todo
      PROVE  \E j \in DOMAIN workers[w].todo : workers'[w].todo[i] = workers[w].todo[j]
  BY <1>1, <1>4
<1> QED  BY <1>1, <1>7, <1>8

\* What is held stays committed when no row is taken back and no worker but w, which
\* holds what it held or less, has moved.
LEMMA CommittedKept ==
    ASSUME AllInv, NEW w \in Workers, \A v \in Workers \ {w} : workers'[v] = workers[v],
           \A i \in DOMAIN workers'[w].todo :
              \E j \in DOMAIN workers[w].todo : workers'[w].todo[i] = workers[w].todo[j],
           \A e \in Events : outbox[e].status # "NONE" => outbox'[e].status # "NONE"
    PROVE  \A v \in Workers : HeldIsCommitted(v)'
<1>1. ASSUME NEW v \in Workers PROVE HeldIsCommitted(v)'
  <2>1. HeldIsCommitted(v) /\ HeldIsCommitted(w)
    BY DEF AllInv, PromiseInv
  <2>2. CASE v # w
    <3>1. workers'[v] = workers[v]
      BY <2>2
    <3>2. \A i \in DOMAIN workers[v].todo : workers[v].todo[i] \in Events
      BY TodoIsEvents
    <3> QED  BY <2>1, <3>1, <3>2 DEF HeldIsCommitted
  <2>3. CASE v = w
    <3>1. \A j \in DOMAIN workers[w].todo : workers[w].todo[j] \in Events
      BY TodoIsEvents
    <3> QED  BY <2>1, <2>3, <3>1 DEF HeldIsCommitted
  <2> QED  BY <2>2, <2>3
<1> QED  BY <1>1

LEMMA PromiseCommit ==
    ASSUME AllInv, NEW n, Commit(n)
    PROVE  PromiseInv'
<1>1. UNCHANGED << workers, slow, crashes, expiries, raised, effective >>
  BY DEF Commit, counters
<1>2. ASSUME NEW e \in Events
      PROVE  /\ outbox[e].status # "NONE" => outbox'[e].status # "NONE"
             /\ outbox'[e].status = "PROCESSING" => outbox'[e] = outbox[e]
  BY DEF Commit
<1>3. \A e \in Events : Orphaned(e)' => Orphaned(e)
  BY <1>1, <1>2 DEF Orphaned, Held
<1>4. ASSUME NEW w \in Workers PROVE HeldIsCommitted(w)'
  <2>1. HeldIsCommitted(w)
    BY DEF AllInv, PromiseInv
  <2> QED  BY <1>1, <1>2, <2>1, TodoIsEvents DEF HeldIsCommitted
<1> QED  BY <1>1, <1>3, <1>4, PromiseKept

LEMMA PromiseClaim ==
    ASSUME AllInv, NEW w \in Workers, Claim(w)
    PROVE  PromiseInv'
<1> DEFINE due == {e \in Events : Claimable(e)}
<1>1. /\ UNCHANGED << slow, crashes, expiries, raised, effective >>
      /\ workers[w].todo = << >>
  BY DEF Claim, counters
<1>2. PICK batch \in OldestOf(due) :
         /\ workers' = [workers EXCEPT ![w].todo = batch]
         /\ outbox' = [e \in Events |->
                         IF e \in ToSet(batch)
                           THEN [outbox[e] EXCEPT !.status = "PROCESSING", !.due = FALSE]
                           ELSE outbox[e]]
  BY DEF Claim
<1> HIDE DEF due
<1>3. /\ workers'[w].todo = batch
      /\ \A v \in Workers \ {w} : workers'[v] = workers[v]
  <2>1. DOMAIN workers = Workers
    BY DEF AllInv, OutboxInv, RowsAndWorkers
  <2>2. workers[w] = [todo |-> workers[w].todo, step |-> workers[w].step,
                      retries |-> workers[w].retries]
    BY DEF AllInv, OutboxInv, RowsAndWorkers
  <2> QED  BY <1>2, <2>1, <2>2
<1>4. ASSUME NEW e \in Events
      PROVE  /\ outbox[e].status # "NONE" => outbox'[e].status # "NONE"
             /\ e \in ToSet(batch) => outbox'[e].status = "PROCESSING"
             /\ e \notin ToSet(batch) => outbox'[e] = outbox[e]
  <2>1. outbox[e] \in Row
    BY DEF AllInv, OutboxInv, RowsAndWorkers
  <2> QED  BY <1>2, <2>1 DEF Row
<1>5. ASSUME NEW e \in Events, Orphaned(e)' PROVE Orphaned(e)
  <2>1. ~Held(e)'
    BY <1>5 DEF Orphaned
  <2>2. e \notin ToSet(batch)
    BY <1>3, <2>1 DEF Held, ToSet
  <2>3. ~Held(e)
    BY <1>1, <1>3, <2>1 DEF Held
  <2> QED  BY <1>4, <1>5, <2>2, <2>3 DEF Orphaned
<1>6. ASSUME NEW v \in Workers PROVE HeldIsCommitted(v)'
  <2>1. CASE v = w
    <3>1. workers'[w].todo \in Seq(Events)
      BY ExcusesClaim DEF AllInv, ExcuseInv, TodoIsBatch
    <3>2. \A i \in DOMAIN batch : batch[i] \in Events /\ batch[i] \in ToSet(batch)
      BY <1>3, <3>1 DEF ToSet
    <3> QED  BY <1>3, <1>4, <2>1, <3>2 DEF HeldIsCommitted
  <2>2. CASE v # w
    <3>1. HeldIsCommitted(v) /\ workers'[v] = workers[v]
      BY <1>3, <2>2 DEF AllInv, PromiseInv
    <3> QED  BY <1>4, <3>1, TodoIsEvents DEF HeldIsCommitted
  <2> QED  BY <2>1, <2>2
<1> QED  BY <1>1, <1>5, <1>6, PromiseKept

LEMMA PromiseTake ==
    ASSUME AllInv, NEW w \in Workers, Take(w)
    PROVE  PromiseInv'
<1>1. /\ UNCHANGED << outbox, slow, crashes, expiries, raised, effective >>
      /\ workers[w].todo # << >>
  BY DEF Take, At, counters
<1>2. CASE outbox[Current(w)].status = "PROCESSING"
  <2>1. /\ workers'[w].todo = workers[w].todo
        /\ \A v \in Workers \ {w} : workers'[v] = workers[v]
    BY <1>2 DEF Take, AllInv, OutboxInv, RowsAndWorkers
  <2>2. \A v \in Workers : workers'[v].todo = workers[v].todo
    BY <2>1
  <2>3. \A e \in Events : Orphaned(e)' => Orphaned(e)
    BY <1>1, <2>2 DEF Orphaned, Held
  <2>4. \A v \in Workers : HeldIsCommitted(v)'
    BY <1>1, <2>1, CommittedKept
  <2> QED  BY <1>1, <2>3, <2>4, PromiseKept
<1>3. CASE outbox[Current(w)].status # "PROCESSING"
  <2>1. Finish(w)
    BY <1>3 DEF Take
  <2>2. \A e \in Events : Orphaned(e)' => Orphaned(e)
    BY <1>1, <1>3, <2>1, FinishKeepsOthers DEF Orphaned
  <2>3. \A v \in Workers : HeldIsCommitted(v)'
    BY <1>1, <2>1, FinishKeepsOthers, CommittedKept
  <2> QED  BY <1>1, <2>2, <2>3, PromiseKept
<1> QED  BY <1>2, <1>3

LEMMA PromisePublish ==
    ASSUME AllInv, NEW w \in Workers, Publish(w)
    PROVE  PromiseInv'
<1>1. /\ UNCHANGED << outbox, slow, crashes, expiries, raised, effective >>
      /\ workers'[w].todo = workers[w].todo
      /\ \A v \in Workers \ {w} : workers'[v] = workers[v]
  BY DEF Publish, counters, AllInv, OutboxInv, RowsAndWorkers
<1>2. \A v \in Workers : workers'[v].todo = workers[v].todo
  BY <1>1
<1>3. \A e \in Events : Orphaned(e)' => Orphaned(e)
  BY <1>1, <1>2 DEF Orphaned, Held
<1>4. \A v \in Workers : HeldIsCommitted(v)'
  BY <1>1, CommittedKept
<1> QED  BY <1>1, <1>3, <1>4, PromiseKept

\* A worker writes the outcome of its event and goes on to the next.
LEMMA PromiseOutcome ==
    ASSUME AllInv, NEW w \in Workers, workers[w].todo # << >>, Finish(w),
           NEW row, outbox' = [outbox EXCEPT ![Current(w)] = row],
           row.status \notin {"NONE", "PROCESSING"},
           UNCHANGED << slow, crashes, expiries, raised, effective >>
    PROVE  PromiseInv'
<1>1. \A e \in Events : outbox'[e] = IF e = Current(w) THEN row ELSE outbox[e]
  BY DEF AllInv, OutboxInv, RowsAndWorkers
<1>2. ASSUME NEW e \in Events, Orphaned(e)' PROVE Orphaned(e)
  <2>1. e # Current(w)
    BY <1>1, <1>2 DEF Orphaned
  <2>2. ~Held(e)
    BY <1>2, <2>1, FinishKeepsOthers DEF Orphaned
  <2> QED  BY <1>1, <1>2, <2>1, <2>2 DEF Orphaned
<1>3. \A v \in Workers : HeldIsCommitted(v)'
  BY <1>1, FinishKeepsOthers, CommittedKept
<1> QED  BY <1>2, <1>3, PromiseKept

LEMMA PromiseMarkSent ==
    ASSUME AllInv, NEW w \in Workers, MarkSent(w)
    PROVE  PromiseInv'
<1> DEFINE row == SentRow(outbox[Current(w)])
<1>1. /\ Finish(w) /\ UNCHANGED << slow, crashes, expiries, raised, effective >>
      /\ outbox' = [outbox EXCEPT ![Current(w)] = row] /\ workers[w].todo # << >>
  BY DEF MarkSent, At, counters
<1>2. outbox[Current(w)] \in Row
  BY <1>1, CurrentIsHead DEF AllInv, OutboxInv, RowsAndWorkers
<1>3. row.status = "SENT"
  BY <1>2 DEF SentRow, Row
<1> HIDE DEF row
<1> QED  BY <1>1, <1>3, PromiseOutcome

LEMMA PromiseMarkRetry ==
    ASSUME AllInv, NEW w \in Workers, MarkRetry(w)
    PROVE  PromiseInv'
<1> DEFINE row == RetriedRow(outbox[Current(w)], workers[w].retries)
<1>1. /\ Finish(w) /\ UNCHANGED << slow, crashes, expiries, raised, effective >>
      /\ outbox' = [outbox EXCEPT ![Current(w)] = row] /\ workers[w].todo # << >>
  BY DEF MarkRetry, At, counters
<1>2. outbox[Current(w)] \in Row
  BY <1>1, CurrentIsHead DEF AllInv, OutboxInv, RowsAndWorkers
<1>3. row.status \in {"FAILED", "PENDING"}
  BY <1>2 DEF RetriedRow, Row
<1> HIDE DEF row
<1> QED  BY <1>1, <1>3, PromiseOutcome

LEMMA EventsFinite == IsFiniteSet(Events) /\ Cardinality(Events) \in Nat
BY BoundsAssumption, FS_Interval, FS_CardinalityType DEF Events

LEMMA PromiseError ==
    ASSUME AllInv, NEW w \in Workers, Error(w)
    PROVE  PromiseInv'
<1> DEFINE x == Current(w)
<1>1. /\ UNCHANGED << outbox, slow, crashes, expiries >>
      /\ raised' = [raised EXCEPT ![x] = @ + 1]
      /\ effective' = effective \/ effective' = [effective EXCEPT ![x] = @ + 1]
      /\ workers'[w].todo = workers[w].todo
      /\ \A v \in Workers \ {w} : workers'[v] = workers[v]
      /\ SumFunction(raised) < MaxErrors /\ workers[w].todo # << >>
  BY DEF Error, At, AllInv, OutboxInv, RowsAndWorkers
<1>2. x \in Events
  BY <1>1, CurrentIsHead DEF AllInv
<1> HIDE DEF x
<1>3. raised \in [Events -> Nat] /\ effective \in [Events -> Nat]
  BY DEF AllInv, OutboxInv, RowsAndWorkers, ExcuseInv
<1>4. raised[x] < MaxErrors
  <2>1. SumFunction(raised) = SumFunctionOnSet(raised, Events)
    BY <1>3 DEF SumFunction
  <2>2. raised[x] <= SumFunctionOnSet(raised, Events)
    BY <1>2, <1>3, EventsFinite, SumCoversElements
  <2>3. SumFunctionOnSet(raised, Events) \in Nat
    BY <1>3, EventsFinite, SumOfNaturals
  <2> QED  BY <1>1, <1>2, <1>3, <2>1, <2>2, <2>3, BoundsAssumption
<1>5. ASSUME NEW e \in Events PROVE ErrorsCounted(e)'
  <2>1. ErrorsCounted(e) /\ raised[e] \in Nat /\ effective[e] \in Nat
    BY <1>3 DEF AllInv, PromiseInv
  <2>2. CASE e = x
    <3>1. raised'[e] = raised[e] + 1 /\ effective'[e] \in {effective[e], effective[e] + 1}
      BY <1>1, <1>3, <2>2
    <3> QED  BY <1>4, <2>1, <2>2, <3>1, BoundsAssumption DEF ErrorsCounted
  <2>3. CASE e # x
    <3>1. raised'[e] = raised[e] /\ effective'[e] = effective[e]
      BY <1>1, <1>3, <2>3
    <3> QED  BY <2>1, <3>1 DEF ErrorsCounted
  <2> QED  BY <2>2, <2>3
<1>6. \A v \in Workers : workers'[v].todo = workers[v].todo
  BY <1>1
<1>7. ASSUME NEW e \in Events PROVE LeasesCounted(e)'
  <2>1. LeasesCounted(e) /\ Orphaned(e)' = Orphaned(e)
    BY <1>1, <1>6 DEF AllInv, PromiseInv, Orphaned, Held
  <2> QED  BY <1>1, <2>1 DEF LeasesCounted
<1>8. \A v \in Workers : HeldIsCommitted(v)'
  BY <1>1, CommittedKept
<1> QED  BY <1>1, <1>5, <1>7, <1>8 DEF AllInv, PromiseInv

\* A lease that expires in the hands of a worker counts as slow, any other was orphaned.
LEMMA PromiseTimePasses ==
    ASSUME AllInv, NEW x \in Events, TimePasses(x)
    PROVE  PromiseInv'
<1>1. /\ UNCHANGED << workers, raised, effective, crashes >>
      /\ outbox' = [outbox EXCEPT ![x].due = TRUE]
      /\ outbox[x].status \in {"PENDING", "PROCESSING"} /\ ~outbox[x].due
  BY DEF TimePasses
<1>2. /\ \A e \in Events \ {x} : outbox'[e] = outbox[e]
      /\ outbox'[x].status = outbox[x].status /\ outbox'[x].due
  BY <1>1 DEF AllInv, OutboxInv, RowsAndWorkers, Row
<1>3. /\ slow \in 0 .. MaxSlow /\ crashes \in 0 .. MaxCrashes /\ expiries \in [Events -> Nat]
  BY DEF AllInv, PromiseInv, ExcuseInv
<1>4. /\ \/ expiries' = expiries /\ slow' = slow
         \/ expiries' = [expiries EXCEPT ![x] = @ + 1] /\ slow' = slow + 1 /\ slow < MaxSlow
         \/ expiries' = [expiries EXCEPT ![x] = @ + 1] /\ slow' = slow /\ Orphaned(x)
  BY <1>1 DEF TimePasses, Orphaned
<1>5. slow' \in 0 .. MaxSlow /\ slow' >= slow
  BY <1>3, <1>4, BoundsAssumption
<1>6. ~Orphaned(x)'
  BY <1>2 DEF Orphaned
<1>7. ASSUME NEW e \in Events PROVE LeasesCounted(e)'
  <2>1. LeasesCounted(e) /\ expiries[e] \in Nat /\ slow \in Nat /\ slow' \in Nat /\ crashes \in Nat
    BY <1>3, <1>5, BoundsAssumption DEF AllInv, PromiseInv
  <2>2. CASE e # x
    <3>1. expiries'[e] = expiries[e] /\ Orphaned(e)' = Orphaned(e) /\ crashes' = crashes
      BY <1>1, <1>2, <1>3, <1>4, <2>2 DEF Orphaned, Held
    <3> QED  BY <1>5, <2>1, <3>1 DEF LeasesCounted
  <2>3. CASE e = x /\ expiries' = expiries /\ slow' = slow
    BY <1>1, <1>6, <2>1, <2>3 DEF LeasesCounted
  <2>4. CASE e = x /\ expiries' = [expiries EXCEPT ![x] = @ + 1] /\ slow' = slow + 1
    <3>1. expiries'[e] = expiries[e] + 1 /\ expiries[e] <= slow + crashes
      BY <1>3, <2>1, <2>4 DEF LeasesCounted
    <3> QED  BY <1>1, <1>6, <2>1, <2>4, <3>1 DEF LeasesCounted
  <2>5. CASE e = x /\ expiries' = [expiries EXCEPT ![x] = @ + 1] /\ slow' = slow /\ Orphaned(x)
    <3>1. expiries'[e] = expiries[e] + 1 /\ expiries[e] + 1 <= slow + crashes
      BY <1>3, <2>1, <2>5 DEF LeasesCounted
    <3> QED  BY <1>1, <1>6, <2>1, <2>5, <3>1 DEF LeasesCounted
  <2> QED  BY <1>4, <2>2, <2>3, <2>4, <2>5
<1>8. ASSUME NEW e \in Events PROVE ErrorsCounted(e)'
  BY <1>1 DEF AllInv, PromiseInv, ErrorsCounted
<1>9. ASSUME NEW w \in Workers PROVE HeldIsCommitted(w)'
  <2>1. HeldIsCommitted(w)
    BY DEF AllInv, PromiseInv
  <2>2. \A e \in Events : outbox'[e].status = outbox[e].status
    BY <1>2
  <2> QED  BY <1>1, <2>1, <2>2, TodoIsEvents DEF HeldIsCommitted
<1> QED  BY <1>1, <1>3, <1>5, <1>7, <1>8, <1>9 DEF PromiseInv

\* A worker that dies may orphan everything it held, each event once.
LEMMA PromiseCrash ==
    ASSUME AllInv, NEW w \in Workers, Crash(w)
    PROVE  PromiseInv'
<1>1. /\ UNCHANGED << outbox, raised, effective, expiries, slow >>
      /\ crashes' = crashes + 1 /\ crashes < MaxCrashes
      /\ workers'[w].todo = << >>
      /\ \A v \in Workers \ {w} : workers'[v] = workers[v]
  BY DEF Crash, Idle, AllInv, OutboxInv, RowsAndWorkers
<1>2. /\ slow \in 0 .. MaxSlow /\ crashes \in 0 .. MaxCrashes /\ expiries \in [Events -> Nat]
  BY DEF AllInv, PromiseInv, ExcuseInv
<1>3. crashes' \in 0 .. MaxCrashes
  BY <1>1, <1>2, BoundsAssumption
<1>4. ASSUME NEW e \in Events PROVE LeasesCounted(e)'
  <2>1. LeasesCounted(e) /\ expiries[e] \in Nat /\ slow \in Nat /\ crashes \in Nat
    BY <1>2 DEF AllInv, PromiseInv
  <2>2. expiries[e] <= slow + crashes
    BY <2>1 DEF LeasesCounted
  <2> QED  BY <1>1, <2>1, <2>2 DEF LeasesCounted
<1>5. \A e \in Events : ErrorsCounted(e)'
  BY <1>1 DEF AllInv, PromiseInv, ErrorsCounted
<1>6. \A v \in Workers : HeldIsCommitted(v)'
  BY <1>1, CommittedKept
<1> QED  BY <1>1, <1>2, <1>3, <1>4, <1>5, <1>6 DEF PromiseInv

LEMMA PromiseInit == Init => PromiseInv
<1> SUFFICES ASSUME Init PROVE PromiseInv
  OBVIOUS
<1>1. ASSUME NEW e \in Events PROVE LeasesCounted(e) /\ ErrorsCounted(e)
  BY <1>1, BoundsAssumption DEF Init, LeasesCounted, ErrorsCounted, Orphaned
<1>2. ASSUME NEW w \in Workers PROVE HeldIsCommitted(w)
  BY DEF Init, Idle, HeldIsCommitted
<1> QED  BY <1>1, <1>2, BoundsAssumption DEF Init, PromiseInv

LEMMA PromiseNext == AllInv /\ [Next]_vars => PromiseInv'
<1> SUFFICES ASSUME AllInv, [Next]_vars PROVE PromiseInv'
  OBVIOUS
<1>1. ASSUME NEW n, Commit(n) PROVE PromiseInv'
  BY <1>1, PromiseCommit
<1>2. ASSUME NEW w \in Workers, WorkerStep(w) PROVE PromiseInv'
  BY <1>2, PromiseClaim, PromiseTake, PromisePublish, PromiseError, PromiseMarkSent,
     PromiseMarkRetry DEF WorkerStep
<1>3. ASSUME NEW w \in Workers, Crash(w) PROVE PromiseInv'
  BY <1>3, PromiseCrash
<1>4. ASSUME NEW e \in Events, TimePasses(e) PROVE PromiseInv'
  BY <1>4, PromiseTimePasses
<1>5. CASE UNCHANGED vars
  BY <1>5 DEF vars, counters, AllInv, PromiseInv, LeasesCounted, ErrorsCounted,
              HeldIsCommitted, Orphaned, Held
<1> QED  BY <1>1, <1>2, <1>3, <1>4, <1>5 DEF Next

\* A worker about to call still finds room for one more copy of its event.
LEMMA RoomForCopy ==
    ASSUME AllInv, NEW w \in Workers, At(w, "CALL")
    PROVE  /\ Current(w) \in Events /\ outbox[Current(w)].status # "NONE"
           /\ Copies(Current(w)) < Cardinality(Events) * (1 + MaxErrors + MaxCrashes + MaxSlow)
<1> DEFINE e == Current(w)
           bound == 1 + MaxErrors + MaxCrashes + MaxSlow
<1>1. /\ e \in Events /\ Holds(w, e) /\ outbox[e].status # "NONE"
  <2>1. workers[w].todo # << >> /\ workers[w].step = "CALL"
    BY DEF At
  <2>2. /\ e \in Events /\ e = workers[w].todo[1] /\ 1 \in DOMAIN workers[w].todo
    BY <2>1, CurrentIsHead DEF AllInv
  <2> QED  BY <2>1, <2>2 DEF Holds, AllInv, PromiseInv, HeldIsCommitted
<1> HIDE DEF e
<1>2. Cardinality(Holders(e)) \in Nat /\ Cardinality(Holders(e)) >= 1
  <2>1. w \in Holders(e)
    BY <1>1 DEF Holders
  <2>2. Cardinality(Holders(e)) # 0
    BY <2>1, HoldersType, FS_EmptySet
  <2> QED  BY <2>2, HoldersType
<1>3. /\ Copies(e) \in Nat /\ expiries[e] \in Nat /\ effective[e] \in Nat /\ raised[e] \in Nat
      /\ WithinExcuses(e) /\ LeasesCounted(e) /\ ErrorsCounted(e)
      /\ slow \in 0 .. MaxSlow /\ crashes \in 0 .. MaxCrashes
  BY <1>1, CopiesType DEF AllInv, OutboxInv, RowsAndWorkers, ExcuseInv, PromiseInv
<1>4. expiries[e] <= slow + crashes
  BY <1>3, BoundsAssumption DEF LeasesCounted
<1>5. Copies(e) + 1 <= 1 + expiries[e] + effective[e]
  BY <1>2, <1>3 DEF WithinExcuses
<1>6. Copies(e) < bound /\ bound \in Nat
  BY <1>3, <1>4, <1>5, BoundsAssumption DEF ErrorsCounted
<1>7. Cardinality(Events) \in Nat /\ Cardinality(Events) >= 1
  <2>1. Cardinality(Events) # 0
    BY <1>1, EventsFinite, FS_EmptySet
  <2> QED  BY <2>1, EventsFinite
<1> HIDE DEF bound
<1>8. bound <= Cardinality(Events) * bound
  <2>1. ASSUME NEW n \in Nat, n >= 1, NEW k \in Nat PROVE k <= n * k
    <3>1. n - 1 \in Nat /\ n * k = (n - 1) * k + k
      BY <2>1
    <3>2. (n - 1) * k \in Nat
      BY <3>1
    <3> QED  BY <3>1, <3>2
  <2> QED  BY <1>6, <1>7, <2>1
<1>9. Cardinality(Events) * bound \in Nat
  BY <1>6, <1>7
<1> QED  BY <1>1, <1>3, <1>6, <1>8, <1>9 DEF e, bound

\* A step that leaves the stream alone commits new events, or gives one up, or revives
\* one, or is none of the delivery's business.
LEMMA OutcomeIsDelivered ==
    ASSUME AllInv, UNCHANGED stream, NEW e \in Events, outbox[e].status # "NONE",
           \A f \in Events \ {e} : outbox'[f].status = outbox[f].status,
           outbox'[e].status # "NONE"
    PROVE  [Delivery!Next]_Delivery!vars
<1> DEFINE committed == {f \in Events : outbox[f].status # "NONE"}
           lost == {f \in Events : outbox[f].status = "FAILED"}
<1>1. committed' = committed /\ e \in committed
  OBVIOUS
<1>2. CASE outbox'[e].status = "FAILED"
  <2>1. lost' = lost \cup {e}
    BY <1>2
  <2>2. Delivery!GiveUp(e)
    BY <1>1, <2>1 DEF Delivery!GiveUp
  <2> QED  BY <2>2 DEF Delivery!Next
<1>3. CASE outbox'[e].status # "FAILED"
  <2>1. lost' = lost \ {e}
    BY <1>3
  <2>2. Delivery!Revive(e)
    BY <1>1, <2>1 DEF Delivery!Revive
  <2> QED  BY <2>2 DEF Delivery!Next
<1> QED  BY <1>2, <1>3

\* A step that changes no status and no stream is none of the delivery's business.
LEMMA NothingDelivered ==
    ASSUME UNCHANGED stream, \A e \in Events : outbox'[e].status = outbox[e].status
    PROVE  UNCHANGED Delivery!vars
BY DEF Delivery!vars

LEMMA SameCopies == ASSUME NEW e PROVE Delivery!Copies(e) = Copies(e)
BY DEF Delivery!Copies, Copies, Delivery!Cardinality, Cardinality

LEMMA CopyIsDelivered ==
    ASSUME AllInv, UNCHANGED outbox, NEW w \in Workers, At(w, "CALL"),
           stream' = Append(stream, Current(w))
    PROVE  [Delivery!Next]_Delivery!vars
<1>1. Delivery!Publish(Current(w))
  BY RoomForCopy, SameCopies DEF Delivery!Publish
<1> QED  BY <1>1, RoomForCopy DEF Delivery!Next

LEMMA CommitIsDelivered ==
    ASSUME AllInv, NEW n, Commit(n)
    PROVE  [Delivery!Next]_Delivery!vars
<1> DEFINE committed == {f \in Events : outbox[f].status # "NONE"}
           lost == {f \in Events : outbox[f].status = "FAILED"}
<1>n. PICK new : new = committed' \ committed
  OBVIOUS
<1>1. UNCHANGED stream
  BY DEF Commit
<1>2. \A e \in Events :
         \/ outbox'[e] = outbox[e]
         \/ outbox[e].status = "NONE" /\ outbox'[e].status = "PENDING"
  BY DEF Commit
<1>3. committed' = committed \cup new /\ new \in SUBSET (Events \ committed)
  BY <1>n, <1>2
<1>4. lost' = lost
  BY <1>2
<1>5. Delivery!Commit(new)
  BY <1>1, <1>3, <1>4 DEF Delivery!Commit
<1>6. \E some \in SUBSET (Events \ committed) : Delivery!Commit(some)
  BY <1>3, <1>5
<1> QED  BY <1>6 DEF Delivery!Next

LEMMA WorkerDelivers ==
    ASSUME AllInv, NEW w \in Workers, WorkerStep(w)
    PROVE  [Delivery!Next]_Delivery!vars
<1>1. CASE Claim(w)
  <2>1. UNCHANGED stream
    BY <1>1 DEF Claim
  <2>2. PICK batch \in OldestOf({e \in Events : Claimable(e)}) :
           outbox' = [e \in Events |->
                        IF e \in ToSet(batch)
                          THEN [outbox[e] EXCEPT !.status = "PROCESSING", !.due = FALSE]
                          ELSE outbox[e]]
    BY <1>1 DEF Claim
  <2>3. batch \in Seq({e \in Events : Claimable(e)})
    <3>1. IsFiniteSet({e \in Events : Claimable(e)})
      BY EventsFinite, FS_Subset
    <3>2. Cardinality({e \in Events : Claimable(e)}) \in Nat
      BY <3>1, FS_CardinalityType
    <3> DEFINE due == {e \in Events : Claimable(e)}
               size == IF Cardinality(due) < BatchSize THEN Cardinality(due) ELSE BatchSize
    <3>3. batch \in [1 .. size -> due] /\ size \in Nat
      BY <3>2, BoundsAssumption DEF OldestOf
    <3> HIDE DEF due, size
    <3>4. batch \in Seq(due)
      BY <3>3
    <3> QED  BY <3>4 DEF due
  <2>4. \A e \in ToSet(batch) : e \in Events /\ Claimable(e)
    BY <2>3 DEF ToSet
  <2>5. ASSUME NEW e \in Events
        PROVE  /\ outbox'[e].status = "FAILED" <=> outbox[e].status = "FAILED"
               /\ outbox'[e].status = "NONE" <=> outbox[e].status = "NONE"
    <3>1. outbox[e] \in Row
      BY DEF AllInv, OutboxInv, RowsAndWorkers
    <3>2. CASE e \in ToSet(batch)
      <4>1. outbox'[e].status = "PROCESSING"
        BY <2>2, <3>1, <3>2 DEF Row
      <4> QED  BY <2>4, <3>2, <4>1 DEF Claimable
    <3>3. CASE e \notin ToSet(batch)
      BY <2>2, <3>3
    <3> QED  BY <3>2, <3>3
  <2> QED  BY <2>1, <2>5 DEF Delivery!vars
<1>2. CASE Take(w)
  BY <1>2, NothingDelivered DEF Take
<1>3. CASE Publish(w)
  BY <1>3, CopyIsDelivered DEF Publish
<1>4. CASE Error(w)
  <2>1. CASE UNCHANGED stream
    BY <1>4, <2>1, NothingDelivered DEF Error
  <2>2. CASE stream' = Append(stream, Current(w))
    BY <1>4, <2>2, CopyIsDelivered DEF Error
  <2> QED  BY <1>4, <2>1, <2>2 DEF Error
<1>5. CASE MarkSent(w) \/ MarkRetry(w)
  <2>1. workers[w].todo # << >> /\ UNCHANGED stream
    BY <1>5 DEF MarkSent, MarkRetry, At
  <2>2. /\ Current(w) \in Events /\ outbox[Current(w)] \in Row
        /\ outbox[Current(w)].status # "NONE"
    BY <2>1, CurrentIsHead DEF AllInv, OutboxInv, RowsAndWorkers, PromiseInv, HeldIsCommitted
  <2>3. /\ \A f \in Events \ {Current(w)} : outbox'[f].status = outbox[f].status
        /\ outbox'[Current(w)].status \in {"SENT", "PENDING", "FAILED"}
    <3>1. CASE MarkSent(w)
      <4>1. outbox' = [outbox EXCEPT ![Current(w)] = SentRow(outbox[Current(w)])]
        BY <3>1 DEF MarkSent
      <4>2. SentRow(outbox[Current(w)]).status = "SENT"
        BY <2>2 DEF SentRow, Row
      <4> QED  BY <2>2, <4>1, <4>2 DEF AllInv, OutboxInv, RowsAndWorkers
    <3>2. CASE MarkRetry(w)
      <4> DEFINE row == RetriedRow(outbox[Current(w)], workers[w].retries)
      <4>1. outbox' = [outbox EXCEPT ![Current(w)] = row]
        BY <3>2 DEF MarkRetry
      <4>2. row.status \in {"PENDING", "FAILED"}
        BY <2>2 DEF RetriedRow, Row
      <4> HIDE DEF row
      <4> QED  BY <2>2, <4>1, <4>2 DEF AllInv, OutboxInv, RowsAndWorkers
    <3> QED  BY <1>5, <3>1, <3>2
  <2> QED  BY <2>1, <2>2, <2>3, OutcomeIsDelivered
<1> QED  BY <1>1, <1>2, <1>3, <1>4, <1>5 DEF WorkerStep

LEMMA StepsDeliver == AllInv /\ [Next]_vars => [Delivery!Next]_Delivery!vars
<1> SUFFICES ASSUME AllInv, [Next]_vars PROVE [Delivery!Next]_Delivery!vars
  OBVIOUS
<1>1. ASSUME NEW n, Commit(n) PROVE [Delivery!Next]_Delivery!vars
  BY <1>1, CommitIsDelivered
<1>2. ASSUME NEW w \in Workers, WorkerStep(w) PROVE [Delivery!Next]_Delivery!vars
  BY <1>2, WorkerDelivers
<1>3. ASSUME NEW w \in Workers, Crash(w) PROVE [Delivery!Next]_Delivery!vars
  BY <1>3, NothingDelivered DEF Crash
<1>4. ASSUME NEW e \in Events, TimePasses(e) PROVE [Delivery!Next]_Delivery!vars
  <2>1. \A f \in Events : outbox'[f].status = outbox[f].status
    BY <1>4 DEF TimePasses, AllInv, OutboxInv, RowsAndWorkers, Row
  <2> QED  BY <1>4, <2>1, NothingDelivered DEF TimePasses
<1>5. CASE UNCHANGED vars
  BY <1>5, NothingDelivered DEF vars
<1> QED  BY <1>1, <1>2, <1>3, <1>4, <1>5 DEF Next

\* Every behaviour of the outbox is one of the abstract delivery: what is in the stream
\* was committed, no event is published without bound, and one that is given up was
\* committed.  (That a committed event has an outcome at all is liveness.)
THEOREM OutboxDelivers == Spec => Delivery!Spec
<1>1. Init => Delivery!Init
  BY DEF Init, Delivery!Init
<1>2. Init => AllInv
  BY InvInit, ExcusesInit, PromiseInit DEF AllInv
<1>3. AllInv /\ [Next]_vars => AllInv'
  BY InvNext, ExcusesNext, PromiseNext DEF AllInv
<1> QED  BY <1>1, <1>2, <1>3, StepsDeliver, PTL DEF Spec, Delivery!Spec


-----------------------------------------------------------------------------
(* From the stream to the page: the invariant.                             *)

Ids == DOMAIN events
Item == [version : Nat, bySnapshot : BOOLEAN]
Gateway == [state : {"down", "active", "lost"}, batch : Seq(Nat), pc : {"route", "ack"}]
Connection ==
    [pc : {"none", "connecting", "idle", "cursor", "build", "finish"},
     gw : Gateways \cup {NoGateway}, subscribed : BOOLEAN, loading : BOOLEAN,
     buffer : Seq(Nat), last : Nat, cursor : Nat, read : Nat, queue : Seq(Item),
     snap : Nat, got : SUBSET Nat]

Types ==
    /\ fact \in Nat /\ projected \in Nat /\ events \in Seq(Nat)
    /\ group \in [made : BOOLEAN, last : Nat, pending : SUBSET Nat]
    /\ lease \in Gateways \cup {NoGateway}
    /\ gw \in [Gateways -> Gateway]
    /\ conn \in Connection
    /\ view \in Item

\* The stream holds versions of the order in ascending order.
StreamInv ==
    /\ arriving \subseteq 1 .. fact /\ held \subseteq arriving
    /\ projected <= fact
    /\ \A i \in Ids : events[i] <= projected
    /\ \A i, j \in Ids : i < j => events[i] < events[j]

\* What a gateway has before it has been delivered to the group; the messages of the
\* holder of the lease are pending.
GroupInv ==
    /\ group.last <= Len(events)
    /\ group.pending \subseteq 1 .. group.last
    /\ \A g \in Gateways :
          /\ Range(gw[g].batch) \subseteq 1 .. group.last
          /\ \A i, j \in DOMAIN gw[g].batch : i < j => gw[g].batch[i] < gw[g].batch[j]
          /\ lease = g => Range(gw[g].batch) \subseteq group.pending
          /\ gw[g].pc = "ack" => gw[g].batch # <<>>
          /\ gw[g].state # "active" => gw[g].batch = <<>>

\* A connection lives no longer than its gateway, and loads while its handler does.
ConnInv ==
    /\ conn.pc = "none" => conn = NoConn
    /\ conn.pc # "none" => conn.gw \in Gateways /\ gw[conn.gw].state # "down"
    /\ conn.loading <=> conn.pc \in {"cursor", "build", "finish"}
    /\ conn.loading => conn.subscribed
    /\ conn.pc \in {"none", "connecting"} => ~conn.subscribed
    /\ conn.pc \in {"build", "finish"} => conn.cursor <= Len(events)
    /\ conn.pc = "finish" =>
          conn.read <= fact /\ \A id \in 1 .. conn.cursor : events[id] <= conn.read
    /\ Range(conn.buffer) \subseteq Ids
    /\ conn.got \subseteq Ids
    /\ conn.last <= Len(events)

\* The snapshot has an event, or will have it, or the page was sent it, or will be.
Covered(id) ==
    CASE conn.pc \in {"build", "finish"} -> id <= conn.cursor \/ id \in Range(conn.buffer)
      [] conn.pc = "idle" -> id \in conn.got \/ events[id] <= conn.snap
      [] OTHER -> TRUE

\* A later event has been routed to the page already.
Passed(id) ==
    IF conn.loading THEN \E k \in Range(conn.buffer) : id <= k ELSE id <= conn.last

\* What a gateway has still to route, and what the page's one has not.
ToDo(g) == IF gw[g].pc = "ack" THEN Tail(gw[g].batch) ELSE gw[g].batch
Handled(id) == id <= group.last /\ id \notin Range(ToDo(conn.gw))

\* What the page's gateway has behind it is covered, as long as it has the lease.
CoverInv ==
    conn.subscribed /\ lease = conn.gw =>
        \A id \in Ids \ failed : Handled(id) \/ Passed(id) => Covered(id)

\* What the page shows and what is on its way to it.
Shown(vw, queue) == [i \in 1 .. Len(queue) + 1 |-> IF i = 1 THEN vw ELSE queue[i - 1]]

\* Only a snapshot may be followed by something older, and no snapshot is read before
\* what has been sent; the last thing sent is a snapshot or an event routed to the page.
PageOf(vw, c) ==
    LET shown == Shown(vw, c.queue)
        newest == shown[Len(c.queue) + 1]
    IN  /\ \A i \in 1 .. Len(c.queue) :
              shown[i].bySnapshot \/ shown[i].version <= shown[i + 1].version
        /\ \A i \in 1 .. Len(c.queue) + 1 :
              shown[i].version <= fact /\ (c.pc = "finish" => shown[i].version <= c.read)
        /\ c.subscribed /\ c.pc = "idle" =>
              \/ newest.bySnapshot
              \/ \E id \in Ids : id <= c.last /\ newest.version = events[id]

PageInv == PageOf(view, conn)

Bounds ==
    /\ fact <= MaxFacts /\ ticket \in {"none", "valid", "expired"}
    /\ Len(conn.queue) <= QueueSize /\ Len(conn.buffer) <= BufferSize

GatewayInv ==
    Types /\ StreamInv /\ GroupInv /\ ConnInv /\ CoverInv /\ PageInv /\ Bounds

-----------------------------------------------------------------------------
(* Sequences.                                                              *)

\* A sequence can be sorted: the last of n + 1 elements is the largest.
Sorting(s, p, n) ==
    /\ p \in [1 .. n -> 1 .. n]
    /\ \A i, j \in 1 .. n : p[i] = p[j] => i = j
    /\ \A k \in 1 .. n : \E i \in 1 .. n : p[i] = k
    /\ \A i, j \in 1 .. n : i < j => s[p[i]] <= s[p[j]]

LEMMA LargestExists ==
    ASSUME NEW n \in Nat, NEW s \in [1 .. n + 1 -> Nat]
    PROVE  \E m \in 1 .. n + 1 : \A i \in 1 .. n + 1 : s[i] <= s[m]
<1> DEFINE G == {k \in Nat : k <= n => \E m \in 1 .. k + 1 : \A i \in 1 .. k + 1 : s[i] <= s[m]}
<1>1. 0 \in G
  OBVIOUS
<1>2. ASSUME NEW k \in Nat, k \in G PROVE k + 1 \in G
  <2>1. SUFFICES ASSUME k + 1 <= n
                 PROVE  \E m \in 1 .. k + 2 : \A i \in 1 .. k + 2 : s[i] <= s[m]
    OBVIOUS
  <2>2. PICK m \in 1 .. k + 1 : \A i \in 1 .. k + 1 : s[i] <= s[m]
    BY <1>2, <2>1
  <2>3. CASE s[m] <= s[k + 2]
    <3>1. \A i \in 1 .. k + 2 : s[i] <= s[k + 2]
      BY <2>1, <2>2, <2>3
    <3> QED  BY <3>1
  <2>4. CASE ~(s[m] <= s[k + 2])
    <3>1. \A i \in 1 .. k + 2 : s[i] <= s[m]
      BY <2>1, <2>2, <2>4
    <3> QED  BY <3>1
  <2> QED  BY <2>3, <2>4
<1>3. n \in G
  <2> HIDE DEF G
  <2> QED  BY <1>1, <1>2, NatSetInduction
<1> QED  BY <1>3

LEMMA SortingExists ==
    ASSUME NEW n \in Nat, NEW s \in [1 .. n -> Nat]
    PROVE  \E p : Sorting(s, p, n)
<1> DEFINE G == {k \in Nat : \A t \in [1 .. k -> Nat] : \E p : Sorting(t, p, k)}
<1>1. 0 \in G
  <2>1. \A t : Sorting(t, [i \in 1 .. 0 |-> i], 0)
    BY DEF Sorting
  <2> QED  BY <2>1
<1>2. ASSUME NEW k \in Nat, k \in G PROVE k + 1 \in G
  <2>1. SUFFICES ASSUME NEW t \in [1 .. k + 1 -> Nat] PROVE \E p : Sorting(t, p, k + 1)
    OBVIOUS
  <2>2. PICK m \in 1 .. k + 1 : \A i \in 1 .. k + 1 : t[i] <= t[m]
    BY LargestExists
  <2> DEFINE Skip(i) == IF i < m THEN i ELSE i + 1
             u == [i \in 1 .. k |-> t[Skip(i)]]
  <2>3. u \in [1 .. k -> Nat]
    OBVIOUS
  <2>4. PICK q : Sorting(u, q, k)
    BY <1>2, <2>3
  <2> DEFINE p == [i \in 1 .. k + 1 |-> IF i = k + 1 THEN m ELSE Skip(q[i])]
  <2>5. \A i \in 1 .. k : q[i] \in 1 .. k /\ u[q[i]] = t[Skip(q[i])]
    BY <2>4 DEF Sorting
  <2>s. \A h \in 1 .. k : Skip(h) \in 1 .. k + 1 /\ Skip(h) # m
    OBVIOUS
  <2>6. \A i \in 1 .. k : p[i] = Skip(q[i]) /\ Skip(q[i]) \in 1 .. k + 1 /\ Skip(q[i]) # m
    <3> HIDE DEF Skip
    <3>1. \A i \in 1 .. k : i \in 1 .. k + 1 /\ i # k + 1
      OBVIOUS
    <3> QED  BY <2>5, <2>s, <3>1
  <2>7. p[k + 1] = m
    OBVIOUS
  <2>i. \A i \in 1 .. k + 1 : i = k + 1 \/ i \in 1 .. k
    OBVIOUS
  <2>8. p \in [1 .. k + 1 -> 1 .. k + 1]
    <3> HIDE DEF Skip
    <3>1. \A i \in 1 .. k + 1 : p[i] \in 1 .. k + 1
      <4> HIDE DEF p
      <4> QED  BY <2>6, <2>7, <2>i
    <3> QED  BY <3>1
  <2>9. \A i, j \in 1 .. k : Skip(q[i]) = Skip(q[j]) => i = j
    <3>1. \A g, h \in 1 .. k : Skip(g) = Skip(h) => g = h
      OBVIOUS
    <3> HIDE DEF Skip
    <3> QED  BY <2>4, <2>5, <3>1 DEF Sorting
  <2>10. ASSUME NEW l \in 1 .. k + 1 PROVE \E i \in 1 .. k + 1 : p[i] = l
    <3>1. CASE l = m
      BY <2>7, <3>1
    <3>2. CASE l # m
      <4>1. PICK h \in 1 .. k : Skip(h) = l
        <5>1. CASE l < m
          BY <5>1
        <5>2. CASE l > m
          <6>1. l - 1 \in 1 .. k /\ Skip(l - 1) = l
            BY <5>2
          <6> QED  BY <6>1
        <5> QED  BY <3>2, <5>1, <5>2
      <4>2. PICK i \in 1 .. k : q[i] = h
        BY <2>4 DEF Sorting
      <4>3. p[i] = l /\ i \in 1 .. k + 1
        <5> HIDE DEF p, Skip
        <5> QED  BY <2>6, <4>1, <4>2
      <4> QED  BY <4>3
    <3> QED  BY <3>1, <3>2
  <2> HIDE DEF p
  <2>11. \A i, j \in 1 .. k + 1 : p[i] = p[j] => i = j
    <3> HIDE DEF Skip
    <3> QED  BY <2>6, <2>7, <2>9, <2>i
  <2>12. \A i, j \in 1 .. k : i < j => t[p[i]] <= t[p[j]]
    BY <2>4, <2>5, <2>6 DEF Sorting
  <2>13. \A i, j \in 1 .. k + 1 : i < j => t[p[i]] <= t[p[j]]
    <3>1. \A i, j \in 1 .. k + 1 : i < j => i \in 1 .. k /\ (j = k + 1 \/ j \in 1 .. k)
      OBVIOUS
    <3>2. \A i \in 1 .. k : t[p[i]] <= t[p[k + 1]]
      <4>1. \A i \in 1 .. k : i \in 1 .. k + 1
        OBVIOUS
      <4> QED  BY <2>2, <2>7, <2>8, <4>1
    <3> QED  BY <2>12, <3>1, <3>2
  <2>14. Sorting(t, p, k + 1)
    BY <2>8, <2>10, <2>11, <2>13 DEF Sorting
  <2> QED  BY <2>14
<1>3. n \in G
  <2> HIDE DEF G
  <2> QED  BY <1>1, <1>2, NatSetInduction
<1> QED  BY <1>3

Sorts(t, s) ==
    /\ t \in Seq(Nat) /\ Len(t) = Len(s) /\ Range(t) = Range(s)
    /\ \A i, j \in DOMAIN t : i < j => t[i] <= t[j]
    /\ (\A i, j \in DOMAIN s : s[i] = s[j] => i = j) =>
          \A i, j \in DOMAIN t : i < j => t[i] < t[j]

LEMMA SortedSorts ==
    ASSUME NEW s \in Seq(Nat)
    PROVE  Sorts(Sorted(s), s)
<1>n. PICK n \in Nat : n = Len(s) /\ DOMAIN s = 1 .. n /\ s \in [1 .. n -> Nat]
  OBVIOUS
<1> DEFINE Is(t) ==
             /\ \E p \in Bijection(DOMAIN s, DOMAIN s) : \A i \in DOMAIN s : t[i] = s[p[i]]
             /\ \A i, j \in DOMAIN s : i < j => t[i] <= t[j]
<1>1. \E t \in [DOMAIN s -> Range(s)] : Is(t)
  <2>1. PICK p : Sorting(s, p, n)
    BY <1>n, SortingExists
  <2> DEFINE t == [i \in DOMAIN s |-> s[p[i]]]
  <2>2. p \in Bijection(DOMAIN s, DOMAIN s)
    BY <1>n, <2>1 DEF Sorting, Bijection, Injection, Surjection, IsInjective
  <2>3. t \in [DOMAIN s -> Range(s)]
    BY <1>n, <2>1 DEF Sorting, Range
  <2>4. Is(t)
    BY <1>n, <2>1, <2>2 DEF Sorting
  <2> QED  BY <2>3, <2>4
<1>2. PICK t : t = Sorted(s)
  OBVIOUS
<1>3. t \in [DOMAIN s -> Range(s)] /\ Is(t)
  BY <1>1, <1>2 DEF Sorted
<1>4. PICK p \in Bijection(DOMAIN s, DOMAIN s) : \A i \in DOMAIN s : t[i] = s[p[i]]
  BY <1>3
<1>5. /\ p \in [1 .. n -> 1 .. n]
      /\ \A i, j \in 1 .. n : p[i] = p[j] => i = j
      /\ \A k \in 1 .. n : \E i \in 1 .. n : p[i] = k
  BY <1>n, <1>4 DEF Bijection, Injection, Surjection, IsInjective
<1>6. t \in [1 .. n -> Nat] /\ t \in Seq(Nat) /\ Len(t) = n /\ DOMAIN t = 1 .. n
  BY <1>n, <1>3 DEF Range
<1>7. Range(t) = Range(s)
  <2>1. ASSUME NEW x \in Range(t) PROVE x \in Range(s)
    <3>1. PICK i \in 1 .. n : x = t[i]
      BY <1>6 DEF Range
    <3>2. x = s[p[i]] /\ p[i] \in 1 .. n
      BY <1>n, <1>4, <1>5, <3>1
    <3> QED  BY <1>n, <3>2 DEF Range
  <2>2. ASSUME NEW x \in Range(s) PROVE x \in Range(t)
    <3>1. PICK k \in 1 .. n : x = s[k]
      BY <1>n DEF Range
    <3>2. PICK i \in 1 .. n : p[i] = k
      BY <1>5
    <3>3. x = t[i]
      BY <1>n, <1>4, <3>1, <3>2
    <3> QED  BY <1>6, <3>3 DEF Range
  <2> QED  BY <2>1, <2>2
<1>8. (\A i, j \in DOMAIN s : s[i] = s[j] => i = j) =>
          \A i, j \in DOMAIN t : i < j => t[i] < t[j]
  <2>1. SUFFICES ASSUME \A i, j \in DOMAIN s : s[i] = s[j] => i = j,
                        NEW i \in 1 .. n, NEW j \in 1 .. n, i < j
                 PROVE  t[i] < t[j]
    BY <1>6
  <2>2. t[i] <= t[j]
    BY <1>n, <1>3, <2>1
  <2>3. t[i] # t[j]
    <3>1. p[i] \in 1 .. n /\ p[j] \in 1 .. n /\ p[i] # p[j]
      BY <1>5, <2>1
    <3> QED  BY <1>n, <1>4, <2>1, <3>1
  <2> QED  BY <1>6, <2>2, <2>3
<1> QED  BY <1>n, <1>2, <1>3, <1>6, <1>7, <1>8 DEF Sorts

\* The pending messages, in the order of the stream.
LEMMA PendingInOrder ==
    ASSUME NEW last \in Nat, NEW s \in SUBSET (1 .. last)
    PROVE  /\ Sorted(SetToSeq(s)) \in Seq(Nat)
           /\ Range(Sorted(SetToSeq(s))) = s
           /\ \A i, j \in DOMAIN Sorted(SetToSeq(s)) :
                 i < j => Sorted(SetToSeq(s))[i] < Sorted(SetToSeq(s))[j]
<1>1. IsFiniteSet(s) /\ Cardinality(s) \in Nat
  <2>1. IsFiniteSet(1 .. last)
    BY FS_Interval
  <2> QED  BY <2>1, FS_Subset, FS_CardinalityType
<1> DEFINE n == Cardinality(s)
<1>2. \E f \in [1 .. n -> s] : IsInjective(f)
  <2>1. \E f : f \in Bijection(1 .. n, s)
    BY <1>1, FS_CardinalityType DEF ExistsBijection
  <2> QED  BY <2>1 DEF Bijection, Injection
<1>3. SetToSeq(s) \in [1 .. n -> s] /\ IsInjective(SetToSeq(s))
  BY <1>2 DEF SetToSeq
<1>4. Range(SetToSeq(s)) = s
  <2>1. SetToSeq(s) \in Injection(1 .. n, s) /\ IsFiniteSet(1 .. n) /\ Cardinality(1 .. n) = n
    BY <1>1, <1>3, FS_Interval DEF Injection
  <2>2. SetToSeq(s) \in Surjection(1 .. n, s)
    BY <1>1, <2>1, FS_Surjection, FS_Injection
  <2> QED  BY <1>3, <2>2 DEF Surjection, Range
<1>5. SetToSeq(s) \in Seq(Nat) /\ \A i, j \in DOMAIN SetToSeq(s) :
         SetToSeq(s)[i] = SetToSeq(s)[j] => i = j
  <2>1. SetToSeq(s) \in Seq(Nat)
    <3>1. s \subseteq Nat
      OBVIOUS
    <3>2. SetToSeq(s) \in [1 .. n -> Nat]
      BY <1>3, <3>1
    <3> QED  BY <1>1, <3>2
  <2>2. \A i, j \in DOMAIN SetToSeq(s) : SetToSeq(s)[i] = SetToSeq(s)[j] => i = j
    BY <1>3 DEF IsInjective
  <2> QED  BY <2>1, <2>2
<1>6. Sorts(Sorted(SetToSeq(s)), SetToSeq(s))
  BY <1>5, SortedSorts
<1> QED  BY <1>4, <1>5, <1>6 DEF Sorts

\* What is shown are items.
LEMMA ShownItems ==
    ASSUME NEW vw \in Item, NEW q \in Seq(Item)
    PROVE  \A i \in 1 .. Len(q) + 1 : Shown(vw, q)[i] \in Item
<1>1. \A i \in 1 .. Len(q) + 1 : i = 1 \/ q[i - 1] \in Item
  <2>1. \A i \in 1 .. Len(q) + 1 : i # 1 => i - 1 \in 1 .. Len(q)
    OBVIOUS
  <2> QED  BY <2>1
<1> QED  BY <1>1 DEF Shown

-----------------------------------------------------------------------------
(* The projection worker.                                                  *)

\* What a step of the worker does to the stream.
Appends(v) == events' = Append(events, v) /\ projected' = v /\ v > projected
SameStream == events' = events /\ projected' = projected

LEMMA StreamGrows ==
    ASSUME GatewayInv, NEW v \in Nat, SameStream \/ Appends(v),
           UNCHANGED <<ticket, consumer, conn, view>>,
           fact' \in 0 .. MaxFacts, fact' >= fact, v <= fact',
           arriving' \subseteq 1 .. fact', held' \subseteq arriving', failed' = failed
    PROVE  GatewayInv'
<1> USE DEF GatewayInv
<1>0. /\ events \in Seq(Nat) /\ projected \in Nat /\ fact \in Nat
      /\ Ids = 1 .. Len(events) /\ Ids' = 1 .. Len(events') /\ fact' \in Nat
  <2>1. events \in Seq(Nat) /\ projected \in Nat /\ fact \in Nat /\ fact' \in Nat
    BY GatewayAssumption DEF Types
  <2>2. events' \in Seq(Nat)
    BY <2>1 DEF SameStream, Appends
  <2> QED  BY <2>1, <2>2 DEF Ids
<1>1. /\ events' \in Seq(Nat) /\ projected' \in Nat
      /\ Len(events) <= Len(events') /\ \A i \in Ids : events'[i] = events[i] /\ i \in Ids'
      /\ projected <= projected' /\ projected' <= fact'
      /\ \A i \in Ids' : i \in Ids \/ (i = Len(events) + 1 /\ events'[i] = projected'
                                      /\ projected < projected')
  <2>1. CASE SameStream
    <3>1. projected <= fact
      BY DEF StreamInv
    <3> QED  BY <1>0, <2>1, <3>1 DEF SameStream
  <2>2. CASE Appends(v)
    <3>1. events' = Append(events, v) /\ projected' = v /\ v > projected
      BY <2>2 DEF Appends
    <3>2. Len(events') = Len(events) + 1 /\ events' \in Seq(Nat)
      BY <1>0, <3>1
    <3>3. \A i \in Ids : events'[i] = events[i] /\ i \in Ids'
      BY <1>0, <3>1, <3>2
    <3>4. \A i \in Ids' : i \in Ids \/ (i = Len(events) + 1 /\ events'[i] = v)
      BY <1>0, <3>1, <3>2
    <3> QED  BY <1>0, <3>1, <3>2, <3>3, <3>4
  <2> QED  BY <2>1, <2>2
<1>c. UNCHANGED <<group, lease, gw, conn>>
  BY DEF consumer
<1>2. Types'
  BY <1>0, <1>1, <1>c DEF Types, Connection, Gateway
<1>3. StreamInv'
  <2>1. \A i \in Ids' : events'[i] <= projected'
    BY <1>0, <1>1 DEF StreamInv, Types, Ids
  <2>2. ASSUME NEW i \in Ids', NEW j \in Ids', i < j PROVE events'[i] < events'[j]
    <3>1. i \in Ids
      BY <1>1, <2>2 DEF Ids
    <3>2. CASE j \in Ids
      BY <1>1, <2>2, <3>1, <3>2 DEF StreamInv
    <3>3. CASE j \notin Ids
      <4>1. events'[j] = projected' /\ projected < projected'
        BY <1>1, <3>3
      <4>2. events'[i] <= projected /\ events'[i] \in Nat
        BY <1>0, <1>1, <3>1 DEF StreamInv, Ids
      <4> QED  BY <1>0, <1>1, <4>1, <4>2
    <3> QED  BY <3>2, <3>3
  <2> QED  BY <1>1, <2>1, <2>2 DEF StreamInv
<1>4. GroupInv'
  BY <1>0, <1>1, <1>c DEF GroupInv, Types
<1>5. ConnInv'
  <2>1. \A id \in 1 .. conn.cursor : conn.pc = "finish" => id \in Ids
    BY <1>0, <1>1 DEF ConnInv, Ids, Types, Connection
  <2>2. /\ conn.pc \in {"build", "finish"} => conn.cursor <= Len(events')
        /\ conn.last <= Len(events')
    BY <1>0, <1>1 DEF ConnInv, Types, Connection
  <2>3. conn.pc = "finish" =>
          conn.read <= fact' /\ \A id \in 1 .. conn.cursor : events'[id] <= conn.read
    <3>1. SUFFICES ASSUME conn.pc = "finish"
                   PROVE  /\ conn.read <= fact'
                          /\ \A id \in 1 .. conn.cursor : events'[id] <= conn.read
      OBVIOUS
    <3>2. conn.read <= fact /\ \A id \in 1 .. conn.cursor : events[id] <= conn.read
      BY <3>1 DEF ConnInv
    <3>3. conn.read \in Nat
      BY DEF Types, Connection
    <3>4. \A id \in 1 .. conn.cursor : events'[id] = events[id]
      BY <1>1, <2>1, <3>1
    <3> QED  BY <1>0, <3>2, <3>3, <3>4
  <2>4. Range(conn.buffer) \subseteq Ids' /\ conn.got \subseteq Ids'
    BY <1>1 DEF ConnInv
  <2> QED  BY <1>c, <2>2, <2>3, <2>4 DEF ConnInv
<1>6. CoverInv'
  <2>1. SUFFICES ASSUME conn.subscribed, lease = conn.gw, NEW id \in Ids', id \notin failed,
                        Handled(id) \/ Passed(id)
                 PROVE  Covered(id)'
    BY <1>c DEF CoverInv, Handled, Passed, ToDo
  <2>2. id \in Ids
    <3>1. id \in 1 .. Len(events') /\ Len(events) \in Nat
      BY <1>0, <2>1
    <3>2. CASE Handled(id)
      <4>1. id <= group.last /\ group.last <= Len(events) /\ group.last \in Nat
        BY <3>2 DEF Handled, GroupInv, Types
      <4> QED  BY <1>0, <3>1, <4>1
    <3>3. CASE Passed(id) /\ conn.loading
      <4>1. PICK k \in Range(conn.buffer) : id <= k
        BY <3>3 DEF Passed
      <4>2. k \in Ids
        BY <4>1 DEF ConnInv
      <4> QED  BY <1>0, <3>1, <4>1, <4>2
    <3>4. CASE Passed(id) /\ ~conn.loading
      <4>1. id <= conn.last /\ conn.last <= Len(events) /\ conn.last \in Nat
        BY <3>4 DEF Passed, ConnInv, Types, Connection
      <4> QED  BY <1>0, <3>1, <4>1
    <3> QED  BY <2>1, <3>2, <3>3, <3>4
  <2>3. Covered(id)
    BY <2>1, <2>2 DEF CoverInv
  <2> QED  BY <1>1, <1>c, <2>2, <2>3 DEF Covered
<1>7. PageInv'
  <2> DEFINE shown == Shown(view, conn.queue)
  <2>1. \A i \in 1 .. Len(conn.queue) + 1 : shown[i].version \in Nat
    BY ShownItems DEF Item, Types, Connection
  <2>2. \A i \in 1 .. Len(conn.queue) + 1 : shown[i].version <= fact
    BY DEF PageInv, PageOf
  <2>3. \A i \in 1 .. Len(conn.queue) + 1 : shown[i].version <= fact'
    BY <1>0, <2>1, <2>2
  <2> HIDE DEF shown
  <2>4. PageOf(view, conn)
    BY DEF PageInv
  <2> QED  BY <1>0, <1>1, <1>c, <2>3, <2>4 DEF PageInv, PageOf, shown
<1>8. Bounds'
  BY <1>c DEF Bounds
<1> QED  BY <1>2, <1>3, <1>4, <1>5, <1>6, <1>7, <1>8

LEMMA NextEventsArrive ==
    ASSUME GatewayInv, NEW v \in NextEvents
    PROVE  v \in arriving
<1>1. arriving \ held \subseteq Nat /\ held \subseteq arriving
  BY DEF GatewayInv, StreamInv
<1>2. arriving # held => arriving \ held # {}
  BY <1>1
<1> QED  BY <1>1, <1>2, MinBelongs DEF NextEvents

LEMMA ProjectionKeeps ==
    ASSUME GatewayInv,
           CommitFact \/ \E v \in 1 .. MaxFacts : Project(v) \/ ProjectFails(v)
    PROVE  GatewayInv'
<1>0. /\ fact \in 0 .. MaxFacts /\ projected \in Nat /\ arriving \subseteq 1 .. fact
      /\ held \subseteq arriving
  BY DEF GatewayInv, Types, StreamInv, Bounds
<1>1. CASE CommitFact
  <2>1. SameStream /\ UNCHANGED <<ticket, consumer, conn, view>> /\ failed' = failed
    BY <1>1 DEF CommitFact, SameStream
  <2>2. /\ fact' \in 0 .. MaxFacts /\ fact' >= fact /\ 0 \in Nat /\ 0 <= fact'
        /\ arriving' \subseteq 1 .. fact' /\ held' \subseteq arriving'
    BY <1>0, <1>1, GatewayAssumption DEF CommitFact
  <2> QED  BY ONLY <1>0, <2>1, <2>2, GatewayInv, StreamGrows
<1>2. ASSUME NEW v \in 1 .. MaxFacts, Project(v) \/ ProjectFails(v) PROVE GatewayInv'
  <2>1. v \in arriving
    BY <1>2, NextEventsArrive DEF Project, ProjectFails
  <2>2. v \in Nat /\ v <= fact
    BY <1>0, <2>1
  <2>3. /\ SameStream \/ Appends(v)
        /\ UNCHANGED <<ticket, consumer, conn, view>> /\ failed' = failed /\ fact' = fact
    BY <1>2 DEF Project, ProjectFails, SameStream, Appends, Projected
  <2>4. arriving' \subseteq 1 .. fact' /\ held' \subseteq arriving'
    BY <1>0, <1>2, <2>1, <2>3 DEF Project, ProjectFails
  <2>5. fact' \in 0 .. MaxFacts /\ fact' >= fact /\ v <= fact'
    BY <1>0, <2>2, <2>3, GatewayAssumption
  <2> QED  BY ONLY <2>2, <2>3, <2>4, <2>5, GatewayInv, StreamGrows
<1> QED  BY <1>1, <1>2

-----------------------------------------------------------------------------
(* The gateways.                                                           *)

\* The first message of a batch, and the rest.
LEMMA BatchFacts ==
    ASSUME NEW b \in Seq(Nat), b # <<>>, \A i, j \in DOMAIN b : i < j => b[i] < b[j]
    PROVE  /\ Tail(b) \in Seq(Nat)
           /\ \A i, j \in DOMAIN Tail(b) : i < j => Tail(b)[i] < Tail(b)[j]
           /\ Head(b) \in Nat /\ Range(b) = {Head(b)} \cup Range(Tail(b))
           /\ \A x \in Range(Tail(b)) : Head(b) < x
<1>1. /\ Len(b) \in Nat \ {0} /\ DOMAIN b = 1 .. Len(b) /\ Head(b) = b[1]
      /\ Tail(b) \in Seq(Nat) /\ DOMAIN Tail(b) = 1 .. Len(b) - 1
      /\ \A i \in 1 .. Len(b) - 1 : Tail(b)[i] = b[i + 1] /\ i + 1 \in DOMAIN b
  OBVIOUS
<1>2. \A i, j \in DOMAIN Tail(b) : i < j => Tail(b)[i] < Tail(b)[j]
  BY <1>1
<1>3. Range(b) = {Head(b)} \cup Range(Tail(b))
  <2>1. ASSUME NEW x \in Range(b) PROVE x \in {Head(b)} \cup Range(Tail(b))
    <3>1. PICK i \in 1 .. Len(b) : x = b[i]
      BY <1>1 DEF Range
    <3>2. CASE i = 1
      BY <1>1, <3>1, <3>2
    <3>3. CASE i # 1
      <4>1. i - 1 \in 1 .. Len(b) - 1 /\ Tail(b)[i - 1] = x
        BY <1>1, <3>1, <3>3
      <4> QED  BY <1>1, <4>1 DEF Range
    <3> QED  BY <3>2, <3>3
  <2>2. Head(b) \in Range(b) /\ Range(Tail(b)) \subseteq Range(b)
    BY <1>1 DEF Range
  <2> QED  BY <2>1, <2>2
<1>4. \A x \in Range(Tail(b)) : Head(b) < x
  BY <1>1 DEF Range
<1> QED  BY <1>1, <1>2, <1>3, <1>4

LEMMA NoConnIsConnection == NoConn \in Connection
  BY DEF NoConn, Connection

\* What leaves the connection as it is, or closes it.
ConnStays ==
    /\ conn.pc # "none" => gw'[conn.gw].state # "down"
    /\ conn.subscribed /\ lease' = conn.gw =>
          /\ lease = conn.gw
          /\ \A id \in Ids \ failed' : Handled(id)' => Handled(id)

LEMMA GatewayChanges ==
    ASSUME GatewayInv, UNCHANGED <<projection, view>>, failed \subseteq failed',
           ticket' \in {"none", "valid", "expired"},
           group' \in [made : BOOLEAN, last : Nat, pending : SUBSET Nat],
           lease' \in Gateways \cup {NoGateway}, gw' \in [Gateways -> Gateway],
           GroupInv', conn' = NoConn \/ (conn' = conn /\ ConnStays)
    PROVE  GatewayInv'
<1> USE DEF GatewayInv
<1>0. UNCHANGED <<fact, arriving, held, projected, events, view>> /\ Ids' = Ids
  BY DEF projection, Ids
<1>1. Types'
  BY <1>0, NoConnIsConnection DEF Types, Connection, Gateway
<1>2. StreamInv'
  BY <1>0 DEF StreamInv
<1>3. ConnInv'
  <2>1. CASE conn' = NoConn
    BY <1>0, <2>1 DEF NoConn, ConnInv, Range, Types
  <2>2. CASE conn' = conn /\ ConnStays
    BY <1>0, <2>2 DEF ConnInv, ConnStays
  <2> QED  BY <2>1, <2>2
<1>4. CoverInv'
  <2>1. CASE conn' = NoConn
    BY <2>1 DEF NoConn, CoverInv
  <2>2. CASE conn' = conn /\ ConnStays
    <3>1. SUFFICES ASSUME conn.subscribed, lease' = conn.gw, NEW id \in Ids \ failed',
                          Handled(id)' \/ Passed(id)'
                   PROVE  Covered(id)'
      BY <1>0, <2>2 DEF CoverInv
    <3>2. Handled(id) \/ Passed(id)
      BY <2>2, <3>1 DEF ConnStays, Passed
    <3>3. Covered(id)
      BY <2>2, <3>1, <3>2 DEF ConnStays, CoverInv
    <3> QED  BY <1>0, <2>2, <3>3 DEF Covered
  <2> QED  BY <2>1, <2>2
<1>5. PageInv'
  <2>1. CASE conn' = NoConn
    <3>1. conn'.queue = <<>> /\ conn'.pc = "none"
      BY <2>1 DEF NoConn
    <3>2. view.version <= fact
      BY DEF PageInv, PageOf, Shown, Types, Connection
    <3> QED  BY <1>0, <3>1, <3>2 DEF PageInv, PageOf, Shown
  <2>2. CASE conn' = conn /\ ConnStays
    BY <1>0, <2>2 DEF PageInv, PageOf
  <2> QED  BY <2>1, <2>2
<1>6. Bounds'
  BY <1>0, GatewayAssumption DEF Bounds, NoConn
<1> QED  BY <1>1, <1>2, <1>3, <1>4, <1>5, <1>6

\* The start of a gateway: the page's one still runs, so it is another.
LEMMA StartKeeps ==
    ASSUME GatewayInv, NEW g \in Gateways, Start(g)
    PROVE  GatewayInv'
<1>s. gw \in [Gateways -> Gateway] /\ events \in Seq(Nat)
  BY DEF GatewayInv, Types
<1>0. /\ gw \in [Gateways -> Gateway] /\ lease = NoGateway /\ gw[g].state = "down"
      /\ lease' = g /\ gw' = [gw EXCEPT ![g].state = "active"]
      /\ gw' \in [Gateways -> Gateway] /\ Len(events) \in Nat
      /\ UNCHANGED <<ticket, events, conn, failed>>
  <2>1. \A h \in Gateways : gw[h] \in Gateway /\ [gw[h] EXCEPT !.state = "active"] \in Gateway
    BY <1>s DEF Gateway
  <2> QED  BY <1>s, <2>1 DEF Start, projection
<1>1. group' \in [made : BOOLEAN, last : Nat, pending : SUBSET Nat]
  BY <1>0 DEF Start, GatewayInv, Types
<1>2. /\ \A h \in Gateways : gw'[h].batch = gw[h].batch /\ gw'[h].pc = gw[h].pc
      /\ \A h \in Gateways \ {g} : gw'[h] = gw[h]
      /\ gw'[g].state = "active" /\ gw[g].batch = <<>>
  BY <1>0 DEF GatewayInv, GroupInv, Gateway
<1>3. GroupInv'
  <2>1. /\ group'.last <= Len(events) /\ group'.pending \subseteq 1 .. group'.last
        /\ group.last <= group'.last /\ group.last \in Nat /\ group'.last \in Nat
    <3>1. CASE group.made
      BY <1>1, <3>1 DEF Start, GatewayInv, GroupInv, Types
    <3>2. CASE ~group.made
      BY <1>0, <1>1, <3>2 DEF Start, GatewayInv, GroupInv, Types
    <3> QED  BY <3>1, <3>2
  <2>2. \A h \in Gateways : Range(gw[h].batch) \subseteq 1 .. group'.last
    BY <2>1 DEF GatewayInv, GroupInv
  <2> QED  BY <1>0, <1>2, <2>1, <2>2 DEF GatewayInv, GroupInv, Range
<1>4. ConnStays
  BY <1>0, <1>2 DEF GatewayInv, ConnInv, ConnStays
<1> QED  BY <1>0, <1>1, <1>3, <1>4, GatewayChanges DEF Start, Bounds, GatewayInv

\* A gateway that loses its lease closes the page's connection, or none is registered.
LEMMA LoseLeaseKeeps ==
    ASSUME GatewayInv, NEW g \in Gateways, LoseLease(g)
    PROVE  GatewayInv'
<1>0. /\ gw \in [Gateways -> Gateway]
      /\ gw' = [gw EXCEPT ![g] = [NewGateway EXCEPT !.state = "lost"]]
      /\ gw' \in [Gateways -> Gateway]
      /\ UNCHANGED <<ticket, group, lease, failed>>
      /\ conn' = AfterShutdown(g)
  <2>1. gw \in [Gateways -> Gateway]
    BY DEF GatewayInv, Types
  <2>2. [NewGateway EXCEPT !.state = "lost"] = [state |-> "lost", batch |-> <<>>, pc |-> "route"]
    BY DEF NewGateway
  <2>3. [state |-> "lost", batch |-> <<>>, pc |-> "route"] \in Gateway
    BY DEF Gateway
  <2> QED  BY <2>1, <2>2, <2>3 DEF LoseLease
<1>2. /\ \A h \in Gateways \ {g} : gw'[h] = gw[h]
      /\ gw'[g] = [state |-> "lost", batch |-> <<>>, pc |-> "route"]
  BY <1>0 DEF NewGateway
<1>3. GroupInv'
  BY <1>0, <1>2 DEF GatewayInv, GroupInv, LoseLease, Types, projection, Range
<1>4. conn' = NoConn \/ (conn' = conn /\ ConnStays)
  <2>1. CASE conn.gw = g /\ conn.pc # "connecting"
    BY <1>0, <2>1 DEF AfterShutdown, Closed
  <2>2. CASE conn.gw = g /\ conn.pc = "connecting"
    BY <1>0, <1>2, <2>2 DEF AfterShutdown, ConnStays, GatewayInv, ConnInv
  <2>3. CASE conn.gw # g
    <3>1. conn.pc # "none" => conn.gw \in Gateways \ {g}
      BY <2>3 DEF GatewayInv, ConnInv
    <3>2. conn.subscribed => conn.pc # "none"
      BY DEF GatewayInv, ConnInv
    <3> QED  BY <1>0, <1>2, <2>3, <3>1, <3>2
         DEF AfterShutdown, ConnStays, GatewayInv, ConnInv, Handled, ToDo
  <2> QED  BY <2>1, <2>2, <2>3
<1> QED  BY <1>0, <1>3, <1>4, GatewayChanges DEF LoseLease, Bounds, GatewayInv, Types

\* The lease runs out.
LEMMA ExpireLeaseKeeps ==
    ASSUME GatewayInv, ExpireLease
    PROVE  GatewayInv'
<1>0. lease' = NoGateway /\ UNCHANGED <<ticket, events, group, gw, conn, failed>>
  BY DEF ExpireLease, projection
<1>1. GroupInv'
  BY <1>0, GatewayAssumption DEF GatewayInv, GroupInv
<1>2. ConnStays
  BY <1>0, GatewayAssumption DEF GatewayInv, ConnInv, ConnStays
<1> QED  BY <1>0, <1>1, <1>2, GatewayChanges DEF ExpireLease, Bounds, GatewayInv, Types

\* A stretch of the stream that is read.
LEMMA NewMessages ==
    ASSUME NEW from \in Nat, NEW to \in Nat, from <= to,
           NEW b, b = [i \in 1 .. to - from |-> from + i]
    PROVE  /\ b \in Seq(Nat) /\ Range(b) = from + 1 .. to
           /\ \A i, j \in DOMAIN b : i < j => b[i] < b[j]
<1>1. b \in Seq(Nat) /\ DOMAIN b = 1 .. to - from
  BY Z3
<1>2. \A i, j \in DOMAIN b : i < j => b[i] < b[j]
  BY <1>1
<1>3. Range(b) \subseteq from + 1 .. to
  BY <1>1 DEF Range
<1>4. ASSUME NEW x \in from + 1 .. to PROVE x \in Range(b)
  <2>1. x - from \in 1 .. to - from /\ b[x - from] = x
    OBVIOUS
  <2> QED  BY <1>1, <2>1 DEF Range
<1> QED  BY <1>1, <1>2, <1>3, <1>4

LEMMA ReadKeeps ==
    ASSUME GatewayInv, NEW g \in Gateways, Read(g)
    PROVE  GatewayInv'
<1>0. /\ gw \in [Gateways -> Gateway] /\ lease = g /\ gw[g].state = "active"
      /\ gw[g].batch = <<>> /\ gw[g].pc = "route"
      /\ group \in [made : BOOLEAN, last : Nat, pending : SUBSET Nat]
      /\ Len(events) \in Nat
      /\ UNCHANGED <<ticket, events, lease, conn, failed, projection, view>>
  BY DEF Read, projection, GatewayInv, Types, Gateway, GroupInv
<1>i. GroupInv /\ ConnInv
  BY DEF GatewayInv
<1>r. Range(<<>>) = {}
  BY DEF Range
<1>1. CASE /\ gw' = [gw EXCEPT ![g].batch = Sorted(SetToSeq(group.pending))]
           /\ group' = group
  <2> DEFINE b == Sorted(SetToSeq(group.pending))
  <2>1. /\ b \in Seq(Nat) /\ Range(b) = group.pending
        /\ \A i, j \in DOMAIN b : i < j => b[i] < b[j]
    BY <1>0, <1>i, PendingInOrder DEF GroupInv
  <2> HIDE DEF b
  <2>2. /\ gw' \in [Gateways -> Gateway] /\ \A h \in Gateways \ {g} : gw'[h] = gw[h]
        /\ gw'[g] = [gw[g] EXCEPT !.batch = b]
    BY <1>0, <1>1, <2>1 DEF Gateway, b
  <2>3. GroupInv'
    BY <1>0, <1>1, <1>i, <2>1, <2>2 DEF GroupInv, Gateway
  <2>4. ConnStays
    BY <1>0, <1>1, <1>i, <1>r, <2>2 DEF ConnInv, ConnStays, Handled, ToDo, Gateway
  <2> QED  BY <1>0, <1>1, <2>2, <2>3, <2>4, GatewayChanges DEF Bounds, GatewayInv, Types
<1>2. ASSUME NEW to \in Nat, group.last <= to, to <= Len(events),
             gw' = [gw EXCEPT ![g].batch = [i \in 1 .. to - group.last |-> group.last + i]],
             group' = [group EXCEPT !.last = to, !.pending = @ \cup group.last + 1 .. to]
      PROVE  GatewayInv'
  <2> DEFINE b == [i \in 1 .. to - group.last |-> group.last + i]
  <2>1. /\ b \in Seq(Nat) /\ Range(b) = group.last + 1 .. to
        /\ \A i, j \in DOMAIN b : i < j => b[i] < b[j]
    BY <1>0, <1>2, NewMessages
  <2> HIDE DEF b
  <2>2. /\ gw' \in [Gateways -> Gateway] /\ \A h \in Gateways \ {g} : gw'[h] = gw[h]
        /\ gw'[g] = [gw[g] EXCEPT !.batch = b]
    BY <1>0, <1>2, <2>1 DEF Gateway, b
  <2>g. /\ group' \in [made : BOOLEAN, last : Nat, pending : SUBSET Nat]
        /\ group'.last = to /\ group'.pending = group.pending \cup (group.last + 1 .. to)
    <3>1. group.last + 1 .. to \subseteq Nat
      BY <1>0
    <3>2. group' = [made |-> group.made, last |-> to,
                    pending |-> group.pending \cup (group.last + 1 .. to)]
      BY <1>0, <1>2
    <3> QED  BY <1>0, <3>1, <3>2
  <2>3. GroupInv'
    <3>1. group'.last <= Len(events) /\ group'.pending \subseteq 1 .. group'.last
      BY <1>0, <1>2, <1>i, <2>g DEF GroupInv
    <3>2. 1 .. group.last \subseteq 1 .. group'.last /\ group.last \in Nat
      BY <1>0, <1>2, <2>g
    <3>3. ASSUME NEW h \in Gateways
          PROVE  /\ Range(gw'[h].batch) \subseteq 1 .. group'.last
                 /\ \A i, j \in DOMAIN gw'[h].batch : i < j => gw'[h].batch[i] < gw'[h].batch[j]
                 /\ lease = h => Range(gw'[h].batch) \subseteq group'.pending
                 /\ gw'[h].pc = "ack" => gw'[h].batch # <<>>
                 /\ gw'[h].state # "active" => gw'[h].batch = <<>>
      <4>1. CASE h = g
        <5>1. gw'[h].batch = b /\ gw'[h].pc = "route" /\ gw'[h].state = "active"
          BY <1>0, <2>2, <4>1 DEF Gateway
        <5>2. /\ group.last + 1 .. to \subseteq 1 .. to
              /\ group.last + 1 .. to \subseteq group'.pending
          BY <1>0, <2>g
        <5> QED  BY <2>1, <2>g, <5>1, <5>2
      <4>2. CASE h # g
        BY <1>0, <1>i, <2>2, <3>2, <4>2 DEF GroupInv
      <4> QED  BY <4>1, <4>2
    <3> QED  BY <1>0, <3>1, <3>3 DEF GroupInv
  <2>4. ConnStays
    <3>1. ASSUME conn.gw = g, NEW id \in Ids, Handled(id)' PROVE Handled(id)
      <4>1. id <= to /\ id \notin group.last + 1 .. to
        BY <1>0, <2>1, <2>2, <2>g, <3>1 DEF Handled, ToDo, Gateway
      <4>2. id <= group.last
        BY <1>0, <1>2, <4>1 DEF Ids
      <4>3. ToDo(conn.gw) = <<>>
        BY <1>0, <3>1 DEF ToDo
      <4> QED  BY <1>r, <4>2, <4>3 DEF Handled
    <3>2. conn.pc # "none" => gw'[conn.gw].state # "down"
      <4>1. conn.pc # "none" => conn.gw \in Gateways /\ gw[conn.gw].state # "down"
        BY <1>i DEF ConnInv
      <4>2. gw'[g].state = gw[g].state
        BY <1>0, <2>2 DEF Gateway
      <4> QED  BY <2>2, <4>1, <4>2
    <3> QED  BY <1>0, <3>1, <3>2 DEF ConnStays
  <2> QED  BY <1>0, <2>2, <2>3, <2>4, <2>g, GatewayChanges DEF Bounds, GatewayInv, Types
<1>3. ASSUME NEW to, to = Min({group.last + GatewayBatch, Len(events)}), group.last < Len(events)
      PROVE  to \in Nat /\ group.last <= to /\ to <= Len(events)
  <2>1. {group.last + GatewayBatch, Len(events)} \subseteq Nat
    BY <1>0, GatewayAssumption
  <2>2. to \in {group.last + GatewayBatch, Len(events)} /\ to <= Len(events)
    BY <1>3, <2>1, MinBelongs
  <2> QED  BY <1>0, <1>3, <2>2, GatewayAssumption
<1> QED  BY <1>1, <1>2, <1>3 DEF Read

\* A message that is acknowledged had been routed.
LEMMA AcknowledgeKeeps ==
    ASSUME GatewayInv, NEW g \in Gateways, Acknowledge(g)
    PROVE  GatewayInv'
<1>s. gw \in [Gateways -> Gateway] /\ gw[g] \in Gateway
  BY DEF GatewayInv, Types
<1>i. GroupInv /\ ConnInv
  BY DEF GatewayInv
<1> DEFINE b == gw[g].batch
<1>0. /\ lease = g /\ gw[g].state = "active" /\ b # <<>> /\ gw[g].pc = "ack"
      /\ group \in [made : BOOLEAN, last : Nat, pending : SUBSET Nat]
      /\ group' = [group EXCEPT !.pending = @ \ {Head(b)}]
      /\ UNCHANGED <<ticket, events, lease, conn, failed, projection, view>>
  BY DEF Acknowledge, MayAcknowledge, projection, GatewayInv, Types
<1>1. /\ Tail(b) \in Seq(Nat) /\ \A i, j \in DOMAIN Tail(b) : i < j => Tail(b)[i] < Tail(b)[j]
      /\ Range(b) = {Head(b)} \cup Range(Tail(b)) /\ Head(b) \notin Range(Tail(b))
  <2>1. b \in Seq(Nat) /\ b # <<>> /\ \A i, j \in DOMAIN b : i < j => b[i] < b[j]
    BY <1>0, <1>i, <1>s DEF Gateway, GroupInv
  <2> HIDE DEF b
  <2> QED  BY <2>1, BatchFacts
<1>2. gw' = [gw EXCEPT ![g] = [gw[g] EXCEPT !.batch = Tail(b), !.pc = "route"]]
  BY <1>s DEF Acknowledge
<1>3. /\ gw' \in [Gateways -> Gateway] /\ \A h \in Gateways \ {g} : gw'[h] = gw[h]
      /\ gw'[g].batch = Tail(b) /\ gw'[g].pc = "route" /\ gw'[g].state = "active"
  BY <1>0, <1>1, <1>2, <1>s DEF Gateway
<1>g. /\ group' \in [made : BOOLEAN, last : Nat, pending : SUBSET Nat]
      /\ group'.last = group.last /\ group'.pending = group.pending \ {Head(b)}
  BY <1>0
<1>4. GroupInv'
  <2>1. Range(Tail(b)) \subseteq 1 .. group.last /\ Range(Tail(b)) \subseteq group.pending
    BY <1>0, <1>1, <1>i DEF GroupInv
  <2> HIDE DEF b
  <2>2. ASSUME NEW h \in Gateways \ {g}
        PROVE  /\ Range(gw'[h].batch) \subseteq 1 .. group'.last
               /\ \A i, j \in DOMAIN gw'[h].batch : i < j => gw'[h].batch[i] < gw'[h].batch[j]
               /\ gw'[h].pc = "ack" => gw'[h].batch # <<>>
               /\ gw'[h].state # "active" => gw'[h].batch = <<>>
    BY <1>3, <1>g, <1>i DEF GroupInv
  <2>3. group'.last <= Len(events) /\ group'.pending \subseteq 1 .. group'.last
    BY <1>g, <1>i DEF GroupInv
  <2> QED  BY <1>0, <1>1, <1>3, <1>g, <2>1, <2>2, <2>3 DEF GroupInv
<1>5. ConnStays
  BY <1>0, <1>3, <1>g, <1>i DEF ConnInv, ConnStays, Handled, ToDo
<1> QED  BY <1>0, <1>3, <1>4, <1>5, <1>g, GatewayChanges DEF Bounds, GatewayInv, Types

\* A message whose handling fails is remembered.
LEMMA HandleFailsKeeps ==
    ASSUME GatewayInv, NEW g \in Gateways, HandleFails(g)
    PROVE  GatewayInv'
<1>s. gw \in [Gateways -> Gateway] /\ gw[g] \in Gateway
  BY DEF GatewayInv, Types
<1>i. GroupInv /\ ConnInv
  BY DEF GatewayInv
<1> DEFINE b == gw[g].batch
<1>0. /\ gw[g].state = "active" /\ b # <<>>
      /\ UNCHANGED <<ticket, events, group, lease, conn, projection, view>>
  BY DEF HandleFails, projection, GatewayInv, Types
<1>r. PICK rest \in {Tail(b), <<>>} :
         /\ gw' = [gw EXCEPT ![g].batch = rest, ![g].pc = "route"]
         /\ failed' = failed \cup (Range(b) \ Range(rest))
  BY DEF HandleFails
<1>1. /\ rest \in Seq(Nat) /\ \A i, j \in DOMAIN rest : i < j => rest[i] < rest[j]
      /\ Range(rest) \subseteq Range(b) /\ Range(Tail(b)) \subseteq Range(b)
  <2>1. b \in Seq(Nat) /\ b # <<>> /\ \A i, j \in DOMAIN b : i < j => b[i] < b[j]
    BY <1>0, <1>i, <1>s DEF Gateway, GroupInv
  <2> HIDE DEF b
  <2>2. /\ Tail(b) \in Seq(Nat) /\ \A i, j \in DOMAIN Tail(b) : i < j => Tail(b)[i] < Tail(b)[j]
        /\ Range(Tail(b)) \subseteq Range(b)
    BY <2>1, BatchFacts
  <2>3. CASE rest = <<>>
    BY <2>2, <2>3 DEF Range
  <2> QED  BY <2>2, <2>3
<1>2. gw' = [gw EXCEPT ![g] = [gw[g] EXCEPT !.batch = rest, !.pc = "route"]]
  BY <1>r, <1>s
<1>3. /\ gw' \in [Gateways -> Gateway] /\ \A h \in Gateways \ {g} : gw'[h] = gw[h]
      /\ gw'[g].batch = rest /\ gw'[g].pc = "route" /\ gw'[g].state = "active"
  BY <1>0, <1>1, <1>2, <1>s DEF Gateway
<1>4. GroupInv'
  <2>1. /\ Range(rest) \subseteq 1 .. group.last
        /\ lease = g => Range(rest) \subseteq group.pending
    BY <1>0, <1>1, <1>i DEF GroupInv
  <2>2. ASSUME NEW h \in Gateways \ {g}
        PROVE  /\ Range(gw'[h].batch) \subseteq 1 .. group'.last
               /\ \A i, j \in DOMAIN gw'[h].batch : i < j => gw'[h].batch[i] < gw'[h].batch[j]
               /\ lease = h => Range(gw'[h].batch) \subseteq group.pending
               /\ gw'[h].pc = "ack" => gw'[h].batch # <<>>
               /\ gw'[h].state # "active" => gw'[h].batch = <<>>
    BY <1>0, <1>3, <1>i DEF GroupInv
  <2>3. group.last <= Len(events) /\ group.pending \subseteq 1 .. group.last
    BY <1>i DEF GroupInv
  <2> QED  BY <1>0, <1>1, <1>3, <2>1, <2>2, <2>3 DEF GroupInv
<1>5. ConnStays
  <2>1. ASSUME conn.gw = g, NEW id \in Ids \ failed', Handled(id)' PROVE Handled(id)
    <3>1. id <= group.last /\ id \notin Range(rest)
      BY <1>0, <1>3, <2>1 DEF Handled, ToDo
    <3>2. id \notin Range(b)
      BY <1>r, <2>1, <3>1
    <3> QED  BY <1>1, <2>1, <3>1, <3>2 DEF Handled, ToDo
  <2>2. ASSUME conn.gw # g, conn.gw \in Gateways, NEW id \in Ids, Handled(id)' PROVE Handled(id)
    BY <1>0, <1>3, <2>2 DEF Handled, ToDo
  <2>3. conn.subscribed => conn.pc # "none"
    BY <1>i DEF ConnInv
  <2> HIDE DEF b
  <2> QED  BY <1>0, <1>3, <1>i, <2>1, <2>2, <2>3 DEF ConnInv, ConnStays
<1>6. failed \subseteq failed'
  BY <1>r
<1> QED  BY <1>0, <1>3, <1>4, <1>5, <1>6, GatewayChanges DEF Bounds, GatewayInv, Types

\* A process that ends takes the page's connection with it.
LEMMA StopKeeps ==
    ASSUME GatewayInv, NEW g \in Gateways, Stop(g)
    PROVE  GatewayInv'
<1>s. gw \in [Gateways -> Gateway] /\ lease \in Gateways \cup {NoGateway}
  BY DEF GatewayInv, Types
<1>i. GroupInv /\ ConnInv
  BY DEF GatewayInv
<1>0. /\ gw' = [gw EXCEPT ![g] = NewGateway]
      /\ lease' \in {lease, NoGateway}
      /\ conn' = IF conn.gw = g THEN NoConn ELSE conn
      /\ UNCHANGED <<ticket, events, group, failed, projection, view>>
  BY DEF Stop, projection, Closed
<1>2. /\ gw' \in [Gateways -> Gateway] /\ \A h \in Gateways \ {g} : gw'[h] = gw[h]
      /\ gw'[g].batch = <<>> /\ gw'[g].pc = "route"
  BY <1>0, <1>s DEF NewGateway, Gateway
<1>3. GroupInv'
  <2>1. Range(<<>>) = {}
    BY DEF Range
  <2> QED  BY <1>0, <1>2, <1>i, <1>s, <2>1, GatewayAssumption DEF GroupInv
<1>4. conn' = NoConn \/ (conn' = conn /\ ConnStays)
  <2>1. CASE conn.gw = g
    BY <1>0, <2>1
  <2>2. CASE conn.gw # g
    <3>1. /\ conn.pc # "none" => conn.gw \in Gateways \ {g}
          /\ conn.subscribed => conn.pc # "none" /\ conn.gw # NoGateway
      BY <1>i, <2>2, GatewayAssumption DEF ConnInv
    <3> QED  BY <1>0, <1>2, <1>i, <2>2, <3>1 DEF ConnStays, ConnInv, Handled, ToDo
  <2> QED  BY <2>1, <2>2
<1>5. lease' \in Gateways \cup {NoGateway}
  BY <1>0, <1>s
<1> QED  BY <1>0, <1>2, <1>3, <1>4, <1>5, GatewayChanges DEF Bounds, GatewayInv, Types

\* The connection of the page among the steps of a gateway, and the steps of the
\* handler: what is left when the gateways stay.
LEMMA ConnectionChanges ==
    ASSUME GatewayInv, UNCHANGED <<projection, group, lease>>, failed' = failed,
           ticket' \in {"none", "valid", "expired"}, view' \in Item, conn' \in Connection,
           gw' = gw, Len(conn'.queue) <= QueueSize, Len(conn'.buffer) <= BufferSize,
           ConnInv', CoverInv', PageInv'
    PROVE  GatewayInv'
<1>1. UNCHANGED <<fact, arriving, held, projected, events>>
  BY DEF projection
<1>2. Types'
  BY <1>1 DEF GatewayInv, Types, Connection, Gateway, Item
<1>3. StreamInv' /\ GroupInv'
  BY <1>1 DEF GatewayInv, StreamInv, GroupInv, Ids
<1>4. Bounds'
  BY <1>1 DEF GatewayInv, Bounds
<1> QED  BY <1>2, <1>3, <1>4 DEF GatewayInv

LEMMA ConnectionCloses ==
    ASSUME GatewayInv, UNCHANGED <<projection, group, lease, gw, view>>, failed' = failed,
           ticket' \in {"none", "valid", "expired"}, conn' = NoConn
    PROVE  GatewayInv'
<1>1. /\ group' \in [made : BOOLEAN, last : Nat, pending : SUBSET Nat]
      /\ lease' \in Gateways \cup {NoGateway} /\ gw' \in [Gateways -> Gateway]
  BY DEF GatewayInv, Types
<1>2. GroupInv'
  BY DEF GatewayInv, GroupInv, projection
<1> QED  BY <1>1, <1>2, GatewayChanges

\* A step that touches the ticket only.
LEMMA TicketKeeps ==
    ASSUME GatewayInv, IssueTicket \/ ExpireTicket
    PROVE  GatewayInv'
<1>1. /\ UNCHANGED <<projection, group, lease, gw, conn, view, failed>>
      /\ ticket' \in {"none", "valid", "expired"}
  BY DEF IssueTicket, ExpireTicket, consumer
<1>2. /\ view' \in Item /\ conn' \in Connection
      /\ Len(conn'.queue) <= QueueSize /\ Len(conn'.buffer) <= BufferSize
  BY <1>1 DEF GatewayInv, Types, Bounds
<1>3. ConnInv' /\ CoverInv' /\ PageInv'
  BY <1>1 DEF GatewayInv, ConnInv, CoverInv, PageInv, PageOf, Covered, Passed, Handled, ToDo,
              Ids, projection
<1> QED  BY <1>1, <1>2, <1>3, ConnectionChanges

\* The page has not subscribed yet.
LEMMA ConnectKeeps ==
    ASSUME GatewayInv, NEW g \in Gateways, Connect(g)
    PROVE  GatewayInv'
<1>1. /\ UNCHANGED <<projection, group, lease, gw, view, failed, ticket>>
      /\ conn.pc = "none" /\ gw[g].state = "active"
      /\ conn' = [NoConn EXCEPT !.pc = "connecting", !.gw = g]
  BY DEF Connect, consumer
<1>2. /\ view \in Item /\ conn' \in Connection /\ events \in Seq(Nat)
      /\ conn'.queue = <<>> /\ conn'.buffer = <<>> /\ conn'.pc = "connecting" /\ conn'.gw = g
      /\ ~conn'.subscribed /\ ~conn'.loading /\ conn'.got = {} /\ conn'.last = 0
      /\ ticket \in {"none", "valid", "expired"}
  BY <1>1, NoConnIsConnection DEF GatewayInv, Types, NoConn, Connection, Bounds
<1>3. ConnInv'
  BY <1>1, <1>2 DEF ConnInv, Range
<1>4. CoverInv'
  BY <1>2 DEF CoverInv
<1>5. PageInv'
  <2>1. view.version <= fact
    BY DEF GatewayInv, PageInv, PageOf, Shown, Types, Connection
  <2> QED  BY <1>1, <1>2, <2>1 DEF PageInv, PageOf, Shown, projection
<1> QED  BY <1>1, <1>2, <1>3, <1>4, <1>5, ConnectionChanges, GatewayAssumption

LEMMA RegisterKeeps ==
    ASSUME GatewayInv, Register
    PROVE  GatewayInv'
<1>1. /\ UNCHANGED <<projection, group, lease, gw, view, failed>>
      /\ conn.pc = "connecting" /\ ticket' = "none"
      /\ conn' = IF ticket = "valid" THEN [conn EXCEPT !.pc = "idle"] ELSE NoConn
  BY DEF Register, consumer, Closed
<1>2. CASE ticket # "valid"
  BY <1>1, <1>2, ConnectionCloses
<1>3. CASE ticket = "valid"
  <2>1. /\ view \in Item /\ conn \in Connection /\ conn' \in Connection
        /\ conn' = [conn EXCEPT !.pc = "idle"]
        /\ Len(conn'.queue) <= QueueSize /\ Len(conn'.buffer) <= BufferSize
    BY <1>1, <1>3 DEF GatewayInv, Types, Connection, Bounds
  <2>2. ConnInv'
    BY <1>1, <2>1 DEF ConnInv, GatewayInv, Ids, projection, Connection
  <2>3. CoverInv' /\ ~conn'.subscribed
    BY <1>1, <2>1 DEF CoverInv, ConnInv, GatewayInv, Connection
  <2>4. PageInv'
    BY <1>1, <2>1, <2>3 DEF PageInv, PageOf, GatewayInv, projection, Connection
  <2> QED  BY <1>1, <2>1, <2>2, <2>3, <2>4, ConnectionChanges
<1> QED  BY <1>2, <1>3

\* The handler of a subscription, up to the snapshot.
LEMMA SnapshotBegins ==
    ASSUME GatewayInv, Subscribe \/ ReadCursor \/ BuildSnapshot
    PROVE  GatewayInv'
<1>1. UNCHANGED <<projection, group, lease, gw, view, failed, ticket>>
  BY DEF Subscribe, ReadCursor, BuildSnapshot, consumer
<1>2. /\ view \in Item /\ conn \in Connection /\ events \in Seq(Nat) /\ fact \in Nat
      /\ Len(conn.queue) <= QueueSize /\ Len(conn.buffer) <= BufferSize
      /\ ticket \in {"none", "valid", "expired"} /\ ConnInv /\ CoverInv /\ PageInv
      /\ Ids = 1 .. Len(events) /\ \A i \in Ids : events[i] <= fact
  BY DEF GatewayInv, Types, Bounds, StreamInv, Ids
<1>3. UNCHANGED <<events, fact, Ids>>
  BY <1>1 DEF projection, Ids
<1>s. Len(events) \in Nat
  BY <1>2
<1>4. CASE Subscribe
  <2>1. /\ conn.pc = "idle" /\ conn' \in Connection
        /\ conn' = [conn EXCEPT !.pc = "cursor", !.subscribed = TRUE, !.loading = TRUE]
    BY <1>2, <1>4 DEF Subscribe, Connection
  <2>2. ConnInv'
    BY <1>1, <1>2, <1>3, <2>1 DEF ConnInv, Connection
  <2>3. CoverInv' /\ PageInv'
    BY <1>1, <1>2, <1>3, <2>1 DEF CoverInv, Covered, PageInv, PageOf, Connection
  <2> QED  BY <1>1, <1>2, <2>1, <2>2, <2>3, ConnectionChanges DEF Connection
<1>5. CASE ReadCursor
  <2>1. /\ conn.pc = "cursor" /\ conn' \in Connection
        /\ conn' = [conn EXCEPT !.pc = "build", !.cursor = Len(events)]
    BY <1>2, <1>s, <1>5 DEF ReadCursor, Connection
  <2>2. ConnInv'
    BY <1>1, <1>2, <1>3, <2>1 DEF ConnInv, Connection
  <2>3. CoverInv' /\ PageInv'
    BY <1>1, <1>2, <1>3, <2>1 DEF CoverInv, Covered, PageInv, PageOf, Connection
  <2> QED  BY <1>1, <1>2, <2>1, <2>2, <2>3, ConnectionChanges DEF Connection
<1>6. CASE BuildSnapshot
  <2>1. /\ conn.pc = "build" /\ conn' \in Connection
        /\ conn' = [conn EXCEPT !.pc = "finish", !.read = fact]
    BY <1>2, <1>6 DEF BuildSnapshot, Connection
  <2>2. ConnInv'
    <3>1. /\ conn'.pc = "finish" /\ conn'.read = fact /\ conn'.cursor = conn.cursor
          /\ conn'.gw = conn.gw /\ conn'.loading = conn.loading /\ conn'.last = conn.last
          /\ conn'.subscribed = conn.subscribed /\ conn'.buffer = conn.buffer
          /\ conn'.got = conn.got
      BY <1>2, <2>1 DEF Connection
    <3>2. \A id \in 1 .. conn.cursor : events[id] <= fact
      <4>1. conn.cursor <= Len(events) /\ conn.cursor \in Nat
        BY <1>2, <2>1 DEF ConnInv, Connection
      <4>2. \A id \in 1 .. conn.cursor : id \in 1 .. Len(events)
        BY ONLY <1>s, <4>1
      <4> QED  BY <1>2, <4>2
    <3> QED  BY <1>1, <1>2, <1>3, <2>1, <3>1, <3>2 DEF ConnInv
  <2>3. CoverInv'
    BY <1>1, <1>2, <1>3, <2>1
       DEF CoverInv, Covered, Handled, Passed, ToDo, Connection
  <2>4. PageInv'
    BY <1>1, <1>2, <1>3, <2>1 DEF PageInv, PageOf, Connection
  <2> QED  BY <1>1, <1>2, <2>1, <2>2, <2>3, <2>4, ConnectionChanges DEF Connection
<1> QED  BY <1>4, <1>5, <1>6

\* A page that has unsubscribed is owed nothing.
LEMMA UnsubscribeKeeps ==
    ASSUME GatewayInv, Unsubscribe
    PROVE  GatewayInv'
<1>1. /\ UNCHANGED <<projection, group, lease, gw, view, failed, ticket>>
      /\ conn.pc = "idle"
      /\ conn' = [NoConn EXCEPT !.pc = "idle", !.gw = conn.gw, !.queue = conn.queue]
  BY DEF Unsubscribe, consumer
<1>2. /\ view \in Item /\ conn \in Connection /\ events \in Seq(Nat) /\ fact \in Nat
      /\ Len(conn.queue) <= QueueSize
      /\ ticket \in {"none", "valid", "expired"} /\ ConnInv /\ PageInv
  BY DEF GatewayInv, Types, Bounds
<1>3. UNCHANGED <<events, fact, Ids>>
  BY <1>1 DEF projection, Ids
<1>4. /\ conn' \in Connection /\ conn'.pc = "idle" /\ conn'.gw = conn.gw
      /\ conn'.queue = conn.queue /\ conn'.buffer = <<>> /\ conn'.got = {} /\ conn'.last = 0
      /\ ~conn'.subscribed /\ ~conn'.loading
  BY <1>1, <1>2, NoConnIsConnection DEF Connection, NoConn
<1>5. ConnInv'
  BY <1>1, <1>2, <1>3, <1>4 DEF ConnInv, Range
<1>6. CoverInv' /\ PageInv'
  BY <1>1, <1>2, <1>3, <1>4 DEF CoverInv, PageInv, PageOf
<1> QED  BY <1>1, <1>2, <1>4, <1>5, <1>6, ConnectionChanges, GatewayAssumption

\* The page applies what it is sent.
LEMMA SendKeeps ==
    ASSUME GatewayInv, Send
    PROVE  GatewayInv'
<1>1. /\ UNCHANGED <<projection, group, lease, gw, failed, ticket>>
      /\ conn.queue # <<>> /\ view' = Head(conn.queue)
      /\ conn' = [conn EXCEPT !.queue = Tail(@)]
  BY DEF Send, consumer
<1>2. /\ view \in Item /\ conn \in Connection /\ events \in Seq(Nat) /\ fact \in Nat
      /\ Len(conn.queue) <= QueueSize /\ Len(conn.buffer) <= BufferSize
      /\ ticket \in {"none", "valid", "expired"} /\ ConnInv /\ CoverInv /\ PageInv
  BY DEF GatewayInv, Types, Bounds
<1>3. UNCHANGED <<events, fact, Ids>>
  BY <1>1 DEF projection, Ids
<1>q. conn.queue \in Seq(Item)
  BY <1>2 DEF Connection
<1>4. /\ Len(conn.queue) \in Nat \ {0} /\ Tail(conn.queue) \in Seq(Item)
      /\ Len(Tail(conn.queue)) = Len(conn.queue) - 1
      /\ Head(conn.queue) = conn.queue[1]
      /\ \A i \in 1 .. Len(conn.queue) - 1 : Tail(conn.queue)[i] = conn.queue[i + 1]
  BY <1>1, <1>q
<1>5. /\ conn' \in Connection /\ view' \in Item
      /\ Len(conn'.queue) <= QueueSize /\ Len(conn'.buffer) <= BufferSize
  <2>1. conn' \in Connection /\ conn'.queue = Tail(conn.queue) /\ conn'.buffer = conn.buffer
    BY <1>1, <1>2, <1>4 DEF Connection
  <2>2. conn.queue[1] \in Item
    BY <1>4, <1>q
  <2> QED  BY <1>1, <1>2, <1>4, <2>1, <2>2, GatewayAssumption
<1>n. conn.pc # "none"
  <2>1. NoConn.queue = <<>>
    BY DEF NoConn
  <2> QED  BY <1>1, <1>2, <2>1 DEF ConnInv
<1>6. ConnInv'
  BY <1>1, <1>2, <1>3, <1>n DEF ConnInv, Connection
<1>7. CoverInv'
  BY <1>1, <1>2, <1>3 DEF CoverInv, Covered, Handled, Passed, ToDo, Connection
<1>8. PageInv'
  <2> DEFINE s == Shown(view, conn.queue)
             t == Shown(view', conn'.queue)
             n == Len(conn.queue)
  <2>1. /\ Len(conn'.queue) = n - 1
        /\ \A i \in 1 .. n : t[i] = s[i + 1] /\ i + 1 \in 1 .. n + 1
    <3>1. conn'.queue = Tail(conn.queue) /\ n - 1 \in Nat
      BY <1>1, <1>2, <1>4 DEF Connection
    <3>2. \A i \in 1 .. n : i + 1 \in 1 .. n + 1 /\ s[i + 1] = conn.queue[i]
      BY <1>4 DEF Shown
    <3>3. \A i \in 1 .. n : t[i] = IF i = 1 THEN Head(conn.queue) ELSE Tail(conn.queue)[i - 1]
      BY <1>1, <1>4, <3>1 DEF Shown
    <3>4. \A i \in 1 .. n : i # 1 => i - 1 \in 1 .. n - 1 /\ (i - 1) + 1 = i
      BY <1>4
    <3>5. \A i \in 1 .. n : i # 1 => Tail(conn.queue)[i - 1] = conn.queue[i]
      <4>1. \A j \in 1 .. n - 1 : Tail(conn.queue)[j] = conn.queue[j + 1]
        BY <1>4
      <4> HIDE DEF n
      <4> QED  BY <3>4, <4>1
    <3> QED  BY <1>4, <3>1, <3>2, <3>3, <3>5
  <2>2. PageOf(view, conn)
    BY <1>2 DEF PageInv
  <2>3. /\ conn'.pc = conn.pc /\ conn'.read = conn.read /\ conn'.last = conn.last
        /\ conn'.subscribed = conn.subscribed
    BY <1>1, <1>2 DEF Connection
  <2>4. n \in Nat \ {0} /\ (n - 1) + 1 = n
    BY <1>4
  <2> HIDE DEF s, t, n
  <2>5. /\ \A i \in 1 .. n - 1 : t[i].bySnapshot \/ t[i].version <= t[i + 1].version
        /\ \A i \in 1 .. n : t[i].version <= fact
                             /\ (conn.pc = "finish" => t[i].version <= conn.read)
        /\ t[n] = s[n + 1]
    <3>1. \A i \in 1 .. n - 1 : i \in 1 .. n /\ i + 1 \in 1 .. n
      BY <2>4
    <3>2. /\ \A i \in 1 .. n : s[i].bySnapshot \/ s[i].version <= s[i + 1].version
          /\ \A i \in 1 .. n + 1 : s[i].version <= fact
                               /\ (conn.pc = "finish" => s[i].version <= conn.read)
      BY <2>2 DEF PageOf, s, n
    <3>3. /\ \A i \in 1 .. n : t[i].version <= fact
                             /\ (conn.pc = "finish" => t[i].version <= conn.read)
          /\ t[n] = s[n + 1]
      BY <2>1, <2>4, <3>2
    <3>4. \A i \in 1 .. n - 1 : t[i].bySnapshot \/ t[i].version <= t[i + 1].version
      <4>1. SUFFICES ASSUME NEW i \in 1 .. n - 1
                     PROVE  t[i].bySnapshot \/ t[i].version <= t[i + 1].version
        OBVIOUS
      <4>2. t[i] = s[i + 1] /\ t[i + 1] = s[(i + 1) + 1] /\ i + 1 \in 1 .. n
        BY <2>1, <3>1
      <4> QED  BY <3>2, <4>2
    <3> QED  BY <3>3, <3>4
  <2> QED  BY <1>3, <2>1, <2>2, <2>3, <2>4, <2>5 DEF PageInv, PageOf, s, t, n
<1> QED  BY <1>1, <1>2, <1>5, <1>6, <1>7, <1>8, ConnectionChanges

-----------------------------------------------------------------------------
(* What is sent.                                                           *)

\* A connection whose handler is idle, with the page it serves.
Sending(c) ==
    /\ c \in Connection /\ c.pc = "idle" /\ c.subscribed /\ ~c.loading
    /\ Len(c.queue) <= QueueSize /\ Len(c.buffer) <= BufferSize
    /\ Range(c.buffer) \subseteq Ids /\ c.got \subseteq Ids /\ c.last <= Len(events)
    /\ PageOf(view, c)

\* What is queued extends what is shown.
LEMMA ShownGrows ==
    ASSUME NEW q \in Seq(Item), NEW item \in Item, NEW vw \in Item
    PROVE  /\ Append(q, item) \in Seq(Item) /\ Len(Append(q, item)) = Len(q) + 1
           /\ Len(q) \in Nat
           /\ \A i \in 1 .. Len(q) + 1 : Shown(vw, Append(q, item))[i] = Shown(vw, q)[i]
           /\ Shown(vw, Append(q, item))[Len(q) + 2] = item
<1> DEFINE n == Len(q)
           u == Append(q, item)
<1>1. /\ u \in Seq(Item) /\ Len(u) = n + 1 /\ n \in Nat
      /\ \A i \in 1 .. n : u[i] = q[i]
      /\ u[n + 1] = item
  OBVIOUS
<1> HIDE DEF n, u
<1>2. \A i \in 1 .. n + 1 : i \in 1 .. (n + 1) + 1 /\ (i # 1 => i - 1 \in 1 .. n)
  BY <1>1
<1>3. \A i \in 1 .. n + 1 : Shown(vw, u)[i] = Shown(vw, q)[i]
  BY <1>1, <1>2 DEF Shown, n
<1>4. n + 2 \in 1 .. (n + 1) + 1 /\ n + 2 # 1 /\ (n + 2) - 1 = n + 1
  BY <1>1
<1>5. Shown(vw, u)[n + 2] = item
  BY <1>1, <1>4 DEF Shown
<1> QED  BY <1>1, <1>3, <1>5 DEF n, u

\* An item is appended to the queue: after a snapshot anything may come, after an event
\* what is not older.
LEMMA QueueGrows ==
    ASSUME NEW c \in Connection, NEW d \in Connection, NEW item \in Item, view \in Item,
           PageOf(view, c), d.queue = Append(c.queue, item), d.pc = "idle",
           item.version <= fact,
           \/ Shown(view, c.queue)[Len(c.queue) + 1].bySnapshot
           \/ Shown(view, c.queue)[Len(c.queue) + 1].version <= item.version,
           \/ item.bySnapshot
           \/ \E id \in Ids : id <= d.last /\ item.version = events[id]
    PROVE  PageOf(view, d)
<1> DEFINE n == Len(c.queue)
           s == Shown(view, c.queue)
           t == Shown(view, d.queue)
<1>1. /\ Len(d.queue) = n + 1 /\ n \in Nat
      /\ \A i \in 1 .. n + 1 : t[i] = s[i]
      /\ t[n + 2] = item
  BY ShownGrows DEF Connection
<1>2. /\ \A i \in 1 .. n : s[i].bySnapshot \/ s[i].version <= s[i + 1].version
      /\ \A i \in 1 .. n + 1 : s[i].version <= fact
  BY DEF PageOf
<1>3. s[n + 1].bySnapshot \/ s[n + 1].version <= item.version
  OBVIOUS
<1> HIDE DEF n, s, t
<1>4. ASSUME NEW i \in 1 .. n + 1 PROVE t[i].bySnapshot \/ t[i].version <= t[i + 1].version
  <2>1. CASE i = n + 1
    <3>1. i + 1 = n + 2 /\ i \in 1 .. n + 1
      BY <1>1, <2>1
    <3> QED  BY <1>1, <1>3, <2>1, <3>1
  <2>2. CASE i # n + 1
    <3>1. i \in 1 .. n /\ i + 1 \in 1 .. n + 1
      BY <1>1, <2>2
    <3> QED  BY <1>1, <1>2, <3>1
  <2> QED  BY <2>1, <2>2
<1>5. ASSUME NEW i \in 1 .. (n + 1) + 1 PROVE t[i].version <= fact
  <2>1. i = n + 2 \/ i \in 1 .. n + 1
    BY <1>1
  <2> QED  BY <1>1, <1>2, <2>1
<1>6. (n + 1) + 1 = n + 2
  BY <1>1
<1> QED  BY <1>1, <1>4, <1>5, <1>6 DEF PageOf, t

\* An event that is not before the last one of the connection is sent, or the connection is closed.
LEMMA EventIsSent ==
    ASSUME GatewayInv, NEW c, Sending(c), NEW id \in Ids, c.last <= id
    PROVE  \/ SentEvent(c, id) = NoConn
           \/ /\ SentEvent(c, id) =
                    [c EXCEPT !.queue = Append(@, Event(id)), !.last = id, !.got = @ \cup {id}]
              /\ Sending(SentEvent(c, id))
<1>1. /\ view \in Item /\ events \in Seq(Nat) /\ fact \in Nat /\ Ids = 1 .. Len(events)
      /\ events[id] \in Nat /\ events[id] <= fact /\ Ids \subseteq Nat
  BY DEF GatewayInv, Types, StreamInv, Ids
<1>2. c \in Connection /\ c.pc = "idle" /\ c.queue \in Seq(Item) /\ NoConn.pc = "none"
  BY DEF Sending, Connection, NoConn
<1>3. CASE Len(c.queue) >= QueueSize
  BY <1>2, <1>3 DEF SentEvent, Enqueued, Closed
<1>4. CASE ~(Len(c.queue) >= QueueSize)
  <2> DEFINE e == Event(id)
             d == [c EXCEPT !.queue = Append(@, e), !.last = id, !.got = @ \cup {id}]
  <2>1. e \in Item /\ e.version = events[id] /\ ~e.bySnapshot
    BY <1>1 DEF Event, Item
  <2> HIDE DEF e
  <2>2. SentEvent(c, id) = d
    BY <1>2, <1>4 DEF SentEvent, Enqueued, Connection, e
  <2>q. Append(c.queue, e) \in Seq(Item) /\ Len(Append(c.queue, e)) = Len(c.queue) + 1
    BY <1>2, <2>1
  <2>3. /\ d \in Connection /\ d.queue = Append(c.queue, e) /\ d.last = id
        /\ d.got = c.got \cup {id} /\ d.pc = "idle" /\ d.subscribed /\ ~d.loading
        /\ d.buffer = c.buffer
    BY <1>1, <1>2, <2>q DEF Sending, Connection
  <2> HIDE DEF d
  <2>4. \/ Shown(view, c.queue)[Len(c.queue) + 1].bySnapshot
        \/ Shown(view, c.queue)[Len(c.queue) + 1].version <= e.version
    <3>1. \/ Shown(view, c.queue)[Len(c.queue) + 1].bySnapshot
          \/ \E j \in Ids : j <= c.last /\ Shown(view, c.queue)[Len(c.queue) + 1].version = events[j]
      BY <1>2 DEF Sending, PageOf
    <3>2. \A j \in Ids : j <= c.last => events[j] <= events[id]
      <4>1. SUFFICES ASSUME NEW j \in Ids, j <= c.last PROVE events[j] <= events[id]
        OBVIOUS
      <4>2. j <= id /\ c.last \in Nat
        BY <1>1, <1>2, <4>1 DEF Connection
      <4>3. j < id => events[j] < events[id]
        BY <1>1, <4>2 DEF GatewayInv, StreamInv
      <4>4. events[j] \in Nat
        BY <1>1
      <4> QED  BY <1>1, <4>2, <4>3, <4>4
    <3> QED  BY <2>1, <3>1, <3>2
  <2>5. PageOf(view, d)
    <3>1. \E j \in Ids : j <= d.last /\ e.version = events[j]
      BY <1>1, <2>1, <2>3
    <3>2. PageOf(view, c) /\ e.version <= fact
      BY <1>1, <2>1 DEF Sending
    <3> QED  BY <1>1, <1>2, <2>1, <2>3, <2>4, <3>1, <3>2, QueueGrows
  <2>6. Sending(d)
    BY <1>1, <1>2, <1>4, <2>q, <2>3, <2>5, GatewayAssumption DEF Sending
  <2> QED  BY <2>2, <2>6 DEF d, e
<1> QED  BY <1>3, <1>4

\* Routing: the gateway's batch is in order, so that what comes before its first message
\* is behind it.
LEMMA RouteKeeps ==
    ASSUME GatewayInv, NEW g \in Gateways, Route(g)
    PROVE  GatewayInv'
<1>s. /\ gw \in [Gateways -> Gateway] /\ gw[g] \in Gateway /\ events \in Seq(Nat)
      /\ group \in [made : BOOLEAN, last : Nat, pending : SUBSET Nat]
      /\ conn \in Connection /\ view \in Item
      /\ Len(conn.queue) <= QueueSize /\ Len(conn.buffer) <= BufferSize
      /\ ticket \in {"none", "valid", "expired"}
  BY DEF GatewayInv, Types, Bounds
<1>i. GroupInv /\ ConnInv /\ CoverInv /\ PageInv
  BY DEF GatewayInv
<1> DEFINE b == gw[g].batch
           m == Head(b)
<1>0. /\ lease = g /\ gw[g].state = "active" /\ b # <<>> /\ gw[g].pc = "route"
      /\ conn' = IF Subscribed(g) THEN Broadcast(m) ELSE conn
      /\ gw' = [gw EXCEPT ![g].pc = "ack"]
      /\ UNCHANGED <<ticket, events, group, lease, failed, projection, view>>
  BY DEF Route, projection
<1>1. /\ Tail(b) \in Seq(Nat) /\ Range(b) = {m} \cup Range(Tail(b)) /\ m \in Nat
      /\ \A x \in Range(b) : m <= x
  <2>1. b \in Seq(Nat) /\ b # <<>> /\ \A i, j \in DOMAIN b : i < j => b[i] < b[j]
    BY <1>0, <1>i, <1>s DEF Gateway, GroupInv
  <2> HIDE DEF b
  <2>2. /\ Tail(b) \in Seq(Nat) /\ Range(b) = {m} \cup Range(Tail(b)) /\ m \in Nat
        /\ \A x \in Range(Tail(b)) : m < x
    BY <2>1, BatchFacts
  <2>3. Range(Tail(b)) \subseteq Nat
    BY <2>2 DEF Range
  <2> QED  BY <2>2, <2>3
<1>2. /\ gw' \in [Gateways -> Gateway] /\ \A h \in Gateways \ {g} : gw'[h] = gw[h]
      /\ gw'[g].batch = b /\ gw'[g].pc = "ack" /\ gw'[g].state = "active"
  <2>1. gw' = [gw EXCEPT ![g] = [gw[g] EXCEPT !.pc = "ack"]]
    BY <1>0, <1>s
  <2>2. [gw[g] EXCEPT !.pc = "ack"] \in Gateway
    BY <1>s DEF Gateway
  <2>3. /\ [gw[g] EXCEPT !.pc = "ack"].batch = b /\ [gw[g] EXCEPT !.pc = "ack"].pc = "ack"
        /\ [gw[g] EXCEPT !.pc = "ack"].state = gw[g].state
    BY <1>s DEF Gateway
  <2> HIDE DEF b
  <2> QED  BY <1>0, <1>s, <2>1, <2>2, <2>3
<1>3. GroupInv'
  <2>1. \A h \in Gateways : gw'[h].batch = gw[h].batch
    BY <1>2
  <2>2. \A h \in Gateways : /\ gw'[h].pc = "ack" => gw'[h].batch # <<>>
                            /\ gw'[h].state # "active" => gw'[h].batch = <<>>
    BY <1>0, <1>2, <1>i DEF GroupInv
  <2> QED  BY <1>0, <1>i, <2>1, <2>2 DEF GroupInv
<1>4. m \in 1 .. group.last /\ m \in Ids /\ Ids = 1 .. Len(events) /\ group.last <= Len(events)
  BY <1>1, <1>i, <1>s DEF GroupInv, Ids
<1>g. UNCHANGED <<events, Ids, group, lease, failed>>
  BY <1>0 DEF Ids
<1>t. /\ group' \in [made : BOOLEAN, last : Nat, pending : SUBSET Nat]
      /\ lease' \in Gateways \cup {NoGateway} /\ ticket' \in {"none", "valid", "expired"}
  BY <1>0, <1>s
<1> HIDE DEF b, m
<1>5. CASE ~Subscribed(g)
  <2>1. ConnStays
    <3>1. conn.subscribed => conn.gw # g
      BY <1>5 DEF Subscribed
    <3>2. conn.pc # "none" => conn.gw \in Gateways /\ gw'[conn.gw].state # "down"
      BY <1>2, <1>i DEF ConnInv
    <3> QED  BY <1>0, <3>1, <3>2 DEF ConnStays
  <2> QED  BY <1>0, <1>2, <1>3, <1>5, <1>t, <2>1, GatewayChanges
<1>6. CASE Subscribed(g) /\ conn' = NoConn
  BY <1>0, <1>2, <1>3, <1>6, <1>t, GatewayChanges
<1>7. CASE Subscribed(g) /\ conn' # NoConn
  <2>1. conn.gw = g /\ conn.subscribed /\ conn' = Broadcast(m) /\ NoConn = Closed
    BY <1>0, <1>7 DEF Subscribed, Closed
  <2>2. ASSUME conn'.gw = g, NEW id \in Ids, Handled(id)', id # m PROVE Handled(id)
    <3>1. id <= group.last /\ id \notin Range(Tail(b))
      BY <1>0, <1>2, <2>2 DEF Handled, ToDo
    <3> QED  BY <1>0, <1>1, <2>1, <2>2, <3>1 DEF Handled, ToDo, b
  <2>3. ASSUME NEW id \in Ids, id <= m, id # m PROVE Handled(id)
    <3>1. id < m /\ id <= group.last
      BY <1>4, <1>s, <2>3
    <3>2. id \notin Range(b)
      BY <1>1, <1>4, <1>s, <3>1
    <3> QED  BY <1>0, <2>1, <3>1, <3>2 DEF Handled, ToDo, b
  <2>4. \A id \in Ids \ failed : Handled(id) \/ Passed(id) => Covered(id)
    BY <1>0, <1>i, <2>1 DEF CoverInv
  <2>n. gw'[g].state # "down"
    BY <1>2
  <2>5. CASE conn.loading
    <3>1. /\ conn' = [conn EXCEPT !.buffer = Append(@, m)] /\ Len(conn.buffer) < BufferSize
          /\ conn.buffer \in Seq(Nat)
      BY <1>7, <1>s, <2>1, <2>5, GatewayAssumption DEF Broadcast, Connection
    <3>2. /\ Append(conn.buffer, m) \in Seq(Nat)
          /\ Len(Append(conn.buffer, m)) = Len(conn.buffer) + 1
          /\ Range(Append(conn.buffer, m)) = Range(conn.buffer) \cup {m}
      <4>1. /\ Append(conn.buffer, m) \in Seq(Nat) /\ Len(conn.buffer) \in Nat
            /\ Len(Append(conn.buffer, m)) = Len(conn.buffer) + 1
            /\ Append(conn.buffer, m)[Len(conn.buffer) + 1] = m
            /\ \A i \in 1 .. Len(conn.buffer) : Append(conn.buffer, m)[i] = conn.buffer[i]
        BY <1>1, <3>1
      <4>2. \A i \in 1 .. Len(conn.buffer) + 1 :
               i \in 1 .. Len(conn.buffer) \/ i = Len(conn.buffer) + 1
        BY <4>1
      <4>3. Range(Append(conn.buffer, m)) \subseteq Range(conn.buffer) \cup {m}
        BY <3>1, <4>1, <4>2 DEF Range
      <4>4. /\ \A i \in 1 .. Len(conn.buffer) : i \in 1 .. Len(conn.buffer) + 1
            /\ Len(conn.buffer) + 1 \in 1 .. Len(conn.buffer) + 1
        BY <4>1
      <4>5. Range(conn.buffer) \cup {m} \subseteq Range(Append(conn.buffer, m))
        <5>1. DOMAIN Append(conn.buffer, m) = 1 .. Len(conn.buffer) + 1
          BY <4>1
        <5>2. DOMAIN conn.buffer = 1 .. Len(conn.buffer)
          BY <3>1
        <5>3. m \in Range(Append(conn.buffer, m))
          BY <4>1, <4>4, <5>1 DEF Range
        <5>4. Range(conn.buffer) \subseteq Range(Append(conn.buffer, m))
          BY <4>1, <4>4, <5>1, <5>2 DEF Range
        <5> QED  BY <5>3, <5>4
      <4> QED  BY <4>1, <4>3, <4>5
    <3>3. /\ conn' \in Connection /\ conn'.buffer = Append(conn.buffer, m)
          /\ conn'.pc = conn.pc /\ conn'.gw = g /\ conn'.queue = conn.queue /\ conn'.loading
          /\ conn'.subscribed /\ conn'.got = conn.got /\ conn'.last = conn.last
          /\ conn'.cursor = conn.cursor /\ conn'.read = conn.read
      BY <1>s, <2>1, <2>5, <3>1, <3>2 DEF Connection
    <3>4. conn.pc \in {"cursor", "build", "finish"}
      BY <1>i, <2>5 DEF ConnInv
    <3>5. ConnInv'
      BY <1>0, <1>4, <1>g, <1>i, <2>1, <2>5, <2>n, <3>2, <3>3, <3>4 DEF ConnInv, projection
    <3>6. CoverInv'
      <4>1. SUFFICES ASSUME NEW id \in Ids \ failed, Handled(id)' \/ Passed(id)'
                     PROVE  Covered(id)'
        BY <1>g DEF CoverInv
      <4>2. id = m \/ Handled(id) \/ Passed(id)
        <5>1. Passed(id)' => id = m \/ id <= m \/ Passed(id)
          BY <2>5, <3>2, <3>3 DEF Passed
        <5> QED  BY <2>2, <2>3, <3>3, <4>1, <5>1
      <4>3. id = m \/ Covered(id)
        BY <2>4, <4>2
      <4> QED  BY <3>2, <3>3, <3>4, <4>3 DEF Covered
    <3>7. PageInv'
      BY <1>0, <1>g, <1>i, <3>3, <3>4 DEF PageInv, PageOf, projection
    <3>8. Len(conn'.queue) <= QueueSize /\ Len(conn'.buffer) <= BufferSize
      BY <1>s, <3>1, <3>2, <3>3, GatewayAssumption
    <3>9. Bounds' /\ Types' /\ StreamInv'
      BY <1>0, <1>2, <1>t, <3>3, <3>8
         DEF GatewayInv, Bounds, Types, StreamInv, Ids, projection, Connection, Gateway
    <3> QED  BY <1>3, <3>5, <3>6, <3>7, <3>9 DEF GatewayInv
  <2>p. CASE ~conn.loading
    <3>1. conn.pc = "idle"
      BY <1>i, <1>s, <2>1, <2>p DEF ConnInv, Connection
    <3>2. conn.last \in Nat
      BY <1>s DEF Connection
    <3>3. CASE m <= conn.last
      <4>1. conn' = conn
        BY <2>1, <2>p, <3>3 DEF Broadcast
      <4>2. Passed(m)
        BY <2>p, <3>3 DEF Passed
      <4>3. \A id \in Ids \ failed : Handled(id)' \/ Passed(id)' => Covered(id)'
        <5>1. SUFFICES ASSUME NEW id \in Ids \ failed, Handled(id)' \/ Passed(id)'
                       PROVE  Covered(id)'
          OBVIOUS
        <5>2. Handled(id) \/ Passed(id)
          BY <2>1, <2>2, <4>1, <4>2, <5>1 DEF Passed
        <5> QED  BY <1>g, <2>4, <4>1, <5>2 DEF Covered
      <4>4. CoverInv'
        BY <1>g, <4>3 DEF CoverInv
      <4>5. ConnInv'
        BY <1>0, <1>g, <1>i, <2>1, <2>n, <4>1 DEF ConnInv, projection
      <4>6. PageInv'
        BY <1>0, <1>g, <1>i, <4>1 DEF PageInv, PageOf, projection
      <4>7. Bounds' /\ Types' /\ StreamInv'
        BY <1>0, <1>2, <1>t, <4>1
           DEF GatewayInv, Bounds, Types, StreamInv, Ids, projection, Connection, Gateway
      <4> QED  BY <1>3, <4>4, <4>5, <4>6, <4>7 DEF GatewayInv
    <3>4. CASE conn.last < m
      <4>1. Sending(conn)
        BY <1>i, <1>s, <2>1, <2>p, <3>1 DEF Sending, ConnInv, PageInv
      <4>2. conn' = SentEvent(conn, m)
        BY <1>1, <2>1, <2>p, <3>2, <3>4 DEF Broadcast
      <4>3. /\ Sending(conn')
            /\ conn' = [conn EXCEPT !.queue = Append(@, Event(m)), !.last = m, !.got = @ \cup {m}]
        <5>1. conn.last <= m /\ m \in Ids
          BY <1>1, <1>4, <3>2, <3>4
        <5>2. \/ SentEvent(conn, m) = NoConn
              \/ /\ SentEvent(conn, m) =
                       [conn EXCEPT !.queue = Append(@, Event(m)), !.last = m, !.got = @ \cup {m}]
                 /\ Sending(SentEvent(conn, m))
          BY ONLY GatewayInv, <4>1, <5>1, EventIsSent
        <5> QED  BY <1>7, <4>2, <5>2
      <4>4. /\ conn' \in Connection /\ conn'.buffer = conn.buffer
            /\ conn'.pc = "idle" /\ conn'.gw = g /\ ~conn'.loading
            /\ conn'.subscribed /\ conn'.got = conn.got \cup {m} /\ conn'.last = m
            /\ conn'.snap = conn.snap /\ PageOf(view, conn')
            /\ Len(conn'.queue) <= QueueSize /\ Len(conn'.buffer) <= BufferSize
        BY <1>s, <2>1, <2>p, <3>1, <4>3 DEF Connection, Sending
      <4>5. ConnInv'
        BY <1>0, <1>4, <1>g, <1>i, <2>1, <2>n, <4>4 DEF ConnInv, projection
      <4>6. \A id \in Ids \ failed : Handled(id)' \/ Passed(id)' => Covered(id)'
        <5>1. SUFFICES ASSUME NEW id \in Ids \ failed, Handled(id)' \/ Passed(id)'
                       PROVE  Covered(id)'
          OBVIOUS
        <5>2. id = m \/ Handled(id)
          <6>1. Passed(id)' => id <= m
            BY <4>4 DEF Passed
          <6> QED  BY <2>2, <2>3, <4>4, <5>1, <6>1
        <5>3. id = m \/ Covered(id)
          BY <2>4, <5>2
        <5> QED  BY <1>g, <3>1, <4>4, <5>3 DEF Covered
      <4>7. CoverInv'
        BY <1>g, <4>6 DEF CoverInv
      <4>8. PageInv'
        BY <1>0, <1>g, <4>4 DEF PageInv, PageOf, projection
      <4>9. Bounds' /\ Types' /\ StreamInv'
        BY <1>0, <1>2, <1>t, <4>4
           DEF GatewayInv, Bounds, Types, StreamInv, Ids, projection, Connection, Gateway
      <4> QED  BY <1>3, <4>5, <4>7, <4>8, <4>9 DEF GatewayInv
    <3> QED  BY <1>1, <3>2, <3>3, <3>4
  <2> QED  BY <2>5, <2>p
<1> QED  BY <1>5, <1>6, <1>7

-----------------------------------------------------------------------------
(* The end of a snapshot.                                                  *)

\* The snapshot as it is sent.
Begun ==
    LET item == [version |-> conn.read, bySnapshot |-> TRUE] IN
    [Enqueued(conn, item) EXCEPT
        !.last = Barrier, !.loading = FALSE, !.buffer = <<>>,
        !.snap = conn.read, !.got = {}, !.pc = "idle"]

Released(c, id) == IF c.pc = "none" \/ id <= Barrier THEN c ELSE SentEvent(c, id)
ReleaseSteps(t) == [i \in 1 .. Len(t) |-> [c \in Connection |-> Released(c, t[i])]]
ReleasedAll(t) == FoldLeft(Released, Begun, t)

LEMMA ReleasedType ==
    ASSUME GatewayInv, NEW c \in Connection, NEW id \in Ids
    PROVE  Released(c, id) \in Connection
<1>1. Event(id) \in Item /\ id \in Nat
  BY DEF GatewayInv, Types, Ids, Event, Item
<1>2. c.queue \in Seq(Item) /\ Append(c.queue, Event(id)) \in Seq(Item)
  BY <1>1 DEF Connection
<1>3. SentEvent(c, id) \in Connection
  <2>1. CASE c.pc = "none" \/ Len(c.queue) >= QueueSize
    BY <2>1, NoConnIsConnection DEF SentEvent, Enqueued, Closed, NoConn
  <2>2. CASE ~(c.pc = "none" \/ Len(c.queue) >= QueueSize)
    <3>1. Enqueued(c, Event(id)) = [c EXCEPT !.queue = Append(@, Event(id))]
      BY <2>2 DEF Enqueued
    <3>2. SentEvent(c, id) =
            [c EXCEPT !.queue = Append(c.queue, Event(id)), !.last = id, !.got = @ \cup {id}]
      BY <2>2, <3>1 DEF SentEvent, Connection
    <3>3. c.got \cup {id} \in SUBSET Nat
      BY <1>1 DEF Connection
    <3>4. SentEvent(c, id) =
            [pc |-> c.pc, gw |-> c.gw, subscribed |-> c.subscribed, loading |-> c.loading,
             buffer |-> c.buffer, last |-> id, cursor |-> c.cursor, read |-> c.read,
             queue |-> Append(c.queue, Event(id)), snap |-> c.snap, got |-> c.got \cup {id}]
      BY <3>2 DEF Connection
    <3> QED  BY <1>1, <1>2, <3>3, <3>4 DEF Connection
  <2> QED  BY <2>1, <2>2
<1> QED  BY <1>3 DEF Released

\* The buffered events, as a run.
LEMMA ReleaseRuns ==
    ASSUME GatewayInv, Begun \in Connection, NEW t \in Seq(Nat), Range(t) \subseteq Ids
    PROVE  \E v : IsRun(v, ReleaseSteps(t), Begun, Len(t), Connection)
                 /\ v[Len(t)] = ReleasedAll(t)
<1> DEFINE D == DOMAIN t
           Step(c, i) == Released(c, t[i])
           Body(g) == [s \in SUBSET D |-> IF s = {} THEN Begun ELSE Step(g[s \ {Max(s)}], Max(s))]
           F == ReleaseSteps(t)
<1>1. ReleasedAll(t) = (CHOOSE g : g = Body(g))[D]
  BY DEF ReleasedAll, FoldLeft, MapThenFoldSet
<1>n. PICK n \in Nat : n = Len(t) /\ D = 1 .. n
  OBVIOUS
<1>2. ASSUME NEW i \in 1 .. n, NEW c \in Connection PROVE Step(c, i) \in Connection
  <2>1. t[i] \in Ids
    BY <1>n DEF Range
  <2> QED  BY <2>1, ReleasedType
<1>3. \A i \in 1 .. n : \A c \in Connection : F[i][c] = Step(c, i)
  BY <1>n DEF ReleaseSteps
<1> HIDE DEF D, Step, F
<1>4. \A s \in SUBSET (1 .. n) : s # {} => Max(s) \in 1 .. n /\ s \ {Max(s)} \in SUBSET (1 .. n)
  BY MaxBelongs
<1>5. Begun \in Connection /\ ClosedBy(F, n, Connection)
  BY <1>2, <1>3 DEF ClosedBy
<1>6. PICK g : IsFold(g, F, Begun, n, Connection)
  BY ONLY <1>n, <1>5, FoldExists
<1>7. \A s \in SUBSET (1 .. n) :
         g[s] = IF s = {} THEN Begun ELSE Step(g[s \ {Max(s)}], Max(s))
  BY <1>3, <1>4, <1>6 DEF FoldStep, IsFold
<1>8. g = Body(g)
  BY <1>n, <1>6, <1>7 DEF IsFold
<1> HIDE DEF Body
<1>9. PICK iter : iter = Body(iter) /\ ReleasedAll(t) = iter[1 .. n]
  BY <1>1, <1>n, <1>8
<1>10. iter[{}] = Begun /\ \A s \in SUBSET (1 .. n) : s # {} =>
          iter[s] = Step(iter[s \ {Max(s)}], Max(s))
  BY <1>n, <1>9 DEF Body
<1>11. Iterates(iter, F, Begun, n, Connection)
  BY <1>3, <1>4, <1>10 DEF Iterates
<1>12. PICK v : IsRun(v, F, Begun, n, Connection) /\ v[n] = iter[1 .. n]
  BY ONLY <1>n, <1>5, <1>11, FoldRuns
<1> QED  BY <1>n, <1>9, <1>12 DEF F

\* After k of the buffered events: those behind the cursor of the snapshot are sent.
SentUpTo(t, k, c) ==
    /\ Sending(c) /\ c.gw = conn.gw /\ c.snap = conn.read
    /\ \A i \in 1 .. k : t[i] > conn.cursor => t[i] \in c.got
    /\ c.last = conn.cursor \/ \E i \in 1 .. k : c.last = t[i]

LEMMA BegunIsSending ==
    ASSUME GatewayInv, FinishSnapshot,
           Enqueued(conn, [version |-> conn.read, bySnapshot |-> TRUE]).pc # "none",
           NEW t
    PROVE  SentUpTo(t, 0, Begun)
<1> DEFINE item == [version |-> conn.read, bySnapshot |-> TRUE]
<1>1. /\ conn.pc = "finish" /\ conn \in Connection /\ view \in Item /\ ConnInv /\ PageInv
      /\ events \in Seq(Nat) /\ Len(conn.queue) <= QueueSize
  BY DEF FinishSnapshot, GatewayInv, Types, Bounds
<1>2. /\ conn.read \in Nat /\ conn.cursor \in Nat /\ conn.queue \in Seq(Item)
      /\ conn.read <= fact /\ conn.cursor <= Len(events) /\ conn.subscribed
  BY <1>1 DEF ConnInv, Connection
<1>3. item \in Item /\ item.bySnapshot /\ item.version = conn.read
  BY <1>2 DEF Item
<1> HIDE DEF item
<1>4. Enqueued(conn, item) = [conn EXCEPT !.queue = Append(@, item)] /\ Len(conn.queue) < QueueSize
  BY <1>1, GatewayAssumption DEF Enqueued, Closed, NoConn, item
<1>5. Append(conn.queue, item) \in Seq(Item) /\ Len(Append(conn.queue, item)) = Len(conn.queue) + 1
  BY <1>2, <1>3
<1>6. Begun = [conn EXCEPT !.queue = Append(conn.queue, item), !.last = conn.cursor,
                  !.loading = FALSE, !.buffer = <<>>, !.snap = conn.read, !.got = {},
                  !.pc = "idle"]
  BY <1>1, <1>4 DEF Begun, Barrier, item, Connection
<1>e. Begun = [pc |-> "idle", gw |-> conn.gw, subscribed |-> conn.subscribed,
               loading |-> FALSE, buffer |-> <<>>, last |-> conn.cursor,
               cursor |-> conn.cursor, read |-> conn.read,
               queue |-> Append(conn.queue, item), snap |-> conn.read, got |-> {}]
  BY <1>1, <1>6 DEF Connection
<1>7. /\ Begun \in Connection /\ Begun.queue = Append(conn.queue, item) /\ Begun.pc = "idle"
      /\ Begun.last = conn.cursor /\ Begun.buffer = <<>> /\ Begun.snap = conn.read
      /\ Begun.got = {} /\ ~Begun.loading /\ Begun.subscribed /\ Begun.gw = conn.gw
  BY <1>1, <1>2, <1>5, <1>e DEF Connection
<1>8. Shown(view, conn.queue)[Len(conn.queue) + 1].version <= item.version
  <2>1. Len(conn.queue) + 1 \in 1 .. Len(conn.queue) + 1
    BY <1>2
  <2> QED  BY <1>1, <1>3, <2>1 DEF PageInv, PageOf
<1>9. PageOf(view, Begun)
  BY <1>1, <1>2, <1>3, <1>7, <1>8, QueueGrows DEF PageInv
<1>10. Sending(Begun)
  BY <1>1, <1>2, <1>4, <1>5, <1>7, <1>9, GatewayAssumption DEF Sending, Range
<1> QED  BY <1>7, <1>10 DEF SentUpTo

LEMMA ReleaseSends ==
    ASSUME GatewayInv, FinishSnapshot, NEW t \in Seq(Nat), Range(t) \subseteq Ids,
           \A i, j \in DOMAIN t : i < j => t[i] <= t[j],
           NEW k \in Nat, k + 1 <= Len(t), NEW c, c = NoConn \/ SentUpTo(t, k, c)
    PROVE  Released(c, t[k + 1]) = NoConn \/ SentUpTo(t, k + 1, Released(c, t[k + 1]))
<1> DEFINE id == t[k + 1]
<1>1. /\ Len(t) \in Nat /\ DOMAIN t = 1 .. Len(t) /\ k + 1 \in 1 .. Len(t)
      /\ \A i \in 1 .. k : i \in 1 .. Len(t) /\ i < k + 1 /\ i \in 1 .. k + 1
      /\ \A i \in 1 .. k + 1 : i \in 1 .. k \/ i = k + 1
      /\ k + 1 \in 1 .. k + 1
  OBVIOUS
<1>2. id \in Ids /\ id \in Nat /\ \A i \in 1 .. k : t[i] <= id
  BY <1>1 DEF Range
<1> HIDE DEF id
<1>3. CASE c = NoConn
  BY <1>3 DEF Released, NoConn
<1>4. CASE SentUpTo(t, k, c) /\ id <= conn.cursor
  <2>1. Released(c, id) = c
    BY <1>4 DEF Released, Barrier
  <2>2. ~(id > conn.cursor)
    BY <1>2, <1>4 DEF GatewayInv, Types, Connection
  <2> QED  BY <1>1, <1>4, <2>1, <2>2 DEF SentUpTo, id
<1>5. CASE SentUpTo(t, k, c) /\ ~(id <= conn.cursor)
  <2>1. Sending(c) /\ c.pc # "none" /\ c \in Connection
    BY <1>5 DEF SentUpTo, Sending
  <2>2. c.last <= id
    <3>1. conn.cursor \in Nat
      BY DEF GatewayInv, Types, Connection
    <3>2. conn.cursor <= id
      BY <1>2, <1>5, <3>1
    <3>3. c.last = conn.cursor \/ \E i \in 1 .. k : c.last = t[i]
      BY <1>5 DEF SentUpTo
    <3> QED  BY <1>2, <3>2, <3>3
  <2>3. Released(c, id) = SentEvent(c, id)
    BY <1>5, <2>1 DEF Released, Barrier
  <2>4. CASE SentEvent(c, id) # NoConn
    <3>1. /\ SentEvent(c, id) =
                [c EXCEPT !.queue = Append(@, Event(id)), !.last = id, !.got = @ \cup {id}]
          /\ Sending(SentEvent(c, id))
      BY <1>2, <2>1, <2>2, <2>4, EventIsSent
    <3>2. /\ SentEvent(c, id).last = id /\ SentEvent(c, id).got = c.got \cup {id}
          /\ SentEvent(c, id).gw = c.gw /\ SentEvent(c, id).snap = c.snap
      BY <2>1, <3>1 DEF Connection
    <3> QED  BY <1>1, <1>5, <2>3, <3>1, <3>2 DEF SentUpTo, id
  <2> QED  BY <2>3, <2>4 DEF id
<1> QED  BY <1>3, <1>4, <1>5

\* All of the buffer.
LEMMA SnapshotIsFinished ==
    ASSUME GatewayInv, FinishSnapshot, conn' # NoConn
    PROVE  SentUpTo(Sorted(conn.buffer), Len(conn.buffer), conn')
<1>1. /\ conn.buffer \in Seq(Nat) /\ Range(conn.buffer) \subseteq Ids /\ conn' = Finished
  BY DEF GatewayInv, Types, Connection, ConnInv, FinishSnapshot
<1>t. PICK t : t = Sorted(conn.buffer)
  OBVIOUS
<1>2. /\ t \in Seq(Nat) /\ Len(t) = Len(conn.buffer) /\ Range(t) \subseteq Ids
      /\ \A i, j \in DOMAIN t : i < j => t[i] <= t[j]
  BY <1>1, <1>t, SortedSorts DEF Sorts
<1>3. /\ Enqueued(conn, [version |-> conn.read, bySnapshot |-> TRUE]).pc # "none"
      /\ conn' = ReleasedAll(t)
  BY <1>1, <1>t DEF Finished, ReleasedAll, Released, Begun, Closed
<1>4. SentUpTo(t, 0, Begun)
  BY <1>3, BegunIsSending
<1>5. Begun \in Connection
  BY <1>4 DEF SentUpTo, Sending
<1>6. PICK v : IsRun(v, ReleaseSteps(t), Begun, Len(t), Connection) /\ v[Len(t)] = ReleasedAll(t)
  BY <1>2, <1>5, ReleaseRuns
<1>7. /\ v[0] = Begun
      /\ \A k \in 1 .. Len(t) : v[k] = Released(v[k - 1], t[k])
  <2>1. /\ v[0] = Begun /\ v \in [0 .. Len(t) -> Connection]
        /\ \A k \in 1 .. Len(t) : v[k] = ReleaseSteps(t)[k][v[k - 1]]
    BY <1>6 DEF IsRun
  <2>2. \A k \in 1 .. Len(t) : k - 1 \in 0 .. Len(t)
    BY <1>2
  <2>3. \A k \in 1 .. Len(t) : v[k - 1] \in Connection
    BY <2>1, <2>2
  <2> QED  BY <2>1, <2>3 DEF ReleaseSteps
<1> DEFINE K == {k \in Nat : k <= Len(t) => v[k] = NoConn \/ SentUpTo(t, k, v[k])}
<1>8. 0 \in K
  BY <1>4, <1>7
<1>9. ASSUME NEW k \in Nat, k \in K PROVE k + 1 \in K
  <2>1. SUFFICES ASSUME k + 1 <= Len(t) PROVE v[k + 1] = NoConn \/ SentUpTo(t, k + 1, v[k + 1])
    OBVIOUS
  <2>2. v[k] = NoConn \/ SentUpTo(t, k, v[k])
    BY <1>2, <1>9, <2>1
  <2>3. v[k + 1] = Released(v[k], t[k + 1])
    <3>1. k + 1 \in 1 .. Len(t) /\ (k + 1) - 1 = k
      BY <1>2, <2>1
    <3> QED  BY <1>7, <3>1
  <2> QED  BY <1>2, <2>1, <2>2, <2>3, ReleaseSends
<1>10. Len(t) \in K
  <2>1. Len(t) \in Nat
    BY <1>2
  <2> HIDE DEF K
  <2> QED  BY <1>8, <1>9, <2>1, NatSetInduction
<1> QED  BY <1>2, <1>3, <1>6, <1>10, <1>t

LEMMA FinishKeeps ==
    ASSUME GatewayInv, FinishSnapshot
    PROVE  GatewayInv'
<1>1. /\ UNCHANGED <<projection, group, lease, gw, view, failed, ticket>>
      /\ conn.pc = "finish"
  BY DEF FinishSnapshot, consumer
<1>2. /\ view \in Item /\ conn \in Connection /\ events \in Seq(Nat)
      /\ ticket \in {"none", "valid", "expired"} /\ ConnInv /\ CoverInv
      /\ Ids = 1 .. Len(events)
  BY DEF GatewayInv, Types, Bounds, Ids
<1>3. UNCHANGED <<events, fact, Ids>>
  BY <1>1 DEF projection, Ids
<1>4. CASE conn' = NoConn
  BY <1>1, <1>2, <1>4, ConnectionCloses
<1>5. CASE conn' # NoConn
  <2> DEFINE t == Sorted(conn.buffer)
             n == Len(conn.buffer)
  <2>1. SentUpTo(t, n, conn')
    BY <1>5, SnapshotIsFinished
  <2>2. Len(t) = n /\ Range(t) = Range(conn.buffer) /\ t \in Seq(Nat)
    BY <1>2, SortedSorts DEF Sorts, Connection
  <2> HIDE DEF t, n
  <2>3. /\ conn' \in Connection /\ conn'.pc = "idle" /\ conn'.subscribed /\ ~conn'.loading
        /\ Len(conn'.queue) <= QueueSize /\ Len(conn'.buffer) <= BufferSize
        /\ Range(conn'.buffer) \subseteq Ids /\ conn'.got \subseteq Ids
        /\ conn'.last <= Len(events) /\ PageOf(view, conn')
        /\ conn'.gw = conn.gw /\ conn'.snap = conn.read
        /\ \A i \in 1 .. n : t[i] > conn.cursor => t[i] \in conn'.got
        /\ conn'.last = conn.cursor \/ \E i \in 1 .. n : conn'.last = t[i]
    BY <2>1 DEF SentUpTo, Sending
  <2>4. /\ \A x \in Range(conn.buffer) : x > conn.cursor => x \in conn'.got
        /\ conn'.last = conn.cursor \/ conn'.last \in Range(conn.buffer)
    <3>1. DOMAIN t = 1 .. n
      BY <2>2
    <3>2. Range(conn.buffer) = {t[i] : i \in 1 .. n}
      BY <2>2, <3>1 DEF Range
    <3> QED  BY <2>3, <3>2
  <2>5. /\ conn.cursor \in Nat /\ conn.cursor <= Len(events) /\ conn.loading /\ conn.subscribed
        /\ \A id \in 1 .. conn.cursor : events[id] <= conn.read
        /\ conn.pc # "none" => conn.gw \in Gateways /\ gw[conn.gw].state # "down"
    BY <1>1, <1>2 DEF ConnInv, Connection
  <2>6. ConnInv'
    BY <1>1, <1>3, <2>3, <2>5 DEF ConnInv
  <2>7. ASSUME lease = conn.gw, NEW id \in Ids \ failed, Handled(id)' \/ Passed(id)'
        PROVE  Covered(id)'
    <3>1. id \in Nat
      BY <1>2
    <3>2. Handled(id)' => Handled(id)
      BY <1>1, <2>3 DEF Handled, ToDo
    <3>3. Passed(id)' => id <= conn.cursor \/ Passed(id)
      BY <2>3, <2>4, <2>5 DEF Passed
    <3>4. Handled(id) \/ Passed(id) => id <= conn.cursor \/ id \in Range(conn.buffer)
      BY <1>1, <1>2, <2>5, <2>7 DEF CoverInv, Covered
    <3>5. CASE id <= conn.cursor
      BY <1>3, <2>3, <2>5, <3>1, <3>5, <1>2 DEF Covered
    <3>6. CASE id > conn.cursor /\ id \in Range(conn.buffer)
      BY <2>3, <2>4, <3>6 DEF Covered
    <3> QED  BY <2>5, <2>7, <3>1, <3>2, <3>3, <3>4, <3>5, <3>6
  <2>8. CoverInv'
    BY <1>1, <1>3, <2>3, <2>7 DEF CoverInv
  <2>9. PageInv'
    BY <1>1, <1>3, <2>3 DEF PageInv, PageOf
  <2> QED  BY <1>1, <1>2, <2>3, <2>6, <2>8, <2>9, ConnectionChanges
<1> QED  BY <1>4, <1>5

-----------------------------------------------------------------------------
(* The theorems.                                                           *)

LEMMA GatewayStarts ==
    ASSUME GatewayInit
    PROVE  GatewayInv
<1>1. /\ fact = 0 /\ arriving = {} /\ held = {} /\ projected = 0 /\ events = <<>>
      /\ group = [made |-> FALSE, last |-> 0, pending |-> {}] /\ lease = NoGateway
      /\ gw = [g \in Gateways |-> NewGateway] /\ ticket = "none" /\ conn = NoConn
      /\ view = [version |-> 0, bySnapshot |-> TRUE] /\ failed = {}
  BY DEF GatewayInit
<1>g. \A g \in Gateways : gw[g] = [state |-> "down", batch |-> <<>>, pc |-> "route"]
  BY <1>1 DEF NewGateway
<1>r. Range(<<>>) = {}
  BY DEF Range
<1>2. Types
  <2>e. [state |-> "down", batch |-> <<>>, pc |-> "route"] \in Gateway
    BY DEF Gateway
  <2>1. gw \in [Gateways -> Gateway]
    BY <1>1, <1>g, <2>e
  <2> QED  BY <1>1, <2>1, NoConnIsConnection DEF Types, Item
<1>3. StreamInv
  BY <1>1 DEF StreamInv, Ids
<1>4. GroupInv
  BY <1>1, <1>g, <1>r DEF GroupInv
<1>5. ConnInv /\ CoverInv
  BY <1>1, <1>r DEF ConnInv, CoverInv, NoConn
<1>6. PageInv
  BY <1>1 DEF PageInv, PageOf, Shown, NoConn
<1>7. Bounds
  BY <1>1, GatewayAssumption DEF Bounds, NoConn
<1> QED  BY <1>2, <1>3, <1>4, <1>5, <1>6, <1>7 DEF GatewayInv

LEMMA ClosingKeeps ==
    ASSUME GatewayInv, SnapshotFails \/ CloseConnection
    PROVE  GatewayInv'
<1>1. /\ UNCHANGED <<projection, group, lease, gw, view, failed, ticket>> /\ conn' = NoConn
  BY DEF SnapshotFails, CloseConnection, Closed, consumer
<1>2. ticket' \in {"none", "valid", "expired"}
  BY <1>1 DEF GatewayInv, Bounds
<1> QED  BY <1>1, <1>2, ConnectionCloses

LEMMA GatewayStep ==
    ASSUME GatewayInv, [GatewayNext]_gatewayVars
    PROVE  GatewayInv'
<1>1. CASE CommitFact \/ \E v \in 1 .. MaxFacts : Project(v) \/ ProjectFails(v)
  BY <1>1, ProjectionKeeps
<1>2. CASE \E g \in Gateways : Start(g) \/ LoseLease(g) \/ Connect(g)
  BY <1>2, StartKeeps, LoseLeaseKeeps, ConnectKeeps
<1>3. CASE ExpireLease
  BY <1>3, ExpireLeaseKeeps
<1>4. CASE \E g \in Gateways : Read(g) \/ Route(g) \/ Acknowledge(g) \/ HandleFails(g) \/ Stop(g)
  BY <1>4, ReadKeeps, RouteKeeps, AcknowledgeKeeps, HandleFailsKeeps, StopKeeps
<1>5. CASE IssueTicket \/ ExpireTicket \/ Register
  BY <1>5, TicketKeeps, RegisterKeeps
<1>6. CASE Subscribe \/ ReadCursor \/ BuildSnapshot \/ FinishSnapshot
  BY <1>6, SnapshotBegins, FinishKeeps
<1>7. CASE SnapshotFails \/ Unsubscribe \/ Send \/ CloseConnection
  BY <1>7, ClosingKeeps, UnsubscribeKeeps, SendKeeps
<1>8. CASE UNCHANGED gatewayVars
  <2>1. /\ UNCHANGED <<projection, group, lease, gw, conn, view, failed, ticket>>
        /\ UNCHANGED <<fact, arriving, held, projected, events>>
    BY <1>8 DEF gatewayVars, consumer, projection
  <2>2. /\ view' \in Item /\ conn' \in Connection /\ ticket' \in {"none", "valid", "expired"}
        /\ Len(conn'.queue) <= QueueSize /\ Len(conn'.buffer) <= BufferSize
    BY <2>1 DEF GatewayInv, Types, Bounds
  <2>3. ConnInv'
    BY <2>1 DEF GatewayInv, ConnInv, Ids
  <2>4. CoverInv'
    BY <2>1 DEF GatewayInv, CoverInv, Covered, Passed, Handled, ToDo, Ids
  <2>5. PageInv'
    BY <2>1 DEF GatewayInv, PageInv, PageOf, Ids
  <2> QED  BY <2>1, <2>2, <2>3, <2>4, <2>5, ConnectionChanges
<1> QED  BY <1>1, <1>2, <1>3, <1>4, <1>5, <1>6, <1>7, <1>8 DEF GatewayNext

\* The invariant of the realtime gateway holds in every state.
THEOREM GatewayInvariant == GatewaySpec => []GatewayInv
<1>1. GatewayInit => GatewayInv
  BY GatewayStarts
<1>2. GatewayInv /\ [GatewayNext]_gatewayVars => GatewayInv'
  BY GatewayStep
<1> QED  BY <1>1, <1>2, PTL DEF GatewaySpec

\* The queue and the buffer of a connection stay within their limits.
THEOREM GatewayTypes == GatewaySpec => []GatewayTypeOK
<1>1. GatewayInv => GatewayTypeOK
  BY DEF GatewayInv, Types, Bounds, StreamInv, GatewayTypeOK, Connection
<1> QED  BY <1>1, GatewayInvariant, PTL

\* Whatever gateway holds the lease: once the consumer group is done with an event, the
\* page that is subscribed at the holder was sent it or a snapshot that covers it, or
\* its routing has failed.
THEOREM PagesMissNothing == GatewaySpec => []NothingSkipped
<1>1. ASSUME GatewayInv PROVE NothingSkipped
  <2>1. SUFFICES ASSUME Served, NEW id \in 1 .. Len(events), Done(id), id \notin failed
                 PROVE  id \in conn.got \/ events[id] <= conn.snap
    BY DEF NothingSkipped
  <2>2. /\ conn.subscribed /\ ~conn.loading /\ lease = conn.gw /\ conn \in Connection
        /\ ConnInv /\ GroupInv /\ CoverInv /\ events \in Seq(Nat)
        /\ gw \in [Gateways -> Gateway]
    BY <1>1, <2>1 DEF Served, GatewayInv, Types
  <2>3. conn.pc = "idle" /\ conn.gw \in Gateways
    BY <2>2 DEF ConnInv, Connection
  <2>4. Range(ToDo(conn.gw)) \subseteq Range(gw[conn.gw].batch)
    <3> DEFINE b == gw[conn.gw].batch
    <3>1. b \in Seq(Nat) /\ \A i, j \in DOMAIN b : i < j => b[i] < b[j]
      BY <2>2, <2>3 DEF GroupInv, Gateway
    <3>2. gw[conn.gw].pc = "ack" => b # <<>>
      BY <2>2, <2>3 DEF GroupInv
    <3> HIDE DEF b
    <3>3. b # <<>> => Range(Tail(b)) \subseteq Range(b)
      BY <3>1, BatchFacts
    <3> QED  BY <3>2, <3>3 DEF ToDo, b
  <2>5. Range(gw[conn.gw].batch) \subseteq group.pending
    BY <2>2, <2>3 DEF GroupInv
  <2>6. Handled(id)
    BY <2>1, <2>4, <2>5 DEF Done, Handled
  <2>7. id \in Ids \ failed
    BY <2>1, <2>2 DEF Ids
  <2>8. Covered(id)
    BY <2>2, <2>6, <2>7 DEF CoverInv
  <2> QED  BY <2>3, <2>8 DEF Covered
<1> QED  BY <1>1, GatewayInvariant, PTL

\* The page falls back only from a snapshot, however the events were projected, routed and
\* queued.
THEOREM PagesGoForward == GatewaySpec => EventsGoForward
<1>1. ASSUME GatewayInv, [GatewayNext]_gatewayVars, view' # view
      PROVE  view'.version < view.version => view.bySnapshot
  <2>1. Send
    BY <1>1 DEF GatewayNext, gatewayVars, CommitFact, Project, ProjectFails, Start, LoseLease, Connect, ExpireLease,
                Read, Route, Acknowledge, HandleFails, Stop, IssueTicket, ExpireTicket, Register,
                Subscribe, ReadCursor, BuildSnapshot, FinishSnapshot, SnapshotFails, Unsubscribe,
                CloseConnection
  <2>2. /\ conn.queue # <<>> /\ view' = conn.queue[1] /\ conn.queue \in Seq(Item)
        /\ view \in Item
    BY <1>1, <2>1 DEF Send, GatewayInv, Types, Connection
  <2>3. 1 \in 1 .. Len(conn.queue) /\ {1, 2} \subseteq 1 .. Len(conn.queue) + 1 /\ 1 + 1 = 2
    BY <2>2
  <2>4. Shown(view, conn.queue)[1] = view /\ Shown(view, conn.queue)[2] = view'
    BY <2>2, <2>3 DEF Shown
  <2>5. view.bySnapshot \/ view.version <= view'.version
    BY <1>1, <2>3, <2>4 DEF GatewayInv, PageInv, PageOf
  <2>6. view.version \in Nat /\ view'.version \in Nat
    <3>1. conn.queue[1] \in Item
      BY <2>2, <2>3
    <3> QED  BY <2>2, <3>1 DEF Item
  <2> QED  BY <2>5, <2>6
<1>2. GatewayInv /\ [GatewayNext]_gatewayVars => [view'.version < view.version => view.bySnapshot]_view
  BY <1>1
<1> QED  BY <1>2, GatewayInvariant, PTL DEF GatewaySpec, EventsGoForward

=============================================================================
