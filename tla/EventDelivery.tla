---------------------------- MODULE EventDelivery ----------------------------
(***************************************************************************)
(* What the transactional outbox promises the consumers of the order       *)
(* stream: whatever is published was committed with its business change,   *)
(* and what was committed is published, at least once and in any order,    *)
(* unless it is reported as lost for an operator to look after.            *)
(* OutboxPublisher implements it; ActiveOrderIndex relies on it.           *)
(***************************************************************************)
EXTENDS Naturals, Sequences, FiniteSets

CONSTANTS
    Events,
    MaxCopies      \* bound: how often one event is published

VARIABLES
    committed,     \* events whose business transaction has committed
    stream,        \* events in the order they were published
    lost           \* events that were given up

vars == << committed, stream, lost >>

Published == {stream[m] : m \in DOMAIN stream}
Copies(e) == Cardinality({m \in DOMAIN stream : stream[m] = e})

Init == committed = {} /\ stream = << >> /\ lost = {}

\* One transaction commits a business change with all its events.
Commit(new) ==
    /\ committed' = committed \cup new
    /\ UNCHANGED << stream, lost >>

Publish(e) ==
    /\ e \in committed
    /\ Copies(e) < MaxCopies
    /\ stream' = Append(stream, e)
    /\ UNCHANGED << committed, lost >>

\* One worker may give up an event that another still publishes, or revives.
GiveUp(e) ==
    /\ e \in committed
    /\ lost' = lost \cup {e}
    /\ UNCHANGED << committed, stream >>

Revive(e) ==
    /\ lost' = lost \ {e}
    /\ UNCHANGED << committed, stream >>

Next ==
    \/ \E e \in Events : Publish(e) \/ GiveUp(e) \/ Revive(e)
    \/ \E new \in SUBSET (Events \ committed) : Commit(new)

Spec == Init /\ [][Next]_vars

\* An event is not just forgotten.
Outcome(e) == e \notin Published \cup lost /\ (Publish(e) \/ GiveUp(e))

FairSpec == Spec /\ \A e \in Events : WF_vars(Outcome(e))

=============================================================================
