------------------------ MODULE OrderLedgerRefinement ------------------------
(***************************************************************************)
(* The order rows of OrderLedger, seen through the book of OrderLifecycle. *)
(***************************************************************************)
EXTENDS OrderLedger

PhaseOf(status) ==
    CASE status = "NONE"                    -> "none"
      [] status \in ActiveStatuses          -> "working"
      [] status = "FILLED"                  -> "filled"
      [] OTHER                              -> "cancelled"

EntryOf(order) == [phase |-> PhaseOf(order.status), left |-> order.remaining,
                   done |-> order.traded, margin |-> order.frozenMargin]

Lifecycle == INSTANCE OrderLifecycle
                 WITH OrderIds <- ClientIds,
                      book <- [c \in ClientIds |-> EntryOf(orders[c])]

\* Order entry, settlement and cancellation together treat every order row as
\* its lifecycle promises: no fill exceeds the remainder or the reserve, the
\* reserve ends with the order, and the end is reached once.
ImplementsLifecycle == Lifecycle!Spec

=============================================================================
