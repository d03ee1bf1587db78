---------------------------- MODULE MCOrderLedger ----------------------------
(***************************************************************************)
(* Small instances of OrderLedger.  Rates are chosen so that no margin and *)
(* no commission divides evenly over the lots of an order.                 *)
(***************************************************************************)
EXTENDS OrderLedgerRefinement, TLC

CONSTANTS c1, c2, c3, t1, t2

MCClientIds == {c1, c2, c3}
MCTicks == {t1, t2}

ClientSymmetry == Permutations(MCClientIds)

MCFeeRate == [OPEN |-> 3, CLOSE |-> 2, CLOSE_YESTERDAY |-> 2, CLOSE_TODAY |-> 5]

\* One tick trades at the limit, the other two lots through it; two stale
\* matches together exceed what an order has left.
MCQuoteLong ==
    t1 :> [bid |-> 11, bidVolume |-> 1, ask |-> 11, askVolume |-> 2] @@
    t2 :> [bid |-> 13, bidVolume |-> 2, ask |-> 9, askVolume |-> 2]

\* A detail opened on an earlier day, partly closed, revalued at 10.
MCOpeningDetails ==
    << [today |-> FALSE, price |-> 8, base |-> 10, original |-> 3,
        remaining |-> 2, frozen |-> 0, margin |-> 7] >>

MCRequestsLong ==
    { [offset |-> "OPEN", limit |-> 11, volume |-> 3],
      [offset |-> "CLOSE", limit |-> 11, volume |-> 3],
      [offset |-> "CLOSE_TODAY", limit |-> 11, volume |-> 1] }

=============================================================================
