--------------------------- MODULE MCCashValuation ---------------------------
(***************************************************************************)
(* Two accounts that hold the same security.                               *)
(***************************************************************************)
EXTENDS CashValuation, TLC

CONSTANTS pos1, pos2, acc1, acc2, stock, w1, w2

MCPositions == {pos1, pos2}
MCAccounts == {acc1, acc2}
MCAccountOf == pos1 :> acc1 @@ pos2 :> acc2
MCContractOf == pos1 :> stock @@ pos2 :> stock
MCWriters == {w1, w2}

=============================================================================
