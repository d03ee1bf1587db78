-------------------------- MODULE MCDailySettlement --------------------------
(* A small instance of DailySettlement: three orders of different kinds and *)
(* one operator, who repeats the command.                                  *)
EXTENDS DailySettlement, TLC

CONSTANTS o1, o2, o3, r1

ThreeOrders == {o1, o2, o3}
KindsMixed == o1 :> "LIMIT" @@ o2 :> "MARKET" @@ o3 :> "BOND"
\* The limit order's contract has no tick on the second day, and trading in the
\* bond is suspended hours before the close of that day.
SomeTicksMissing ==
    o1 :> << "CLOSE", "NONE" >> @@ o2 :> << "CLOSE", "CLOSE" >>
      @@ o3 :> << "CLOSE", "EARLY" >>
MarketInTwoLots == o1 :> 1 @@ o2 :> 2 @@ o3 :> 1
OneRunner == {r1}
AnyStep == Steps \ {"IDLE"}
=============================================================================
