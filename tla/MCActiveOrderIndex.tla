-------------------------- MODULE MCActiveOrderIndex --------------------------
(* ActiveOrderIndex with orders that share one contract.                   *)
EXTENDS ActiveOrderIndex

MCContractOf == [o \in 1 .. OrderCount |-> "IF2509"]

=============================================================================
