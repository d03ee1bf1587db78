---------------------------- MODULE MCRealtimePnl ----------------------------
(* Two instances of the worker for one account with one contract.           *)
EXTENDS RealtimePnl

=============================================================================
