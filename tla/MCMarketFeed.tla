------------------------------ MODULE MCMarketFeed ------------------------------
(* The subscriber of one market with two codes: an option and its underlying. *)
EXTENDS MarketFeed

=============================================================================
