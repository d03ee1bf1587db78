---------------------------- MODULE MCTickMatching ----------------------------
(* Orders of two lots that buy at a limit of 1 or at the market; a quote    *)
(* offers one lot, within the limit or beyond it.                          *)
EXTENDS TickMatching

MCPrices == {1, 2}
=============================================================================
