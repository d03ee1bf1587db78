-------------------------- MODULE MCRiskLiquidation --------------------------
(* Two risk workers, an account with a few lots.                           *)
EXTENDS RiskLiquidation

=============================================================================
