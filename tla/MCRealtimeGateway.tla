--------------------------- MODULE MCRealtimeGateway ---------------------------
(* RealtimeGateway for TLC: the instances are in the configurations. *)
EXTENDS RealtimeGateway

=============================================================================
