--------------------------- MODULE InflightGateMC ---------------------------
(* InflightGate for TLC: callers and hosts are model values, given in the cfg. *)
EXTENDS InflightGate
=============================================================================
