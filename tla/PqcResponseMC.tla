--------------------------- MODULE PqcResponseMC ----------------------------
(* PqcResponse for TLC: readers and cancellers are model values, from the cfg. *)
EXTENDS PqcResponse
=============================================================================
