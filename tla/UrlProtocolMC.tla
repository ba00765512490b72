--------------------------- MODULE UrlProtocolMC ----------------------------
(* UrlProtocol for TLC: its loads are model values, given in the cfg files. *)
EXTENDS UrlProtocol
=============================================================================
