----------------------------- MODULE CacheHitMC -----------------------------
(***************************************************************************)
(* CacheHit for TLC: an empty body, one that fits everywhere, one that     *)
(* only the disk takes and one that is too long for both, with trailers in *)
(* between, and one of more frames than the channel holds.                 *)
(***************************************************************************)
EXTENDS CacheHit

Bodies == {<<>>, <<2, 0, 1>>, <<1, 3, 2>>, <<1, 2, 0, 1, 1, 0, 2>>, <<1, 1, 0, 1, 0, 1, 0>>}
=============================================================================
