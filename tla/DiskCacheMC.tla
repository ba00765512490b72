---------------------------- MODULE DiskCacheMC -----------------------------
(***************************************************************************)
(* DiskCache for TLC: a small body that the memory tier takes and a large  *)
(* one that it does not, with a budget that two entries exceed.            *)
(***************************************************************************)
EXTENDS DiskCache

CONSTANTS small, large, odd, huge

TwoSizes == (small :> 1) @@ (large :> 2)
ThreeSizes == (small :> 1) @@ (large :> 2) @@ (odd :> 2)
\* No tier takes the huge one.
WithHuge == (small :> 1) @@ (large :> 2) @@ (huge :> 3)
Symmetry == Permutations(Procs) \cup Permutations(Keys)
=============================================================================
