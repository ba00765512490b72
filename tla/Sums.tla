-------------------------------- MODULE Sums ---------------------------------
(***************************************************************************)
(* Sums over sequences of numbers: the bytes of the frames of a body and   *)
(* of the entries of an index, the days of the months of a year.           *)
(***************************************************************************)
EXTENDS Naturals, Sequences

\* The sum of a sequence of numbers.
Total(s) ==
    LET upTo[n \in 0 .. Len(s)] == IF n = 0 THEN 0 ELSE upTo[n - 1] + s[n]
    IN upTo[Len(s)]
=============================================================================
