----------------------------- MODULE TeePromise -----------------------------
(***************************************************************************)
(* What the tee of a cache miss promises (cache.rs, put_tee's doc): the    *)
(* reader hears the frames of the body in order, and hears a clean end   *)
(* only after the last of them; the body is published in the cache at most *)
(* once, whole, never once the upstream failed, and never behind the back  *)
(* of a reader that has seen the end.                                      *)
(***************************************************************************)
EXTENDS Naturals

VARIABLES length,     \* frames of the body
          heard,      \* frames the reader has
          end,        \* "open", "eof", "err", or "left" when it went away
          published   \* whether a get finds the body

promise == <<length, heard, end, published>>

Init == length \in Nat /\ heard = 0 /\ end = "open" /\ published = FALSE

Hear == end = "open" /\ heard < length /\ heard' = heard + 1 /\ UNCHANGED <<length, end, published>>

\* The upstream's error is the last thing heard: nothing is published.
HearError == end = "open" /\ ~published /\ end' = "err" /\ UNCHANGED <<length, heard, published>>

HearEnd == end = "open" /\ heard = length /\ end' = "eof" /\ UNCHANGED <<length, heard, published>>

Leave == end # "left" /\ end' = "left" /\ UNCHANGED <<length, heard, published>>

Publish ==
    /\ end \in {"open", "left"} /\ ~published
    /\ published' = TRUE
    /\ UNCHANGED <<length, heard, end>>

Next == Hear \/ HearError \/ HearEnd \/ Leave \/ Publish

Spec == Init /\ [][Next]_promise
=============================================================================
