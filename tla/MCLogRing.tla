----------------------------- MODULE MCLogRing -----------------------------
(***************************************************************************)
(* What the model-checking run of LogRing writes.                          *)
(***************************************************************************)
EXTENDS LogRing

CONSTANTS x1, x2

(* Every string of up to three bytes over a letter and the newline, some
   with a second letter, and one with more lines than the ring has room
   for. *)
Strings == UNION {[1 .. n -> {x1, NL}] : n \in 0 .. 3}
           \cup {<<x2, NL>>, <<x2, NL, x1>>, <<x1, NL, x2, NL, NL, x1>>}
=============================================================================
