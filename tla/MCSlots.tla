------------------------------ MODULE MCSlots -------------------------------
(* A setting with two dates, two requests in flight. *)
EXTENDS Slots, TLC

CONSTANTS r1, r2

\* The request slots are alike.
Alike == Permutations({r1, r2})
=============================================================================
