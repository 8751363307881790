--------------------------- MODULE MCIdempotency ----------------------------
(* A save sent three times, and another request that reuses its key. *)
EXTENDS Idempotency, TLC

CONSTANTS a1, a2, a3, b1, h1, h2

MCHashOf == (a1 :> h1) @@ (a2 :> h1) @@ (a3 :> h1) @@ (b1 :> h2)

\* The three sends of the one save differ in nothing.
Sends == Permutations({a1, a2, a3})
=============================================================================
