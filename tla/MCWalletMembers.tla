--------------------------- MODULE MCWalletMembers ---------------------------
(* One wallet, three users, two requests in flight. *)
EXTENDS WalletMembers, TLC

CONSTANTS u1, u2, u3, r1, r2

\* The users besides the creator, and the request slots, are alike.
Alike == Permutations({u2, u3}) \cup Permutations({r1, r2})
=============================================================================
