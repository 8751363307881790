------------------------------ MODULE MCLedger ------------------------------
(* The ledger on two wallets: wallet 1 shared by two users, wallet 2 private. *)
EXTENDS LedgerProps, TLC

CONSTANTS u1, u2

\* Tables earlier requests left: a row and a transfer, a debt entry's row and an
\* opening balance, a deposit by the other member and a row without a wallet.
MCSeeds ==
  { << single("plain", "out", u1, 1, 2), transfer(u1, 2, 1, 2), NoRow >>,
    << single("debt", "in", u1, 1, 1), single("system", "in", u1, 2, 2), NoRow >>,
    << single("onesided", "in", u2, 2, 1), single("plain", "out", u1, 1, NoWallet), NoRow >> }

\* One of them, for the liveness run.
MCSeedsSmall == { << single("debt", "out", u1, 1, 1), transfer(u1, 2, 1, 2), NoRow >> }

MCMembers == (1 :> {u1, u2}) @@ (2 :> {u1})
=============================================================================
