---------------------------- MODULE LedgerProps -----------------------------
(***************************************************************************)
(* What the ledger promises, and what it keeps under concurrent requests.  *)
(***************************************************************************)
EXTENDS Ledger

\* Type invariant: every request, lock, row and balance is of its kind.
TypeOK ==
  /\ rows \in [Rows -> Transaction]
  /\ nextRow \in 1 .. MaxRows + 1
  /\ balance \in [Wallets -> Int]
  /\ status \in [Wallets -> {"active", "archived", "gone"}]
  /\ holder \in [Keys -> Requests \cup {Nobody}]
  /\ request \in [Requests -> Request]
  /\ stale \in BOOLEAN
  /\ begun \in Nat
  /\ flips \in Nat

\* scripts/test_balance_invariant.sh: accounts.balance == SUM(signed
\* transaction amounts) per account, under concurrent load.
BalanceIsLedger == \A w \in Wallets : balance[w] = LedgerSum(w)

\* The balances are the sums of the rows as long as no write was committed
\* from a row that had changed since the request read it on the pool: the
\* unlocked read is the only way the cached balance drifts.
FreshBalanceIsLedger == ~stale => BalanceIsLedger

\* As long as no write was stale, the two wallets of a transfer differ.
FreshTransfersMoveMoney ==
  ~stale => \A i \in Rows :
    rows[i].class = "transfer" /\ WalletsOf(rows[i]) # {} => rows[i].out # rows[i].in

\* Requests never deadlock unless one of them takes locks out of order: a
\* single row that changes wallet (old, then new), a linked write, or an edit
\* that sends a private note (row, then wallets).
CyclesNeedAnOutOfOrderLocker ==
  \A S \in SUBSET Requests : WaitCycle(S) =>
    \E r \in S : \/ request[r].linked
                 \/ request[r].noted
                 \/ request[r].op = "edit" /\ request[r].first # NoWallet

RowsIn(w) == {i \in Rows : w \in WalletsOf(rows[i])}

\* An archived wallet is read-only for new money: whatever was in flight when
\* it was archived, no row enters it.
ArchivedTakesNothingIn ==
  [][\A w \in Wallets : status[w] = "archived" => RowsIn(w)' \subseteq RowsIn(w)]_vars

\* Every request is answered: it commits or is rolled back.
EveryRequestEnds == \A r \in Requests : request[r].pc = "locking" ~> request[r].pc = "idle"

-----------------------------------------------------------------------------
(* Why these hold: the inductive invariant of LedgerProofs.                *)

\* Opening and adjustment rows have one wallet, transfers two different ones.
OneWallet(t)  == t.class = "system" => NoWallet \in {t.out, t.in}
TwoWallets(t) == t.class = "transfer" /\ t.out = t.in => t.out = NoWallet

\* The tables a behaviour starts from are tables the program wrote.
ASSUME SeedsAreSound == \A s \in Seeds : \A i \in Rows : OneWallet(s[i]) /\ TwoWallets(s[i])

\* An id is given once: a row waiting to be inserted is nobody else's.
InsertsAreNew ==
  /\ \A i \in Rows : rows[i] # NoRow => i < nextRow
  /\ \A r \in Requests : request[r].row < nextRow
  /\ \A r \in Requests : request[r].op = "insert" =>
       /\ ~request[r].linked
       /\ request[r].row \in Rows
       /\ rows[request[r].row] = NoRow
       /\ \A s \in Requests \ {r} : request[s].row # request[r].row
       /\ OneWallet(request[r].old)
       /\ TwoWallets(request[r].old)

\* An edit was checked against the row it read, and rows keep their class.
EditsAreChecked ==
  \A r \in Requests :
    /\ request[r].op \in {"edit", "delete"} => request[r].row \in Rows
    /\ request[r].linked =>
         /\ request[r].op \in {"edit", "delete"}
         /\ \A i \in Rows : <<"row", i>> \in request[r].need => i = request[r].row
    /\ request[r].op = "edit" =>
         /\ rows[request[r].row].class # "system"
         /\ request[r].linked => rows[request[r].row].class # "transfer"
         /\ TwoWallets(UpdateRow(request[r].old, request[r].change))

\* The wallets a write adds money to or takes it from are gated, and stay
\* active once locked.
GatesHold ==
  \A r \in Requests :
    /\ request[r].op = "insert" => request[r].gated = WalletsOf(request[r].old)
    /\ request[r].op = "edit" => request[r].gated = Sent(request[r].change)
    /\ request[r].op \in {"delete", "drop"} => request[r].gated = {}
    /\ \A w \in request[r].gated :
         \/ <<"wallet", w>> \in request[r].need
         \/ request[r].linked /\ <<"row", request[r].row>> \in request[r].need
         \/ holder[<<"wallet", w>>] = r /\ status[w] = "active"

\* A wallet is deleted under its lock.
DropsHoldTheWallet ==
  \A r \in Requests : request[r].op = "drop" /\ request[r].pc = "locking" =>
    /\ request[r].first \in Wallets
    /\ \A w \in Wallets : <<"wallet", w>> \in request[r].need => w = request[r].first
    /\ \/ <<"wallet", request[r].first>> \in request[r].need
       \/ holder[<<"wallet", request[r].first>>] = r

\* Each request is what its checks made it, and its locks protect it: ids are
\* given once, edits were checked, a gated wallet stays active until the commit,
\* and a wallet is deleted under its own lock.
Structure == InsertsAreNew /\ EditsAreChecked /\ GatesHold /\ DropsHoldTheWallet

\* The rows are rows the program writes.
RowsAreSound ==
  /\ \A i \in Rows : OneWallet(rows[i])
  /\ ~stale => \A i \in Rows : TwoWallets(rows[i])

IInv == TypeOK /\ Structure /\ RowsAreSound /\ FreshBalanceIsLedger
=============================================================================
