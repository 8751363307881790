------------------------------- MODULE Ledger -------------------------------
(***************************************************************************)
(* Wallets and transactions (internal/modules/accounts, transactions).     *)
(*                                                                         *)
(* accounts.balance caches the signed sum of the wallet's transaction      *)
(* rows.  A write request reads the row it edits from the connection POOL, *)
(* without a lock; then, in its own database transaction, it locks the     *)
(* wallet rows it will move, writes the difference between what it READ    *)
(* and what it wants into the balances, writes the row, and commits.       *)
(*                                                                         *)
(* A request is modelled from that read on: Begin... is the pool read with *)
(* the authorization that follows, TakeLock one SELECT .. FOR UPDATE (or   *)
(* the row lock an UPDATE / DELETE takes), Commit the writes.  The writes  *)
(* are one step because READ COMMITTED hides them until the commit and     *)
(* every row they change stays locked until then.                          *)
(*                                                                         *)
(* A transaction is a record with an `out' and an `in' wallet: an expense  *)
(* has only `out', an income only `in', a transfer (two table rows with    *)
(* one transfer_group_id) has both.                                        *)
(***************************************************************************)
EXTENDS Integers, FiniteSets

CONSTANTS
  Wallets,       \* wallet ids: positive integers, ordered like uuids
  Users,
  Members,       \* [Wallets -> SUBSET Users]: active memberships
  Requests,      \* HTTP requests in flight at once
  Amounts,       \* amounts a client sends
  MaxRows,       \* bound: transaction ids
  Seeds,         \* the tables a behaviour may start from: what earlier requests left
  MaxRequests,   \* bound: requests begun in a behaviour
  MaxFlips,      \* bound: archive / restore statements
  Nobody         \* no lock holder, no author

NoWallet == 0    \* account_id NULL
Keep     == -1   \* the field is not sent

ASSUME WalletsAssumption == Wallets \subseteq Nat \ {0}
ASSUME MembersAssumption == Members \in [Wallets -> SUBSET Users]
ASSUME AmountsAssumption == Amounts \subseteq Nat \ {0}
ASSUME BoundsAssumption  == MaxRows \in Nat /\ MaxRequests \in Nat /\ MaxFlips \in Nat
ASSUME NobodyAssumption  == Nobody \notin Requests /\ Nobody \notin Users

Rows    == 1 .. MaxRows
Classes == {"plain", "onesided", "debt", "system", "transfer"}
Dirs    == {"out", "in", "both"}
Keys    == ({"wallet"} \X Wallets) \cup ({"row"} \X Rows)

NoRow == [class |-> "none", dir |-> "none", author |-> Nobody,
          amt |-> 0, out |-> NoWallet, in |-> NoWallet]

Transaction ==
  [class : Classes \cup {"none"}, dir : Dirs \cup {"none"}, author : Users \cup {Nobody},
   amt : Nat, out : Wallets \cup {NoWallet}, in : Wallets \cup {NoWallet}]

Tables == [Rows -> Transaction]

ASSUME SeedsAssumption == Seeds \subseteq Tables

UpdateRequest ==
  [amt : Amounts \cup {Keep}, out : Wallets \cup {NoWallet, Keep},
   in : Wallets \cup {NoWallet, Keep}]

NoChange == [amt |-> Keep, out |-> Keep, in |-> Keep]

Request ==
  [pc : {"idle", "locking"}, op : {"insert", "edit", "delete", "drop"},
   linked : BOOLEAN, noted : BOOLEAN, user : Users \cup {Nobody}, row : Rows \cup {0},
   old : Transaction, change : UpdateRequest, need : SUBSET Keys,
   gated : SUBSET Wallets, first : Wallets \cup {NoWallet}]

Idle == [pc |-> "idle", op |-> "drop", linked |-> FALSE, noted |-> FALSE, user |-> Nobody,
         row |-> 0, old |-> NoRow, change |-> NoChange, need |-> {}, gated |-> {},
         first |-> NoWallet]

VARIABLES
  rows,      \* the committed transactions, by id (NoRow: no such row)
  nextRow,   \* next fresh id
  balance,   \* accounts.balance
  status,    \* accounts.status; "gone": the wallet is deleted
  holder,    \* who holds each row lock
  request,   \* what each request slot is doing
  stale,     \* history: a write was committed from a row that had changed since its read
  begun,     \* requests begun
  flips      \* archive / restore statements

vars == <<rows, nextRow, balance, status, holder, request, stale, begun, flips>>

-----------------------------------------------------------------------------
(* The money a row puts in a wallet, and edits of rows.                    *)

signedDelta(t, w) ==
  (IF t.in = w THEN t.amt ELSE 0) - (IF t.out = w THEN t.amt ELSE 0)

\* The running sums of f over 1 .. MaxRows.
PartialSums(f) ==
  LET s[n \in 0 .. MaxRows] == IF n = 0 THEN 0 ELSE s[n - 1] + f[n] IN s

\* SUM(signed transaction amounts) of wallet w.
LedgerSum(w) == PartialSums([i \in Rows |-> signedDelta(rows[i], w)])[MaxRows]

WalletsOf(t) == {t.out, t.in} \ {NoWallet}

Sent(c) == {c.out, c.in} \ {NoWallet, Keep}

UpdateRow(t, c) ==
  [class |-> t.class, dir |-> t.dir, author |-> t.author,
   amt |-> IF c.amt = Keep THEN t.amt ELSE c.amt,
   out |-> IF c.out = Keep THEN t.out ELSE c.out,
   in  |-> IF c.in = Keep THEN t.in ELSE c.in]

single(class, dir, u, a, w) ==
  [class |-> class, dir |-> dir, author |-> u, amt |-> a,
   out |-> IF dir = "out" THEN w ELSE NoWallet,
   in  |-> IF dir = "in" THEN w ELSE NoWallet]

transfer(u, a, src, dst) ==
  [class |-> "transfer", dir |-> "both", author |-> u, amt |-> a, out |-> src, in |-> dst]

WalletKeys(W) == {"wallet"} \X W

\* Mutant: the gate forgets the archived wallets.
GetAccountBalance_NoStatus(u, w) == u \in Members[w] /\ status[w] # "gone"

\* The gate a write passes under the wallet's lock.
GetAccountBalance(u, w) == u \in Members[w] /\ status[w] = "active"

\* The gate a write of an existing row passes on the pool, before any lock.
authorizeMutation(u, t) ==
  IF WalletsOf(t) = {} THEN t.author = u
  ELSE \A w \in WalletsOf(t) : u \in Members[w] /\ status[w] # "archived"

\* Mutant: a transfer may be edited to two equal wallets.
checkLinkedEdit_SameWallet(u, t, c) ==
  /\ t.class \in {"plain", "onesided", "debt", "transfer"}
  /\ t.class = "debt" => t.author = u
  /\ t.dir = "out" => c.in = Keep
  /\ t.dir = "in" => c.out = Keep
  /\ t.class \in {"onesided", "transfer"} => NoWallet \notin {c.out, c.in}
  /\ t.class = "debt" /\ WalletsOf(t) # {} => NoWallet \notin {c.out, c.in}

\* What may be edited of which row.
checkLinkedEdit(u, t, c) ==
  /\ t.class \in {"plain", "onesided", "debt", "transfer"}
  /\ t.class = "debt" => t.author = u
  /\ t.dir = "out" => c.in = Keep
  /\ t.dir = "in" => c.out = Keep
  /\ t.class = "onesided" => NoWallet \notin {c.out, c.in}
  /\ t.class = "debt" /\ WalletsOf(t) # {} => NoWallet \notin {c.out, c.in}
  /\ t.class = "transfer" =>
       /\ NoWallet \notin {c.out, c.in}
       /\ LET n == UpdateRow(t, c) IN n.out = n.in => n.out = NoWallet

\* What a linked write may send: a bill its book's amount; a debt entry the
\* amount and the wallet (or none) of its transaction.
linkedChanges(t) ==
  CASE t.class = "plain" -> {[NoChange EXCEPT !.amt = a] : a \in Amounts}
    [] t.class = "debt" /\ t.dir = "out" ->
         {[amt |-> a, out |-> w, in |-> Keep] : a \in Amounts, w \in Wallets \cup {NoWallet}}
    [] t.class = "debt" /\ t.dir = "in" ->
         {[amt |-> a, out |-> Keep, in |-> w] : a \in Amounts, w \in Wallets \cup {NoWallet}}
    [] OTHER -> {}

\* The wallets an edit locks.
EditLocks(t, c) ==
  IF t.class = "transfer" \/ c.out # Keep \/ c.in # Keep
    THEN WalletsOf(t) \cup Sent(c)
    ELSE IF c.amt \notin {Keep, t.amt} THEN WalletsOf(t) ELSE {}

\* A single row that changes wallet locks the old wallet first, whatever the
\* ids; everything else locks its wallets in id order.
OldWalletFirst(t, c) ==
  IF t.class # "transfer" /\ Sent(c) # {} /\ WalletsOf(t) # {}
    THEN CHOOSE w \in WalletsOf(t) : TRUE
    ELSE NoWallet

\* Mutant: a transfer locks its source wallet first.
LockedBefore_SourceFirst(q, k, j) ==
  \/ k = j
  \/ k[1] # j[1] /\ k[1] = (IF q.linked \/ q.noted THEN "row" ELSE "wallet")
  \/ k[1] = j[1] /\ k[1] = "row" /\ k[2] < j[2]
  \/ k[1] = j[1] /\ k[1] = "wallet"
     /\ (k[2] = q.old.out \/ (j[2] # q.old.out /\ k[2] < j[2]))

\* The order in which request q takes the locks it needs: an edit or delete by
\* the client takes the wallets and then the row; a linked write (a debt entry,
\* a bill, a skipped occurrence) and an edit that sends a private note lock the
\* row first.
LockedBefore(q, k, j) ==
  \/ k = j
  \/ k[1] # j[1] /\ k[1] = (IF q.linked \/ q.noted THEN "row" ELSE "wallet")
  \/ k[1] = j[1] /\ k[1] = "row" /\ k[2] < j[2]
  \/ k[1] = j[1] /\ k[1] = "wallet"
     /\ (k[2] = q.first \/ (j[2] # q.first /\ k[2] < j[2]))

NextLock(q, k) == k \in q.need /\ \A j \in q.need : LockedBefore(q, k, j)

-----------------------------------------------------------------------------
Init ==
  /\ rows \in Seeds
  /\ nextRow \in 1 .. MaxRows + 1
  /\ \A i \in Rows : i < nextRow <=> rows[i] # NoRow
  /\ balance = [w \in Wallets |-> LedgerSum(w)]
  /\ status = [w \in Wallets |-> "active"]
  /\ holder = [k \in Keys |-> Nobody]
  /\ request = [r \in Requests |-> Idle]
  /\ stale = FALSE
  /\ begun = 0
  /\ flips = 0

\* A request starts: from here on it waits for its locks.
Start(r, q) ==
  /\ begun' = begun + 1
  /\ request' = [request EXCEPT ![r] = q]
  /\ UNCHANGED <<rows, balance, status, holder, stale, flips>>

\* The shape of every insert: wallets locked in order, gated, row t written.
Insert(r, u, t) ==
  /\ nextRow <= MaxRows
  /\ nextRow' = nextRow + 1
  /\ Start(r, [Idle EXCEPT !.pc = "locking", !.op = "insert", !.user = u, !.row = nextRow,
                           !.old = t, !.need = WalletKeys(WalletsOf(t)),
                           !.gated = WalletsOf(t)])

\* POST /transactions: an expense or income (with or without a wallet), a
\* withdraw / deposit, or the transaction of a debt entry.
createSingle(r, u) ==
  \E class \in {"plain", "onesided", "debt"}, dir \in {"out", "in"},
     a \in Amounts, w \in Wallets \cup {NoWallet} :
    /\ class = "onesided" => w # NoWallet
    /\ Insert(r, u, single(class, dir, u, a, w))

\* POST /transactions with two wallets.
createTransfer(r, u) ==
  \E a \in Amounts, src, dst \in Wallets :
    src # dst /\ Insert(r, u, transfer(u, a, src, dst))

\* POST /accounts/{id}/adjust-balance (and an edit of current_balance): the
\* difference to the balance read on the pool becomes a system row.
AdjustBalance(r, u) ==
  \E w \in Wallets, new \in Amounts \cup {0} :
    /\ u \in Members[w] /\ status[w] # "gone"
    /\ new # balance[w]
    /\ Insert(r, u, IF new > balance[w]
                      THEN single("system", "in", u, new - balance[w], w)
                      ELSE single("system", "out", u, balance[w] - new, w))

\* PUT /transactions/{id}: the row is read and authorized on the pool.  Sent
\* with a private note, on the user's own book of a paper (a plain row), it
\* writes the note, and so locks the row, before any wallet.
updateRow(r, u) ==
  \E i \in Rows :
    /\ rows[i] # NoRow
    /\ authorizeMutation(u, rows[i])
    /\ \E c \in UpdateRequest, noted \in BOOLEAN :
         /\ checkLinkedEdit(u, rows[i], c)
         /\ noted => rows[i].class = "plain" /\ rows[i].author = u
         /\ Start(r, [Idle EXCEPT !.pc = "locking", !.op = "edit", !.noted = noted, !.user = u,
                !.row = i, !.old = rows[i], !.change = c,
                !.need = WalletKeys(EditLocks(rows[i], c)) \cup {<<"row", i>>},
                !.gated = Sent(c), !.first = OldWalletFirst(rows[i], c)])
    /\ UNCHANGED nextRow

\* DELETE /transactions/{id}: read and authorized on the pool.
deleteRow(r, u) ==
  \E i \in Rows :
    /\ rows[i] # NoRow
    /\ authorizeMutation(u, rows[i])
    /\ rows[i].class # "system"
    /\ rows[i].class = "debt" => rows[i].author = u
    /\ Start(r, [Idle EXCEPT !.pc = "locking", !.op = "delete", !.user = u, !.row = i,
                             !.old = rows[i],
                             !.need = WalletKeys(WalletsOf(rows[i])) \cup {<<"row", i>>}])
    /\ UNCHANGED nextRow

\* A linked write by the row's author: the row is locked first and read under
\* that lock.
linkedWrite(r, u) ==
  \E i \in Rows :
    /\ rows[i].author = u
    /\ rows[i].class # "system"
    /\ \E change \in {"delete"} \X {NoChange} \cup {"edit"} \X linkedChanges(rows[i]) :
         Start(r, [Idle EXCEPT !.pc = "locking", !.op = change[1], !.linked = TRUE, !.user = u,
                !.row = i, !.change = change[2], !.need = {<<"row", i>>},
                !.gated = Sent(change[2])])
    /\ UNCHANGED nextRow

\* DELETE /accounts/{id} by its only member: the wallet is locked; its opening
\* and adjustment rows go, its other rows lose their wallet.
dropWallet(r, u) ==
  \E w \in Wallets :
    /\ Members[w] = {u}
    /\ status[w] # "gone"
    /\ Start(r, [Idle EXCEPT !.pc = "locking", !.op = "drop", !.user = u,
                             !.need = {<<"wallet", w>>}, !.first = w])
    /\ UNCHANGED nextRow

-----------------------------------------------------------------------------
(* Locks.                                                                  *)

\* The lock can be used: the row is there, and the gate lets the write pass.
LockServes(q, k) ==
  IF k[1] = "wallet"
    THEN /\ status[k[2]] # "gone"
         /\ k[2] \in q.gated => GetAccountBalance(q.user, k[2])
    ELSE /\ rows[k[2]] # NoRow
         /\ q.linked /\ rows[k[2]].class = "transfer" => authorizeMutation(q.user, rows[k[2]])

\* What the request still needs once it holds k: a linked write now reads its
\* row, a wallet's deletion the rows of the wallet.
Locked(q, k) ==
  IF q.linked /\ k[1] = "row"
    THEN [q EXCEPT !.old = rows[k[2]],
                   !.need = WalletKeys(WalletsOf(rows[k[2]]) \cup Sent(q.change))]
    ELSE IF q.op = "drop" /\ k[1] = "wallet"
      THEN [q EXCEPT !.need = {<<"row", i>> : i \in {x \in Rows : k[2] \in WalletsOf(rows[x])}}]
      ELSE [q EXCEPT !.need = @ \ {k}]

LockAccountsForUpdate(r) ==
  \E k \in request[r].need :
    /\ NextLock(request[r], k)
    /\ holder[k] = Nobody
    /\ LockServes(request[r], k)
    /\ holder' = [holder EXCEPT ![k] = r]
    /\ request' = [request EXCEPT ![r] = Locked(@, k)]
    /\ UNCHANGED <<rows, nextRow, balance, status, stale, begun, flips>>

\* The request ends: committed or rolled back, its locks are released.
Finish(r) ==
  /\ holder' = [k \in Keys |-> IF holder[k] = r THEN Nobody ELSE holder[k]]
  /\ request' = [request EXCEPT ![r] = Idle]

\* Mutant: a refused request returns without its rollback: the connection keeps
\* the transaction, and the locks, open.
Rollback_NoDefer(r) ==
  \E k \in request[r].need :
    /\ NextLock(request[r], k)
    /\ holder[k] = Nobody
    /\ ~LockServes(request[r], k)
    /\ request' = [request EXCEPT ![r] = Idle]
    /\ UNCHANGED <<rows, nextRow, balance, status, holder, stale, begun, flips>>

\* The row or wallet is gone, or the gate refuses: rollback.
Rollback(r) ==
  \E k \in request[r].need :
    /\ NextLock(request[r], k)
    /\ holder[k] = Nobody
    /\ ~LockServes(request[r], k)
    /\ Finish(r)
    /\ UNCHANGED <<rows, nextRow, balance, status, stale, begun, flips>>

-----------------------------------------------------------------------------
(* Commits.                                                                *)

Ready(r, op) == request[r].pc = "locking" /\ request[r].op = op /\ request[r].need = {}

\* The row of q becomes t; the balances move by what q believes it changes.
Write(q, t, moved) ==
  /\ rows' = [rows EXCEPT ![q.row] = t]
  /\ balance' = [w \in Wallets |-> balance[w] + moved[w]]

CommitInsert(r) ==
  LET q == request[r] IN
    /\ Ready(r, "insert")
    /\ Write(q, q.old, [w \in Wallets |-> signedDelta(q.old, w)])
    /\ Finish(r)
    /\ UNCHANGED <<nextRow, status, stale, begun, flips>>

\* Mutant: an edit does not take the old amount back.
CommitUpdate_KeepsOldDelta(r) ==
  LET q == request[r] IN
    /\ Ready(r, "edit")
    /\ Write(q, UpdateRow(rows[q.row], q.change),
             [w \in Wallets |-> signedDelta(UpdateRow(q.old, q.change), w)])
    /\ stale' = (stale \/ rows[q.row] # q.old)
    /\ Finish(r)
    /\ UNCHANGED <<nextRow, status, begun, flips>>

CommitUpdate(r) ==
  LET q == request[r] IN
    /\ Ready(r, "edit")
    /\ Write(q, UpdateRow(rows[q.row], q.change),
             [w \in Wallets |-> signedDelta(UpdateRow(q.old, q.change), w) - signedDelta(q.old, w)])
    /\ stale' = (stale \/ rows[q.row] # q.old)
    /\ Finish(r)
    /\ UNCHANGED <<nextRow, status, begun, flips>>

CommitDelete(r) ==
  LET q == request[r] IN
    /\ Ready(r, "delete")
    /\ Write(q, NoRow, [w \in Wallets |-> 0 - signedDelta(q.old, w)])
    /\ stale' = (stale \/ rows[q.row] # q.old)
    /\ Finish(r)
    /\ UNCHANGED <<nextRow, status, begun, flips>>

\* A row of wallet w when the wallet is deleted.
WithoutWallet(t, w) ==
  IF w \notin WalletsOf(t) THEN t
  ELSE IF t.class = "system" THEN NoRow
  ELSE [class |-> t.class, dir |-> t.dir, author |-> t.author, amt |-> t.amt,
        out |-> IF t.out = w THEN NoWallet ELSE t.out,
        in  |-> IF t.in = w THEN NoWallet ELSE t.in]

CommitDrop(r) ==
  LET w == request[r].first IN
    /\ Ready(r, "drop")
    /\ rows' = [i \in Rows |-> WithoutWallet(rows[i], w)]
    /\ balance' = [balance EXCEPT ![w] = 0]
    /\ status' = [status EXCEPT ![w] = "gone"]
    /\ Finish(r)
    /\ UNCHANGED <<nextRow, stale, begun, flips>>

-----------------------------------------------------------------------------
(* The rest of the system.                                                 *)

\* Archive / restore: one UPDATE of the wallet row, so it waits for its lock.
Flip(w, from, to) ==
  /\ flips < MaxFlips
  /\ flips' = flips + 1
  /\ status[w] = from
  /\ holder[<<"wallet", w>>] = Nobody
  /\ status' = [status EXCEPT ![w] = to]
  /\ UNCHANGED <<rows, nextRow, balance, holder, request, stale, begun>>

Archive(w) == Cardinality(Members[w]) <= 1 /\ Flip(w, "active", "archived")
Restore(w) == Flip(w, "archived", "active")

\* r waits for a lock that s holds.
Waits(r, s) ==
  \E k \in request[r].need : NextLock(request[r], k) /\ holder[k] = s

\* A set of requests each waiting for another of the set.
WaitCycle(S) ==
  /\ S # {}
  /\ \A r \in S : \E s \in S : Waits(r, s)
  /\ \A s \in S : \E r \in S : Waits(r, s)

\* Postgres ends one request of a cycle (deadlock_timeout); the client gets 500.
DeadlockVictim(r) ==
  /\ \E S \in SUBSET Requests : r \in S /\ WaitCycle(S)
  /\ Finish(r)
  /\ UNCHANGED <<rows, nextRow, balance, status, stale, begun, flips>>

Begin(r, u) ==
  /\ request[r].pc = "idle"
  /\ begun < MaxRequests
  /\ \/ createSingle(r, u)
     \/ createTransfer(r, u)
     \/ AdjustBalance(r, u)
     \/ updateRow(r, u)
     \/ deleteRow(r, u)
     \/ linkedWrite(r, u)
     \/ dropWallet(r, u)

Proceed(r) ==
  \/ LockAccountsForUpdate(r)
  \/ Rollback(r)
  \/ CommitInsert(r)
  \/ CommitUpdate(r)
  \/ CommitDelete(r)
  \/ CommitDrop(r)

Next ==
  \/ \E r \in Requests, u \in Users : Begin(r, u)
  \/ \E r \in Requests : Proceed(r) \/ DeadlockVictim(r)
  \/ \E w \in Wallets : Archive(w) \/ Restore(w)

Fairness == \A r \in Requests : WF_vars(Proceed(r)) /\ WF_vars(DeadlockVictim(r))

Spec == Init /\ [][Next]_vars /\ Fairness
=============================================================================
