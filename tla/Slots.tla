------------------------------- MODULE Slots --------------------------------
(***************************************************************************)
(* The occurrences of one recurring setting (internal/modules/recurring).  *)
(*                                                                         *)
(* An occurrence is computed until it is touched; then it has a row of     *)
(* recurring_items, which may hold a transaction, a skip mark or a paid    *)
(* mark.  A request reads the occurrence without a lock, decides, then     *)
(* stores and locks the row and writes.  Inserting a computed occurrence   *)
(* waits for another insert at its (rule, slot) key, so a slot has one     *)
(* lock, its row's or its key's.  Recording locks a wallet as well, and    *)
(* linking the transaction it links.                                       *)
(*                                                                         *)
(* A database transaction's writes stay in `now' until it commits.         *)
(***************************************************************************)
EXTENDS Naturals, FiniteSets

CONSTANTS
  Slots,        \* the setting's dates: positive naturals
  MaxTx,        \* bound: transaction ids
  Plain,        \* bound: transactions there at the start, of no occurrence
  MaxIds,       \* row ids in use or remembered at once
  Requests,     \* HTTP requests in flight at once
  MaxRequests,  \* bound: requests begun in a behaviour
  Nobody

ASSUME SlotsAssumption == Slots \subseteq Nat \ {0}
ASSUME SlotBounds == MaxTx \in Nat /\ Plain \in 0 .. MaxTx /\ MaxIds \in Nat /\ MaxRequests \in Nat
ASSUME SlotNobody == Nobody \notin Requests

TxIds == 1 .. MaxTx
Row   == [id : 0 .. MaxIds, tx : {0} \cup TxIds, skipped : BOOLEAN, paid : BOOLEAN,
          edited : BOOLEAN]
NoRow == [id |-> 0, tx |-> 0, skipped |-> FALSE, paid |-> FALSE, edited |-> FALSE]

Single  == {"confirm", "skip", "paid", "edit", "restore", "unmark"}      \* by rule and slot
ById    == {"unlink", "deleteItem", "deleteItemTx", "archiveItem", "restoreItem"}
Ready   == {"auto", "confirmReady", "paidReady", "skipReady"}            \* every due one
Settle  == {"settleConfirm", "settlePaid", "settleSkip"}                 \* picked ones
Records == {"confirm", "confirmReady", "settleConfirm", "auto"}          \* make a transaction
Savepoints == {"auto", "confirmReady"} \cup Settle  \* leave out what they cannot do
Blind      == {"link", "skipReady", "archiveItem", "deleteTx"}          \* write without looking again
Ops == Single \cup ById \cup Ready \cup Settle \cup {"none", "link", "deleteTx"}

Stages == {"idle", "next", "other", "hook", "slot", "wallet", "hook2", "tx", "nulls", "ready"}
Keys   == ({"slot"} \X Slots) \cup {<<"wallet", 0>>} \cup ({"tx"} \X TxIds)

Request ==
  [op : Ops, stage : Stages, slot : Slots \cup {0}, todo : SUBSET Slots, tx : {0} \cup TxIds,
   replace : BOOLEAN, seen : [Slots -> Row], now : [Slots -> Row]]

Idle == [op |-> "none", stage |-> "idle", slot |-> 0, todo |-> {}, tx |-> 0,
         replace |-> FALSE, seen |-> [s \in Slots |-> NoRow], now |-> [s \in Slots |-> NoRow]]

VARIABLES
  item,         \* recurring_items, by slot (NoRow: computed)
  txs,          \* the transactions there are
  nextTx,       \* next fresh transaction id
  holder,       \* who holds each lock
  request,      \* what each request slot is doing
  recordedFor,  \* history: the slot a transaction was made for (0: none)
  letGo,        \* history: transactions there that somebody took off their occurrence
  stale,        \* history: blind operations that wrote a row changed since they
                \* read it, or archived a filled one
  begun         \* requests begun

vars == <<item, txs, nextTx, holder, request, recordedFor, letGo, stale, begun>>

-----------------------------------------------------------------------------
filled(row) == row.tx # 0

Open(row) == ~filled(row) /\ ~row.skipped /\ ~row.paid      \* due

\* A row that holds nothing: the occurrence is computed again.
blank(row) == ~row.paid /\ ~row.edited /\ ~row.skipped /\ ~filled(row)

Unblank(row) == IF blank(row) THEN NoRow ELSE row

\* The transaction is let go.
release(row) == Unblank([row EXCEPT !.tx = 0])

\* The transaction fills it: a skip or paid mark goes.
fill(row, t) == [row EXCEPT !.tx = t, !.skipped = FALSE, !.paid = FALSE]

\* Mutant: the occurrence comes back due, to be recorded again.
TxDeletingTx_Reopens(row) == [row EXCEPT !.tx = 0, !.paid = FALSE, !.edited = TRUE]

\* Its transaction is deleted: it turns skipped and keeps the values.
TxDeletingTx(row) ==
  [row EXCEPT !.tx = 0, !.paid = FALSE, !.skipped = TRUE, !.edited = TRUE]

\* Row ids are never used twice.
FreeIds ==
  (1 .. MaxIds) \ ({item[s].id : s \in Slots}
                   \cup {request[r].seen[s].id : r \in Requests, s \in Slots}
                   \cup {request[r].now[s].id : r \in Requests, s \in Slots})

FreshId == CHOOSE i \in FreeIds : TRUE

\* Mutant: an occurrence recorded in the meantime is recorded again.
Takes_Filled(op, row) ==
  CASE op \in {"skip", "settleSkip", "paid", "paidReady", "settlePaid", "edit"} -> ~filled(row)
    [] op = "restore" -> row.skipped
    [] op = "unmark"  -> row.paid
    [] op = "unlink"  -> filled(row)
    [] OTHER -> TRUE

\* What an operation asks of the row under its lock.  (Unlinking a row that lost
\* its transaction dereferences nil: a panic, and a rollback.)
Takes(op, row) ==
  CASE op \in Records \cup {"skip", "settleSkip", "paid", "paidReady", "settlePaid", "edit"} ->
         ~filled(row)
    [] op = "restore" -> row.skipped
    [] op = "unmark"  -> row.paid
    [] op = "unlink"  -> filled(row)
    [] OTHER -> TRUE

\* The rows an operation may leave (values may be sent along: edited).
Results(op, row) ==
  CASE op \in {"skip", "settleSkip"} -> {[row EXCEPT !.skipped = TRUE, !.paid = FALSE]}
    [] op = "skipReady" -> {[row EXCEPT !.skipped = TRUE]}
    [] op = "paidReady" -> {[row EXCEPT !.skipped = FALSE, !.paid = TRUE]}
    [] op = "paid" -> {[row EXCEPT !.skipped = FALSE, !.paid = TRUE, !.edited = e] :
                         e \in {row.edited, TRUE}}
    [] op = "settlePaid" -> {[row EXCEPT !.skipped = FALSE, !.paid = TRUE, !.edited = e] :
                               e \in {row.edited, TRUE}}
    [] op = "edit"    -> {[row EXCEPT !.edited = e] : e \in {row.edited, TRUE}}
    [] op = "restore" -> {Unblank([row EXCEPT !.skipped = FALSE])}
    [] op = "unmark"  -> {Unblank([row EXCEPT !.paid = FALSE])}
    [] op = "unlink"  -> {release(row)}
    [] op = "archiveItem" -> {[row EXCEPT !.skipped = TRUE]}
    [] op = "restoreItem" -> {[row EXCEPT !.skipped = FALSE]}
    [] op \in {"deleteItem", "deleteItemTx"} -> {NoRow}
    [] op \in {"confirm", "settleConfirm"} -> {[row EXCEPT !.edited = e] : e \in {row.edited, TRUE}}
    [] OTHER -> {row}

-----------------------------------------------------------------------------
Init ==
  /\ txs = 1 .. Plain
  /\ nextTx = Plain + 1
  /\ item = [s \in Slots |-> NoRow]
  /\ holder = [k \in Keys |-> Nobody]
  /\ request = [r \in Requests |-> Idle]
  /\ recordedFor = [t \in TxIds |-> 0]
  /\ letGo = {}
  /\ stale = {}
  /\ begun = 0

Start(r, q) ==
  /\ request[r].stage = "idle"
  /\ begun < MaxRequests
  /\ begun' = begun + 1
  /\ request' = [request EXCEPT ![r] = q]
  /\ UNCHANGED <<item, txs, nextTx, holder, recordedFor, letGo, stale>>

Seen(S) == [s \in Slots |-> IF s \in S THEN item[s] ELSE NoRow]

\* One occurrence, read on the pool.
TouchOcc(r) ==
  \E op \in Single \cup ById, s \in Slots :
    /\ op = "confirm" => ~filled(item[s])
    /\ op \in ById => item[s] # NoRow
    /\ op = "unlink" => filled(item[s])
    /\ Start(r, [Idle EXCEPT !.op = op, !.stage = "slot", !.slot = s, !.seen = Seen({s})])

\* Every due occurrence (with an amount, or since auto-create last looked), as
\* read on the pool; auto-create skips a setting that another check holds.
bulk(r) ==
  \E op \in Ready, due \in SUBSET {s \in Slots : Open(item[s])} :
    /\ due # {}
    /\ op = "auto" => \A p \in Requests : request[p].op # "auto"
    /\ Start(r, [Idle EXCEPT !.op = op, !.stage = "next", !.todo = due, !.seen = Seen(due)])

\* Picked occurrences, each read when its turn comes.
SettleOccurrences(r) ==
  \E op \in Settle, picked \in SUBSET Slots :
    picked # {} /\ Start(r, [Idle EXCEPT !.op = op, !.stage = "next", !.todo = picked])

\* An existing transaction becomes the occurrence's record.
linkOcc(r) ==
  \E s \in Slots, t \in txs, replace \in BOOLEAN :
    /\ item[s].tx \in {0, t} \/ replace
    /\ Start(r, [Idle EXCEPT !.op = "link", !.stage = "other", !.slot = s, !.tx = t,
                             !.replace = replace, !.seen = Seen({s})])

\* DELETE /transactions/{id}, as far as occurrences go.
deleteTx(r) ==
  \E t \in txs :
    Start(r, [Idle EXCEPT !.op = "deleteTx", !.stage = "hook", !.tx = t, !.seen = item])

-----------------------------------------------------------------------------
(* One request's database transaction.                                     *)

Step(r, q) ==
  /\ request' = [request EXCEPT ![r] = q]
  /\ UNCHANGED <<item, txs, recordedFor, letGo, stale, begun>>

Lock(r, k) == holder[k] \in {Nobody, r} /\ holder' = [holder EXCEPT ![k] = r]

Finish(r) ==
  /\ holder' = [k \in Keys |-> IF holder[k] = r THEN Nobody ELSE holder[k]]
  /\ request' = [request EXCEPT ![r] = Idle]

\* Rolled back: refused, a deadlock victim, or the client or the server is gone.
Rollback(r) ==
  /\ request[r].stage # "idle"
  /\ Finish(r)
  /\ UNCHANGED <<item, txs, nextTx, recordedFor, letGo, stale, begun>>

\* q is done with slot s: the next of several, or the commit.
OnwardFrom(q, s) ==
  LET rest == q.todo \ {s}
  IN [q EXCEPT !.todo = rest, !.stage = IF rest = {} THEN "ready" ELSE "next"]

Onward(q) == OnwardFrom(q, q.slot)

\* The next occurrence of several: the oldest, or any picked one, read now.
NextOcc(r) ==
  LET q == request[r] IN
    /\ q.stage = "next"
    /\ \/ /\ q.op \in Ready
          /\ \E s \in q.todo :
               /\ \A x \in q.todo : s <= x
               /\ Step(r, [q EXCEPT !.slot = s, !.stage = "slot"])
       \/ /\ q.op \in Settle
          /\ \E s \in q.todo :
               Step(r, IF filled(item[s]) THEN OnwardFrom(q, s)
                       ELSE [q EXCEPT !.slot = s, !.stage = "slot", !.seen[s] = item[s]])
    /\ UNCHANGED <<nextTx, holder>>

\* Left out: the savepoint is rolled back and gives its locks back.
LeaveOut(r, q, S) ==
  /\ q.op \in Savepoints
  /\ holder' = [k \in Keys |-> IF k \in S /\ holder[k] = r THEN Nobody ELSE holder[k]]
  /\ Step(r, Onward([q EXCEPT !.now[q.slot] = NoRow]))
  /\ UNCHANGED nextTx

\* The row under its lock: what the request put there, the stored one, or a new one.
store(r, s) ==
  LET row == IF holder[<<"slot", s>>] = r THEN request[r].now[s] ELSE item[s]
  IN IF row = NoRow THEN [NoRow EXCEPT !.id = FreshId] ELSE row

\* The row a request read is still that row (or it read none).
StillThere(q) == q.seen[q.slot].id \in {0, item[q.slot].id}

LockOcc(r) ==
  LET q == request[r]
      row == store(r, q.slot)
      k == <<"slot", q.slot>>
  IN
    /\ q.stage = "slot"
    /\ \/ /\ StillThere(q) /\ Takes(q.op, row)
          /\ FreeIds # {}
          /\ Lock(r, k)
          /\ \E n \in Results(q.op, row) :
               LET p == [q EXCEPT !.now[q.slot] = n] IN
                 Step(r, CASE q.op \in Records -> [p EXCEPT !.stage = "wallet"]
                           [] q.op = "link" -> [p EXCEPT !.stage = "tx"]
                           [] q.op = "deleteItemTx" /\ filled(row) ->
                                [p EXCEPT !.stage = "tx", !.tx = row.tx]
                           [] OTHER -> Onward(p))
          /\ UNCHANGED nextTx
       \/ /\ ~StillThere(q) \/ (~Takes(q.op, row) /\ holder[k] = Nobody)
          /\ LeaveOut(r, q, {})

\* Mutant: the wallet is locked before the occurrence.
LockWallet_First(r) ==
  LET q == request[r] IN
    /\ \/ q.stage = "slot" /\ q.op \in Records /\ holder[<<"wallet", 0>>] # r
          /\ Lock(r, <<"wallet", 0>>) /\ Step(r, q) /\ UNCHANGED nextTx
       \/ /\ q.stage = "wallet"
          /\ nextTx <= MaxTx
          /\ Lock(r, <<"wallet", 0>>)
          /\ nextTx' = nextTx + 1
          /\ Step(r, Onward([q EXCEPT !.now[q.slot] = fill(@, nextTx)]))

\* Recording and deleting move a wallet's balance; the wallet may refuse a record.
LockWallet(r) ==
  LET q == request[r] IN
    /\ q.stage = "wallet"
    /\ \/ /\ q.op \in Records
          /\ nextTx <= MaxTx
          /\ Lock(r, <<"wallet", 0>>)
          /\ nextTx' = nextTx + 1
          /\ Step(r, Onward([q EXCEPT !.now[q.slot] = fill(@, nextTx)]))
       \/ /\ q.op \in Records
          /\ holder[<<"wallet", 0>>] \in {Nobody, r}
          /\ LeaveOut(r, q, {<<"slot", q.slot>>})
       \/ /\ q.op \notin Records
          /\ Lock(r, <<"wallet", 0>>)
          /\ Step(r, [q EXCEPT !.stage = IF q.op = "deleteTx" THEN "hook2" ELSE "ready"])
          /\ UNCHANGED nextTx

\* Other occurrences whose record is transaction t.
Holding(r, t) == {s \in Slots : item[s].tx = t /\ holder[<<"slot", s>>] # r}

\* Linking looks for the occurrence the transaction fills now.
LockOther(r) ==
  LET q == request[r] IN
    /\ q.stage = "other"
    /\ \/ /\ Holding(r, q.tx) = {}
          /\ Step(r, [q EXCEPT !.stage = "slot"])
          /\ UNCHANGED <<nextTx, holder>>
       \/ \E o \in Holding(r, q.tx) :
            /\ Lock(r, <<"slot", o>>)
            /\ IF o = q.slot /\ item[o].id = q.seen[o].id
                 THEN Step(r, [q EXCEPT !.stage = "slot", !.now[o] = item[o]])
                 ELSE /\ q.replace
                      /\ Step(r, [q EXCEPT !.stage = "slot", !.now[o] = release(item[o])])
            /\ UNCHANGED nextTx

\* Deleting a transaction: the hook runs first and again under the wallet's lock;
\* ON DELETE SET NULL empties what was linked after that.
LockHooked(r) ==
  LET q == request[r] IN
    /\ q.stage \in {"hook", "hook2", "nulls"}
    /\ \/ /\ Holding(r, q.tx) = {}
          /\ Step(r, [q EXCEPT !.stage = CASE q.stage = "hook"  -> "wallet"
                                           [] q.stage = "hook2" -> "tx"
                                           [] q.stage = "nulls" -> "ready"])
          /\ UNCHANGED <<nextTx, holder>>
       \/ \E o \in Holding(r, q.tx) :
            /\ Lock(r, <<"slot", o>>)
            /\ Step(r, IF q.stage = "nulls"
                         THEN [q EXCEPT !.now[o] = [item[o] EXCEPT !.tx = 0], !.seen[o] = NoRow]
                         ELSE [q EXCEPT !.now[o] = TxDeletingTx(item[o]), !.seen[o] = item[o]])
            /\ UNCHANGED nextTx

\* Mutant: nothing keeps a transaction to one occurrence.
LockTx_NoIndex(r) ==
  LET q == request[r] IN
    /\ q.stage = "tx"
    /\ q.tx \in txs
    /\ Lock(r, <<"tx", q.tx>>)
    /\ Step(r, IF q.op = "link"
                 THEN [q EXCEPT !.stage = "ready", !.now[q.slot] = fill(@, q.tx)]
                 ELSE [q EXCEPT !.stage = IF q.op = "deleteTx" THEN "nulls" ELSE "wallet"])
    /\ UNCHANGED nextTx

\* The transaction itself: deleted, or linked (it must still be there, and
\* idx_recurring_items_tx lets it fill one occurrence).
LockTx(r) ==
  LET q == request[r] IN
    /\ q.stage = "tx"
    /\ q.tx \in txs
    /\ Lock(r, <<"tx", q.tx>>)
    /\ IF q.op = "link"
         THEN /\ Holding(r, q.tx) = {}
              /\ Step(r, [q EXCEPT !.stage = "ready", !.now[q.slot] = fill(@, q.tx)])
         ELSE Step(r, [q EXCEPT !.stage = IF q.op = "deleteTx" THEN "nulls" ELSE "wallet"])
    /\ UNCHANGED nextTx

Touched(r) == {s \in Slots : holder[<<"slot", s>>] = r}

\* What the user took off its occurrence by this request.
TakenOff(q) ==
  CASE q.op \in {"unlink", "deleteItem"} -> {item[q.slot].tx}
    [] q.op = "link" /\ q.replace -> {item[q.slot].tx, q.tx}
    [] OTHER -> {}

Commit(r) ==
  LET q == request[r]
      made == {q.now[s].tx : s \in Touched(r)} \ (txs \cup {0})
  IN
    /\ q.stage = "ready"
    /\ item' = [s \in Slots |-> IF s \in Touched(r) THEN q.now[s] ELSE item[s]]
    /\ txs' = (txs \cup made) \ (IF q.op \in {"deleteTx", "deleteItemTx"} THEN {q.tx} ELSE {})
    /\ recordedFor' = [t \in TxIds |->
         IF t \in made THEN CHOOSE s \in Touched(r) : q.now[s].tx = t ELSE recordedFor[t]]
    /\ letGo' = (letGo \cup TakenOff(q)) \cap txs'
    /\ stale' = IF q.op \in Blind /\ \E s \in Touched(r) :
                       /\ IF q.op = "archiveItem" THEN filled(item[s]) ELSE item[s] # q.seen[s]
                       /\ q.op = "link" => s = q.slot
                  THEN stale \cup {q.op} ELSE stale
    /\ Finish(r)
    /\ UNCHANGED <<nextTx, begun>>

Begin(r) ==
  TouchOcc(r) \/ bulk(r) \/ SettleOccurrences(r) \/ linkOcc(r) \/ deleteTx(r)

Proceed(r) ==
  \/ NextOcc(r) \/ LockOcc(r) \/ LockWallet(r) \/ LockOther(r) \/ LockHooked(r) \/ LockTx(r)
  \/ Commit(r) \/ Rollback(r)

Next == \E r \in Requests : Begin(r) \/ Proceed(r)

Spec == Init /\ [][Next]_vars

-----------------------------------------------------------------------------
\* Type invariant, with the primary key of recurring_items.
TypeOK ==
  /\ item \in [Slots -> Row]
  /\ \A s, x \in Slots : s # x /\ item[s].id = item[x].id => item[s] = NoRow /\ item[x] = NoRow
  /\ txs \subseteq TxIds
  /\ nextTx \in 1 .. MaxTx + 1
  /\ holder \in [Keys -> Requests \cup {Nobody}]
  /\ request \in [Requests -> Request]
  /\ recordedFor \in [TxIds -> Slots \cup {0}]
  /\ letGo \subseteq TxIds
  /\ stale \subseteq Blind
  /\ begun \in 0 .. MaxRequests

\* link.go:52, "An occurrence that already has a transaction .. needs Replace,
\* else the 409 says which": a transaction that was made for an occurrence is
\* its record until it is deleted or somebody takes it off, so an occurrence is
\* never recorded twice.
\* It is, whatever races, unless a link wrote an occurrence that had changed
\* since it was read: confirming, auto-creating and every bulk action look
\* again under the row's lock, linking does not.
RecordedOnceUnlessLinked ==
  "link" \notin stale =>
    \A t \in txs : recordedFor[t] # 0 /\ t \notin letGo => item[recordedFor[t]].tx = t

\* "one occurrence <-> one transaction" (link.go:49): what fills an occurrence
\* exists, and fills no other; and a filled occurrence is neither skipped nor
\* marked paid (slot.go:104, link.go:142), unless the whole setting was skipped
\* from a read that had changed, or a filled row was archived by its id: those
\* two write without looking.
OneToOne ==
  TypeOK /\ \A s \in Slots : filled(item[s]) =>
    /\ item[s].tx \in txs
    /\ \A x \in Slots \ {s} : item[x].tx # item[s].tx
    /\ stale \cap {"skipReady", "archiveItem"} = {} => ~item[s].skipped /\ ~item[s].paid

\* writes.go:830: when the transaction that fills an occurrence is deleted, by
\* any path, the occurrence turns skipped; unless it was linked so late that
\* only ON DELETE SET NULL saw it.
DeletedTxSkips ==
  [][\A s \in Slots :
       filled(item[s]) /\ item[s].tx \notin txs' /\ item'[s] # NoRow /\ "deleteTx" \notin stale'
         => item'[s].skipped]_vars

\* The lock a request asks for next.
Wants(r) ==
  LET q == request[r] IN
    CASE q.stage = "slot"   -> {<<"slot", q.slot>>}
      [] q.stage = "wallet" -> {<<"wallet", 0>>}
      [] q.stage = "tx"     -> {<<"tx", q.tx>>}
      [] q.stage \in {"other", "hook", "hook2", "nulls"} -> {"slot"} \X Holding(r, q.tx)
      [] OTHER -> {}

Waits(r, p) == p # r /\ \E k \in Wants(r) : holder[k] = p

WaitCycle(S) == S # {} /\ \A r \in S : \E p \in S : Waits(r, p)

\* Requests on one occurrence each never wait in a circle: there is always one
\* that records several occurrences, moves a transaction from one to another, or
\* deletes a transaction that was linked meanwhile.
CyclesNeedSeveralRows ==
  \A S \in SUBSET Requests : WaitCycle(S) =>
    \E r \in S : request[r].op \in Ready \cup Settle \cup {"link", "deleteTx"}
=============================================================================
