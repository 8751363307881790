---------------------------- MODULE SlotsProofs -----------------------------
(***************************************************************************)
(* The occurrences of a recurring setting, for any dates, requests and     *)
(* bounds.                                                                 *)
(*                                                                         *)
(* The inductive invariant IInv says what each request in flight is going  *)
(* to do to each occurrence it holds (Pending): what it read under the     *)
(* lock is still there, so the commit changes what it meant to change.     *)
(***************************************************************************)
EXTENDS Slots, TLAPS

marked(row) == row.skipped \/ row.paid

Holds(r, t) == holder[<<"tx", t>>] = r

-----------------------------------------------------------------------------
(* Requests.                                                               *)

\* Which operations come to which stage, and what they know there.
Shape(q) ==
  /\ q.stage = "idle" <=> q.op = "none"
  /\ q.stage \in {"hook", "hook2", "nulls"} => q.op = "deleteTx"
  /\ q.stage = "next"   => q.op \in Ready \cup Settle
  /\ q.stage = "other"  => q.op = "link"
  /\ q.stage = "slot"   => q.op # "deleteTx" /\ q.slot \in Slots
  /\ q.stage = "wallet" => q.op \in Records \cup {"deleteTx", "deleteItemTx"}
  /\ q.stage = "tx"     => q.op \in {"link", "deleteTx", "deleteItemTx"}
  /\ q.op \in {"link", "deleteTx"} => q.tx # 0 /\ q.todo = {}
  /\ q.op = "deleteItemTx" => (q.stage \in {"tx", "wallet"} => q.tx # 0) /\ (q.stage = "slot" => q.tx = 0)
  /\ q.op \in Single \cup ById \cup {"link"} => q.slot \in Slots /\ q.todo = {}
  /\ q.op = "skipReady" => \A s \in Slots : ~filled(q.seen[s])
  /\ q.op = "link" /\ ~q.replace => q.seen[q.slot].tx \in {0, q.tx}

\* Which occurrences a request holds, stage by stage.
Holdings(r) ==
  LET q == request[r] IN
    /\ q.stage = "idle" => \A k \in Keys : holder[k] # r
    /\ q.op \in Single \cup ById => Touched(r) \subseteq {q.slot}
    /\ q.stage = "slot" /\ q.op # "link" =>
         q.slot \notin Touched(r) /\ (q.op \in Ready \cup Settle => q.slot \in q.todo)
    /\ q.stage \in {"next", "slot"} => q.todo \cap Touched(r) = {}
    /\ q.stage = "wallet" => q.todo \cap Touched(r) \subseteq {q.slot}
    /\ q.stage = "wallet" /\ q.op \in Records =>
         q.slot \in Touched(r) /\ q.now[q.slot].id # 0 /\ q.now[q.slot].tx = 0
    /\ q.stage = "tx" /\ q.op = "link" => q.slot \in Touched(r) /\ q.now[q.slot].id # 0
    /\ \A s \in Slots \ Touched(r) : q.now[s] = NoRow

\* The transactions a request locks, and those it is about to delete.
TxLocks(r) ==
  LET q == request[r] IN
    /\ q.op = "deleteTx" /\ q.stage \in {"nulls", "ready"} => Holds(r, q.tx) /\ q.tx \in txs
    /\ q.op = "deleteItemTx" /\ q.stage \in {"wallet", "ready"} /\ q.tx # 0 =>
         Holds(r, q.tx) /\ q.tx \in txs
    /\ q.op = "deleteItemTx" /\ q.stage \in {"tx", "wallet", "ready"} =>
         q.slot \in Touched(r) /\ item[q.slot].tx = q.tx
    /\ q.op = "deleteTx" /\ q.stage = "ready" =>
         \A s \in Slots : item[s].tx = q.tx => s \in Touched(r)

\* A transaction that is not there yet, in one place.
Made(r, s) ==
  LET t == request[r].now[s].tx IN
    /\ t \notin txs
    /\ \A p \in Requests, x \in Slots : request[p].now[x].tx = t => p = r /\ x = s

\* What a request is going to do to the occurrence it holds at s.
Pending(r, s) ==
  LET q == request[r]
      n == q.now[s]
      i == item[s]
  IN
    /\ q.op \in Records => i.tx = 0 /\ (filled(n) => ~marked(n) /\ Made(r, s))
    /\ q.op \in {"skip", "settleSkip", "paid", "paidReady", "settlePaid", "edit"} =>
         i.tx = 0 /\ n.tx = 0
    /\ q.op \in {"restore", "unmark", "restoreItem"} => n.tx = i.tx /\ (marked(n) => marked(i))
    /\ q.op \in {"skipReady", "archiveItem"} => n.tx = i.tx
    /\ q.op = "unlink" => n.tx = 0
    /\ q.op \in {"deleteItem", "deleteItemTx"} => n = NoRow
    /\ q.op = "deleteTx" => n.tx = 0 /\ i.tx = q.tx /\ (n.skipped \/ q.seen[s] = NoRow)
    /\ q.op = "link" /\ s # q.slot => n.tx = 0 /\ i.tx = q.tx /\ q.replace
    /\ q.op = "link" /\ s = q.slot /\ q.stage # "ready" =>
         \/ n.tx = i.tx /\ (marked(n) => marked(i))
         \/ n.tx = 0
    /\ q.op = "link" /\ s = q.slot /\ q.stage = "ready" =>
         /\ n.tx = q.tx /\ ~marked(n) /\ Holds(r, q.tx) /\ q.tx \in txs
         /\ \A x \in Slots : item[x].tx = q.tx => x \in Touched(r)

\* A request on one occurrence locks its slot, then a transaction, then the wallet.
InTurn(r) ==
  LET q == request[r] IN
    q.op \in Single \cup ById \cup {"none"} =>
      /\ q.stage = "slot"   => \A k \in Keys : holder[k] # r
      /\ q.stage = "tx"     => \A k \in Keys : holder[k] = r => k[1] = "slot"
      /\ q.stage = "wallet" => \A k \in Keys : holder[k] = r => k[1] # "wallet"

Sound(r) ==
  /\ Shape(request[r]) /\ Holdings(r) /\ TxLocks(r) /\ InTurn(r)
  /\ \A s \in Touched(r) : Pending(r, s)

RequestsHold == \A r \in Requests : Sound(r)

-----------------------------------------------------------------------------
(* Rows and transactions.                                                  *)

\* A row that has no id is no row.
RowsHaveIds ==
  /\ \A s \in Slots : item[s].id = 0 => item[s] = NoRow
  /\ \A r \in Requests, s \in Slots : request[r].now[s].id = 0 => request[r].now[s] = NoRow

\* The primary key, with the rows that are going to be committed.
IdsApart ==
  /\ \A s, x \in Slots : s # x /\ item[s].id = item[x].id => item[s].id = 0
  /\ \A r, p \in Requests, s, x \in Slots : s # x /\ request[r].now[s].id # 0 =>
       request[r].now[s].id # item[x].id /\ request[r].now[s].id # request[p].now[x].id

\* The transactions there are come from the sequence.
TxsAreOld ==
  /\ \A t \in txs : t < nextTx
  /\ \A r \in Requests, s \in Slots : request[r].now[s].tx < nextTx

OneEach ==
  \A s \in Slots : filled(item[s]) =>
    /\ item[s].tx \in txs
    /\ \A x \in Slots \ {s} : item[x].tx # item[s].tx
    /\ stale \cap {"skipReady", "archiveItem"} = {} => ~marked(item[s])

Typed ==
  /\ item \in [Slots -> Row]
  /\ txs \subseteq TxIds
  /\ nextTx \in 1 .. MaxTx + 1
  /\ holder \in [Keys -> Requests \cup {Nobody}]
  /\ request \in [Requests -> Request]
  /\ recordedFor \in [TxIds -> Slots \cup {0}]
  /\ letGo \subseteq TxIds
  /\ stale \subseteq Blind
  /\ begun \in 0 .. MaxRequests

IInv ==
  /\ Typed /\ RequestsHold /\ RowsHaveIds /\ IdsApart /\ TxsAreOld
  /\ OneEach /\ RecordedOnceUnlessLinked

-----------------------------------------------------------------------------
(* Rows, operation by operation.                                           *)

\* A computed occurrence has no row: no id, no transaction, no mark.
LEMMA NoRowTyped == NoRow \in Row /\ NoRow.id = 0 /\ NoRow.tx = 0 /\ ~marked(NoRow)
  BY SlotBounds DEF NoRow, Row, TxIds, marked

\* An idle request means to write nothing.
LEMMA IdleTyped ==
  /\ Idle \in Request /\ Idle.op = "none" /\ Idle.stage = "idle" /\ Idle.todo = {} /\ Idle.tx = 0
  /\ \A s \in Slots : Idle.now[s] = NoRow /\ Idle.seen[s] = NoRow
  BY NoRowTyped DEF Idle, Request, Ops, Stages

\* What the helpers on rows keep: the id, unless the row is blank and goes.
LEMMA Releases ==
  ASSUME NEW row \in Row
  PROVE  /\ release(row) \in Row /\ release(row).tx = 0
         /\ release(row) = NoRow \/ release(row).id = row.id
<1> DEFINE e == [row EXCEPT !.tx = 0]
<1>1. e \in Row /\ e.tx = 0 /\ e.id = row.id
  BY SlotBounds DEF Row, TxIds
<1> HIDE DEF e
<1>2. release(row) = IF blank(e) THEN NoRow ELSE e
  BY DEF release, Unblank, e
<1> QED
  BY <1>1, <1>2, NoRowTyped

\* Filling sets the transaction and takes the marks away; the row keeps its id.
LEMMA Fills ==
  ASSUME NEW row \in Row, NEW t \in TxIds
  PROVE  /\ fill(row, t) \in Row /\ fill(row, t).tx = t /\ ~marked(fill(row, t))
         /\ fill(row, t).id = row.id
  BY DEF fill, Row, TxIds, marked

\* Deleting its transaction leaves a skipped row with the same id.
LEMMA Deletes ==
  ASSUME NEW row \in Row
  PROVE  /\ TxDeletingTx(row) \in Row /\ TxDeletingTx(row).tx = 0 /\ TxDeletingTx(row).skipped
         /\ TxDeletingTx(row).id = row.id
  BY SlotBounds DEF TxDeletingTx, Row, TxIds

\* What an operation leaves of the row it took under its lock.
LEMMA Outcomes ==
  ASSUME NEW op \in Ops, NEW row \in Row, row.id # 0, Takes(op, row), NEW n \in Results(op, row)
  PROVE  /\ n \in Row /\ (n = NoRow \/ n.id = row.id)
         /\ op \in Records \cup {"skip", "settleSkip", "paid", "paidReady", "settlePaid", "edit"} =>
              row.tx = 0 /\ n.tx = 0
         /\ op \in Records \cup {"link"} => n.id = row.id
         /\ op \in {"restore", "unmark", "restoreItem", "link"} => n.tx = row.tx /\ (marked(n) => marked(row))
         /\ op \in {"skipReady", "archiveItem"} => n.tx = row.tx
         /\ op = "unlink" => n.tx = 0
         /\ op \in {"deleteItem", "deleteItemTx"} => n = NoRow
<1> DEFINE Marking == {"skip", "settleSkip", "paid", "paidReady", "settlePaid", "edit"}
<1>1. \A x \in Row : Unblank(x) \in Row /\ Unblank(x).tx = x.tx /\ (marked(Unblank(x)) => marked(x))
                     /\ (Unblank(x) = NoRow \/ Unblank(x).id = x.id)
  BY NoRowTyped DEF Unblank, blank, filled
<1>2. NoRow \in Row
  BY NoRowTyped
<1>3. CASE op \in Marking
  <2>1. row.tx = 0
    BY <1>3 DEF Takes, Records, filled
  <2>2. n \in Row /\ n.id = row.id /\ n.tx = row.tx
    <3>1. CASE op \in {"skip", "settleSkip"}
      BY <3>1 DEF Results, Row
    <3>2. CASE op = "paidReady"
      BY <3>2 DEF Results, Row
    <3>3. CASE op = "paid"
      BY <3>3 DEF Results, Row
    <3>4. CASE op = "settlePaid"
      BY <3>4 DEF Results, Row
    <3>5. CASE op = "edit"
      BY <3>5 DEF Results, Row
    <3> QED
      BY <1>3, <3>1, <3>2, <3>3, <3>4, <3>5
  <2> QED
    BY <1>3, <2>1, <2>2 DEF Records
<1>4. CASE op = "restore"
  <2> DEFINE x == [row EXCEPT !.skipped = FALSE]
  <2>1. x \in Row /\ x.id = row.id /\ x.tx = row.tx /\ (marked(x) => marked(row))
    BY DEF Row, marked
  <2>2. n = Unblank(x)
    BY <1>4 DEF Results
  <2> HIDE DEF x
  <2> QED
    BY <1>1, <1>4, <2>1, <2>2 DEF Records
<1>5. CASE op = "unmark"
  <2> DEFINE x == [row EXCEPT !.paid = FALSE]
  <2>1. x \in Row /\ x.id = row.id /\ x.tx = row.tx /\ (marked(x) => marked(row))
    BY DEF Row, marked
  <2>2. n = Unblank(x)
    BY <1>5 DEF Results
  <2> HIDE DEF x
  <2> QED
    BY <1>1, <1>5, <2>1, <2>2 DEF Records
<1>6. CASE op = "unlink"
  <2>1. n = release(row)
    BY <1>6 DEF Results
  <2> QED
    BY <1>6, <2>1, Releases DEF Records
<1>7. CASE op \in {"deleteItem", "deleteItemTx"}
  <2>1. n = NoRow
    BY <1>7 DEF Results
  <2> QED
    BY <1>2, <1>7, <2>1 DEF Records
<1>8. CASE op = "skipReady"
  <2>1. n = [row EXCEPT !.skipped = TRUE]
    BY <1>8 DEF Results
  <2> QED
    BY <1>8, <2>1 DEF Records, Row
<1>9. CASE op \in {"archiveItem", "restoreItem"}
  <2>1. n \in Row /\ n.id = row.id /\ n.tx = row.tx /\ (op = "restoreItem" /\ marked(n) => marked(row))
    BY <1>9 DEF Results, Row, marked
  <2> QED
    BY <1>9, <2>1 DEF Records
<1>10. CASE op \in {"confirm", "settleConfirm"}
  <2>1. row.tx = 0
    BY <1>10 DEF Takes, Records, filled
  <2>2. n \in Row /\ n.id = row.id /\ n.tx = row.tx
    BY <1>10 DEF Results, Row
  <2> QED
    BY <1>10, <2>1, <2>2 DEF Records
<1>11. CASE op \in {"auto", "confirmReady"}
  <2>1. row.tx = 0
    BY <1>11 DEF Takes, Records, filled
  <2>2. n = row
    BY <1>11 DEF Results
  <2> QED
    BY <1>11, <2>1, <2>2 DEF Records
<1>12. CASE op \in {"none", "link", "deleteTx"}
  <2>1. n = row
    BY <1>12 DEF Results
  <2> QED
    BY <1>12, <2>1 DEF Records
<1>13. op \in Marking \cup {"restore", "unmark", "unlink", "deleteItem", "deleteItemTx", "skipReady",
         "archiveItem", "restoreItem", "confirm", "settleConfirm", "auto", "confirmReady", "none", "link",
         "deleteTx"}
  BY DEF Ops, Single, ById, Ready, Settle
<1> HIDE DEF Marking
<1> QED
  BY <1>3, <1>4, <1>5, <1>6, <1>7, <1>8, <1>9, <1>10, <1>11, <1>12, <1>13

-----------------------------------------------------------------------------
(* What a step short of the commit changes.                                *)

\* The request moves on, and takes or gives back locks of its own.
Moves(r, q) ==
  /\ q \in Request
  /\ request' = [request EXCEPT ![r] = q]
  /\ UNCHANGED <<item, txs, recordedFor, letGo, stale>>
  /\ nextTx' \in nextTx .. MaxTx + 1
  /\ begun' \in 0 .. MaxRequests
  /\ holder' \in [Keys -> Requests \cup {Nobody}]
  /\ \A k \in Keys : holder'[k] = holder[k] \/ (holder[k] \in {Nobody, r} /\ holder'[k] \in {Nobody, r})

\* It means to write at most one row it did not, the stored one or a new one.
Brings(r, q) ==
  \E o \in Slots \cup {0} : \A s \in Slots :
    \/ q.now[s] = NoRow
    \/ q.now[s] = request[r].now[s]
    \/ /\ s = o /\ q.now[s].id # 0
       /\ q.now[s].id \in {item[s].id, request[r].now[s].id} \cup FreeIds
       /\ q.now[s].tx \in {0, item[s].tx, nextTx} \cup txs
       /\ q.now[s].tx < nextTx'

\* A row somebody is going to record does not bring in a transaction another made.
LEMMA NotMade ==
  ASSUME IInv, NEW r \in Requests, NEW q, Moves(r, q), Brings(r, q),
         NEW p \in Requests, NEW s \in Slots, Made(p, s), filled(request[p].now[s]),
         request'[p].now[s] = request[p].now[s]
  PROVE  Made(p, s)'
<1> DEFINE t == request[p].now[s].tx
<1>1. t # 0 /\ t \notin txs /\ t < nextTx /\ t # nextTx
  BY DEF IInv, Typed, TxsAreOld, Made, filled, Request, Row, TxIds
<1>2. txs' = txs /\ request'[p].now[s].tx = t
  BY DEF Moves
<1>3. ASSUME NEW u \in Requests, NEW x \in Slots, request'[u].now[x].tx = t
      PROVE  request[u].now[x].tx = t
  <2>1. CASE u # r
    BY <1>3, <2>1 DEF Moves, IInv, Typed
  <2>2. CASE u = r
    <3>1. request'[r] = q
      BY DEF Moves, IInv, Typed
    <3>2. item[x].tx \in txs \cup {0}
      BY DEF IInv, OneEach, filled
    <3> QED
      BY <1>1, <1>3, <2>2, <3>1, <3>2, NoRowTyped DEF Brings
  <2> QED
    BY <2>1, <2>2
<1> QED
  BY <1>1, <1>2, <1>3 DEF Made

\* The other requests are as they were.
LEMMA OthersSound ==
  ASSUME IInv, NEW r \in Requests, NEW q, Moves(r, q), Brings(r, q), NEW p \in Requests \ {r}
  PROVE  Sound(p)'
<1>1. request'[p] = request[p] /\ item' = item /\ txs' = txs
  BY DEF Moves, IInv, Typed
<1>2. \A k \in Keys : (holder'[k] = p) <=> (holder[k] = p)
  BY SlotNobody DEF Moves
<1>3. Touched(p)' = Touched(p)
  BY <1>2 DEF Touched, Keys
<1>4. \A t \in TxIds : Holds(p, t)' <=> Holds(p, t)
  BY <1>2 DEF Holds, Keys
<1>5. Sound(p)
  BY DEF IInv, RequestsHold
<1>6. request[p] \in Request
  BY DEF IInv, Typed
<1>7. Shape(request[p])'
  BY <1>1, <1>5 DEF Sound, Shape
<1>8. Holdings(p)'
  BY <1>1, <1>2, <1>3, <1>5 DEF Sound, Holdings
<1>9. TxLocks(p)'
  <2>1. request[p].tx \in TxIds \/ request[p].tx = 0
    BY <1>6 DEF Request
  <2>2. Shape(request[p]) /\ TxLocks(p)
    BY <1>5 DEF Sound
  <2> QED
    BY <1>1, <1>3, <1>4, <2>1, <2>2 DEF TxLocks, Shape
<1>10. InTurn(p)'
  BY <1>1, <1>2, <1>5 DEF Sound, InTurn
<1>11. ASSUME NEW s \in Touched(p) PROVE Pending(p, s)'
  <2>1. s \in Slots
    BY DEF Touched
  <2>2. Pending(p, s) /\ Shape(request[p])
    BY <1>5 DEF Sound
  <2>3. filled(request[p].now[s]) /\ Made(p, s) => Made(p, s)'
    BY <1>1, <2>1, NotMade
  <2>4. request[p].tx \in TxIds \/ request[p].tx = 0
    BY <1>6 DEF Request
  <2>5. request[p].op = "link" => request[p].tx # 0
    BY <2>2 DEF Shape
  <2> QED
    BY <1>1, <1>3, <1>4, <2>1, <2>2, <2>3, <2>4, <2>5 DEF Pending
<1> QED
  BY <1>3, <1>7, <1>8, <1>9, <1>10, <1>11 DEF Sound

\* So a step keeps the invariant when the request that moves stays sound.
LEMMA Moved ==
  ASSUME IInv, NEW r \in Requests, NEW q, Moves(r, q), Brings(r, q), Sound(r)'
  PROVE  IInv'
<1>1. request'[r] = q /\ \A p \in Requests : p # r => request'[p] = request[p]
  BY DEF Moves, IInv, Typed
<1>2. Typed'
  BY DEF IInv, Typed, Moves
<1>3. RequestsHold'
  BY OthersSound DEF RequestsHold
<1>4. RowsHaveIds'
  BY <1>1, NoRowTyped DEF IInv, RowsHaveIds, Moves, Brings
<1>5. IdsApart'
  <2>1. item' = item
    BY DEF Moves
  <2>2. \A f \in FreeIds : /\ \A x \in Slots : item[x].id # f
                           /\ \A p \in Requests, x \in Slots : request[p].now[x].id # f
    BY DEF FreeIds
  <2>3. PICK o \in Slots \cup {0} : \A s \in Slots :
          \/ q.now[s].id = 0
          \/ q.now[s].id = request[r].now[s].id
          \/ s = o /\ q.now[s].id \in {item[s].id} \cup FreeIds
    BY NoRowTyped DEF Brings
  <2>4. IdsApart
    BY DEF IInv
  <2>5. ASSUME NEW s \in Slots, NEW x \in Slots, s # x, q.now[s].id # 0
        PROVE  q.now[s].id # item[x].id /\ q.now[s].id # q.now[x].id
    BY <2>2, <2>3, <2>4, <2>5 DEF IdsApart
  <2>6. ASSUME NEW s \in Slots, NEW x \in Slots, s # x, q.now[s].id # 0, NEW p \in Requests
        PROVE  q.now[s].id # request[p].now[x].id
    BY <2>2, <2>3, <2>4, <2>6 DEF IdsApart
  <2>7. ASSUME NEW s \in Slots, NEW x \in Slots, s # x, NEW p \in Requests, request[p].now[s].id # 0
        PROVE  request[p].now[s].id # q.now[x].id
    BY <2>6, <2>7
  <2> QED
    BY <1>1, <2>1, <2>4, <2>5, <2>6, <2>7 DEF IdsApart
<1>6. TxsAreOld'
  <2>1. nextTx \in Nat /\ nextTx' \in Nat /\ nextTx <= nextTx' /\ nextTx > 0
    BY SlotBounds DEF IInv, Typed, Moves
  <2>2. TxsAreOld /\ txs \subseteq Nat /\ txs' = txs
    BY DEF IInv, Typed, TxIds, Moves
  <2>3. \A p \in Requests, s \in Slots : request[p].now[s].tx \in Nat
    BY SlotBounds DEF IInv, Typed, Request, Row, TxIds
  <2>4. ASSUME NEW s \in Slots PROVE q.now[s].tx < nextTx'
    BY <2>1, <2>2, <2>3, NoRowTyped DEF Brings, TxsAreOld
  <2> QED
    BY <1>1, <2>1, <2>2, <2>3, <2>4 DEF TxsAreOld
<1>7. OneEach' /\ RecordedOnceUnlessLinked'
  BY DEF IInv, Moves, OneEach, RecordedOnceUnlessLinked
<1> QED
  BY <1>2, <1>3, <1>4, <1>5, <1>6, <1>7 DEF IInv

\* What the request that moves means to write elsewhere, it still means to write.
LEMMA StillPending ==
  ASSUME IInv, NEW r \in Requests, NEW q, Moves(r, q), Brings(r, q),
         NEW s \in Touched(r), q.now[s] = request[r].now[s],
         q.op = request[r].op, q.slot = request[r].slot, q.tx = request[r].tx,
         q.replace = request[r].replace, q.seen[s] = request[r].seen[s],
         q.op = "link" /\ s = q.slot => q.stage # "ready" /\ request[r].stage # "ready"
  PROVE  Pending(r, s)'
<1>1. request'[r] = q /\ item' = item /\ txs' = txs
  BY DEF Moves, IInv, Typed
<1>2. s \in Slots
  BY DEF Touched
<1>3. Pending(r, s)
  BY DEF IInv, RequestsHold, Sound
<1>4. filled(request[r].now[s]) /\ Made(r, s) => Made(r, s)'
  BY <1>1, <1>2, NotMade
<1> QED
  BY <1>1, <1>3, <1>4 DEF Pending

-----------------------------------------------------------------------------
(* Beginning.                                                              *)

\* A request that begins holds nothing and has decided nothing.
LEMMA Starts ==
  ASSUME IInv, NEW r \in Requests, NEW q \in Request, Start(r, q), Shape(q),
         q.stage \in {"slot", "next", "other", "hook"}, \A s \in Slots : q.now[s] = NoRow,
         q.stage = "slot" => q.op \in Single \cup ById
  PROVE  IInv'
<1>1. request[r].stage = "idle" /\ Holdings(r)
  BY DEF Start, IInv, RequestsHold, Sound
<1>2. \A k \in Keys : holder[k] # r
  BY <1>1 DEF Holdings
<1>3. Moves(r, q)
  BY SlotBounds DEF IInv, Typed, Start, Moves
<1>4. Brings(r, q)
  BY DEF Brings
<1>5. request'[r] = q /\ \A k \in Keys : holder'[k] # r
  BY <1>2 DEF IInv, Typed, Start
<1>6. Touched(r)' = {}
  BY <1>5 DEF Touched, Keys
<1>7. Shape(request[r])'
  BY <1>5 DEF Shape
<1>8. Holdings(r)' /\ TxLocks(r)' /\ InTurn(r)'
  <2>1. Holdings(r)'
    BY <1>5, <1>6 DEF Holdings, Single, ById, Ready, Settle
  <2>2. TxLocks(r)'
    BY <1>5 DEF TxLocks
  <2>3. InTurn(r)'
    BY <1>5 DEF InTurn
  <2> QED
    BY <2>1, <2>2, <2>3
<1>9. Sound(r)'
  BY <1>6, <1>7, <1>8 DEF Sound
<1> QED
  BY <1>3, <1>4, <1>9, Moved

\* What a request reads on the pool are rows.
LEMMA SeenTyped ==
  ASSUME IInv, NEW S
  PROVE  Seen(S) \in [Slots -> Row] /\ \A s \in Slots \cap S : Seen(S)[s] = item[s]
  BY NoRowTyped DEF IInv, Typed, Seen

\* Beginning, by each of the five entry points.
LEMMA Begins ==
  ASSUME IInv, NEW r \in Requests, Begin(r)
  PROVE  IInv'
<1> USE IdleTyped
<1>1. CASE TouchOcc(r)
  <2>1. PICK op \in Single \cup ById, s \in Slots :
          Start(r, [Idle EXCEPT !.op = op, !.stage = "slot", !.slot = s, !.seen = Seen({s})])
    BY <1>1 DEF TouchOcc
  <2> DEFINE q == [Idle EXCEPT !.op = op, !.stage = "slot", !.slot = s, !.seen = Seen({s})]
  <2>2. q \in Request
    BY SeenTyped DEF Request, Ops, Stages
  <2>3. /\ q.op = op /\ q.stage = "slot" /\ q.slot = s /\ q.todo = {} /\ q.tx = 0
        /\ \A x \in Slots : q.now[x] = NoRow
    BY Zenon DEF Idle
  <2>4. Start(r, q)
    BY <2>1
  <2> HIDE DEF q
  <2>5. Shape(q)
    BY <2>3 DEF Shape, Single, ById, Ready, Settle, Records
  <2> QED
    BY <2>2, <2>3, <2>4, <2>5, Starts
<1>2. CASE bulk(r)
  <2>1. PICK op \in Ready, due \in SUBSET {s \in Slots : Open(item[s])} :
          Start(r, [Idle EXCEPT !.op = op, !.stage = "next", !.todo = due, !.seen = Seen(due)])
    BY <1>2 DEF bulk
  <2> DEFINE q == [Idle EXCEPT !.op = op, !.stage = "next", !.todo = due, !.seen = Seen(due)]
  <2>2. q \in Request
    BY SeenTyped DEF Request, Ops, Stages
  <2>3. /\ q.op = op /\ q.stage = "next" /\ q.seen = Seen(due) /\ \A x \in Slots : q.now[x] = NoRow
    BY Zenon DEF Idle
  <2>4. Start(r, q)
    BY <2>1
  <2> HIDE DEF q
  <2>5. \A s \in Slots : ~filled(q.seen[s])
    BY <2>3, NoRowTyped DEF Seen, Open, filled
  <2>6. Shape(q)
    BY <2>3, <2>5 DEF Shape, Single, ById, Ready, Settle, Records
  <2> QED
    BY <2>2, <2>3, <2>4, <2>6, Starts
<1>3. CASE SettleOccurrences(r)
  <2>1. PICK op \in Settle, picked \in SUBSET Slots :
          Start(r, [Idle EXCEPT !.op = op, !.stage = "next", !.todo = picked])
    BY <1>3 DEF SettleOccurrences
  <2> DEFINE q == [Idle EXCEPT !.op = op, !.stage = "next", !.todo = picked]
  <2>2. q \in Request
    BY DEF Request, Ops, Stages
  <2>3. /\ q.op = op /\ q.stage = "next" /\ \A x \in Slots : q.now[x] = NoRow
    BY Zenon DEF Idle
  <2>4. Start(r, q)
    BY <2>1
  <2> HIDE DEF q
  <2>5. Shape(q)
    BY <2>3 DEF Shape, Single, ById, Ready, Settle, Records
  <2> QED
    BY <2>2, <2>3, <2>4, <2>5, Starts
<1>4. CASE linkOcc(r)
  <2>1. PICK s \in Slots, t \in txs, replace \in BOOLEAN :
          /\ item[s].tx \in {0, t} \/ replace
          /\ Start(r, [Idle EXCEPT !.op = "link", !.stage = "other", !.slot = s, !.tx = t,
                                   !.replace = replace, !.seen = Seen({s})])
    BY <1>4 DEF linkOcc
  <2> DEFINE q == [Idle EXCEPT !.op = "link", !.stage = "other", !.slot = s, !.tx = t,
                               !.replace = replace, !.seen = Seen({s})]
  <2>2. t \in TxIds /\ t # 0
    BY SlotBounds DEF IInv, Typed, TxIds
  <2>3. q \in Request
    BY <2>2, SeenTyped DEF Request, Ops, Stages
  <2>4. /\ q.op = "link" /\ q.stage = "other" /\ q.slot = s /\ q.todo = {} /\ q.tx = t
        /\ q.replace = replace /\ q.seen = Seen({s}) /\ \A x \in Slots : q.now[x] = NoRow
    BY Zenon DEF Idle
  <2>5. Start(r, q)
    BY <2>1
  <2> HIDE DEF q
  <2>6. q.seen[q.slot] = item[s]
    BY <2>4, SeenTyped
  <2>7. Shape(q)
    BY <2>1, <2>2, <2>4, <2>6 DEF Shape, Single, ById, Ready, Settle, Records
  <2> QED
    BY <2>3, <2>4, <2>5, <2>7, Starts
<1>5. CASE deleteTx(r)
  <2>1. PICK t \in txs :
          Start(r, [Idle EXCEPT !.op = "deleteTx", !.stage = "hook", !.tx = t, !.seen = item])
    BY <1>5 DEF deleteTx
  <2> DEFINE q == [Idle EXCEPT !.op = "deleteTx", !.stage = "hook", !.tx = t, !.seen = item]
  <2>2. t \in TxIds /\ t # 0
    BY SlotBounds DEF IInv, Typed, TxIds
  <2>3. q \in Request
    BY <2>2 DEF Request, Ops, Stages, IInv, Typed
  <2>4. /\ q.op = "deleteTx" /\ q.stage = "hook" /\ q.tx = t /\ q.todo = {} /\ \A x \in Slots : q.now[x] = NoRow
    BY Zenon DEF Idle
  <2>5. Start(r, q)
    BY <2>1
  <2> HIDE DEF q
  <2>6. Shape(q)
    BY <2>2, <2>4 DEF Shape, Single, ById, Ready, Settle, Records
  <2> QED
    BY <2>3, <2>4, <2>5, <2>6, Starts
<1> QED
  BY <1>1, <1>2, <1>3, <1>4, <1>5 DEF Begin

-----------------------------------------------------------------------------
(* Steps within the transaction.                                           *)

\* Going on to the next occurrence changes the turn and nothing else.
LEMMA OnwardKeeps ==
  ASSUME NEW q \in Request, NEW s
  PROVE  LET p == OnwardFrom(q, s) IN
         /\ p \in Request /\ p.op = q.op /\ p.slot = q.slot /\ p.tx = q.tx /\ p.replace = q.replace
         /\ p.seen = q.seen /\ p.now = q.now /\ p.todo = q.todo \ {s}
         /\ p.stage = IF p.todo = {} THEN "ready" ELSE "next"
  BY DEF OnwardFrom, Request, Stages

\* A step of one request, as an effect.
LEMMA StepMoves ==
  ASSUME IInv, NEW r \in Requests, NEW q \in Request, Step(r, q),
         nextTx' = nextTx \/ (nextTx <= MaxTx /\ nextTx' = nextTx + 1),
         holder' \in [Keys -> Requests \cup {Nobody}],
         \A k \in Keys : holder'[k] = holder[k] \/ (holder[k] \in {Nobody, r} /\ holder'[k] \in {Nobody, r})
  PROVE  Moves(r, q)
  BY SlotBounds DEF IInv, Typed, Step, Moves

\* Taking a free lock, or one already held.
LEMMA Locked ==
  ASSUME IInv, NEW r \in Requests, NEW k \in Keys, Lock(r, k)
  PROVE  /\ holder' \in [Keys -> Requests \cup {Nobody}]
         /\ \A m \in Keys : holder'[m] = holder[m] \/ (holder[m] \in {Nobody, r} /\ holder'[m] \in {Nobody, r})
         /\ \A m \in Keys : holder'[m] = r <=> holder[m] = r \/ m = k
         /\ Touched(r)' = Touched(r) \cup {s \in Slots : k = <<"slot", s>>}
<1>1. holder \in [Keys -> Requests \cup {Nobody}]
  BY DEF IInv, Typed
<1>2. /\ holder' \in [Keys -> Requests \cup {Nobody}]
      /\ \A m \in Keys : holder'[m] = holder[m] \/ (holder[m] \in {Nobody, r} /\ holder'[m] \in {Nobody, r})
      /\ \A m \in Keys : holder'[m] = r <=> holder[m] = r \/ m = k
  BY <1>1 DEF Lock
<1>3. \A s \in Slots : <<"slot", s>> \in Keys
  BY DEF Keys
<1> QED
  BY <1>2, <1>3 DEF Touched

\* The three kinds of locks are apart.
LEMMA KeysApart ==
  /\ \A s \in Slots : <<"slot", s>> \in Keys /\ <<"slot", s>>[1] = "slot"
  /\ <<"wallet", 0>> \in Keys /\ \A s \in Slots : <<"wallet", 0>> # <<"slot", s>>
  /\ \A t \in TxIds : <<"tx", t>> \in Keys /\ <<"tx", t>>[1] = "tx" /\ \A s \in Slots : <<"tx", t>> # <<"slot", s>>
  /\ \A k \in Keys : k[1] = "wallet" <=> k = <<"wallet", 0>>
  BY DEF Keys

\* A request that takes no lock and has not changed what it means to write.
LEMMA Turned ==
  ASSUME IInv, NEW r \in Requests, NEW q \in Request, Step(r, q), UNCHANGED <<nextTx, holder>>,
         q.now = request[r].now, q.op = request[r].op, q.tx = request[r].tx,
         q.replace = request[r].replace, \A s \in Touched(r) : q.seen[s] = request[r].seen[s],
         q.op = "link" => q.slot = request[r].slot /\ q.stage # "ready" /\ request[r].stage # "ready"
  PROVE  /\ Moves(r, q) /\ Brings(r, q) /\ request'[r] = q /\ Touched(r)' = Touched(r)
         /\ \A s \in Touched(r)' : Pending(r, s)'
<1>1. Moves(r, q)
  BY StepMoves DEF IInv, Typed
<1>2. Brings(r, q)
  BY DEF Brings
<1>3. request'[r] = q /\ Touched(r)' = Touched(r)
  BY DEF Step, IInv, Typed, Touched
<1>4. ASSUME NEW s \in Touched(r)' PROVE Pending(r, s)'
  <2>1. s \in Touched(r) /\ s \in Slots
    BY <1>3 DEF Touched
  <2>2. Pending(r, s)
    BY <2>1 DEF IInv, RequestsHold, Sound
  <2>3. filled(request[r].now[s]) /\ Made(r, s) => Made(r, s)'
    BY <1>1, <1>2, <1>3, <2>1, NotMade
  <2>4. item' = item /\ txs' = txs
    BY DEF Step
  <2> QED
    BY <1>3, <2>1, <2>2, <2>3, <2>4 DEF Pending
<1> QED
  BY <1>1, <1>2, <1>3, <1>4

\* Turning to the next of several occurrences.
LEMMA NextOccKeeps ==
  ASSUME IInv, NEW r \in Requests, NextOcc(r)
  PROVE  IInv'
<1> DEFINE q == request[r]
<1>1. q \in Request /\ q.stage = "next" /\ q.op \in Ready \cup Settle /\ UNCHANGED <<nextTx, holder>>
  BY DEF NextOcc, IInv, Typed
<1>2. Sound(r)
  BY DEF IInv, RequestsHold
<1>3. Shape(q) /\ q.todo \cap Touched(r) = {} /\ \A s \in Slots \ Touched(r) : q.now[s] = NoRow
  BY <1>1, <1>2 DEF Sound, Holdings
<1> DEFINE Next1(p) ==
      /\ p \in Request /\ Step(r, p) /\ p.now = q.now /\ p.op = q.op /\ p.tx = q.tx /\ p.replace = q.replace
      /\ \A s \in Touched(r) : p.seen[s] = q.seen[s]
      /\ p.op = "skipReady" => p.seen = q.seen
      /\ p.todo \subseteq q.todo
      /\ p.stage \in {"slot", "next", "ready"}
      /\ p.stage = "slot" => p.slot \in p.todo
<1>4. \E p : Next1(p)
  <2>1. CASE \E s \in q.todo : Step(r, [q EXCEPT !.slot = s, !.stage = "slot"])
    <3>1. PICK s \in q.todo : Step(r, [q EXCEPT !.slot = s, !.stage = "slot"])
      BY <2>1
    <3>2. s \in Slots
      BY <1>1 DEF Request
    <3> DEFINE p == [q EXCEPT !.slot = s, !.stage = "slot"]
    <3>3. Next1(p)
      BY <1>1, <3>1, <3>2 DEF Request, Stages
    <3> QED
      BY <3>3
  <2>2. CASE q.op \in Settle /\ \E s \in q.todo : Step(r, OnwardFrom(q, s))
    <3>1. PICK s \in q.todo : Step(r, OnwardFrom(q, s))
      BY <2>2
    <3> DEFINE p == OnwardFrom(q, s)
    <3>2. Next1(p)
      BY <1>1, <3>1, OnwardKeeps
    <3> QED
      BY <3>2
  <2>3. CASE q.op \in Settle /\ \E s \in q.todo :
                Step(r, [q EXCEPT !.slot = s, !.stage = "slot", !.seen[s] = item[s]])
    <3>1. PICK s \in q.todo : Step(r, [q EXCEPT !.slot = s, !.stage = "slot", !.seen[s] = item[s]])
      BY <2>3
    <3>2. s \in Slots /\ s \notin Touched(r) /\ item[s] \in Row
      BY <1>1, <1>3 DEF Request, IInv, Typed
    <3> DEFINE p == [q EXCEPT !.slot = s, !.stage = "slot", !.seen[s] = item[s]]
    <3>3. p \in Request
      BY <1>1, <3>2 DEF Request, Stages
    <3>4. /\ p.now = q.now /\ p.op = q.op /\ p.tx = q.tx /\ p.replace = q.replace
          /\ p.todo = q.todo /\ p.slot = s /\ p.stage = "slot"
      BY <1>1 DEF Request
    <3>5. \A x \in Touched(r) : p.seen[x] = q.seen[x]
      BY <1>1, <3>2 DEF Request, Touched
    <3>6. q.op # "skipReady"
      BY <2>3 DEF Settle
    <3>7. Next1(p)
      BY <3>1, <3>3, <3>4, <3>5, <3>6
    <3> QED
      BY <3>7
  <2> QED
    BY <2>1, <2>2, <2>3 DEF NextOcc
<1>5. PICK p : Next1(p)
  BY <1>4
<1>6. q.op \notin {"none", "link", "deleteTx", "deleteItemTx"} \cup Single \cup ById
  BY <1>1 DEF Ready, Settle, Single, ById
<1> HIDE DEF q
<1>7. /\ Moves(r, p) /\ Brings(r, p) /\ request'[r] = p /\ Touched(r)' = Touched(r)
      /\ \A s \in Touched(r)' : Pending(r, s)'
  BY <1>1, <1>5, <1>6, Turned DEF q
<1>8. Shape(request[r])'
  <2>1. p.slot \in Slots \cup {0} /\ p.todo \subseteq Slots
    BY <1>5 DEF Request
  <2> QED
    BY <1>1, <1>3, <1>5, <1>6, <1>7, <2>1 DEF Shape
<1>9. Holdings(r)'
  BY <1>1, <1>3, <1>5, <1>6, <1>7 DEF Holdings
<1>10. TxLocks(r)' /\ InTurn(r)'
  BY <1>5, <1>6, <1>7 DEF TxLocks, InTurn
<1> QED
  BY <1>7, <1>8, <1>9, <1>10, Moved DEF Sound

\* The row under its lock: the stored one, the request's own, or a new one.
LEMMA Stored ==
  ASSUME IInv, NEW r \in Requests, NEW s \in Slots, FreeIds # {}
  PROVE  LET row == store(r, s) IN
         /\ row \in Row /\ row.id # 0 /\ row.id \in {item[s].id, request[r].now[s].id} \cup FreeIds
         /\ s \notin Touched(r) => row.tx = item[s].tx /\ (marked(row) => marked(item[s]))
         /\ s \in Touched(r) => \/ row.tx = request[r].now[s].tx /\ (marked(row) => marked(request[r].now[s]))
                                \/ row.tx = 0
<1> DEFINE old == IF holder[<<"slot", s>>] = r THEN request[r].now[s] ELSE item[s]
<1> DEFINE new == [NoRow EXCEPT !.id = FreshId]
<1>1. old \in Row /\ (old.id = 0 => old = NoRow)
  BY DEF IInv, Typed, Request, RowsHaveIds
<1>2. FreshId \in FreeIds /\ FreeIds \subseteq 1 .. MaxIds
  BY DEF FreshId, FreeIds
<1>3. new \in Row /\ new.id = FreshId /\ new.tx = 0 /\ ~marked(new)
  <2>1. \A f \in 0 .. MaxIds : LET n == [NoRow EXCEPT !.id = f] IN
          n \in Row /\ n.id = f /\ n.tx = 0 /\ ~marked(n)
    BY DEF NoRow, Row, TxIds, marked
  <2>2. FreshId \in 0 .. MaxIds
    BY <1>2, SlotBounds
  <2> QED
    BY <2>1, <2>2
<1>4. store(r, s) = IF old = NoRow THEN new ELSE old
  BY DEF store
<1>5. old = IF s \in Touched(r) THEN request[r].now[s] ELSE item[s]
  BY DEF Touched
<1> HIDE DEF old, new
<1>6. CASE old = NoRow
  <2>1. store(r, s) = new /\ new.id # 0 /\ (s \notin Touched(r) => item[s].tx = 0)
    BY <1>2, <1>3, <1>4, <1>5, <1>6, NoRowTyped, SlotBounds
  <2> QED
    BY <1>2, <1>3, <2>1
<1>7. CASE old # NoRow
  <2>1. store(r, s) = old
    BY <1>4, <1>7
  <2> QED
    BY <1>1, <1>5, <1>7, <2>1
<1> QED
  BY <1>6, <1>7

\* The request puts row n down for slot o, under the slot's lock.
LEMMA PutDown ==
  ASSUME IInv, NEW r \in Requests, NEW q \in Request, NEW o \in Slots, Step(r, q), nextTx' = nextTx,
         Lock(r, <<"slot", o>>), \A s \in Slots \ {o} : q.now[s] = request[r].now[s],
         \/ q.now[o] = NoRow
         \/ /\ q.now[o].id # 0 /\ q.now[o].id \in {item[o].id, request[r].now[o].id} \cup FreeIds
            /\ q.now[o].tx \in {0, item[o].tx}
  PROVE  /\ Moves(r, q) /\ Brings(r, q) /\ request'[r] = q
         /\ Touched(r)' = Touched(r) \cup {o}
         /\ \A k \in Keys : holder'[k] = r <=> holder[k] = r \/ k = <<"slot", o>>
<1>1. <<"slot", o>> \in Keys
  BY KeysApart
<1>2. Touched(r)' = Touched(r) \cup {o}
  BY <1>1, Locked
<1>3. Moves(r, q)
  BY <1>1, Locked, StepMoves
<1>4. item[o].tx < nextTx /\ 0 < nextTx
  BY SlotBounds DEF IInv, Typed, OneEach, TxsAreOld, filled
<1>5. Brings(r, q)
  BY <1>4, NoRowTyped DEF Brings
<1>6. request'[r] = q
  BY DEF Step, IInv, Typed
<1> QED
  BY <1>1, <1>2, <1>3, <1>5, <1>6, Locked

\* An occurrence locked, looked at again and decided.
LEMMA LockOccPuts ==
  ASSUME IInv, NEW r \in Requests, NEW n,
         LET q == request[r]
             row == store(r, q.slot)
             p == [q EXCEPT !.now[q.slot] = n]
         IN /\ q.stage = "slot" /\ Takes(q.op, row) /\ n \in Results(q.op, row)
            /\ FreeIds # {} /\ Lock(r, <<"slot", q.slot>>) /\ nextTx' = nextTx
            /\ Step(r, CASE q.op \in Records -> [p EXCEPT !.stage = "wallet"]
                         [] q.op = "link" -> [p EXCEPT !.stage = "tx"]
                         [] q.op = "deleteItemTx" /\ filled(row) ->
                              [p EXCEPT !.stage = "tx", !.tx = row.tx]
                         [] OTHER -> Onward(p))
  PROVE  IInv'
<1> DEFINE q == request[r]
           o == q.slot
           row == store(r, o)
           p == [q EXCEPT !.now[o] = n]
           a == CASE q.op \in Records -> [p EXCEPT !.stage = "wallet"]
                  [] q.op = "link" -> [p EXCEPT !.stage = "tx"]
                  [] q.op = "deleteItemTx" /\ filled(row) -> [p EXCEPT !.stage = "tx", !.tx = row.tx]
                  [] OTHER -> Onward(p)
<1>1. /\ q \in Request /\ q.stage = "slot" /\ Takes(q.op, row) /\ n \in Results(q.op, row)
      /\ FreeIds # {} /\ Lock(r, <<"slot", o>>) /\ nextTx' = nextTx /\ Step(r, a)
  BY DEF IInv, Typed
<1>2. Sound(r)
  BY DEF IInv, RequestsHold
<1>3. Shape(q) /\ Holdings(r) /\ TxLocks(r) /\ InTurn(r) /\ \A s \in Touched(r) : Pending(r, s)
  BY <1>2 DEF Sound
<1>4. /\ o \in Slots /\ q.op # "deleteTx" /\ q.op # "none" /\ (q.op # "link" => o \notin Touched(r))
      /\ q.todo \cap Touched(r) = {} /\ \A s \in Slots \ Touched(r) : q.now[s] = NoRow
  BY <1>1, <1>3 DEF Shape, Holdings
<1>5. /\ row \in Row /\ row.id # 0 /\ row.id \in {item[o].id, q.now[o].id} \cup FreeIds
      /\ o \notin Touched(r) => row.tx = item[o].tx /\ (marked(row) => marked(item[o]))
      /\ o \in Touched(r) => \/ row.tx = q.now[o].tx /\ (marked(row) => marked(q.now[o]))
                             \/ row.tx = 0
  BY <1>1, <1>4, Stored
<1>6. /\ n \in Row /\ (n = NoRow \/ n.id = row.id)
      /\ q.op \in Records \cup {"skip", "settleSkip", "paid", "paidReady", "settlePaid", "edit"} =>
           row.tx = 0 /\ n.tx = 0
      /\ q.op \in Records \cup {"link"} => n.id = row.id
      /\ q.op \in {"restore", "unmark", "restoreItem", "link"} => n.tx = row.tx /\ (marked(n) => marked(row))
      /\ q.op \in {"skipReady", "archiveItem"} => n.tx = row.tx
      /\ q.op = "unlink" => n.tx = 0
      /\ q.op \in {"deleteItem", "deleteItemTx"} => n = NoRow
  <2>1. q.op \in Ops
    BY <1>1 DEF Request
  <2> HIDE DEF q, row, o
  <2> QED
    BY <1>1, <1>5, <2>1, Outcomes
<1>7. /\ p \in Request /\ p.now[o] = n /\ \A s \in Slots \ {o} : p.now[s] = q.now[s]
      /\ p.op = q.op /\ p.slot = o /\ p.todo = q.todo /\ p.tx = q.tx /\ p.replace = q.replace
      /\ p.seen = q.seen
  <2>1. q.slot = o /\ n \in Row
    BY <1>6, NoRowTyped
  <2> HIDE DEF q, o, row
  <2> QED
    BY <1>1, <1>4, <2>1 DEF Request
<1>8. /\ a \in Request /\ a.now = p.now /\ a.op = q.op /\ a.slot = o /\ a.replace = q.replace /\ a.seen = q.seen
      /\ \/ q.op \in Records /\ a.stage = "wallet" /\ a.tx = q.tx /\ a.todo = q.todo
         \/ q.op = "link" /\ a.stage = "tx" /\ a.tx = q.tx /\ a.todo = q.todo
         \/ q.op = "deleteItemTx" /\ a.stage = "tx" /\ a.tx = row.tx /\ row.tx # 0 /\ a.todo = q.todo
         \/ /\ q.op \notin Records \cup {"link"} /\ (q.op = "deleteItemTx" => row.tx = 0)
            /\ a.tx = q.tx /\ a.todo = q.todo \ {o} /\ a.stage = IF a.todo = {} THEN "ready" ELSE "next"
  <2> HIDE DEF q, o, p, row
  <2>1. CASE q.op \in Records
    <3>1. a = [p EXCEPT !.stage = "wallet"]
      BY <2>1 DEF Records
    <3> HIDE DEF a
    <3> QED
      BY <1>7, <2>1, <3>1 DEF Request, Stages
  <2>2. CASE q.op = "link"
    <3>1. a = [p EXCEPT !.stage = "tx"]
      BY <2>2 DEF Records
    <3> HIDE DEF a
    <3> QED
      BY <1>7, <2>2, <3>1 DEF Request, Stages
  <2>3. CASE q.op = "deleteItemTx" /\ filled(row)
    <3>1. a = [p EXCEPT !.stage = "tx", !.tx = row.tx]
      BY <2>3 DEF Records
    <3>2. row.tx \in {0} \cup TxIds /\ row.tx # 0
      BY <1>5, <2>3 DEF Row, filled
    <3> HIDE DEF a
    <3> QED
      BY <1>7, <2>3, <3>1, <3>2 DEF Request, Stages
  <2>4. CASE q.op \notin Records \cup {"link"} /\ ~(q.op = "deleteItemTx" /\ filled(row))
    <3>1. a = OnwardFrom(p, p.slot)
      BY <2>4 DEF Onward
    <3> HIDE DEF a
    <3> QED
      BY <1>7, <2>4, <3>1, OnwardKeeps DEF filled
  <2> QED
    BY <2>1, <2>2, <2>3, <2>4
<1> HIDE DEF a, p, row, o, q
<1>9. /\ Moves(r, a) /\ Brings(r, a) /\ request'[r] = a
      /\ Touched(r)' = Touched(r) \cup {o}
      /\ \A k \in Keys : holder'[k] = r <=> holder[k] = r \/ k = <<"slot", o>>
  <2>1. n.tx \in {0, item[o].tx}
    <3>1. CASE q.op = "link" /\ o \in Touched(r)
      <4>1. Pending(r, o)
        BY <1>3, <3>1
      <4>2. q.now[o].tx \in {0, item[o].tx}
        BY <1>1, <3>1, <4>1 DEF Pending, q, o
      <4> QED
        BY <1>5, <1>6, <3>1, <4>2
    <3>2. CASE o \notin Touched(r)
      <4>1. q.op \in Ops
        BY <1>1 DEF Request
      <4> QED
        BY <1>4, <1>5, <1>6, <3>2, <4>1, NoRowTyped DEF Ops, Single, ById, Ready, Settle, Records
    <3> QED
      BY <1>4, <3>1, <3>2
  <2>2. a.now[o] = n /\ \A s \in Slots \ {o} : a.now[s] = request[r].now[s]
    BY <1>7, <1>8 DEF q
  <2>3. n = NoRow \/ (n.id # 0 /\ n.id \in {item[o].id, request[r].now[o].id} \cup FreeIds)
    BY <1>5, <1>6 DEF q
  <2> QED
    BY <1>1, <1>4, <1>8, <2>1, <2>2, <2>3, PutDown
<1>10. ASSUME NEW s \in Touched(r) \cup {o} PROVE Pending(r, s)'
  <2>1. CASE s # o
    <3>1. s \in Touched(r) /\ s \in Slots
      BY <2>1 DEF Touched
    <3>2. a.tx = q.tx
      BY <1>3, <1>4, <1>8, <2>1, <3>1 DEF Holdings, ById, q, o
    <3> QED
      BY <1>1, <1>7, <1>8, <1>9, <2>1, <3>1, <3>2, StillPending DEF q, o
  <2>2. CASE s = o
    <3>1. request'[r] = a /\ item' = item /\ a.now[o] = n
      BY <1>7, <1>8, <1>9 DEF Moves
    <3>2. CASE q.op = "link"
      <4>1. \/ n.tx = item[o].tx /\ (marked(n) => marked(item[o]))
            \/ n.tx = 0
        <5>1. CASE o \in Touched(r)
          <6>1. Pending(r, o)
            BY <1>3, <5>1
          <6>2. \/ q.now[o].tx = item[o].tx /\ (marked(q.now[o]) => marked(item[o]))
                \/ q.now[o].tx = 0
            BY <1>1, <3>2, <6>1 DEF Pending, q, o
          <6> QED
            BY <1>5, <1>6, <3>2, <5>1, <6>2
        <5>2. CASE o \notin Touched(r)
          BY <1>5, <1>6, <3>2, <5>2
        <5> QED
          BY <5>1, <5>2
      <4>2. a.op = "link" /\ a.slot = o /\ a.stage = "tx"
        BY <1>8, <3>2 DEF Records
      <4> QED
        BY <2>2, <3>1, <4>1, <4>2 DEF Pending, Records
    <3>3. CASE q.op # "link"
      <4>1. row.tx = item[o].tx /\ (marked(row) => marked(item[o]))
        BY <1>4, <1>5, <3>3
      <4>2. a.op = q.op /\ a.op \notin {"link", "deleteTx"}
        BY <1>4, <1>8, <3>3
      <4> QED
        BY <1>6, <2>2, <3>1, <4>1, <4>2 DEF Pending, filled
    <3> QED
      BY <3>2, <3>3
  <2> QED
    BY <2>1, <2>2
<1>11. Shape(request[r])'
  <2>1. q.op \in Single \cup ById \cup Ready \cup Settle \cup {"link"}
    BY <1>1, <1>4 DEF Request, Ops
  <2>2. q.op \in Single \cup ById \cup {"link"} => a.todo = {}
    BY <1>3, <1>8 DEF Shape
  <2>3. q.op = "skipReady" => \A s \in Slots : ~filled(a.seen[s])
    BY <1>3, <1>8 DEF Shape
  <2>4. q.op = "link" => a.tx # 0 /\ (~a.replace => a.seen[a.slot].tx \in {0, a.tx})
    BY <1>3, <1>8 DEF Shape, o, Records
  <2>5. Shape(a)
    BY <1>4, <1>8, <2>1, <2>2, <2>3, <2>4 DEF Shape, Single, ById, Ready, Settle, Records
  <2> QED
    BY <1>9, <2>5 DEF Shape
<1>12. Holdings(r)'
  <2>1. q.op \in Single \cup ById => Touched(r) \cup {o} \subseteq {o}
    BY <1>3 DEF Holdings, q, o
  <2>2. q.todo \cap (Touched(r) \cup {o}) \subseteq {o}
    BY <1>4
  <2>3. \A s \in Slots \ (Touched(r) \cup {o}) : a.now[s] = NoRow
    BY <1>4, <1>7, <1>8
  <2>4. a.stage \in {"wallet", "tx", "next", "ready"} /\ a.op = q.op /\ a.slot = o /\ a.todo \subseteq q.todo
        /\ (a.stage = "next" => o \notin a.todo) /\ a.now[o] = n
    BY <1>7, <1>8
  <2>5. (a.op \in Records => n.tx = 0) /\ (a.op \in Records \cup {"link"} => n.id # 0)
    BY <1>5, <1>6, <2>4
  <2> QED
    BY <1>9, <2>1, <2>2, <2>3, <2>4, <2>5 DEF Holdings
<1>13. TxLocks(r)'
  <2>1. q.op = "deleteItemTx" => a.slot = o /\ a.tx = item[o].tx /\ (a.tx = 0 \/ a.stage = "tx")
    <3>1. q.op = "deleteItemTx" => q.tx = 0 /\ row.tx = item[o].tx
      BY <1>1, <1>3, <1>4, <1>5 DEF Shape
    <3> QED
      BY <1>8, <3>1 DEF Records
  <2>2. a.op = q.op /\ item' = item
    BY <1>8, <1>9 DEF Moves
  <2> QED
    BY <1>4, <1>9, <2>1, <2>2 DEF TxLocks
<1>14. InTurn(r)'
  <2>1. q.op \in Single \cup ById => \A k \in Keys : holder[k] # r
    BY <1>1, <1>3 DEF InTurn, q
  <2>2. a.op = q.op /\ a.stage # "slot"
    BY <1>8
  <2>3. q.op \in Single \cup ById => \A k \in Keys : holder'[k] = r => k[1] = "slot"
    BY <1>4, <1>9, <2>1, KeysApart
  <2> QED
    BY <1>4, <1>9, <2>2, <2>3 DEF InTurn
<1> QED
  BY <1>9, <1>10, <1>11, <1>12, <1>13, <1>14, Moved DEF Sound

\* An occurrence left out: the savepoint rolled back.
LEMMA LeavesOut ==
  ASSUME IInv, NEW r \in Requests, NEW S, LeaveOut(r, request[r], S),
         LET q == request[r] IN
           \/ q.stage = "slot" /\ S = {}
           \/ q.stage = "wallet" /\ q.op \in Records /\ S = {<<"slot", q.slot>>}
  PROVE  IInv'
<1> DEFINE q == request[r]
           o == q.slot
           p == [q EXCEPT !.now[o] = NoRow]
           a == OnwardFrom(p, o)
<1>1. /\ q \in Request /\ q.op \in Savepoints /\ q.stage \in {"slot", "wallet"}
      /\ q.stage = "wallet" => q.op \in Records
      /\ nextTx' = nextTx
      /\ holder' = [k \in Keys |-> IF k \in S /\ holder[k] = r THEN Nobody ELSE holder[k]]
  BY DEF IInv, Typed, LeaveOut
<1>2. Shape(q) /\ Holdings(r) /\ TxLocks(r) /\ InTurn(r) /\ \A s \in Touched(r) : Pending(r, s)
  BY DEF IInv, RequestsHold, Sound
<1>3. q.op \in Ready \cup Settle
  BY <1>1 DEF Savepoints, Ready
<1>4. q.op \notin {"none", "link", "deleteTx", "deleteItemTx"} \cup Single \cup ById
  BY <1>3 DEF Ready, Settle, Single, ById
<1>5. /\ o \in Slots /\ q.todo \cap Touched(r) \subseteq {o} /\ q.todo \subseteq Slots
      /\ \A s \in Slots \ Touched(r) : q.now[s] = NoRow
      /\ S = {} => o \notin Touched(r)
  BY <1>1, <1>2, <1>4 DEF Shape, Holdings, Touched, Request
<1>6. /\ p \in Request /\ p.now[o] = NoRow /\ \A s \in Slots \ {o} : p.now[s] = q.now[s]
      /\ p.op = q.op /\ p.slot = o /\ p.todo = q.todo /\ p.tx = q.tx /\ p.replace = q.replace
      /\ p.seen = q.seen
  <2>1. q.slot = o
    OBVIOUS
  <2> HIDE DEF q, o
  <2> QED
    BY <1>1, <1>5, <2>1, NoRowTyped DEF Request
<1>7. Step(r, a)
  BY <1>6 DEF LeaveOut, Onward
<1> HIDE DEF p
<1>8. /\ a \in Request /\ a.now = p.now /\ a.op = q.op /\ a.slot = o /\ a.replace = q.replace /\ a.seen = q.seen
      /\ a.tx = q.tx /\ a.todo = q.todo \ {o} /\ a.stage \in {"ready", "next"}
  BY <1>6, OnwardKeeps
<1> HIDE DEF a, o, q
<1>9. \A s \in Slots : holder'[<<"slot", s>>] = IF s = o /\ holder[<<"slot", s>>] = r /\ S # {} THEN Nobody
                                                  ELSE holder[<<"slot", s>>]
  BY <1>1, KeysApart DEF LeaveOut, q, o
<1>10. Touched(r)' = Touched(r) \ {o}
  BY <1>5, <1>9, SlotNobody DEF Touched
<1>11. Moves(r, a)
  <2>1. /\ holder' \in [Keys -> Requests \cup {Nobody}]
        /\ \A k \in Keys : holder'[k] = holder[k] \/ (holder[k] = r /\ holder'[k] = Nobody)
    BY <1>1 DEF IInv, Typed
  <2> QED
    BY <1>1, <1>7, <1>8, <2>1, StepMoves
<1>12. Brings(r, a)
  BY <1>6, <1>8 DEF Brings, q
<1>13. request'[r] = a
  BY <1>7 DEF Step, IInv, Typed
<1>14. ASSUME NEW s \in Touched(r)' PROVE Pending(r, s)'
  <2>1. s \in Touched(r) /\ s \in Slots \ {o}
    BY <1>10 DEF Touched
  <2> QED
    BY <1>4, <1>6, <1>8, <1>11, <1>12, <2>1, StillPending DEF q, o
<1>15. Shape(request[r])'
  <2>1. Shape(a)
    BY <1>2, <1>3, <1>4, <1>8 DEF Shape
  <2> QED
    BY <1>13, <2>1 DEF Shape
<1>16. Holdings(r)'
  <2>1. \A s \in Slots \ (Touched(r) \ {o}) : a.now[s] = NoRow
    BY <1>5, <1>6, <1>8
  <2> QED
    BY <1>4, <1>5, <1>8, <1>10, <1>13, <2>1 DEF Holdings
<1>17. TxLocks(r)' /\ InTurn(r)'
  BY <1>4, <1>8, <1>13 DEF TxLocks, InTurn
<1> QED
  BY <1>11, <1>12, <1>14, <1>15, <1>16, <1>17, Moved DEF Sound

\* The row under its lock, taken or left out.
LEMMA LockOccKeeps ==
  ASSUME IInv, NEW r \in Requests, LockOcc(r)
  PROVE  IInv'
<1> DEFINE q == request[r]
           row == store(r, q.slot)
           k == <<"slot", q.slot>>
<1>1. CASE /\ StillThere(q) /\ Takes(q.op, row)
           /\ FreeIds # {}
           /\ Lock(r, k)
           /\ \E n \in Results(q.op, row) :
                LET p == [q EXCEPT !.now[q.slot] = n] IN
                  Step(r, CASE q.op \in Records -> [p EXCEPT !.stage = "wallet"]
                            [] q.op = "link" -> [p EXCEPT !.stage = "tx"]
                            [] q.op = "deleteItemTx" /\ filled(row) ->
                                 [p EXCEPT !.stage = "tx", !.tx = row.tx]
                            [] OTHER -> Onward(p))
           /\ UNCHANGED nextTx
  BY <1>1, LockOccPuts DEF LockOcc
<1>2. CASE LeaveOut(r, q, {})
  BY <1>2, LeavesOut DEF LockOcc
<1> QED
  BY <1>1, <1>2 DEF LockOcc

\* A request that locks a transaction or the wallet, and means to write what it did.
LEMMA LockTaken ==
  ASSUME IInv, NEW r \in Requests, NEW q \in Request, Step(r, q), nextTx' = nextTx,
         NEW k \in Keys, Lock(r, k), \A s \in Slots : k # <<"slot", s>>,
         q.now = request[r].now, q.op = request[r].op, q.tx = request[r].tx, q.slot = request[r].slot,
         q.replace = request[r].replace, q.seen = request[r].seen, q.op # "link"
  PROVE  /\ Moves(r, q) /\ Brings(r, q) /\ request'[r] = q /\ Touched(r)' = Touched(r)
         /\ \A m \in Keys : holder'[m] = r <=> holder[m] = r \/ m = k
         /\ \A s \in Touched(r)' : Pending(r, s)'
<1>1. Moves(r, q)
  BY Locked, StepMoves
<1>2. Brings(r, q)
  BY DEF Brings
<1>3. request'[r] = q
  BY DEF Step, IInv, Typed
<1>4. /\ Touched(r)' = Touched(r) /\ \A m \in Keys : holder'[m] = r <=> holder[m] = r \/ m = k
  BY Locked
<1>5. ASSUME NEW s \in Touched(r) PROVE Pending(r, s)'
  BY <1>1, <1>2, StillPending DEF Touched
<1> QED
  BY <1>1, <1>2, <1>3, <1>4, <1>5

\* The wallet: a record made, a record refused, or a balance moved back.
LEMMA LockWalletKeeps ==
  ASSUME IInv, NEW r \in Requests, LockWallet(r)
  PROVE  IInv'
<1> DEFINE q == request[r]
           o == q.slot
           w == <<"wallet", 0>>
<1>1. q \in Request /\ q.stage = "wallet" /\ w \in Keys /\ \A s \in Slots : w # <<"slot", s>>
  BY KeysApart DEF IInv, Typed, LockWallet
<1>2. Shape(q) /\ Holdings(r) /\ TxLocks(r) /\ InTurn(r) /\ \A s \in Touched(r) : Pending(r, s)
  BY DEF IInv, RequestsHold, Sound
<1>3. CASE /\ q.op \in Records
           /\ nextTx <= MaxTx
           /\ Lock(r, w)
           /\ nextTx' = nextTx + 1
           /\ Step(r, Onward([q EXCEPT !.now[q.slot] = fill(@, nextTx)]))
  <2> DEFINE n == fill(q.now[o], nextTx)
             p == [q EXCEPT !.now[o] = n]
             a == OnwardFrom(p, o)
  <2>1. /\ o \in Slots /\ o \in Touched(r) /\ q.now[o].id # 0 /\ q.now[o].tx = 0
        /\ q.todo \cap Touched(r) \subseteq {o} /\ q.todo \subseteq Slots
        /\ \A s \in Slots \ Touched(r) : q.now[s] = NoRow
    BY <1>1, <1>2, <1>3 DEF Holdings, Touched, Request
  <2>2. nextTx \in TxIds /\ nextTx # 0
    BY <1>3, SlotBounds DEF IInv, Typed, TxIds
  <2>3. n \in Row /\ n.tx = nextTx /\ ~marked(n) /\ n.id = q.now[o].id
    <3>1. q.now[o] \in Row
      BY <1>1, <2>1 DEF Request
    <3> HIDE DEF q, o
    <3> QED
      BY <2>2, <3>1, Fills
  <2>4. q.op \notin {"none", "link", "deleteTx", "deleteItemTx"} \cup ById /\ q.op \in Single \cup Ready \cup Settle
    BY <1>3 DEF Records, Ready, Settle, Single, ById
  <2>5. /\ p \in Request /\ p.now[o] = n /\ \A s \in Slots \ {o} : p.now[s] = q.now[s]
        /\ p.op = q.op /\ p.slot = o /\ p.todo = q.todo /\ p.tx = q.tx /\ p.replace = q.replace
        /\ p.seen = q.seen
    <3>1. q.slot = o
      OBVIOUS
    <3> HIDE DEF q, o, n
    <3> QED
      BY <1>1, <2>1, <2>3, <3>1 DEF Request
  <2>6. Step(r, a)
    BY <1>3, <2>5 DEF Onward
  <2> HIDE DEF p
  <2>7. /\ a \in Request /\ a.now = p.now /\ a.op = q.op /\ a.slot = o /\ a.replace = q.replace
        /\ a.seen = q.seen /\ a.tx = q.tx /\ a.todo = q.todo \ {o}
        /\ a.stage = IF a.todo = {} THEN "ready" ELSE "next"
    BY <2>5, OnwardKeeps
  <2> HIDE DEF a, n, o, q, w
  <2>8. Touched(r)' = Touched(r)
    BY <1>1, <1>3, Locked
  <2>9. Moves(r, a)
    BY <1>1, <1>3, <2>6, <2>7, Locked, StepMoves
  <2>10. Brings(r, a)
    <3>1. n.id # 0 /\ n.id = request[r].now[o].id /\ n.tx = nextTx /\ n.tx < nextTx'
      BY <1>3, <2>1, <2>3, SlotBounds DEF q, IInv, Typed
    <3> QED
      BY <2>1, <2>5, <2>7, <3>1 DEF Brings, q
  <2>11. request'[r] = a
    BY <2>6 DEF Step, IInv, Typed
  <2>12. ASSUME NEW s \in Slots, s = o PROVE Made(r, s)'
    <3>1. nextTx \notin txs /\ \A u \in Requests, x \in Slots : request[u].now[x].tx # nextTx
      BY SlotBounds DEF IInv, TxsAreOld, Typed
    <3>2. txs' = txs /\ request'[r].now[s].tx = nextTx
      BY <2>3, <2>5, <2>7, <2>9, <2>11, <2>12 DEF Moves
    <3>3. ASSUME NEW u \in Requests, NEW x \in Slots, request'[u].now[x].tx = nextTx
          PROVE  u = r /\ x = o
      <4>1. u = r
        BY <2>9, <3>1, <3>3 DEF Moves, IInv, Typed
      <4> QED
        BY <2>5, <2>7, <2>11, <3>1, <3>3, <4>1 DEF q
    <3> QED
      BY <2>12, <3>1, <3>2, <3>3 DEF Made
  <2>13. ASSUME NEW s \in Touched(r)' PROVE Pending(r, s)'
    <3>1. s \in Touched(r) /\ s \in Slots
      BY <2>8 DEF Touched
    <3>2. CASE s = o
      <4>1. item[o].tx = 0
        BY <1>2, <1>3, <2>1 DEF Pending, q
      <4>2. request'[r].now[o] = n /\ request'[r].op = q.op /\ item' = item
        BY <2>5, <2>7, <2>9, <2>11 DEF Moves
      <4> QED
        <5>1. Made(r, s)'
          BY <2>12, <3>1, <3>2
        <5> QED
          BY <1>3, <2>3, <3>2, <4>1, <4>2, <5>1 DEF Pending, Records
    <3>3. CASE s # o
      BY <2>4, <2>5, <2>7, <2>9, <2>10, <3>1, <3>3, StillPending DEF q, o
    <3> QED
      BY <3>2, <3>3
  <2>14. Shape(request[r])'
    <3>1. q.op \in Single => q.todo = {}
      BY <1>2 DEF Shape
    <3>2. Shape(a)
      BY <1>2, <2>1, <2>4, <2>7, <3>1 DEF Shape
    <3> QED
      BY <2>11, <3>2 DEF Shape
  <2>15. Holdings(r)'
    <3>1. \A s \in Slots \ Touched(r) : a.now[s] = NoRow
      BY <2>1, <2>5, <2>7
    <3>2. q.op \in Single \cup ById => Touched(r) \subseteq {o}
      BY <1>2 DEF Holdings, q, o
    <3> QED
      BY <2>1, <2>4, <2>7, <2>8, <2>11, <3>1, <3>2 DEF Holdings
  <2>16. TxLocks(r)' /\ InTurn(r)'
    BY <2>4, <2>7, <2>11 DEF TxLocks, InTurn
  <2> QED
    BY <2>9, <2>10, <2>13, <2>14, <2>15, <2>16, Moved DEF Sound
<1>4. CASE q.op \in Records /\ LeaveOut(r, q, {<<"slot", q.slot>>})
  BY <1>1, <1>4, LeavesOut
<1>5. CASE /\ q.op \notin Records
           /\ Lock(r, w)
           /\ Step(r, [q EXCEPT !.stage = IF q.op = "deleteTx" THEN "hook2" ELSE "ready"])
           /\ UNCHANGED nextTx
  <2> DEFINE a == [q EXCEPT !.stage = IF q.op = "deleteTx" THEN "hook2" ELSE "ready"]
  <2>1. q.op \in {"deleteTx", "deleteItemTx"}
    BY <1>1, <1>2, <1>5 DEF Shape
  <2>2. /\ a \in Request /\ a.now = q.now /\ a.op = q.op /\ a.slot = o /\ a.replace = q.replace
        /\ a.seen = q.seen /\ a.tx = q.tx /\ a.todo = q.todo
        /\ a.stage = IF q.op = "deleteTx" THEN "hook2" ELSE "ready"
    BY <1>1 DEF Request, Stages
  <2>3. Step(r, a) /\ nextTx' = nextTx
    BY <1>5
  <2> HIDE DEF a
  <2>4. /\ Moves(r, a) /\ Brings(r, a) /\ request'[r] = a /\ Touched(r)' = Touched(r)
        /\ \A m \in Keys : holder'[m] = r <=> holder[m] = r \/ m = w
        /\ \A s \in Touched(r)' : Pending(r, s)'
    BY <1>1, <1>5, <2>1, <2>2, <2>3, LockTaken
  <2> HIDE DEF q, w
  <2>5. Shape(request[r])'
    <3>1. Shape(a)
      BY <1>2, <2>1, <2>2 DEF Shape, Records, Single, ById, Ready, Settle, o
    <3> QED
      BY <2>4, <3>1 DEF Shape
  <2>6. Holdings(r)'
    <3>1. q.op \in Single \cup ById => Touched(r) \subseteq {q.slot}
      BY <1>2 DEF Holdings, q
    <3>2. \A s \in Slots \ Touched(r) : q.now[s] = NoRow
      BY <1>2 DEF Holdings, q
    <3> QED
      BY <2>1, <2>2, <2>4, <3>1, <3>2 DEF Holdings, Records, Ready, Settle, o
  <2>7. TxLocks(r)'
    <3>1. q.op = "deleteItemTx" => q.slot \in Touched(r) /\ item[q.slot].tx = q.tx
                                   /\ (q.tx # 0 => Holds(r, q.tx) /\ q.tx \in txs)
      BY <1>1, <1>2 DEF TxLocks, q
    <3>2. q.tx \in TxIds /\ Holds(r, q.tx) => holder'[<<"tx", q.tx>>] = r
      BY <2>4, KeysApart DEF Holds
    <3>3. item' = item /\ txs' = txs /\ txs \subseteq TxIds
      BY <2>4 DEF Moves, IInv, Typed
    <3>4. q.op = "deleteItemTx" /\ q.tx # 0 => holder'[<<"tx", q.tx>>] = r
      BY <3>1, <3>2, <3>3
    <3> QED
      BY <2>1, <2>2, <2>4, <3>1, <3>3, <3>4 DEF TxLocks, Holds, o
  <2>8. InTurn(r)'
    BY <2>2, <2>4 DEF InTurn
  <2> QED
    BY <2>4, <2>5, <2>6, <2>7, <2>8, Moved DEF Sound
<1> QED
  BY <1>1, <1>3, <1>4, <1>5 DEF LockWallet

\* What linking, and deleting a transaction, take down for an occurrence it fills.
LEMMA HoldingFacts ==
  ASSUME IInv, NEW r \in Requests, request[r].op \in {"link", "deleteTx"},
         NEW o \in Holding(r, request[r].tx)
  PROVE  /\ o \in Slots \ Touched(r) /\ item[o] \in Row /\ item[o].tx = request[r].tx
         /\ item[o].id # 0 /\ request[r].tx # 0
<1>1. o \in Slots \ Touched(r) /\ item[o].tx = request[r].tx
  BY DEF Holding, Touched
<1>2. request[r].tx # 0
  BY DEF IInv, RequestsHold, Sound, Shape
<1>3. item[o] \in Row /\ item[o].id # 0
  BY <1>1, <1>2, NoRowTyped DEF IInv, Typed, RowsHaveIds
<1> QED
  BY <1>1, <1>2, <1>3

\* Linking looks for the occurrence its transaction fills now.
LEMMA LockOtherKeeps ==
  ASSUME IInv, NEW r \in Requests, LockOther(r)
  PROVE  IInv'
<1> DEFINE q == request[r]
<1>1. q \in Request /\ q.stage = "other"
  BY DEF IInv, Typed, LockOther
<1>2. Shape(q) /\ Holdings(r) /\ TxLocks(r) /\ InTurn(r) /\ \A s \in Touched(r) : Pending(r, s)
  BY DEF IInv, RequestsHold, Sound
<1>3. q.op = "link" /\ q.todo = {} /\ q.slot \in Slots /\ q.tx # 0
      /\ \A s \in Slots \ Touched(r) : q.now[s] = NoRow
  BY <1>1, <1>2 DEF Shape, Holdings
<1>4. ASSUME NEW a \in Request, a.stage = "slot", a.op = "link", a.todo = {}, a.slot = q.slot, a.tx = q.tx,
             a.replace = q.replace, a.seen = q.seen,
             Moves(r, a), Brings(r, a), request'[r] = a, \A s \in Slots \ Touched(r)' : a.now[s] = NoRow,
             \A s \in Touched(r)' : Pending(r, s)'
      PROVE  IInv'
  <2>1. Shape(request[r])'
    <3>1. Shape(a)
      BY <1>2, <1>3, <1>4 DEF Shape, Single, ById, Ready, Settle, Records
    <3> QED
      BY <1>4, <3>1 DEF Shape
  <2>2. Holdings(r)'
    BY <1>4 DEF Holdings, Records, Single, ById
  <2>3. TxLocks(r)' /\ InTurn(r)'
    BY <1>4 DEF TxLocks, InTurn, Single, ById
  <2> QED
    BY <1>4, <2>1, <2>2, <2>3, Moved DEF Sound
<1>5. CASE Step(r, [q EXCEPT !.stage = "slot"]) /\ UNCHANGED <<nextTx, holder>>
  <2> DEFINE a == [q EXCEPT !.stage = "slot"]
  <2>1. /\ a \in Request /\ a.now = q.now /\ a.op = q.op /\ a.slot = q.slot /\ a.replace = q.replace
        /\ a.seen = q.seen /\ a.tx = q.tx /\ a.todo = q.todo /\ a.stage = "slot"
    BY <1>1 DEF Request, Stages
  <2>2. Step(r, a)
    BY <1>5
  <2> HIDE DEF a
  <2>3. /\ Moves(r, a) /\ Brings(r, a) /\ request'[r] = a /\ Touched(r)' = Touched(r)
        /\ \A s \in Touched(r)' : Pending(r, s)'
    BY <1>1, <1>5, <2>1, <2>2, Turned
  <2> HIDE DEF q
  <2> QED
    BY <1>3, <1>4, <2>1, <2>3
<1>6. ASSUME NEW o \in Holding(r, q.tx), NEW n, Lock(r, <<"slot", o>>), nextTx' = nextTx,
             Step(r, [q EXCEPT !.stage = "slot", !.now[o] = n]),
             \/ n = item[o] /\ o = q.slot
             \/ n = release(item[o]) /\ q.replace
      PROVE  IInv'
  <2> DEFINE a == [q EXCEPT !.stage = "slot", !.now[o] = n]
  <2>1. o \in Slots \ Touched(r) /\ item[o] \in Row /\ item[o].tx = q.tx /\ item[o].id # 0
    BY <1>3, HoldingFacts
  <2>2. n \in Row /\ n.tx \in {0, item[o].tx} /\ (n = NoRow \/ n.id = item[o].id)
    BY <1>6, <2>1, Releases
  <2>3. /\ a \in Request /\ a.now[o] = n /\ \A s \in Slots \ {o} : a.now[s] = q.now[s]
        /\ a.op = q.op /\ a.slot = q.slot /\ a.replace = q.replace
        /\ a.seen = q.seen /\ a.tx = q.tx /\ a.todo = q.todo /\ a.stage = "slot"
    <3> HIDE DEF q
    <3> QED
      BY <1>1, <2>1, <2>2 DEF Request, Stages
  <2>4. Step(r, a)
    BY <1>6
  <2> HIDE DEF a
  <2>5. /\ Moves(r, a) /\ Brings(r, a) /\ request'[r] = a /\ Touched(r)' = Touched(r) \cup {o}
    BY <1>6, <2>1, <2>2, <2>3, <2>4, PutDown
  <2>6. ASSUME NEW s \in Touched(r)' PROVE Pending(r, s)'
    <3>1. CASE s = o
      <4>1. item' = item /\ request'[r].now[s] = n
        BY <2>3, <2>5, <3>1 DEF Moves
      <4>2. n = item[s] \/ n.tx = 0
        BY <1>6, <2>1, <3>1, Releases
      <4>3. s # q.slot => n.tx = 0 /\ q.replace
        BY <1>6, <2>1, <3>1, Releases
      <4> QED
        BY <1>3, <2>1, <2>3, <2>5, <3>1, <4>1, <4>2, <4>3 DEF Pending, Records
    <3>2. CASE s # o
      <4>1. s \in Touched(r) /\ s \in Slots
        BY <2>5, <3>2 DEF Touched
      <4> QED
        BY <1>1, <2>3, <2>5, <3>2, <4>1, StillPending
    <3> QED
      BY <3>1, <3>2
  <2> HIDE DEF q
  <2> QED
    BY <1>3, <1>4, <2>3, <2>5, <2>6
<1>7. CASE \E o \in Holding(r, q.tx) :
             /\ Lock(r, <<"slot", o>>)
             /\ IF o = q.slot /\ item[o].id = q.seen[o].id
                  THEN Step(r, [q EXCEPT !.stage = "slot", !.now[o] = item[o]])
                  ELSE /\ q.replace
                       /\ Step(r, [q EXCEPT !.stage = "slot", !.now[o] = release(item[o])])
             /\ UNCHANGED nextTx
  <2>1. PICK o \in Holding(r, q.tx) :
             /\ Lock(r, <<"slot", o>>) /\ nextTx' = nextTx
             /\ \/ o = q.slot /\ Step(r, [q EXCEPT !.stage = "slot", !.now[o] = item[o]])
                \/ q.replace /\ Step(r, [q EXCEPT !.stage = "slot", !.now[o] = release(item[o])])
    BY <1>7
  <2> HIDE DEF q
  <2> QED
    BY <1>6, <2>1
<1> QED
  BY <1>5, <1>7 DEF LockOther

\* Deleting a transaction empties the occurrences it fills.
LEMMA LockHookedKeeps ==
  ASSUME IInv, NEW r \in Requests, LockHooked(r)
  PROVE  IInv'
<1> DEFINE q == request[r]
           next == CASE q.stage = "hook"  -> "wallet"
                     [] q.stage = "hook2" -> "tx"
                     [] q.stage = "nulls" -> "ready"
<1>1. q \in Request /\ q.stage \in {"hook", "hook2", "nulls"}
  BY DEF IInv, Typed, LockHooked
<1>2. Shape(q) /\ Holdings(r) /\ TxLocks(r) /\ InTurn(r) /\ \A s \in Touched(r) : Pending(r, s)
  BY DEF IInv, RequestsHold, Sound
<1>3. q.op = "deleteTx" /\ q.todo = {} /\ q.tx # 0 /\ q.tx \in TxIds
      /\ \A s \in Slots \ Touched(r) : q.now[s] = NoRow
  BY <1>1, <1>2 DEF Shape, Holdings, Request
<1>4. ASSUME NEW a \in Request, a.op = "deleteTx", a.todo = {}, a.slot = q.slot, a.tx = q.tx,
             \/ a.stage = q.stage
             \/ a.stage = "wallet"
             \/ a.stage = "tx"
             \/ a.stage = "ready" /\ q.stage = "nulls" /\ Holding(r, q.tx) = {},
             Moves(r, a), Brings(r, a), request'[r] = a, Touched(r) \subseteq Touched(r)',
             \A k \in Keys : holder[k] = r => holder'[k] = r,
             \A s \in Slots \ Touched(r)' : a.now[s] = NoRow, \A s \in Touched(r)' : Pending(r, s)'
      PROVE  IInv'
  <2>1. Shape(request[r])'
    <3>1. Shape(a)
      BY <1>1, <1>2, <1>3, <1>4 DEF Shape, Single, ById, Ready, Settle, Records
    <3> QED
      BY <1>4, <3>1 DEF Shape
  <2>2. Holdings(r)'
    BY <1>1, <1>3, <1>4 DEF Holdings, Records, Single, ById
  <2>3. InTurn(r)'
    BY <1>4 DEF InTurn, Single, ById
  <2>4. TxLocks(r)'
    <3>1. q.stage = "nulls" => Holds(r, q.tx) /\ q.tx \in txs
      BY <1>2, <1>3 DEF TxLocks
    <3>2. q.stage = "nulls" => holder'[<<"tx", q.tx>>] = r
      BY <1>3, <1>4, <3>1, KeysApart DEF Holds
    <3>3. item' = item /\ txs' = txs
      BY <1>4 DEF Moves
    <3>4. Holding(r, q.tx) = {} => \A s \in Slots : item[s].tx = q.tx => s \in Touched(r)'
      BY <1>4 DEF Holding, Touched
    <3> HIDE DEF q
    <3> QED
      BY <1>1, <1>4, <3>1, <3>2, <3>3, <3>4 DEF TxLocks, Holds
  <2> QED
    BY <1>4, <2>1, <2>2, <2>3, <2>4, Moved DEF Sound
<1>5. CASE Holding(r, q.tx) = {} /\ Step(r, [q EXCEPT !.stage = next]) /\ UNCHANGED <<nextTx, holder>>
  <2> DEFINE a == [q EXCEPT !.stage = next]
  <2>1. next \in Stages /\ (next = "wallet" \/ next = "tx" \/ (next = "ready" /\ q.stage = "nulls"))
    BY <1>1 DEF Stages
  <2> HIDE DEF next
  <2>2. /\ a \in Request /\ a.now = q.now /\ a.op = q.op /\ a.slot = q.slot /\ a.replace = q.replace
        /\ a.seen = q.seen /\ a.tx = q.tx /\ a.todo = q.todo /\ a.stage = next
    BY <1>1, <2>1 DEF Request
  <2>3. Step(r, a)
    BY <1>5
  <2> HIDE DEF a
  <2>4. /\ Moves(r, a) /\ Brings(r, a) /\ request'[r] = a /\ Touched(r)' = Touched(r)
        /\ \A s \in Touched(r)' : Pending(r, s)'
    BY <1>3, <1>5, <2>2, <2>3, Turned
  <2> HIDE DEF q
  <2> QED
    BY <1>3, <1>4, <1>5, <2>1, <2>2, <2>4
<1>6. ASSUME NEW o \in Holding(r, q.tx), NEW n, NEW m, Lock(r, <<"slot", o>>), nextTx' = nextTx,
             Step(r, [q EXCEPT !.now[o] = n, !.seen[o] = m]),
             n \in Row /\ n.tx = 0 /\ n.id = item[o].id, m \in Row, n.skipped \/ m = NoRow
      PROVE  IInv'
  <2> DEFINE a == [q EXCEPT !.now[o] = n, !.seen[o] = m]
  <2>1. o \in Slots \ Touched(r) /\ item[o] \in Row /\ item[o].tx = q.tx /\ item[o].id # 0
    BY <1>3, HoldingFacts
  <2>2. /\ a \in Request /\ a.now[o] = n /\ \A s \in Slots \ {o} : a.now[s] = q.now[s] /\ a.seen[s] = q.seen[s]
        /\ a.op = q.op /\ a.slot = q.slot /\ a.replace = q.replace
        /\ a.seen[o] = m /\ a.tx = q.tx /\ a.todo = q.todo /\ a.stage = q.stage
    <3> HIDE DEF q
    <3> QED
      BY <1>1, <1>6, <2>1 DEF Request
  <2>3. Step(r, a)
    BY <1>6
  <2> HIDE DEF a
  <2>4. /\ Moves(r, a) /\ Brings(r, a) /\ request'[r] = a /\ Touched(r)' = Touched(r) \cup {o}
        /\ \A k \in Keys : holder'[k] = r <=> holder[k] = r \/ k = <<"slot", o>>
    BY <1>6, <2>1, <2>2, <2>3, PutDown
  <2>5. ASSUME NEW s \in Touched(r)' PROVE Pending(r, s)'
    <3>1. CASE s = o
      <4>1. item' = item /\ request'[r].now[s] = n /\ request'[r].seen[s] = m
        BY <2>2, <2>4, <3>1 DEF Moves
      <4> QED
        BY <1>3, <1>6, <2>1, <2>2, <2>4, <3>1, <4>1 DEF Pending, Records
    <3>2. CASE s # o
      <4>1. s \in Touched(r) /\ s \in Slots
        BY <2>4, <3>2 DEF Touched
      <4> QED
        BY <1>3, <2>2, <2>4, <3>2, <4>1, StillPending
    <3> QED
      BY <3>1, <3>2
  <2> HIDE DEF q
  <2> QED
    BY <1>3, <1>4, <2>2, <2>4, <2>5
<1>7. CASE \E o \in Holding(r, q.tx) :
             /\ Lock(r, <<"slot", o>>)
             /\ Step(r, IF q.stage = "nulls"
                          THEN [q EXCEPT !.now[o] = [item[o] EXCEPT !.tx = 0], !.seen[o] = NoRow]
                          ELSE [q EXCEPT !.now[o] = TxDeletingTx(item[o]), !.seen[o] = item[o]])
             /\ UNCHANGED nextTx
  <2>1. PICK o \in Holding(r, q.tx) :
             /\ Lock(r, <<"slot", o>>) /\ nextTx' = nextTx
             /\ \/ Step(r, [q EXCEPT !.now[o] = [item[o] EXCEPT !.tx = 0], !.seen[o] = NoRow])
                \/ Step(r, [q EXCEPT !.now[o] = TxDeletingTx(item[o]), !.seen[o] = item[o]])
    BY <1>7
  <2>2. item[o] \in Row
    BY <1>3, HoldingFacts
  <2>3. LET n == [item[o] EXCEPT !.tx = 0] IN n \in Row /\ n.tx = 0 /\ n.id = item[o].id
    BY <2>2 DEF Row
  <2>4. LET n == TxDeletingTx(item[o]) IN n \in Row /\ n.tx = 0 /\ n.id = item[o].id /\ n.skipped
    BY <2>2, Deletes
  <2> HIDE DEF q
  <2>5. CASE Step(r, [q EXCEPT !.now[o] = [item[o] EXCEPT !.tx = 0], !.seen[o] = NoRow])
    BY <1>6, <2>1, <2>3, <2>5, NoRowTyped
  <2>6. CASE Step(r, [q EXCEPT !.now[o] = TxDeletingTx(item[o]), !.seen[o] = item[o]])
    BY <1>6, <2>1, <2>2, <2>4, <2>6
  <2> QED
    BY <2>1, <2>5, <2>6
<1> QED
  BY <1>5, <1>7 DEF LockHooked

\* The transaction, locked to be linked or to be deleted.
LEMMA LockTxKeeps ==
  ASSUME IInv, NEW r \in Requests, LockTx(r)
  PROVE  IInv'
<1> DEFINE q == request[r]
           o == q.slot
           k == <<"tx", q.tx>>
<1>1. q \in Request /\ q.stage = "tx" /\ q.tx \in txs /\ Lock(r, k) /\ nextTx' = nextTx
  BY DEF IInv, Typed, LockTx
<1>2. Shape(q) /\ Holdings(r) /\ TxLocks(r) /\ InTurn(r) /\ \A s \in Touched(r) : Pending(r, s)
  BY DEF IInv, RequestsHold, Sound
<1>3. q.op \in {"link", "deleteTx", "deleteItemTx"} /\ q.todo = {} /\ q.tx \in TxIds /\ q.tx # 0
      /\ \A s \in Slots \ Touched(r) : q.now[s] = NoRow
  BY <1>1, <1>2, SlotBounds DEF Shape, Holdings, ById, IInv, Typed, TxIds
<1>4. k \in Keys /\ \A s \in Slots : k # <<"slot", s>>
  BY <1>3, KeysApart
<1>5. CASE q.op = "link" /\ Holding(r, q.tx) = {}
           /\ Step(r, [q EXCEPT !.stage = "ready", !.now[q.slot] = fill(@, q.tx)])
  <2> DEFINE n == fill(q.now[o], q.tx)
             a == [q EXCEPT !.stage = "ready", !.now[o] = n]
  <2>1. o \in Slots /\ o \in Touched(r) /\ q.now[o].id # 0 /\ q.now[o] \in Row
    BY <1>1, <1>2, <1>5 DEF Holdings, Touched, Request
  <2>2. n \in Row /\ n.tx = q.tx /\ ~marked(n) /\ n.id = q.now[o].id
    <3> HIDE DEF q, o
    <3> QED
      BY <1>3, <2>1, Fills
  <2>3. /\ a \in Request /\ a.now[o] = n /\ \A s \in Slots \ {o} : a.now[s] = q.now[s]
        /\ a.op = q.op /\ a.slot = o /\ a.todo = q.todo /\ a.tx = q.tx /\ a.replace = q.replace
        /\ a.seen = q.seen /\ a.stage = "ready"
    <3>1. q.slot = o
      OBVIOUS
    <3> HIDE DEF q, o, n
    <3> QED
      BY <1>1, <2>1, <2>2, <3>1 DEF Request, Stages
  <2>4. Step(r, a)
    BY <1>5
  <2> HIDE DEF a, n, o, k, q
  <2>5. /\ Touched(r)' = Touched(r) /\ \A m \in Keys : holder'[m] = r <=> holder[m] = r \/ m = k
    BY <1>1, <1>4, Locked
  <2>6. Moves(r, a)
    BY <1>1, <1>4, <2>3, <2>4, Locked, StepMoves
  <2>7. Brings(r, a)
    <3>1. q.tx < nextTx
      BY <1>1 DEF IInv, TxsAreOld
    <3> QED
      BY <1>1, <2>1, <2>2, <2>3, <3>1 DEF Brings, q
  <2>8. request'[r] = a /\ item' = item /\ txs' = txs
    BY <2>4 DEF Step, IInv, Typed
  <2>9. ASSUME NEW s \in Touched(r)' PROVE Pending(r, s)'
    <3>1. s \in Touched(r) /\ s \in Slots
      BY <2>5 DEF Touched
    <3>2. CASE s = o
      <4>1. holder'[<<"tx", q.tx>>] = r
        BY <1>4, <2>5 DEF k
      <4>2. \A x \in Slots : item[x].tx = q.tx => x \in Touched(r)'
        BY <1>5, <2>5 DEF Holding, Touched
      <4> QED
        BY <1>1, <1>5, <2>2, <2>3, <2>8, <3>2, <4>1, <4>2 DEF Pending, Records, Holds
    <3>3. CASE s # o
      BY <2>3, <2>6, <2>7, <3>1, <3>3, StillPending DEF q, o
    <3> QED
      BY <3>2, <3>3
  <2>10. Shape(request[r])'
    <3>1. Shape(a)
      BY <1>2, <1>3, <1>5, <2>1, <2>3 DEF Shape, Single, ById, Ready, Settle, Records, o
    <3> QED
      BY <2>8, <3>1 DEF Shape
  <2>11. Holdings(r)'
    BY <1>3, <1>5, <2>1, <2>3, <2>5, <2>8 DEF Holdings, Single, ById, Records
  <2>12. TxLocks(r)' /\ InTurn(r)'
    BY <1>5, <2>3, <2>8 DEF TxLocks, InTurn
  <2> QED
    BY <2>6, <2>7, <2>9, <2>10, <2>11, <2>12, Moved DEF Sound
<1>6. CASE q.op # "link" /\ Step(r, [q EXCEPT !.stage = IF q.op = "deleteTx" THEN "nulls" ELSE "wallet"])
  <2> DEFINE a == [q EXCEPT !.stage = IF q.op = "deleteTx" THEN "nulls" ELSE "wallet"]
  <2>1. /\ a \in Request /\ a.now = q.now /\ a.op = q.op /\ a.slot = o /\ a.replace = q.replace
        /\ a.seen = q.seen /\ a.tx = q.tx /\ a.todo = q.todo
        /\ a.stage = IF q.op = "deleteTx" THEN "nulls" ELSE "wallet"
    BY <1>1 DEF Request, Stages
  <2>2. Step(r, a)
    BY <1>6
  <2> HIDE DEF a
  <2>3. /\ Moves(r, a) /\ Brings(r, a) /\ request'[r] = a /\ Touched(r)' = Touched(r)
        /\ \A m \in Keys : holder'[m] = r <=> holder[m] = r \/ m = k
        /\ \A s \in Touched(r)' : Pending(r, s)'
    BY <1>1, <1>4, <1>6, <2>1, <2>2, LockTaken
  <2>4. holder'[<<"tx", q.tx>>] = r
    BY <1>4, <2>3
  <2>5. InTurn(r)'
    <3>1. q.op \in Single \cup ById => \A m \in Keys : holder[m] = r => m[1] = "slot"
      BY <1>1, <1>2 DEF InTurn
    <3>2. k[1] = "tx"
      OBVIOUS
    <3> HIDE DEF q, k
    <3>3. q.op \in Single \cup ById => \A m \in Keys : holder'[m] = r => m[1] # "wallet"
      BY <2>3, <3>1, <3>2
    <3> QED
      BY <1>3, <2>1, <2>3, <3>3 DEF InTurn
  <2>6. Shape(request[r])'
    <3>1. Shape(a)
      BY <1>1, <1>2, <1>3, <1>6, <2>1 DEF Shape, Single, ById, Ready, Settle, Records
    <3> QED
      BY <2>3, <3>1 DEF Shape
  <2>7. Holdings(r)'
    <3>1. q.op \in Single \cup ById => Touched(r) \subseteq {q.slot}
      BY <1>2 DEF Holdings
    <3> HIDE DEF q, k
    <3> QED
      BY <1>3, <1>6, <2>1, <2>3, <3>1 DEF Holdings, Records, Ready, Settle, o
  <2>8. TxLocks(r)'
    <3>1. q.op = "deleteItemTx" => q.slot \in Touched(r) /\ item[q.slot].tx = q.tx
      BY <1>1, <1>2 DEF TxLocks
    <3>2. item' = item /\ txs' = txs
      BY <2>3 DEF Moves
    <3> HIDE DEF q, k
    <3> QED
      BY <1>1, <1>3, <1>6, <2>1, <2>3, <2>4, <3>1, <3>2 DEF TxLocks, Holds, o
  <2> QED
    BY <2>3, <2>5, <2>6, <2>7, <2>8, Moved DEF Sound
<1> QED
  BY <1>5, <1>6 DEF LockTx

-----------------------------------------------------------------------------
(* Ending.                                                                 *)

\* A request that is gone holds nothing.
LEMMA Finished ==
  ASSUME IInv, NEW r \in Requests, Finish(r)
  PROVE  /\ request' = [request EXCEPT ![r] = Idle] /\ request'[r] = Idle
         /\ holder' \in [Keys -> Requests \cup {Nobody}]
         /\ \A k \in Keys : holder'[k] = (IF holder[k] = r THEN Nobody ELSE holder[k])
         /\ Touched(r)' = {} /\ Sound(r)'
<1>1. /\ request' = [request EXCEPT ![r] = Idle] /\ request'[r] = Idle
      /\ holder' \in [Keys -> Requests \cup {Nobody}]
      /\ \A k \in Keys : holder'[k] = (IF holder[k] = r THEN Nobody ELSE holder[k])
  BY DEF Finish, IInv, Typed
<1>2. \A k \in Keys : holder'[k] # r
  BY <1>1, SlotNobody
<1>3. Touched(r)' = {}
  BY <1>2, KeysApart DEF Touched
<1>4. Shape(request[r])' /\ TxLocks(r)' /\ InTurn(r)'
  BY <1>1, <1>2, IdleTyped DEF Shape, TxLocks, InTurn, Single, ById, Ready, Settle
<1>5. Holdings(r)'
  BY <1>1, <1>2, <1>3, IdleTyped DEF Holdings
<1> QED
  BY <1>1, <1>3, <1>4, <1>5 DEF Sound

\* A rollback changes no row.
LEMMA RollbackKeeps ==
  ASSUME IInv, NEW r \in Requests, Rollback(r)
  PROVE  IInv'
<1>1. Finish(r) /\ UNCHANGED <<item, txs, nextTx, recordedFor, letGo, stale, begun>>
  BY DEF Rollback
<1>2. Moves(r, Idle)
  BY <1>1, Finished, IdleTyped, SlotBounds DEF Moves, IInv, Typed
<1>3. Brings(r, Idle)
  BY IdleTyped DEF Brings
<1> QED
  BY <1>1, <1>2, <1>3, Finished, Moved

\* What a commit fills an occurrence with: the transaction it had, one made here,
\* or the one linked, whose occurrence the request holds.
LEMMA NewTx ==
  ASSUME IInv, NEW r \in Requests, request[r].stage = "ready", NEW s \in Touched(r),
         filled(request[r].now[s])
  PROVE  LET q == request[r]
             t == q.now[s].tx
         IN /\ t \in TxIds
            /\ q.op \notin {"deleteTx", "deleteItemTx"}
            /\ \/ t = item[s].tx /\ t \in txs
               \/ t \notin txs /\ Made(r, s) /\ ~marked(q.now[s])
               \/ /\ q.op = "link" /\ s = q.slot /\ t = q.tx /\ Holds(r, t) /\ t \in txs
                  /\ \A x \in Slots : item[x].tx = t => x \in Touched(r)
<1> DEFINE q == request[r]
           t == q.now[s].tx
<1>1. q \in Request /\ s \in Slots /\ t \in TxIds /\ t # 0
  BY DEF IInv, Typed, Touched, Request, Row, filled
<1>2. Pending(r, s) /\ Shape(q)
  BY DEF IInv, RequestsHold, Sound
<1>3. q.op \in Ops /\ q.op # "none"
  BY <1>1, <1>2 DEF Request, Shape
<1>4. t = item[s].tx => t \in txs
  BY <1>1 DEF IInv, OneEach, filled
<1>5. CASE q.op \in Records
  <2>1. Made(r, s) /\ ~marked(q.now[s])
    BY <1>2, <1>5 DEF Pending
  <2>2. t \notin txs
    BY <2>1 DEF Made
  <2> QED
    BY <1>1, <1>5, <2>1, <2>2 DEF Records
<1>6. CASE q.op = "link" /\ s = q.slot
  BY <1>1, <1>2, <1>6 DEF Pending
<1>7. CASE q.op \notin Records /\ ~(q.op = "link" /\ s = q.slot)
  <2>1. t = item[s].tx /\ q.op \notin {"deleteTx", "deleteItemTx"}
    BY <1>1, <1>2, <1>3, <1>7, NoRowTyped DEF Pending, Ops, Single, ById, Ready, Settle, Records
  <2> QED
    BY <1>1, <1>4, <2>1
<1> QED
  BY <1>5, <1>6, <1>7

\* What a commit deletes: a transaction it has locked, and every occurrence it fills.
LEMMA Deleted ==
  ASSUME IInv, NEW r \in Requests, request[r].stage = "ready",
         request[r].op \in {"deleteTx", "deleteItemTx"}, request[r].tx # 0
  PROVE  /\ Holds(r, request[r].tx) /\ request[r].tx \in txs
         /\ \A s \in Slots : item[s].tx = request[r].tx => s \in Touched(r)
<1>1. TxLocks(r)
  BY DEF IInv, RequestsHold, Sound
<1>2. CASE request[r].op = "deleteTx"
  BY <1>1, <1>2 DEF TxLocks
<1>3. CASE request[r].op = "deleteItemTx"
  <2>1. /\ Holds(r, request[r].tx) /\ request[r].tx \in txs
        /\ request[r].slot \in Touched(r) /\ item[request[r].slot].tx = request[r].tx
    BY <1>1, <1>3 DEF TxLocks
  <2>2. ASSUME NEW s \in Slots, item[s].tx = request[r].tx PROVE s = request[r].slot
    BY <2>1, <2>2 DEF IInv, OneEach, filled, Touched
  <2> QED
    BY <2>1, <2>2
<1> QED
  BY <1>2, <1>3

\* What the commit does, column by column.
LEMMA Commits ==
  ASSUME IInv, NEW r \in Requests, Commit(r)
  PROVE  LET q == request[r]
             made == {q.now[s].tx : s \in Touched(r)} \ (txs \cup {0})
             gone == IF q.op \in {"deleteTx", "deleteItemTx"} THEN {q.tx} ELSE {}
         IN
         /\ q.stage = "ready" /\ Finish(r) /\ nextTx' = nextTx /\ begun' = begun
         /\ \A s \in Slots : item'[s] = IF s \in Touched(r) THEN q.now[s] ELSE item[s]
         /\ txs' = (txs \cup made) \ gone
         /\ \A t \in TxIds \ made : recordedFor'[t] = recordedFor[t]
         /\ \A t \in made : recordedFor'[t] \in Touched(r) /\ q.now[recordedFor'[t]].tx = t
         /\ letGo' = (letGo \cup TakenOff(q)) \cap txs'
         /\ stale \subseteq stale'
         /\ q.op \in Blind => \A s \in Touched(r) :
              /\ IF q.op = "archiveItem" THEN filled(item[s]) ELSE item[s] # q.seen[s]
              /\ q.op = "link" => s = q.slot
              => q.op \in stale'
         /\ Typed'
<1> DEFINE q == request[r]
           T == Touched(r)
           made == {q.now[s].tx : s \in T} \ (txs \cup {0})
           gone == IF q.op \in {"deleteTx", "deleteItemTx"} THEN {q.tx} ELSE {}
           blind == q.op \in Blind /\ \E s \in T :
                      /\ IF q.op = "archiveItem" THEN filled(item[s]) ELSE item[s] # q.seen[s]
                      /\ q.op = "link" => s = q.slot
<1>1. /\ q.stage = "ready" /\ Finish(r) /\ nextTx' = nextTx /\ begun' = begun
      /\ item' = [s \in Slots |-> IF s \in T THEN q.now[s] ELSE item[s]]
      /\ txs' = (txs \cup made) \ gone
      /\ recordedFor' = [t \in TxIds |-> IF t \in made THEN CHOOSE s \in T : q.now[s].tx = t ELSE recordedFor[t]]
      /\ letGo' = (letGo \cup TakenOff(q)) \cap txs'
      /\ stale' = IF blind THEN stale \cup {q.op} ELSE stale
  BY DEF Commit
<1>2. q \in Request /\ T \subseteq Slots
  BY DEF IInv, Typed, Touched
<1>3. \A s \in Slots : q.now[s] \in Row /\ q.now[s].tx \in {0} \cup TxIds
  BY <1>2 DEF Request, Row
<1>4. made \subseteq TxIds
  BY <1>2, <1>3
<1>5. \A t \in made : recordedFor'[t] \in T /\ q.now[recordedFor'[t]].tx = t
  <2>1. ASSUME NEW t \in made PROVE recordedFor'[t] \in T /\ q.now[recordedFor'[t]].tx = t
    <3>1. recordedFor'[t] = CHOOSE s \in T : q.now[s].tx = t
      BY <1>1, <1>4
    <3>2. \E s \in T : q.now[s].tx = t
      OBVIOUS
    <3> HIDE DEF made, T, q
    <3> QED
      BY <3>1, <3>2
  <2> QED
    BY <2>1
<1>6. \A t \in TxIds \ made : recordedFor'[t] = recordedFor[t]
  BY <1>1
<1>7. Typed'
  <2>1. item' \in [Slots -> Row]
    BY <1>1, <1>2, <1>3 DEF IInv, Typed
  <2>2. txs' \subseteq TxIds /\ letGo' \subseteq TxIds
    BY <1>1, <1>4 DEF IInv, Typed
  <2>3. recordedFor' \in [TxIds -> Slots \cup {0}]
    <3>1. DOMAIN recordedFor' = TxIds /\ recordedFor' = [t \in TxIds |-> recordedFor'[t]]
      BY <1>1
    <3>2. \A t \in TxIds : recordedFor'[t] \in Slots \cup {0}
      BY <1>2, <1>5, <1>6 DEF IInv, Typed
    <3> QED
      BY <3>1, <3>2
  <2>4. stale' \subseteq Blind
    BY <1>1 DEF IInv, Typed
  <2>5. request' \in [Requests -> Request] /\ holder' \in [Keys -> Requests \cup {Nobody}]
    BY <1>1, Finished, IdleTyped DEF IInv, Typed
  <2> QED
    BY <1>1, <2>1, <2>2, <2>3, <2>4, <2>5 DEF IInv, Typed
<1>8. stale \subseteq stale' /\ (blind => q.op \in stale')
  BY <1>1
<1>9. \A s \in Slots : item'[s] = IF s \in T THEN q.now[s] ELSE item[s]
  BY <1>1
<1> HIDE DEF made, gone
<1> QED
  BY <1>1, <1>5, <1>6, <1>7, <1>8, <1>9 DEF made, gone

\* A transaction somebody else has locked stays, and nobody else comes to fill it.
LEMMA LockedTxStays ==
  ASSUME IInv, NEW r \in Requests, Commit(r), NEW p \in Requests \ {r}, NEW t \in txs, Holds(p, t)
  PROVE  /\ t \in txs'
         /\ \A s \in Slots : item'[s].tx = t => item[s].tx = t
<1>1. t \in TxIds /\ t # 0 /\ ~Holds(r, t)
  BY SlotBounds DEF IInv, Typed, TxIds, Holds
<1>2. t \in txs'
  <2>1. \/ txs \subseteq txs'
        \/ request[r].op \in {"deleteTx", "deleteItemTx"} /\ txs \ {request[r].tx} \subseteq txs'
    BY Commits
  <2>2. request[r].op \in {"deleteTx", "deleteItemTx"} => request[r].tx # t
    <3>1. request[r].stage = "ready"
      BY Commits
    <3> QED
      BY <1>1, <3>1, Deleted
  <2> QED
    BY <2>1, <2>2
<1>3. ASSUME NEW s \in Slots, item'[s].tx = t PROVE item[s].tx = t
  <2>1. CASE s \in Touched(r)
    <3>1. request[r].stage = "ready" /\ request[r].now[s].tx = t
      BY <1>3, <2>1, Commits
    <3>2. filled(request[r].now[s])
      BY <1>1, <3>1 DEF filled
    <3> QED
      BY <1>1, <2>1, <3>1, <3>2, NewTx
  <2>2. CASE s \notin Touched(r)
    BY <1>3, <2>2, Commits
  <2> QED
    BY <2>1, <2>2
<1> QED
  BY <1>2, <1>3

\* A commit leaves the other requests what they are about to write.
LEMMA CommitOthers ==
  ASSUME IInv, NEW r \in Requests, Commit(r), NEW p \in Requests \ {r}
  PROVE  Sound(p)'
<1>1. /\ request' = [request EXCEPT ![r] = Idle] /\ request'[p] = request[p]
      /\ \A k \in Keys : holder'[k] = (IF holder[k] = r THEN Nobody ELSE holder[k])
  <2>1. Finish(r)
    BY Commits
  <2> QED
    BY <2>1, Finished DEF IInv, Typed
<1>2. \A k \in Keys : (holder'[k] = p) <=> (holder[k] = p)
  BY <1>1, SlotNobody
<1>3. Touched(p)' = Touched(p) /\ \A s \in Touched(p) : s \in Slots /\ s \notin Touched(r)
  BY <1>2, KeysApart DEF Touched
<1>4. \A t \in TxIds : Holds(p, t)' <=> Holds(p, t)
  BY <1>2, KeysApart DEF Holds
<1>5. \A s \in Touched(p) : item'[s] = item[s]
  BY <1>3, Commits
<1>6. Shape(request[p]) /\ Holdings(p) /\ TxLocks(p) /\ InTurn(p) /\ \A s \in Touched(p) : Pending(p, s)
  BY DEF IInv, RequestsHold, Sound
<1>7. request[p] \in Request /\ txs \subseteq TxIds /\ 0 \notin TxIds
  BY SlotBounds DEF IInv, Typed, TxIds
<1>8. \A t \in txs : Holds(p, t) => t \in txs' /\ \A s \in Slots : item'[s].tx = t => item[s].tx = t
  BY LockedTxStays
<1>9. Shape(request[p])'
  BY <1>1, <1>6 DEF Shape
<1>10. Holdings(p)'
  BY <1>1, <1>2, <1>3, <1>6 DEF Holdings
<1>11. TxLocks(p)'
  <2>1. request[p].tx \in txs => (Holds(p, request[p].tx) => holder'[<<"tx", request[p].tx>>] = p)
    BY <1>2, <1>7, KeysApart DEF Holds
  <2> QED
    BY <1>1, <1>3, <1>5, <1>6, <1>8, <2>1 DEF TxLocks, Holds
<1>12. InTurn(p)'
  BY <1>1, <1>2, <1>6 DEF InTurn
<1>13. ASSUME NEW s \in Touched(p) PROVE Pending(p, s)'
  <2>1. s \in Slots /\ item'[s] = item[s] /\ Pending(p, s)
    BY <1>3, <1>5, <1>6
  <2>2. ASSUME filled(request[p].now[s]), Made(p, s) PROVE Made(p, s)'
    <3> DEFINE t == request[p].now[s].tx
    <3>1. t # 0 /\ t \notin txs /\ \A u \in Requests, x \in Slots : request[u].now[x].tx = t => u = p /\ x = s
      BY <2>2 DEF Made, filled
    <3>2. t \notin txs'
      <4>1. t \notin {request[r].now[x].tx : x \in Touched(r)}
        BY <3>1 DEF Touched
      <4> HIDE DEF t
      <4> QED
        BY <3>1, <4>1, Commits
    <3>3. ASSUME NEW u \in Requests, NEW x \in Slots, request'[u].now[x].tx = t PROVE request[u].now[x].tx = t
      BY <1>1, <3>1, <3>3, IdleTyped, NoRowTyped DEF IInv, Typed
    <3> QED
      BY <1>1, <3>1, <3>2, <3>3 DEF Made
  <2>3. request[p].tx \in txs => (Holds(p, request[p].tx) => holder'[<<"tx", request[p].tx>>] = p)
    BY <1>2, <1>7, KeysApart DEF Holds
  <2> QED
    BY <1>1, <1>3, <1>8, <2>1, <2>2, <2>3 DEF Pending, Holds
<1> QED
  BY <1>3, <1>9, <1>10, <1>11, <1>12, <1>13 DEF Sound

\* A commit writes rows with ids of their own.
LEMMA CommitRows ==
  ASSUME IInv, NEW r \in Requests, Commit(r)
  PROVE  RowsHaveIds' /\ IdsApart' /\ TxsAreOld'
<1>1. request' = [request EXCEPT ![r] = Idle]
  BY Commits, Finished
<1>2. \A p \in Requests, s \in Slots : request'[p].now[s] \in {NoRow, request[p].now[s]}
  BY <1>1, IdleTyped DEF IInv, Typed
<1>3. \A s \in Slots : item'[s] \in {item[s], request[r].now[s]}
  BY Commits
<1>4. RowsHaveIds'
  BY <1>2, <1>3, NoRowTyped DEF IInv, RowsHaveIds
<1>5. IdsApart'
  <2>1. IdsApart
    BY DEF IInv
  <2>2. ASSUME NEW s \in Slots, NEW x \in Slots, s # x, item'[s].id = item'[x].id PROVE item'[s].id = 0
    BY <1>3, <2>1, <2>2 DEF IdsApart
  <2>3. ASSUME NEW p \in Requests, NEW u \in Requests, NEW s \in Slots, NEW x \in Slots, s # x,
               request'[p].now[s].id # 0
        PROVE  request'[p].now[s].id # item'[x].id /\ request'[p].now[s].id # request'[u].now[x].id
    <3>1. request'[p].now[s] = request[p].now[s]
      BY <1>2, <2>3, NoRowTyped
    <3>2. request'[u].now[x].id \in {0, request[u].now[x].id}
      BY <1>2, NoRowTyped
    <3> QED
      BY <1>3, <2>1, <2>3, <3>1, <3>2 DEF IdsApart
  <2> QED
    BY <2>2, <2>3 DEF IdsApart
<1>6. TxsAreOld'
  <2>1. nextTx' = nextTx /\ nextTx \in Nat /\ 0 < nextTx
    BY Commits, SlotBounds DEF IInv, Typed
  <2>2. txs' \subseteq txs \cup {request[r].now[s].tx : s \in Touched(r)}
    BY Commits
  <2>3. TxsAreOld
    BY DEF IInv
  <2>4. \A t \in txs' : t < nextTx
    BY <2>2, <2>3 DEF TxsAreOld, Touched
  <2>5. \A p \in Requests, s \in Slots : request'[p].now[s].tx < nextTx
    BY <1>2, <2>1, <2>3, NoRowTyped DEF TxsAreOld
  <2> QED
    BY <2>1, <2>4, <2>5 DEF TxsAreOld
<1> QED
  BY <1>4, <1>5, <1>6

\* A commit fills no two occurrences with one transaction.
LEMMA CommitOneEach ==
  ASSUME IInv, NEW r \in Requests, Commit(r)
  PROVE  OneEach'
<1> DEFINE q == request[r]
<1>1. q.stage = "ready" /\ \A s \in Slots : item'[s] = IF s \in Touched(r) THEN q.now[s] ELSE item[s]
  BY Commits
<1>2. OneEach /\ Shape(q) /\ \A s \in Touched(r) : Pending(r, s)
  BY DEF IInv, RequestsHold, Sound
<1>3. ASSUME NEW s \in Touched(r), filled(q.now[s])
      PROVE  LET t == q.now[s].tx
             IN /\ t \in TxIds
                /\ q.op \notin {"deleteTx", "deleteItemTx"}
                /\ \/ t = item[s].tx /\ t \in txs
                   \/ t \notin txs /\ Made(r, s) /\ ~marked(q.now[s])
                   \/ /\ q.op = "link" /\ s = q.slot /\ t = q.tx /\ Holds(r, t) /\ t \in txs
                      /\ \A x \in Slots : item[x].tx = t => x \in Touched(r)
  BY <1>1, <1>3, NewTx
<1>4. ASSUME NEW s \in Slots, filled(item'[s]) PROVE item'[s].tx \in txs'
  <2>1. CASE s \in Touched(r)
    <3> DEFINE t == q.now[s].tx
    <3>1. item'[s] = q.now[s] /\ filled(q.now[s]) /\ t # 0
      BY <1>1, <1>4, <2>1 DEF filled
    <3>2. q.op \notin {"deleteTx", "deleteItemTx"}
      BY <1>3, <2>1, <3>1
    <3>3. t \in txs \cup ({q.now[x].tx : x \in Touched(r)} \ (txs \cup {0}))
      BY <2>1, <3>1
    <3> HIDE DEF t
    <3>4. t \in txs'
      BY <3>2, <3>3, Commits
    <3> QED
      BY <3>1, <3>4 DEF t
  <2>2. CASE s \notin Touched(r)
    <3>1. item'[s] = item[s] /\ item[s].tx \in txs /\ item[s].tx # 0
      BY <1>1, <1>2, <1>4, <2>2 DEF OneEach, filled
    <3>2. q.op \in {"deleteTx", "deleteItemTx"} => q.tx # item[s].tx
      BY <1>1, <2>2, <3>1, Deleted
    <3> QED
      BY <3>1, <3>2, Commits
  <2> QED
    BY <2>1, <2>2
<1>5. ASSUME NEW s \in Slots, NEW x \in Slots \ {s}, filled(item'[s]), s \in Touched(r) PROVE item'[x].tx # item'[s].tx
  <2> DEFINE t == q.now[s].tx
  <2>1. item'[s].tx = t /\ filled(q.now[s]) /\ t # 0
    BY <1>1, <1>5 DEF filled
  <2>2. CASE x \notin Touched(r)
    <3>1. item'[x].tx = item[x].tx /\ (item[x].tx # 0 => item[x].tx \in txs)
      BY <1>1, <1>2, <2>2 DEF OneEach, filled
    <3>2. t = item[s].tx => item[x].tx # t
      BY <1>2, <2>1 DEF OneEach, filled
    <3> QED
      BY <1>3, <1>5, <2>1, <2>2, <3>1, <3>2
  <2>3. CASE x \in Touched(r)
    <3>1. item'[x].tx = q.now[x].tx
      BY <1>1, <2>3
    <3>2. SUFFICES ASSUME q.now[x].tx = t PROVE FALSE
      BY <2>1, <3>1
    <3>3. filled(q.now[x])
      BY <2>1, <3>2 DEF filled
    <3>4. ~(t = item[s].tx /\ t = item[x].tx)
      BY <1>2, <1>5, <2>1 DEF OneEach, filled
    <3>5. ~Made(r, s) /\ ~Made(r, x)
      BY <1>5, <3>2 DEF Made
    <3>6. q.op = "link" => (s # q.slot => t = 0) /\ (x # q.slot => t = 0)
      BY <1>2, <1>5, <2>3, <3>2 DEF Pending
    <3> HIDE DEF q
    <3> QED
      BY <1>3, <1>5, <2>1, <2>3, <3>2, <3>3, <3>4, <3>5, <3>6
  <2> QED
    BY <2>2, <2>3
<1>6. ASSUME NEW s \in Slots, NEW x \in Slots \ {s}, filled(item'[s]) PROVE item'[x].tx # item'[s].tx
  <2>1. CASE s \in Touched(r)
    BY <1>5, <1>6, <2>1
  <2>2. CASE s \notin Touched(r) /\ x \in Touched(r)
    <3>1. SUFFICES ASSUME item'[x].tx = item'[s].tx PROVE FALSE
      OBVIOUS
    <3>2. filled(item'[x])
      BY <1>6, <3>1 DEF filled
    <3> QED
      BY <1>5, <2>2, <3>1, <3>2
  <2>3. CASE s \notin Touched(r) /\ x \notin Touched(r)
    BY <1>1, <1>2, <1>6, <2>3 DEF OneEach
  <2> QED
    BY <2>1, <2>2, <2>3
<1>7. ASSUME NEW s \in Slots, filled(item'[s]), stale' \cap {"skipReady", "archiveItem"} = {}
      PROVE  ~marked(item'[s])
  <2>1. stale \cap {"skipReady", "archiveItem"} = {}
    BY <1>7, Commits
  <2>2. CASE s \in Touched(r)
    <3> DEFINE n == q.now[s]
    <3>1. item'[s] = n /\ filled(n) /\ n.tx # 0
      BY <1>1, <1>7, <2>2 DEF filled
    <3>2. Pending(r, s) /\ q \in Request /\ q.op \in Ops
      BY <1>2, <2>2 DEF IInv, Typed, Request
    <3>3. n.tx = item[s].tx => filled(item[s]) /\ ~marked(item[s])
      BY <1>2, <2>1, <2>2, <3>1 DEF OneEach, filled, Touched
    <3>4. q.op \notin {"skipReady", "archiveItem"}
      <4>1. SUFFICES ASSUME q.op \in {"skipReady", "archiveItem"} PROVE FALSE
        OBVIOUS
      <4>2. n.tx = item[s].tx
        BY <3>2, <4>1 DEF Pending
      <4>3. q.op = "skipReady" => item[s] # q.seen[s]
        BY <1>2, <2>2, <3>3, <4>2 DEF Shape, Touched
      <4>4. q.op \in stale'
        BY <2>2, <3>3, <4>1, <4>2, <4>3, Commits DEF Blind
      <4> QED
        BY <1>7, <4>1, <4>4
    <3>5. q.op # "none"
      BY <1>1, <1>2 DEF Shape
    <3> HIDE DEF q
    <3>6. ~marked(n)
      BY <1>1, <3>1, <3>2, <3>3, <3>4, <3>5, NoRowTyped DEF Pending, Ops, Single, ById, Ready, Settle, Records, q
    <3> QED
      BY <3>1, <3>6
  <2>3. CASE s \notin Touched(r)
    BY <1>1, <1>2, <1>7, <2>1, <2>3 DEF OneEach
  <2> QED
    BY <2>2, <2>3
<1> QED
  BY <1>4, <1>6, <1>7 DEF OneEach

\* A commit empties no occurrence but by deleting or taking off its transaction.
LEMMA CommitRecorded ==
  ASSUME IInv, NEW r \in Requests, Commit(r)
  PROVE  RecordedOnceUnlessLinked'
<1> DEFINE q == request[r]
           made == {q.now[x].tx : x \in Touched(r)} \ (txs \cup {0})
<1>1. q.stage = "ready" /\ \A s \in Slots : item'[s] = IF s \in Touched(r) THEN q.now[s] ELSE item[s]
  BY Commits
<1>2. /\ OneEach /\ Shape(q) /\ Holdings(r) /\ TxLocks(r) /\ RecordedOnceUnlessLinked
      /\ \A s \in Touched(r) : Pending(r, s)
  BY DEF IInv, RequestsHold, Sound
<1>3. ASSUME "link" \notin stale', NEW t \in txs', recordedFor'[t] # 0, t \notin letGo'
      PROVE  item'[recordedFor'[t]].tx = t
  <2>1. CASE t \in made
    <3>1. recordedFor'[t] \in Touched(r) /\ q.now[recordedFor'[t]].tx = t
      BY <2>1, Commits
    <3> HIDE DEF q
    <3> QED
      BY <1>1, <3>1 DEF Touched
  <2>2. CASE t \notin made
    <3>1. t \in txs /\ t \in TxIds /\ t # 0 /\ t \notin letGo /\ t \notin TakenOff(q)
      BY <1>3, <2>2, Commits, SlotBounds DEF IInv, Typed, TxIds
    <3>2. q.op \in {"deleteTx", "deleteItemTx"} => t # q.tx
      BY <1>3, Commits
    <3>3. recordedFor'[t] = recordedFor[t]
      BY <2>2, <3>1, Commits
    <3>4. PICK s \in Slots \cup {0} : s = recordedFor[t]
      BY <3>1 DEF IInv, Typed
    <3>5. "link" \notin stale
      BY <1>3, Commits
    <3>6. s \in Slots /\ item[s].tx = t
      BY <1>2, <1>3, <3>1, <3>3, <3>4, <3>5 DEF RecordedOnceUnlessLinked
    <3>7. CASE s \notin Touched(r)
      BY <1>1, <3>3, <3>4, <3>6, <3>7
    <3>8. CASE s \in Touched(r)
      <4> DEFINE n == q.now[s]
      <4>1. Pending(r, s) /\ q \in Request /\ q.op \in Ops /\ q.op # "none"
        BY <1>1, <1>2, <3>8 DEF IInv, Typed, Request, Shape
      <4>2. q.op \in Single \cup ById => s = q.slot
        BY <1>2, <3>8 DEF Holdings
      <4>3. q.op \notin {"unlink", "deleteItem"}
        BY <3>1, <3>6, <4>2 DEF TakenOff, ById
      <4>4. q.op \notin {"deleteItemTx", "deleteTx"}
        <5>1. q.op = "deleteItemTx" => item[q.slot].tx = q.tx /\ s = q.slot
          BY <1>1, <1>2, <4>2 DEF TxLocks, ById
        <5>2. q.op = "deleteTx" => item[s].tx = q.tx
          BY <4>1 DEF Pending
        <5> QED
          BY <3>2, <3>6, <5>1, <5>2
      <4>5. q.op = "link" => n.tx = t
        <5>1. SUFFICES ASSUME q.op = "link" PROVE n.tx = t
          OBVIOUS
        <5>2. q.replace => t # q.tx /\ t # item[q.slot].tx
          BY <3>1, <5>1 DEF TakenOff
        <5>3. s = q.slot
          BY <3>6, <4>1, <5>1, <5>2 DEF Pending
        <5>4. item[s] = q.seen[s]
          BY <1>3, <3>8, <5>1, <5>3, Commits DEF Blind
        <5>5. ~q.replace /\ q.seen[s].tx \in {0, q.tx}
          BY <1>2, <3>6, <5>1, <5>2, <5>3 DEF Shape
        <5>6. n.tx = q.tx
          BY <1>1, <4>1, <5>1, <5>3 DEF Pending
        <5> QED
          BY <3>1, <3>6, <5>4, <5>5, <5>6
      <4> HIDE DEF q
      <4>6. n.tx = t
        BY <3>1, <3>6, <4>1, <4>3, <4>4, <4>5 DEF Pending, Ops, Single, ById, Ready, Settle, Records, q
      <4> QED
        BY <1>1, <3>3, <3>4, <3>6, <3>8, <4>6
    <3> QED
      BY <3>7, <3>8
  <2> QED
    BY <2>1, <2>2
<1> QED
  BY <1>3 DEF RecordedOnceUnlessLinked

\* The commit, together.
LEMMA CommitKeeps ==
  ASSUME IInv, NEW r \in Requests, Commit(r)
  PROVE  IInv'
<1>1. Typed' /\ Sound(r)'
  BY Commits, Finished
<1>2. RequestsHold'
  BY <1>1, CommitOthers DEF RequestsHold
<1> QED
  BY <1>1, <1>2, CommitRows, CommitOneEach, CommitRecorded DEF IInv

-----------------------------------------------------------------------------
(* The theorems.                                                           *)

\* No row, no lock and no request to begin with.
LEMMA InitHolds == Init => IInv
<1> SUFFICES ASSUME Init PROVE IInv
  OBVIOUS
<1> USE IdleTyped, NoRowTyped
<1>1. Typed
  BY SlotBounds, SlotNobody DEF Init, Typed, TxIds, Blind
<1>2. \A r \in Requests : Touched(r) = {} /\ \A k \in Keys : holder[k] # r
  BY SlotNobody, KeysApart DEF Init, Touched
<1>3. ASSUME NEW r \in Requests PROVE Sound(r)
  <2>1. request[r] = Idle
    BY DEF Init
  <2>2. Shape(request[r]) /\ TxLocks(r) /\ InTurn(r)
    BY <1>2, <2>1 DEF Shape, TxLocks, InTurn, Single, ById, Ready, Settle
  <2>3. Holdings(r)
    BY <1>2, <2>1 DEF Holdings
  <2> QED
    BY <1>2, <2>2, <2>3 DEF Sound
<1>4. RowsHaveIds /\ IdsApart
  BY DEF Init, RowsHaveIds, IdsApart
<1>5. TxsAreOld
  BY SlotBounds DEF Init, TxsAreOld
<1>6. OneEach /\ RecordedOnceUnlessLinked
  BY SlotBounds DEF Init, OneEach, RecordedOnceUnlessLinked, filled, TxIds
<1> QED
  BY <1>1, <1>3, <1>4, <1>5, <1>6 DEF IInv, RequestsHold

\* Every step keeps the invariant.
LEMMA StepHolds == IInv /\ [Next]_vars => IInv'
<1> SUFFICES ASSUME IInv, [Next]_vars PROVE IInv'
  OBVIOUS
<1>1. CASE UNCHANGED vars
  <2>1. Typed' /\ RowsHaveIds' /\ IdsApart' /\ TxsAreOld' /\ OneEach' /\ RecordedOnceUnlessLinked'
    BY <1>1 DEF vars, IInv, Typed, RowsHaveIds, IdsApart, TxsAreOld, OneEach, RecordedOnceUnlessLinked
  <2>2. ASSUME NEW r \in Requests PROVE Sound(r)'
    <3>1. Sound(r)
      BY DEF IInv, RequestsHold
    <3>2. Touched(r)' = Touched(r) /\ request'[r] = request[r]
      BY <1>1 DEF vars, Touched
    <3>3. Shape(request[r])'
      BY <3>1, <3>2 DEF Sound, Shape
    <3>4. Holdings(r)' /\ InTurn(r)'
      BY <1>1, <3>1, <3>2 DEF vars, Sound, Holdings, InTurn
    <3>5. TxLocks(r)'
      BY <1>1, <3>1, <3>2 DEF vars, Sound, TxLocks, Holds
    <3>6. \A s \in Touched(r) : Pending(r, s)'
      BY <1>1, <3>1, <3>2 DEF vars, Sound, Pending, Holds, Made
    <3> QED
      BY <3>2, <3>3, <3>4, <3>5, <3>6 DEF Sound
  <2> QED
    BY <2>1, <2>2 DEF IInv, RequestsHold
<1>2. CASE Next
  <2>1. PICK r \in Requests : Begin(r) \/ Proceed(r)
    BY <1>2 DEF Next
  <2> QED
    BY <2>1, Begins, NextOccKeeps, LockOccKeeps, LockWalletKeeps, LockOtherKeeps, LockHookedKeeps,
       LockTxKeeps, CommitKeeps, RollbackKeeps DEF Proceed
<1> QED
  BY <1>1, <1>2

\* IInv holds throughout: what every request in flight is about to write still fits
\* the rows and transactions there are.
THEOREM Inductive == Spec => []IInv
  BY InitHolds, StepHolds, PTL DEF Spec

\* An occurrence is never recorded twice unless a link wrote an occurrence that had
\* changed since it was read: any dates, requests and rollbacks (link.go:52).
THEOREM RecordedOnce == Spec => []RecordedOnceUnlessLinked
<1>1. IInv => RecordedOnceUnlessLinked
  BY DEF IInv
<1> QED
  BY <1>1, Inductive, PTL

\* One occurrence, one transaction (link.go:49), with the types and the primary key.
THEOREM OneEachWay == Spec => []OneToOne
<1>1. IInv => OneToOne
  <2> SUFFICES ASSUME IInv PROVE OneToOne
    OBVIOUS
  <2>1. TypeOK
    BY DEF IInv, Typed, RowsHaveIds, IdsApart, TypeOK
  <2> QED
    BY <2>1 DEF IInv, OneEach, OneToOne, marked
<1> QED
  BY <1>1, Inductive, PTL

\* An occurrence whose transaction is deleted turns skipped (writes.go:830).
THEOREM DeletingSkips == Spec => DeletedTxSkips
<1>1. IInv /\ [Next]_vars =>
        [\A s \in Slots : filled(item[s]) /\ item[s].tx \notin txs' /\ item'[s] # NoRow /\ "deleteTx" \notin stale'
           => item'[s].skipped]_vars
  <2> SUFFICES ASSUME IInv, Next, NEW s \in Slots, filled(item[s]), item[s].tx \notin txs', item'[s] # NoRow,
                      "deleteTx" \notin stale'
               PROVE  item'[s].skipped
    OBVIOUS
  <2>1. item[s].tx \in txs /\ item[s].tx # 0
    BY DEF IInv, OneEach, filled
  <2>2. PICK r \in Requests : Begin(r) \/ Proceed(r)
    BY DEF Next
  <2>3. Commit(r)
    BY <2>1, <2>2 DEF Begin, TouchOcc, bulk, SettleOccurrences, linkOcc, deleteTx, Start, Proceed, NextOcc,
      LockOcc, LockWallet, LockOther, LockHooked, LockTx, LeaveOut, Step, Rollback
  <2> DEFINE q == request[r]
  <2>4. q.stage = "ready" /\ q.op \in {"deleteTx", "deleteItemTx"} /\ q.tx = item[s].tx
    BY <2>1, <2>3, Commits
  <2>5. s \in Touched(r) /\ Pending(r, s)
    BY <2>1, <2>4, Deleted DEF IInv, RequestsHold, Sound
  <2>6. item'[s] = q.now[s]
    BY <2>3, <2>5, Commits
  <2>7. q.op = "deleteTx"
    BY <2>4, <2>5, <2>6 DEF Pending
  <2>8. q.seen[s] # NoRow
    BY <2>1, <2>3, <2>5, <2>7, Commits, NoRowTyped DEF Blind
  <2> QED
    BY <2>5, <2>6, <2>7, <2>8 DEF Pending
<1> QED
  BY <1>1, Inductive, PTL DEF Spec, DeletedTxSkips

\* Requests on one occurrence each never wait in a circle: each asks for locks in
\* the order slot, transaction, wallet.
THEOREM CyclesNeedSeveral == Spec => []CyclesNeedSeveralRows
<1>1. IInv => CyclesNeedSeveralRows
  <2> SUFFICES ASSUME IInv, NEW S \in SUBSET Requests, WaitCycle(S),
                      \A r \in S : request[r].op \notin Ready \cup Settle \cup {"link", "deleteTx"}
               PROVE  FALSE
    BY DEF CyclesNeedSeveralRows
  <2> DEFINE At(r, stage) == r \in S /\ request[r].stage = stage
  <2>1. ASSUME NEW r \in S
        PROVE  /\ request[r].stage \in {"slot", "tx", "wallet"} => request[r].op \in Single \cup ById
               /\ request[r].stage \in {"idle", "slot", "tx", "wallet", "ready"}
               /\ Shape(request[r]) /\ InTurn(r) /\ Holdings(r)
    <3>1. request[r] \in Request /\ Sound(r)
      BY DEF IInv, Typed, RequestsHold
    <3> QED
      BY <3>1 DEF Sound, Request, Ops, Stages, Shape
  <2>2. ASSUME NEW r \in S
        PROVE  \E p \in S : \E k \in Wants(r) : holder[k] = p
    BY DEF WaitCycle, Waits
  <2>3. ASSUME NEW r \in S
        PROVE  request[r].stage \in {"slot", "tx", "wallet"}
    BY <2>1, <2>2 DEF Wants
  <2>4. ASSUME NEW r \in S, request[r].stage = "wallet" PROVE FALSE
    <3>1. PICK p \in S : holder[<<"wallet", 0>>] = p
      BY <2>2, <2>4 DEF Wants
    <3>2. request[p].stage \in {"slot", "tx", "wallet"} /\ request[p].op \in Single \cup ById /\ InTurn(p)
      BY <2>1, <2>3
    <3> QED
      BY <3>1, <3>2, KeysApart DEF InTurn
  <2>5. ASSUME NEW r \in S, request[r].stage = "tx" PROVE FALSE
    <3>1. PICK p \in S : holder[<<"tx", request[r].tx>>] = p
      BY <2>2, <2>5 DEF Wants
    <3>2. request[p].stage \in {"slot", "tx"} /\ request[p].op \in Single \cup ById /\ InTurn(p)
      BY <2>1, <2>3, <2>4
    <3>3. request[r].tx \in TxIds
      BY <2>1, <2>5 DEF Shape, IInv, Typed, Request
    <3> QED
      BY <3>1, <3>2, <3>3, KeysApart DEF InTurn
  <2>6. ASSUME NEW r \in S, request[r].stage = "slot" PROVE FALSE
    <3>1. PICK p \in S : holder[<<"slot", request[r].slot>>] = p
      BY <2>2, <2>6 DEF Wants
    <3>2. request[p].stage = "slot" /\ request[p].op \in Single \cup ById /\ InTurn(p)
      BY <2>1, <2>3, <2>4, <2>5
    <3>3. request[r].slot \in Slots
      BY <2>1, <2>6 DEF Shape
    <3> QED
      BY <3>1, <3>2, <3>3, KeysApart DEF InTurn
  <2> QED
    BY <2>3, <2>4, <2>5, <2>6 DEF WaitCycle
<1> QED
  BY <1>1, Inductive, PTL
=============================================================================
