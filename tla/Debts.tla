-------------------------------- MODULE Debts --------------------------------
(***************************************************************************)
(* The person books (internal/modules/personal_debts, and the debt side of *)
(* transactions/debt_link.go): what two users owe each other, each in a    *)
(* book of their own.                                                      *)
(*                                                                         *)
(* An entry is a debt or a repayment with a person, and may have a         *)
(* transaction: the two are one value.  Entries made from papers keep a    *)
(* part per paper, and the two debts of one pair are partners.  A request  *)
(* locks rows in turn; one at a time is caught between two of its steps    *)
(* (`waiting', with the rows it holds and what it has read), the others    *)
(* run whole beside it, and wait for the rows it holds.                    *)
(***************************************************************************)
EXTENDS Integers, Sequences, FiniteSets, FiniteSetsExt

CONSTANTS
  Users,       \* two users
  Entries,     \* entry ids, naturals, in the order they are made
  Txs,         \* transaction ids, naturals
  Papers,      \* papers the two are a pair of
  Debtor,      \* [Papers -> Users]: who owes the other on it
  Says,        \* [Papers -> Nat]: what it says when it is written
  Amounts,     \* bound: the amounts entries and transactions take
  Dates,       \* bound: their dates
  Holders,     \* users with the other as a contact
  AutoAccept,  \* users whose switch writes told repayments into their book
  Scenes       \* bound: [kinds, users, papers, dates, with, max]: the requests asked, whose,
               \* on which papers and dates, with what transactions, and how many write

ASSUME DebtIds == Entries \subseteq Nat \ {0} /\ Txs \subseteq Nat \ {0} /\ IsFiniteSet(Entries) /\ IsFiniteSet(Papers)
ASSUME DebtUsers == (\E a \in Users, b \in Users : a # b /\ Users = {a, b}) /\ Holders \cup AutoAccept \subseteq Users
ASSUME DebtPapers == Debtor \in [Papers -> Users] /\ Says \in [Papers -> Nat]
ASSUME DebtScenes == /\ Amounts \cup Dates \subseteq Nat
                     /\ \A s \in Scenes : s.users \subseteq Users /\ s.papers \subseteq Papers /\ s.dates \subseteq Nat
                                          /\ s.with \subseteq {"none", "tx", "link"}

Kinds == {"debt", "repayment"}
Directions == {"paid", "received"}      \* they owe me more, less
NoEntry == [st |-> "new", kind |-> "debt", dir |-> "paid", amount |-> 0, date |-> 0,
            key |-> "name", paid |-> FALSE, parts |-> [p \in Papers |-> 0], paper |-> FALSE,
            partner |-> 0, user |-> CHOOSE u \in Users : TRUE]
NoTx == [st |-> "new", type |-> "expense", amount |-> 0, date |-> 0, source |-> 0,
         connected |-> FALSE, crossed |-> FALSE, user |-> CHOOSE u \in Users : TRUE]
NoRequest == [op |-> "none"]

VARIABLES
  entry,    \* personal_debts, with personal_debt_bills as their parts
  txn,      \* transactions; crossed (history): edited by a co-member of its wallet who had read it
            \* before its author linked it to an entry
  known,    \* users whose contact the other still is
  waiting,  \* [op, u, rows: held, ...]: the request that is caught
  told,     \* history: "no" after a write in one book only; "any way" after a repayment
            \* in the direction of a debt; until then "down"
  scene,    \* bound: what is asked in this behaviour
  writes    \* bound: writes so far

vars == <<entry, txn, known, waiting, told, scene, writes>>

-----------------------------------------------------------------------------
Other(u) == CHOOSE o \in Users : o # u
Live(e)  == entry[e].st = "live"
BookOf(u) == {e \in Entries : Live(e) /\ entry[e].user = u}
Opposite(dir) == IF dir = "paid" THEN "received" ELSE "paid"
TypeOf(dir) == IF dir = "paid" THEN "expense" ELSE "income"
Summed(f) == MapThenSumSet(LAMBDA x : f[x], DOMAIN f)
PartsSum(parts) == Summed(parts)
HasParts(e) == \E p \in Papers : entry[e].parts[p] > 0

\* DebtKey: the contact while there is one, else the typed name.
KeyOf(u, key) == IF key = "contact" /\ u \in known THEN "contact" ELSE "name"

\* entryTxID.
TxOf(e) == {t \in Txs : txn[t].st = "live" /\ txn[t].source = e}

\* linkableTx: a plain transaction of mine, of the entry's direction.
Linkable(t, u, dir) ==
  txn[t].st = "live" /\ txn[t].user = u /\ txn[t].source = 0 /\ txn[t].type = TypeOf(dir)

-----------------------------------------------------------------------------
(* What a book says: read once, in book order (ledgerLines).               *)

Signed(e) == IF entry[e].dir = "paid" THEN entry[e].amount ELSE -entry[e].amount
Lines(u, key) == {e \in BookOf(u) : KeyOf(u, entry[e].key) = key}
SignedSum(es) == Summed([e \in es |-> Signed(e)])
Net(u, key) == SignedSum(Lines(u, key))
Side(net) == IF net > 0 THEN "receivable" ELSE IF net < 0 THEN "payable" ELSE "clear"

\* Book order: date, then the order they were made in.
UpTo(a, b) == entry[a].date < entry[b].date \/ (entry[a].date = entry[b].date /\ a <= b)
Run(u, key, e) == SignedSum({x \in Lines(u, key) : UpTo(x, e)})

\* Mutant: the balance run up in the order the rows were made.
CycleMark_Made(u, key) ==
  LET Cleared(m) == SignedSum({x \in Lines(u, key) : x <= m}) = 0
  IN {m \in Lines(u, key) : Cleared(m) /\ \A x \in Lines(u, key) : Cleared(x) => x <= m}

\* cycleMarkOf, cycleBoundary: the last line that brought the balance to zero.
CycleMark(u, key) ==
  {m \in Lines(u, key) : Run(u, key, m) = 0
     /\ \A x \in Lines(u, key) : Run(u, key, x) = 0 => UpTo(x, m)}

\* cycleLines, countsOf: the lines after the mark.
Current(u, key) == {e \in Lines(u, key) : \A m \in CycleMark(u, key) : ~UpTo(e, m)}

\* listPeople and totals: who is listed, and what they come to.
IsOpen(u, key) == Net(u, key) # 0 \/ \E e \in Lines(u, key) : entry[e].kind = "debt" /\ ~entry[e].paid
Totals(u) ==
  [owedToMe |-> Summed([k \in {"contact", "name"} |-> IF Net(u, k) > 0 THEN Net(u, k) ELSE 0]),
   iOwe |-> Summed([k \in {"contact", "name"} |-> IF Net(u, k) < 0 THEN -Net(u, k) ELSE 0]),
   open |-> Cardinality({k \in {"contact", "name"} : IsOpen(u, k)})]

-----------------------------------------------------------------------------
\* A request may not pass the rows that the caught one holds: none, between its
\* pool read and its transaction, so every other request runs whole.
Writes == writes < scene.max /\ writes' = writes + 1

Gone == [NoEntry EXCEPT !.st = "gone"]

\* Rows of personal_debts go: their partners and transactions let go of them
\* (ON DELETE SET NULL), a connected transaction staying connected.
WithoutEntries(es) ==
  [x \in Entries |-> IF x \in es THEN Gone
                     ELSE IF entry[x].partner \in es THEN [entry[x] EXCEPT !.partner = 0] ELSE entry[x]]
LetGo(txs, es) == [t \in Txs |-> IF txs[t].source \in es THEN [txs[t] EXCEPT !.source = 0] ELSE txs[t]]

\* insertEntryTx.
Row(u, kind, dir, key, amount, date) ==
  [st |-> "live", kind |-> kind, dir |-> dir, amount |-> amount, date |-> date, key |-> key, paid |-> FALSE,
   parts |-> [p \in Papers |-> 0], paper |-> FALSE, partner |-> 0, user |-> u]
TxRow(u, type, amount, date, e) ==
  [st |-> "live", type |-> type, amount |-> amount, date |-> date, source |-> e, connected |-> FALSE,
   crossed |-> FALSE, user |-> u]
\* CreateDebtTxInTx.
DebtTx(u, dir, amount, date, e) == TxRow(u, TypeOf(dir), amount, date, e)

\* An entry takes the value of its transaction; a plain transaction becomes an entry's, and
\* is plain again.
Valued(row, t) == [row EXCEPT !.amount = t.amount, !.date = t.date]
Connected(t, e) == [t EXCEPT !.source = e, !.connected = TRUE, !.crossed = FALSE]
Plain(t) == [t EXCEPT !.source = 0, !.connected = FALSE]

\* The entry of a paper.
OfPaper(row, parts) == [row EXCEPT !.parts = parts, !.paper = TRUE]

\* markPaidTx, markAllPaidTx: the open debts a repayment of `dir' pays down.
MarkedPaid(es, u, key, dir) ==
  [e \in Entries |-> IF es[e].st = "live" /\ es[e].user = u /\ es[e].kind = "debt"
                        /\ KeyOf(u, es[e].key) = KeyOf(u, key) /\ es[e].dir = Opposite(dir)
                     THEN [es[e] EXCEPT !.paid = TRUE] ELSE es[e]]

First(ids, rows) == CHOOSE x \in ids : rows[x].st = "new" /\ \A o \in ids : rows[o].st = "new" => x <= o
Room(ids, rows) == \E x \in ids : rows[x].st = "new"

\* insertRowTx on the rows es and ts: what it may leave, with the transaction new,
\* connected or none.  A contact deleted since it was resolved is refused (foreign key).
Inserts(es, ts, u, kind, dir, key, amount, date, with) ==
  LET e == First(Entries, es)
      row == Row(u, kind, dir, key, amount, date)
  IN IF ~Room(Entries, es) \/ (key = "contact" /\ u \notin known) THEN {}
     ELSE CASE with = "none" -> {[made |-> e, entry |-> [es EXCEPT ![e] = row], txn |-> ts]}
          [] with = "tx" ->
               {[made |-> e, entry |-> [es EXCEPT ![e] = row],
                 txn |-> [ts EXCEPT ![t] = DebtTx(u, dir, amount, date, e)]] :
                  t \in IF Room(Txs, ts) THEN {First(Txs, ts)} ELSE {}}
          [] with = "link" ->
               {[made |-> e, entry |-> [es EXCEPT ![e] = Valued(row, ts[x])],
                 txn |-> [ts EXCEPT ![x] = Connected(ts[x], e)]] :
                  x \in {y \in Txs : Linkable(y, u, dir)}}

\* CreateEntry; a debt may mark the person's others paid.
CreateEntry(u, dir, key, amount, date, with) ==
  /\ \E r \in Inserts(entry, txn, u, "debt", dir, key, amount, date, with) : entry' = r.entry /\ txn' = r.txn
  /\ told' = "no"
  /\ UNCHANGED known

\* tellPartnerTx: the debt of mine with that person that has a partner, the latest.
PartnerOf(es, u, key) ==
  LET mine == {d \in Entries : es[d].st = "live" /\ es[d].user = u /\ es[d].kind = "debt"
                               /\ es[d].partner # 0 /\ KeyOf(u, es[d].key) = KeyOf(u, key)}
  IN {es[d].partner : d \in {x \in mine : \A y \in mine :
        es[y].date < es[x].date \/ (es[y].date = es[x].date /\ y <= x)}}

\* Mutant: told the way my own repayment goes.
RepaidTheirWay_Mine(theirs) == theirs.dir

\* TellRepaidTx: their debt says which way the money goes in their book.
RepaidTheirWay(theirs) == IF theirs.dir = "received" THEN "paid" ELSE "received"

\* Their switch on: the repayment is written in their book, with their main wallet or
\* (none, or it does not take it) without a transaction.
Mirrors(r, u, key) ==
  LET o == Other(u)
      told1(p) == UNION {Inserts(r.entry, r.txn, o, "repayment", RepaidTheirWay(r.entry[p]), r.entry[p].key,
                                 r.entry[r.made].amount, r.entry[r.made].date, with) : with \in {"tx", "none"}}
  IN IF o \in AutoAccept /\ PartnerOf(r.entry, u, key) # {}
     THEN UNION {told1(p) : p \in PartnerOf(r.entry, u, key)} ELSE {r}

\* CreateRepayment: the row, the labels, and the partner told.
CreateRepayment(u, dir, key, amount, date, with, markAll, notify) ==
  /\ \E r \in Inserts(entry, txn, u, "repayment", dir, key, amount, date, with) :
       LET marked == [r EXCEPT !.entry = IF markAll THEN MarkedPaid(r.entry, u, key, dir) ELSE r.entry]
       IN \E m \in IF notify THEN Mirrors(marked, u, key) ELSE {marked} :
            /\ entry' = m.entry /\ txn' = m.txn
            /\ told' = IF ~notify \/ Other(u) \notin AutoAccept \/ PartnerOf(entry, u, key) = {} THEN "no"
                       ELSE IF \E d \in BookOf(u) : entry[d].kind = "debt" /\ entry[d].dir = dir
                            THEN IF told = "no" THEN "no" ELSE "any way" ELSE told
  /\ UNCHANGED known

-----------------------------------------------------------------------------
(* Debts made from papers: called by the papers' own requests, which hold  *)
(* the paper.                                                              *)

PartOn(u, p) == {e \in BookOf(u) : entry[e].parts[p] > 0}

Points(es, a, b) == [es EXCEPT ![a].partner = b]

\* Mutant: only my debt learns its partner.
Partnered_Mine(es, a, b) == Points(es, a, b)

\* SetPartnersTx.
Partnered(es, a, b) == Points(Points(es, a, b), b, a)

\* partnerTx: the other's debt of the same pair, of this paper alone and without a partner.
PartnersFor(u, p) ==
  {d \in PartOn(Other(u), p) : entry[d].kind = "debt" /\ entry[d].partner = 0
                               /\ \A q \in Papers \ {p} : entry[d].parts[q] = 0}

\* CreatePaperDebtTx: one debt of the papers' parts; a split bill's has a partner, a
\* lump of several does not.  A part booked already refuses it (idx_..._pair).
CreatePaperDebt(u, ps, key, date) ==
  LET e == First(Entries, entry)
      parts == [p \in Papers |-> IF p \in ps THEN Says[p] ELSE 0]
      row == OfPaper(Row(u, "debt", IF \A p \in ps : Debtor[p] = u THEN "received" ELSE "paid", key,
                         PartsSum(parts), date), parts)
      made == [entry EXCEPT ![e] = row]
      partners == UNION {PartnersFor(u, p) : p \in ps}
  IN /\ ps # {} /\ Cardinality({Debtor[p] : p \in ps}) = 1
     /\ \A p \in ps : PartOn(u, p) = {}
     /\ Room(Entries, entry) /\ (key = "contact" => u \in known)
     /\ entry' = IF Cardinality(ps) > 1 \/ partners = {} THEN made
                 ELSE Partnered(made, e, CHOOSE d \in partners : TRUE)
     /\ UNCHANGED <<txn, known, told>>

\* LinkPaperPartTx: the repayment I write for a payback paper is its part.
BookPayback(u, p, key, date, with) ==
  /\ PartOn(u, p) = {}
  /\ \E r \in Inserts(entry, txn, u, "repayment", IF Debtor[p] = u THEN "paid" ELSE "received",
                      key, Says[p], date, with) :
       /\ entry' = [r.entry EXCEPT ![r.made] = OfPaper(@, [@.parts EXCEPT ![p] = Says[p]])]
       /\ txn' = r.txn
  /\ told' = "no"
  /\ UNCHANGED known

WithParts(row, parts, amount) ==
  [row EXCEPT !.parts = parts, !.amount = amount, !.paper = row.paper /\ \E p \in Papers : parts[p] > 0]

\* debtFromPartsTx: the debt is the sum of its parts, and its transaction follows;
\* the last part gone leaves it plain, as it is.
FromParts(e, parts) ==
  LET left == {p \in Papers : parts[p] > 0}
      amount == IF left = {} THEN entry[e].amount ELSE PartsSum(parts)
  IN /\ entry' = [entry EXCEPT ![e] = WithParts(entry[e], parts, amount)]
     /\ txn' = [t \in Txs |-> IF t \in TxOf(e) THEN [txn[t] EXCEPT !.amount = amount] ELSE txn[t]]

\* SetPaperPartAmountTx: a paper edit reached my part.
SetPaperPart(e, p, amount) ==
  /\ Live(e) /\ entry[e].parts[p] > 0 /\ entry[e].parts[p] # amount
  /\ FromParts(e, [entry[e].parts EXCEPT ![p] = amount])
  /\ UNCHANGED <<known, told>>

\* DropPaperPartTx: the pair is gone from the paper.
DropPaperPart(e, p) ==
  /\ Live(e) /\ entry[e].parts[p] > 0
  /\ FromParts(e, [entry[e].parts EXCEPT ![p] = 0])
  /\ UNCHANGED <<known, told>>

OffPaper(row) == [row EXCEPT !.parts = [p \in Papers |-> 0], !.paper = FALSE, !.partner = 0]

\* UnlinkPaperDebtTx: a plain debt from now on, on both sides without a partner.
UnlinkPaperDebt(e) ==
  /\ Live(e) /\ HasParts(e)
  /\ entry' = [x \in Entries |->
       IF x = e THEN OffPaper(entry[e])
       ELSE IF entry[x].partner = e THEN [entry[x] EXCEPT !.partner = 0] ELSE entry[x]]
  /\ UNCHANGED <<txn, known, told>>

\* DeleteEntryTx: my book of a paper goes, its own transaction with it.
DeletePaperEntry(e) ==
  /\ Live(e) /\ entry[e].paper
  /\ entry' = WithoutEntries({e})
  /\ txn' = [t \in Txs |-> IF t \in TxOf(e) THEN [NoTx EXCEPT !.st = "gone"] ELSE txn[t]]
  /\ told' = "no"
  /\ UNCHANGED known

\* Disconnect: either side breaks the link between the books.
Disconnect(e) ==
  /\ Live(e) /\ entry[e].partner # 0
  /\ entry' = Points(Points(entry, e, 0), entry[e].partner, 0)
  /\ UNCHANGED <<txn, known, told>>

-----------------------------------------------------------------------------
(* The user's own writes in the book.                                      *)

\* LinkTx: the entry takes the transaction's amount and date, under both rows' locks.
LinkTx(u, e, t) ==
  /\ e \in BookOf(u) /\ TxOf(e) = {} /\ Linkable(t, u, entry[e].dir)
  /\ entry' = [entry EXCEPT ![e] = Valued(entry[e], txn[t])]
  /\ txn' = [txn EXCEPT ![t] = Connected(txn[t], e)]
  /\ told' = "no"
  /\ UNCHANGED known

\* UnlinkTx: the transaction is plain again, the entry stays.
UnlinkTx(u, e) ==
  /\ e \in BookOf(u)
  /\ \E t \in TxOf(e) : txn[t].connected /\ txn' = [txn EXCEPT ![t] = Plain(txn[t])]
  /\ UNCHANGED <<entry, known, told>>

\* What an update may ask: one field each.
Edits(e) ==
  {[entry[e] EXCEPT !.amount = a] : a \in Amounts} \cup {[entry[e] EXCEPT !.date = d] : d \in Dates}
  \cup {[entry[e] EXCEPT !.dir = d] : d \in Directions} \cup {[entry[e] EXCEPT !.key = k] : k \in {"contact", "name"}}
  \cup {[entry[e] EXCEPT !.paid = TRUE] : x \in {y \in {e} : entry[e].kind = "debt"}}

\* Mutant: an update does not reach the entry's transaction.
SyncDebtTx_Not(t, next) == txn

Follows(t, row) ==
  [t EXCEPT !.type = TypeOf(row.dir), !.amount = row.amount, !.date = row.date, !.crossed = FALSE]

\* SyncDebtTxInTx.
SyncDebtTx(t, next) == [txn EXCEPT ![t] = Follows(txn[t], next)]

\* UpdateEntry: next, and whether it has a transaction; a connected one keeps its type
\* and is not dropped.
UpdateEntry(u, e, next, wantTx) ==
  /\ e \in BookOf(u)
  /\ next # entry[e] \/ wantTx # (TxOf(e) # {})
  /\ next.key = "contact" => u \in known
  /\ \A t \in TxOf(e) : txn[t].connected => wantTx /\ next.dir = entry[e].dir
  /\ entry' = [entry EXCEPT ![e] = next]
  /\ txn' = IF TxOf(e) # {}
            THEN LET t == CHOOSE x \in TxOf(e) : TRUE
                 IN IF wantTx THEN SyncDebtTx(t, next) ELSE [txn EXCEPT ![t] = [NoTx EXCEPT !.st = "gone"]]
            ELSE IF wantTx THEN [txn EXCEPT ![First(Txs, txn)] = DebtTx(u, next.dir, next.amount, next.date, e)]
            ELSE txn
  /\ wantTx /\ TxOf(e) = {} => Room(Txs, txn)
  /\ told' = IF next.amount = entry[e].amount /\ next.dir = entry[e].dir THEN told ELSE "no"
  /\ UNCHANGED known

\* DeleteEntry: a connected transaction stays as a plain one.
DeleteEntry(u, e) ==
  /\ e \in BookOf(u)
  /\ entry' = WithoutEntries({e})
  /\ txn' = [t \in Txs |-> IF t \notin TxOf(e) THEN txn[t]
                           ELSE IF txn[t].connected THEN Plain(txn[t])
                           ELSE [NoTx EXCEPT !.st = "gone"]]
  /\ told' = "no"
  /\ UNCHANGED known

-----------------------------------------------------------------------------
(* The user's transactions, and the entry behind them.                     *)

PlainTx(u, type, amount, date) ==
  /\ Room(Txs, txn)
  /\ txn' = [txn EXCEPT ![First(Txs, txn)] = TxRow(u, type, amount, date, 0)]
  /\ UNCHANGED <<entry, known, told>>

\* TxEditedTx: the entry of the row as it was just updated, if it is the editor's.
TxEdited(t, by, amount) ==
  [e \in Entries |-> IF Live(e) /\ txn[t].source = e /\ entry[e].user = by
                     THEN Valued(entry[e], [txn[t] EXCEPT !.amount = amount]) ELSE entry[e]]

\* checkDebtTxEdit: an entry's transaction is edited by its author only, a plain one by any
\* member of its wallet, too.
MayEdit(t, by) == txn[t].st = "live" /\ (txn[t].source # 0 => by = txn[t].user)

\* Update of a transaction, by its id.
EditTx(t, by, amount) ==
  /\ txn[t].st = "live" /\ (txn[t].amount # amount \/ txn[t].crossed)
  /\ txn' = [txn EXCEPT ![t].amount = amount, ![t].crossed = txn[t].source # 0 /\ by # txn[t].user]
  /\ entry' = TxEdited(t, by, amount)
  /\ told' = IF txn[t].source = 0 \/ by # txn[t].user THEN told ELSE "no"
  /\ UNCHANGED known

\* Delete of a transaction: the entry it read goes with it (TxDeletedTx).
DeleteTx(t, source) ==
  /\ txn[t].st = "live"
  /\ LET es == {e \in {source} \ {0} : Live(e) /\ entry[e].user = txn[t].user}
     IN /\ entry' = IF es = {} THEN entry ELSE WithoutEntries(es)
        /\ txn' = LetGo([txn EXCEPT ![t] = [NoTx EXCEPT !.st = "gone"]], es)
  /\ told' = IF source = 0 THEN told ELSE "no"
  /\ UNCHANGED known

-----------------------------------------------------------------------------
(* Contacts, as far as they name the person of an entry.                   *)

\* AbsorbForContact: the rows with a typed name become the contact's.
Absorb(u) ==
  /\ u \in known
  /\ \E e \in BookOf(u) : entry[e].key = "name"
  /\ entry' = [e \in Entries |-> IF e \in BookOf(u) THEN [entry[e] EXCEPT !.key = "contact"] ELSE entry[e]]
  /\ UNCHANGED <<txn, known, told>>

\* RestoreOnContactDeleteTx: the contact's rows keep its name.
Restored(u) == [e \in Entries |-> IF e \in BookOf(u) THEN [entry[e] EXCEPT !.key = "name"] ELSE entry[e]]

DeleteContact(u) ==
  /\ u \in known
  /\ known' = known \ {u}
  /\ entry' = Restored(u)
  /\ UNCHANGED <<txn, told>>

-----------------------------------------------------------------------------
\* A request has read on the pool, and not begun to write.
Read ==
  /\ waiting = NoRequest
  /\ \/ \E t \in Txs : txn[t].st = "live" /\ waiting' = [op |-> "delete_tx", t |-> t, source |-> txn[t].source]
     \/ \E t \in Txs, by \in Users : MayEdit(t, by) /\ waiting' = [op |-> "edit_tx", t |-> t, by |-> by]
     \/ \E e \in Entries : Live(e) /\ waiting' = [op |-> "repay", seen |-> entry[e]]
     \/ \E u \in known : waiting' = [op |-> "create", u |-> u]
  /\ waiting'.op \in scene.kinds
  /\ UNCHANGED <<entry, txn, known, told, scene, writes>>

\* RepayEntry: by the debt it read, a repayment the other way.
RepayEntry(seen, amount) ==
  \E with \in {"none", "tx"} :
    CreateRepayment(seen.user, Opposite(seen.dir), seen.key, amount, seen.date, with, FALSE, FALSE)

\* It writes, by what it read.
Write ==
  /\ \/ waiting.op = "delete_tx" /\ DeleteTx(waiting.t, waiting.source)
     \/ waiting.op = "edit_tx" /\ \E a \in Amounts : EditTx(waiting.t, waiting.by, a)
     \/ waiting.op = "repay" /\ \E a \in Amounts : RepayEntry(waiting.seen, a)
     \/ waiting.op = "create" /\ \E dir \in Directions, a \in Amounts, d \in Dates :
                                 CreateEntry(waiting.u, dir, "contact", a, d, "none")
  /\ waiting' = NoRequest /\ Writes /\ UNCHANGED scene

\* Or fails on what it finds, or its caller is gone.
Fail ==
  /\ waiting # NoRequest /\ waiting' = NoRequest
  /\ UNCHANGED <<entry, txn, known, told, scene, writes>>

Init ==
  /\ entry = [e \in Entries |-> NoEntry]
  /\ txn = [t \in Txs |-> NoTx]
  /\ known = Holders
  /\ waiting = NoRequest
  /\ told = "down"
  /\ scene \in Scenes
  /\ writes = 0

Keys == {"contact", "name"}
Asked(kind) == kind \in scene.kinds /\ Writes /\ UNCHANGED <<waiting, scene>>

\* The book's own requests, one whole request at a time.
BookWrite ==
  \/ /\ Asked("book")
     /\ \E u \in scene.users :
          \/ \E dir \in Directions, key \in Keys, a \in Amounts, d \in scene.dates, w \in scene.with :
               CreateEntry(u, dir, key, a, d, w) \/ CreateRepayment(u, dir, key, a, d, w, a = d, FALSE)
          \/ \E e \in Entries : DeleteEntry(u, e)
          \/ Absorb(u) \/ DeleteContact(u)
  \/ /\ Asked("rows")
     /\ \E u \in scene.users :
          \/ \E e \in Entries : UnlinkTx(u, e) \/ \E t \in Txs : LinkTx(u, e, t)
          \/ \E e \in Entries : \E next \in Edits(e) \cup {entry[e]}, want \in BOOLEAN : UpdateEntry(u, e, next, want)
          \/ \E dir \in Directions, a \in Amounts, d \in scene.dates : PlainTx(u, TypeOf(dir), a, d)
     \/ /\ Asked("rows")
        /\ \E t \in Txs, by \in Users, a \in Amounts : MayEdit(t, by) /\ EditTx(t, by, a)

\* The papers' requests, and what one side tells the other.
PairWrite ==
  \/ /\ Asked("papers")
     /\ \E u \in scene.users :
          \/ \E ps \in SUBSET scene.papers, key \in Keys, d \in scene.dates : CreatePaperDebt(u, ps, key, d)
          \/ \E p \in scene.papers, key \in Keys, d \in scene.dates, w \in scene.with : BookPayback(u, p, key, d, w)
          \/ \E dir \in Directions, key \in Keys, a \in Amounts, d \in scene.dates, w \in scene.with, all \in BOOLEAN :
               CreateRepayment(u, dir, key, a, d, w, all, TRUE)
  \/ /\ Asked("links")
     /\ \E e \in Entries :
          \/ \E p \in scene.papers, a \in Amounts : SetPaperPart(e, p, a)
          \/ \E p \in scene.papers : DropPaperPart(e, p)
          \/ UnlinkPaperDebt(e) \/ DeletePaperEntry(e) \/ Disconnect(e)

Next == Read \/ Write \/ Fail \/ BookWrite \/ PairWrite

Spec == Init /\ [][Next]_vars

-----------------------------------------------------------------------------
EntryType(amounts) ==
  [st : {"new", "live", "gone"}, kind : Kinds, dir : Directions, amount : amounts, date : Nat,
   key : Keys, paid : BOOLEAN, parts : [Papers -> Nat], paper : BOOLEAN,
   partner : Entries \cup {0}, user : Users]
TxType(amounts) ==
  [st : {"new", "live", "gone"}, type : {"expense", "income"}, amount : amounts, date : Nat,
   source : Entries \cup {0}, connected : BOOLEAN, crossed : BOOLEAN, user : Users]

\* The rows are well formed; a label is a debt's; a contact's rows have the contact; a
\* part is in one row of a book only.
TypeOK ==
  /\ DOMAIN entry = Entries /\ \A e \in Entries : entry[e] \in EntryType({entry[e].amount})
  /\ DOMAIN txn = Txs /\ \A t \in Txs : txn[t] \in TxType({txn[t].amount})
  /\ known \subseteq Holders /\ told \in {"down", "any way", "no"}
  /\ \A e \in Entries : Live(e) =>
       /\ entry[e].paid => entry[e].kind = "debt"
       /\ entry[e].key = "contact" => entry[e].user \in known
       /\ \A f \in BookOf(entry[e].user), p \in Papers :
            entry[e].parts[p] > 0 /\ entry[f].parts[p] > 0 => e = f

\* An entry and its transaction are one value: same user, amount, date and direction, and
\* an entry has one transaction at most (SyncDebtTxInTx, TxEditedTx, debtFromPartsTx, LinkTx).
\* The amounts part in one way only: a co-member of the wallet who had read the transaction
\* before its author linked it edits it, and TxEditedTx looks for an entry of the editor's.
RowsAreOneValue ==
  TypeOK /\ \A t \in Txs : txn[t].st = "live" /\ txn[t].source # 0 =>
    LET e == entry[txn[t].source]
    IN /\ e.st = "live" /\ e.user = txn[t].user
       /\ ~txn[t].crossed => e.amount = txn[t].amount
       /\ e.date = txn[t].date /\ txn[t].type = TypeOf(e.dir)
       /\ TxOf(txn[t].source) = {t}

\* Partners name each other, one in each book, and never outlive one another
\* (SetPartnersTx, Disconnect, UnlinkPaperDebtTx, ON DELETE SET NULL).
PartnersMutual ==
  \A e \in Entries : Live(e) /\ entry[e].partner # 0 =>
    LET p == entry[e].partner
    IN Live(p) /\ entry[p].partner = e /\ entry[p].user # entry[e].user

\* The statement of a person adds up: amounts are whole and not negative, a debt with parts
\* is their sum until a write outside the papers, the rows of the current cycle alone come to the
\* balance, and none of them but a last one clears it (cycleBoundary, ledger.go: "the
\* rows after the last zero").
StatementAddsUp ==
  /\ \A e \in Entries : /\ entry[e].amount \in Nat
                        /\ Live(e) /\ HasParts(e) /\ told # "no" => entry[e].amount = PartsSum(entry[e].parts)
  /\ \A u \in Users, key \in Keys :
       /\ SignedSum(Current(u, key)) = Net(u, key)
       /\ \A e \in Current(u, key) : Run(u, key, e) # 0

\* The debts are made from papers the two share, and are partners, part for part.  One that
\* has lost its last part keeps its amount and its partner, and is not tied to it any more.
Paired == \A e \in Entries : Live(e) /\ entry[e].kind = "debt" =>
            HasParts(e) /\ entry[e].partner # 0 /\ entry[entry[e].partner].parts = entry[e].parts

Both(u) == Net(u, "contact") + Net(u, "name")
Mirrored == \A u \in Users : Both(u) = -Both(Other(u))

\* Two books kept together stay each other's mirror: their debts are partners, every
\* repayment pays down the debts there are, is told, and the other's switch is on
\* (SetPartnersTx, TellRepaidTx).
MirroredWhenPaidDown == told = "down" /\ Paired => Mirrored
=============================================================================
