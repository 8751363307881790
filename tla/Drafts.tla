------------------------------- MODULE Drafts -------------------------------
(***************************************************************************)
(* From a message to the ledger (internal/modules/chatbot, pending).  A    *)
(* text becomes a card, kept in memory; a reply edits it, ✓ closes it and  *)
(* puts its rows on the pending page; the page records what is submitted.  *)
(* A turn reads the card before the model's answer and writes it after; a  *)
(* submit reads its row before the transaction that records it.            *)
(***************************************************************************)
EXTENDS Integers, FiniteSets, Sequences

CONSTANTS
  Texts,        \* bound: what a message can come to
  Legacy,       \* bound: the rows that are there from the start: sets of <<row, kind>>
  RowIds,       \* pending_transactions: the rows there may be
  Turns,        \* replies in flight
  Taps,         \* ✓ in flight
  Submits,      \* submits in flight
  MaxBusy,      \* bound: replies, ✓ and submits in flight at a time
  MaxLosses     \* bound: restarts, and commits whose answer is lost

\* A draft, down to what is missing in it.  `bill' is who is on a shared bill; `slot': it names a
\* recurring setting.
DraftSet == [type : {"none", "expense", "transfer", "saving"}, amount : BOOLEAN, date : BOOLEAN,
             wallet : BOOLEAN, to : BOOLEAN, category : BOOLEAN, debt : {"no", "nobody", "person"},
             money : BOOLEAN, bill : {"no", "empty", "alone", "shared"}, slot : BOOLEAN]

ASSUME TextsAreDrafts == Texts \subseteq DraftSet
ASSUME LegacyAreRows == \A old \in Legacy : old \subseteq RowIds \X {"create", "debt", "saving", "settle_debt", "update_tx"}
ASSUME DraftBounds == IsFiniteSet(RowIds) /\ MaxLosses \in Nat

VARIABLES
  card,         \* memCards: [st, item]
  turns,        \* which replies wait for the model
  taps,         \* [at, item]: ✓ with the copy of the card it works on
  rows,         \* the pending page: [st, kind, d]
  born,         \* history: of each row the item of the card it was queued from, if any
  submits,      \* [at, row, d]: the row and its draft as read
  recorded,     \* the ledger: what was recorded from each row, in order
  item,         \* the recurring item a legacy draft stands for
  astray,       \* history: rows touched while a submit held them, or with a crash in the midst of one
  revived,      \* history: a closed card was opened again though its rows may be queued
  losses

draftVars == <<card, turns, taps, rows, born, submits, recorded, item, astray, revived, losses>>

NoText   == [type |-> "none", amount |-> FALSE, date |-> FALSE, wallet |-> FALSE, to |-> FALSE,
             category |-> FALSE, debt |-> "no", money |-> FALSE, bill |-> "no", slot |-> FALSE]
NoRow    == [st |-> "new", kind |-> "create", d |-> NoText]
NoTap    == [at |-> "idle", item |-> NoText]
NoSubmit == [at |-> "idle", row |-> "", d |-> NoText]

-----------------------------------------------------------------------------
(* What a draft lacks.                                                     *)

KindOf(d) == IF d.type = "saving" THEN "saving" ELSE "create"

\* readinessDetail, the hard ones.
Hard(kind, d) ==
  LET plain == kind = "create" /\ d.debt = "no"
      debt  == kind = "create" /\ d.debt # "no"
  IN {need \in {"amount", "date", "person", "wallet", "type", "people"} :
        \/ need = "amount" /\ kind # "update_tx" /\ ~d.amount
        \/ need = "date" /\ kind \in {"create", "saving"} /\ ~d.date
        \/ need = "person" /\ debt /\ d.debt = "nobody"
        \/ need = "wallet" /\ debt /\ d.money /\ ~d.wallet
        \/ need = "wallet" /\ plain /\ d.type = "transfer" /\ ~d.wallet /\ ~d.to
        \/ need = "type" /\ plain /\ d.type = "none"
        \/ need = "people" /\ kind = "create" /\ d.bill = "empty"}

\* readinessDetail, all of them: SubmitReady takes the rows that lack nothing.
Missing(kind, d) ==
  LET bill == kind = "create" /\ d.debt = "no" /\ d.type = "expense"
  IN Hard(kind, d) \cup {need \in {"wallet", "category"} :
       bill /\ ((need = "wallet" /\ ~d.wallet) \/ (need = "category" /\ ~d.category))}

\* What the submit of each kind refuses: createRequest, submitPaperTx, submitDebt, submitSaving,
\* submitSettle.
Refused(kind, d) ==
  {need \in {"amount", "date", "person", "type", "people"} :
     \/ need = "amount" /\ kind # "update_tx" /\ ~d.amount
     \/ need = "date" /\ kind \in {"create", "saving"} /\ ~d.date
     \/ need = "person" /\ kind = "create" /\ d.debt = "nobody"
     \/ need = "type" /\ kind = "create" /\ d.debt = "no" /\ d.type = "none"
     \/ need = "people" /\ kind = "create" /\ d.debt = "no" /\ d.bill = "empty"}

\* PendingSaver.Check.  paperOf puts the user on the bill, so it is never empty here.
Lacks(d) == Hard(KindOf(d), d) \cup {need \in {"wallet", "people"} :
              \/ need = "wallet" /\ d.type = "saving" /\ ~d.wallet
              \/ need = "people" /\ d.bill = "alone"}

\* A person's book is written in a transaction of its own, before the row goes.
InOneTx(kind, d) == ~(kind = "settle_debt" \/ (kind = "create" /\ d.debt # "no"))

Waiting(r) == rows[r].st = "waiting"
\* Bound: what is done to a row that went astray, or came from a revived card, is not followed.
Followed(r) == Waiting(r) /\ ~revived /\ r \notin astray
HeldBack(r)    == \E s \in Submits : submits[s].at # "idle" /\ submits[s].row = r

Room ==
  Cardinality({e \in Turns : turns[e]} \cup {t \in Taps : taps[t].at # "idle"}
              \cup {s \in Submits : submits[s].at # "idle"}) < MaxBusy

\* Bound: the page is empty when a message comes, or a row is written by hand.
Empty == \A r \in RowIds : rows[r].st = "new"

\* The page's summary: summarize.
Summary ==
  LET on == {r \in RowIds : Waiting(r)}
      ready == {r \in on : Missing(rows[r].kind, rows[r].d) = {}}
  IN [count |-> Cardinality(on), ready |-> Cardinality(ready), needs |-> Cardinality(on \ ready)]

-----------------------------------------------------------------------------
(* The chat.                                                               *)

\* fresh.
Text(d) ==
  /\ card.st = "none" /\ Empty
  /\ card' = [st |-> "open", item |-> d]
  /\ UNCHANGED <<turns, taps, rows, born, submits, recorded, item, astray, revived, losses>>

\* edit, up to the model's call.
Reply(e) ==
  /\ Room /\ card.st = "open" /\ ~turns[e]
  /\ turns' = [turns EXCEPT ![e] = TRUE]
  /\ UNCHANGED <<card, taps, rows, born, submits, recorded, item, astray, revived, losses>>

\* The rest of it: repoint writes the turn's own copy, open as it was.
EditCard(e, d) ==
  /\ turns[e]
  /\ turns' = [turns EXCEPT ![e] = FALSE]
  /\ card' = [st |-> "open", item |-> d]
  /\ revived' = (revived \/ card.st = "saved")
  /\ UNCHANGED <<taps, rows, born, submits, recorded, item, astray, losses>>

\* Stopped, refused, no items, or the new card could not be sent.
EditFails(e) ==
  /\ turns[e]
  /\ turns' = [turns EXCEPT ![e] = FALSE]
  /\ UNCHANGED <<card, taps, rows, born, submits, recorded, item, astray, revived, losses>>

\* Tap, up to close: a copy of the card, and what it still lacks.
Look(t) ==
  /\ Room /\ taps[t] = NoTap
  /\ card.st \in {"open", "saved", "cancelled"} /\ Lacks(card.item) = {}
  /\ taps' = [taps EXCEPT ![t] = [at |-> "looked", item |-> card.item]]
  /\ UNCHANGED <<card, turns, rows, born, submits, recorded, item, astray, revived, losses>>

\* Mutant: close does not look whether the card is open.
Closes_Always(st) == TRUE

\* close: only a card that is open; a double tap is told it is handled.
Closes(st) == st = "open"

Confirm(t) ==
  /\ taps[t].at = "looked"
  /\ IF Closes(card.st)
     THEN card' = [card EXCEPT !.st = "saved"] /\ taps' = [taps EXCEPT ![t].at = "closed"]
     ELSE card' = card /\ taps' = [taps EXCEPT ![t] = NoTap]
  /\ UNCHANGED <<turns, rows, born, submits, recorded, item, astray, revived, losses>>

Cancel ==
  /\ Closes(card.st)
  /\ card' = [card EXCEPT !.st = "cancelled"]
  /\ UNCHANGED <<turns, taps, rows, born, submits, recorded, item, astray, revived, losses>>

\* CreateFrom: the card's rows, all or none.
Queued(t) ==
  \E r \in RowIds :
    /\ rows[r].st = "new"
    /\ rows' = [rows EXCEPT ![r] = [st |-> "waiting", kind |-> KindOf(taps[t].item), d |-> taps[t].item]]
    /\ born' = [born EXCEPT ![r] = {taps[t].item}]

\* settle.
Queue(t) ==
  /\ taps[t].at = "closed" /\ Queued(t)
  /\ taps' = [taps EXCEPT ![t] = NoTap]
  /\ UNCHANGED <<card, turns, submits, recorded, item, astray, revived, losses>>

\* reopen, whatever the card has become.
Reopened == [card EXCEPT !.st = IF @ = "none" THEN "none" ELSE "open"]
QueueFails(t) ==
  /\ taps[t].at = "closed"
  /\ taps' = [taps EXCEPT ![t] = NoTap] /\ card' = Reopened
  /\ revived' = (revived \/ \E r \in RowIds : born[r] # {})
  /\ UNCHANGED <<turns, rows, born, submits, recorded, item, astray, losses>>

\* The rows are there, and the answer that says so is lost.
QueueAnswerLost(t) ==
  /\ taps[t].at = "closed" /\ losses < MaxLosses /\ Queued(t)
  /\ taps' = [taps EXCEPT ![t] = NoTap] /\ card' = Reopened
  /\ revived' = TRUE /\ losses' = losses + 1
  /\ UNCHANGED <<turns, submits, recorded, item, astray>>

-----------------------------------------------------------------------------
(* The pending page.                                                       *)

CreateRow(r, d) ==
  /\ Empty /\ card.st = "none"
  /\ rows' = [rows EXCEPT ![r] = [st |-> "waiting", kind |-> "create", d |-> d]]
  /\ UNCHANGED <<card, turns, taps, born, submits, recorded, item, astray, revived, losses>>

UpdateRow(r, d) ==
  /\ Followed(r) /\ d # rows[r].d
  /\ rows' = [rows EXCEPT ![r].d = d]
  /\ astray' = IF HeldBack(r) THEN astray \cup {r} ELSE astray
  /\ UNCHANGED <<card, turns, taps, born, submits, recorded, item, revived, losses>>

\* Delete, Discard: a legacy draft's item keeps no draft (ON DELETE SET NULL).
DiscardRow(r) ==
  /\ Followed(r)
  /\ rows' = [rows EXCEPT ![r].st = "discarded"]
  /\ item' = [item EXCEPT ![r] = IF @ = "waiting" THEN "none" ELSE @]
  /\ astray' = IF HeldBack(r) THEN astray \cup {r} ELSE astray
  /\ UNCHANGED <<card, turns, taps, born, submits, recorded, revived, losses>>

\* Submit reads a row; SubmitReady the ones that lack nothing.
SubmitRead(s, r) ==
  /\ Room /\ submits[s] = NoSubmit /\ Followed(r)
  /\ submits' = [submits EXCEPT ![s] = [at |-> "read", row |-> r, d |-> rows[r].d]]
  /\ astray' = IF HeldBack(r) THEN astray \cup {r} ELSE astray
  /\ UNCHANGED <<card, turns, taps, rows, born, recorded, item, revived, losses>>

\* DeleteTx, Delete: a row that is there no more is not missed.
Gone(r) == [rows EXCEPT ![r].st = IF @ = "waiting" THEN "submitted" ELSE @]

\* submitCreate, submitSaving, submitUpdate: one transaction; for all but an update
\* OnDraftSubmitted is in it, else the item keeps no draft.
SubmitRecords(s) ==
  /\ submits[s].at = "read"
  /\ \E r \in {submits[s].row} :
       /\ InOneTx(rows[r].kind, submits[s].d) /\ Refused(rows[r].kind, submits[s].d) = {}
       /\ recorded' = [recorded EXCEPT ![r] = Append(@, submits[s].d)]
       /\ rows' = Gone(r)
       /\ item' = [item EXCEPT ![r] = IF @ # "waiting" THEN @
                                     ELSE IF rows[r].kind = "update_tx" THEN "none" ELSE "linked"]
  /\ submits' = [submits EXCEPT ![s] = NoSubmit]
  /\ UNCHANGED <<card, turns, taps, born, astray, revived, losses>>

\* submitDebt, submitSettle: the book first.
SubmitBooks(s) ==
  /\ submits[s].at = "read"
  /\ \E r \in {submits[s].row} :
       /\ ~InOneTx(rows[r].kind, submits[s].d) /\ Refused(rows[r].kind, submits[s].d) = {}
       /\ recorded' = [recorded EXCEPT ![r] = Append(@, submits[s].d)]
  /\ submits' = [submits EXCEPT ![s].at = "recorded"]
  /\ UNCHANGED <<card, turns, taps, rows, born, item, astray, revived, losses>>
\* ... then the row; its error is not looked at.
SubmitDrops(s) ==
  /\ submits[s].at = "recorded"
  /\ rows' = Gone(submits[s].row) /\ submits' = [submits EXCEPT ![s] = NoSubmit]
  /\ item' = [item EXCEPT ![submits[s].row] = IF @ = "waiting" THEN "none" ELSE @]
  /\ UNCHANGED <<card, turns, taps, born, recorded, astray, revived, losses>>
DropFails(s) ==
  /\ submits[s].at = "recorded" /\ losses < MaxLosses
  /\ submits' = [submits EXCEPT ![s] = NoSubmit] /\ losses' = losses + 1
  /\ astray' = astray \cup {submits[s].row}
  /\ UNCHANGED <<card, turns, taps, rows, born, recorded, item, revived>>

\* Refused, for what it lacks or by what records it: the row stays, with the error on it.
SubmitFails(s) ==
  /\ submits[s].at = "read"
  /\ submits' = [submits EXCEPT ![s] = NoSubmit]
  /\ UNCHANGED <<card, turns, taps, rows, born, recorded, item, astray, revived, losses>>

\* The process is restarted: the cards are forgotten.
Restart ==
  /\ losses < MaxLosses /\ losses' = losses + 1
  /\ card' = [st |-> "forgotten", item |-> NoText]
  /\ turns' = [e \in Turns |-> FALSE] /\ taps' = [t \in Taps |-> NoTap]
  /\ submits' = [s \in Submits |-> NoSubmit]
  /\ astray' = astray \cup {submits[s].row : s \in {s \in Submits : submits[s].at = "recorded"}}
  /\ UNCHANGED <<rows, born, recorded, item, revived>>

-----------------------------------------------------------------------------
DraftsInit ==
  /\ card = [st |-> "none", item |-> NoText]
  /\ turns = [e \in Turns |-> FALSE] /\ taps = [t \in Taps |-> NoTap]
  /\ \E old \in Legacy, d \in Texts :
       /\ rows = [r \in RowIds |-> IF \E k \in old : k[1] = r
                    THEN [st |-> "waiting", kind |-> (CHOOSE k \in old : k[1] = r)[2], d |-> d] ELSE NoRow]
       /\ item = [r \in RowIds |-> IF \E k \in old : k[1] = r THEN "waiting" ELSE "none"]
  /\ born = [r \in RowIds |-> {}]
  /\ submits = [s \in Submits |-> NoSubmit] /\ recorded = [r \in RowIds |-> <<>>]
  /\ astray = {} /\ revived = FALSE /\ losses = 0

Chat ==
  \/ \E d \in Texts : Text(d)
  \/ \E e \in Turns : Reply(e) \/ EditFails(e) \/ \E d \in Texts : EditCard(e, d)
  \/ \E t \in Taps : Look(t) \/ Confirm(t) \/ Queue(t) \/ QueueFails(t) \/ QueueAnswerLost(t)
  \/ Cancel
Page ==
  \/ \E r \in RowIds : DiscardRow(r) \/ \E d \in Texts : CreateRow(r, d) \/ UpdateRow(r, d)
  \/ \E s \in Submits : \/ \E r \in RowIds : SubmitRead(s, r)
                        \/ SubmitRecords(s) \/ SubmitBooks(s) \/ SubmitDrops(s) \/ DropFails(s) \/ SubmitFails(s)
DraftsNext == Chat \/ Page \/ Restart

-----------------------------------------------------------------------------
\* A card the process remembers, and a row of the pending page.
CardRow    == [st : {"none", "open", "saved", "cancelled", "forgotten"}, item : Texts \cup {NoText}]
PendingRow == [st : {"new", "waiting", "submitted", "discarded"},
               kind : {"create", "debt", "saving", "settle_debt", "update_tx"}, d : DraftSet]

DraftsTypeOK ==
  /\ card \in CardRow
  /\ turns \in [Turns -> BOOLEAN]
  /\ \A t \in Taps : taps[t].at \in {"idle", "looked", "closed"}
  /\ \A r \in RowIds : rows[r] \in PendingRow
  /\ \A s \in Submits : submits[s].at \in {"idle", "read", "recorded"}
  /\ revived \in BOOLEAN /\ losses \in 0..MaxLosses

\* What a row comes to is what it last said, and only once.
RecordedAsLeft(r) ==
  LET recording == \E s \in Submits : submits[s].at = "recorded" /\ submits[s].row = r
  IN /\ Len(recorded[r]) <= 1
     /\ recorded[r] # <<>> => recorded[r] = <<rows[r].d>> /\ (rows[r].st = "submitted" \/ recording)
     /\ rows[r].st = "submitted" => recorded[r] # <<>>

\* A card that says saved is on the pending page, or about to be; with one set of rows.
QueuedOnce ==
  /\ Cardinality({r \in RowIds : born[r] # {}}) <= 1
  /\ card.st = "saved" => (\E r \in RowIds : born[r] # {}) \/ (\E t \in Taps : taps[t].at = "closed")

\* A message is recorded at most once on its way from the chat to the ledger: the rows of a card
\* are queued once, from a card that lacked nothing, and a row is recorded once, as it was last
\* edited, and never after it was discarded.  The exceptions are the ways in which the code lets
\* it happen again: a reply in flight that opens a saved card, a commit whose answer is lost, and a
\* row that two submits, or a submit and an edit, have in hand.  What the page says can be
\* confirmed is not refused for something missing.
BookedOnce ==
  /\ DraftsTypeOK
  /\ ~revived => QueuedOnce
  /\ \A r \in RowIds : /\ \A d \in born[r] : Lacks(d) = {}
                       /\ r \notin astray => RecordedAsLeft(r)
                       /\ item[r] = "linked" => recorded[r] # <<>>
                       /\ item[r] = "waiting" => Waiting(r)
                       /\ Waiting(r) => Refused(rows[r].kind, rows[r].d) \subseteq Hard(rows[r].kind, rows[r].d)
  /\ Summary.ready + Summary.needs = Summary.count
=============================================================================
