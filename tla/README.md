# Chubi Pocket backend: a TLA+ verification project

Chubi Pocket is a pocket-money REST API: Go, Gin, and Postgres behind a `pgx`
connection pool. Every request is a goroutine; what two requests share is the
database. The pool runs at READ COMMITTED, locks rows with `SELECT .. FOR UPDATE`,
and has neither a lock timeout nor a statement timeout. So the hard part of the
program is what happens **between** a read on the pool and the transaction that
acts on it, in which order transactions lock rows, and which invariants of several
tables survive when requests interleave, time out, are retried or die. That is
what the modules here model.

## 1. Inventory

| component (`src/internal/...`) | state | operations | talks to | hard part | what makes it correct |
|---|---|---|---|---|---|
| `modules/transactions` | `transactions` rows (amount, wallet, transfer group, origin) | create (income, expense, transfer, deposit / withdraw), edit, delete, linked writes of debts, bills and occurrences | accounts (locks, balances), personal debts and projects (hooks), recurring (detach hook) | edits act on an unlocked read; lock order of up to two wallets and a row | cached balances follow the rows; transfers keep two wallets; no deadlock; nothing enters an archived wallet |
| `modules/accounts`: wallets | `accounts` (balance, status, owner) | create, adjust balance, archive, restore, delete | transactions, members, recurring | archive and delete race with writes in flight | as above; a deleted wallet leaves no money behind |
| `modules/accounts`: members | `account_members` (role, report scope, joined / left), invitation notices | invite, accept, reject, remove, leave, withdraw, transfer ownership, report scope | notifications, contacts (auto-accept) | check on the pool, write later; accept counts members without a lock | one owner, who is a member; ex-members see their own; an invitation is answered once |
| `platform/idempotency` | `idempotency_keys` (hash, stored answer, created_at) | claim, look up, take over, save, release, clean | every POST / PUT / PATCH / DELETE handler | retries race the first request; process death; storage errors | a save lands at most once; a replay is the answer of that save |
| `modules/recurring` | `recurring_rules` (schedule, status, `auto_created_until`), `recurring_items` (one row per touched occurrence: transaction, saving or debt entry, skip and paid marks, edited values) | settings: create, update, pause, resume, archive, restore, extend, delete; occurrences: confirm, skip, restore, mark / unmark paid, edit, link, unlink, delete; all due ones and picked ones; the due check with auto-create | transactions (records, and is told of every delete), saving goals, personal debts, notifications | an occurrence is read unlocked and stored later; its record and the transaction are changed from both ends; several rows and a wallet in one transaction | one occurrence, one transaction; an occurrence is recorded once; a deleted transaction skips its occurrence |
| `modules/personal_debts` | `personal_debts` (entries between two people, each side its own copy), `personal_debt_bills` | entry, repayment, edit, delete, link / unlink a transaction, disconnect, what a paper adds to a person's book | contacts, transactions, projects, notifications | two copies of one entry; repayments spread over bills | what both sides hold agrees while they are connected; the bills add up to the net |
| `modules/projects`: split bills and events ("papers") | `projects`, `project_members`, `project_transactions`, `split_transaction_people` | create, join, decline, claim, leave, remove, merge, paid marks, move, settle, sync with my books | transactions, personal debts, contacts, notifications | a person's part exists on the paper and in several books; ownership and membership as for wallets | parts add up to the paper; a part is in a book at most once |
| `modules/contacts` | `contacts` (linked user, archived) | create, link request, accept, reject, absorb, archive, restore, unlink, delete | personal debts, projects, notifications | a link request is answered by two users; absorbing moves rows of other modules | both contacts are linked or none; no row names an absorbed contact |
| `modules/notifications` | `notifications` (read, actioned, dismissed), settings | create, read, actioned, dismiss, restore, delete | every module with an invitation or a notice | an answer arrives twice or late | a notice agrees with what it asks about |
| `modules/saving_goals` | `saving_goals`, `saving_entries` | create, save, take out, close, archive, restore, delete | accounts, recurring, pending | what is free is computed from several tables | entries never exceed what is free |
| `modules/budgets` | `budgets`, `budget_periods`, their wallets and categories | create, update, close, archive, restore, delete | transactions, recurring | period arithmetic, periods opened by reads | a period opens once; a row counts in one period |
| `modules/pending` | `pending_transactions` (drafts) | create, update, submit one / several / all ready, discard | transactions, debts, savings, imports, chatbot | submitted twice | a draft becomes one record |
| `modules/imports` | `import_logs` | scan a slip, parse a text, check against what is there | pending | text recognition | matching only |
| `modules/categories`, `tags` | `categories` (ordered), `tags` | create, update, reorder, delete | transactions | rows that use a deleted one | plain lists |
| `modules/auth`, `users`, `connections` | `users`, `user_connections`, `user_avatars` | register, log in, change password, deactivate, link / unlink an outside account | all | the last way to log in must not be unlinked | an outside account belongs to one user |
| `modules/sync` | none | fingerprints over the datasets of a user, and the due check once a day | all | fingerprints are read after the write | read only |
| `modules/chatbot`, `telegram` | `telegram_messages`, drafts | receive an update, answer with cards, book | pending, an external language model | an update is delivered twice | an update is kept once |
| `modules/dashboard`, `me`, `providers`, `appversion`, `user_pack_permissions` | none or one row | read | all | none | plain queries |
| `shared/recurrence` | none | date arithmetic | recurring, budgets | month ends, gaps, counts | the dates of a rule, in order, each once |
| `platform/{apierr,config,database,llm,logger,response}` | none | glue | all | none | not modelled |

`PROJECT.json` lists the same components with their sources, what is modelled of
each, and the hazards at the lines where they bite.

## 2. Modules

| module | models | its actions, in the code's terms |
|---|---|---|
| `Ledger` | wallets, transactions, row locks and the requests that write them | one action per handler's pool read and authorization (`createSingle`, `createTransfer`, `AdjustBalance`, `updateRow`, `deleteRow`, `linkedWrite`, `dropWallet`), one per row lock (`LockAccountsForUpdate`), one per commit (`CommitInsert`, `CommitUpdate`, `CommitDelete`, `CommitDrop`), `Rollback`, `DeadlockVictim`, `Archive`, `Restore` |
| `LedgerProps` | what the ledger promises, and the parts of its inductive invariant | |
| `Idempotency` | one `(user, key)` row and the requests that carry the key | one action per SQL statement of the middleware and one for the handler (`claim`, `lookup`, `takeOver`, `handle`, `save`, `release`, `clean`), plus `Crash`, `StorageError`, `Age` |
| `SaveOnce` | the promise of the header, without the key's row | send, land, answer, and the waiver; `Idempotency` implements it |
| `WalletMembers` | who shares one wallet: memberships, invitations, notices, ownership, status | one action per check and one per write; `joinTx` for accepting; `RejectInvite` and `ClearNotice` for the inbox |
| `Slots` | the occurrences of one recurring setting, and the transactions that fill them | one action per pool read (`TouchOcc`, `bulk`, `SettleOccurrences`, `linkOcc`, `deleteTx`), one per lock with what is decided under it (`LockOcc`, `LockWallet`, `LockOther`, `LockHooked`, `LockTx`), `NextOcc`, `Commit`, `Rollback` |
| `Schedules` (on `Calendar`) | a setting over time: its rule, stored occurrences, the daily check | create, edit, pause, resume, extend, archive, restore, the check that pauses, records and tells, and the pages as functions of the state |
| `PaperMath` | shares, nets, plans and settlements of a bill | operators only |
| `Papers` (on `PaperMath`) | one bill and the books its users keep of it | save, change, claim, unlink, leave, merge members, move in and out of an event, sync, notices |
| `Events` (on `PaperMath`) | the members of an event, its life, its settling | update, complete, reopen, delete, transfer, leave, remove, invite, merge, save and edit a bill, settle by pairs or by the fewest transfers |
| `Debts` | the books of two users with each other | entries, repayments, edits, links to a transaction, partners, statements with their cycles, what a paper writes |
| `Savings`, `Budgets`, `Calendar`, `Drafts`, `Answers`, `Contacts`, `Categories`, `SignIn`, `Sync` | the smaller parts of a user's household | one action per request, or per read and write where the code reads first and writes later |
| `Home` | those nine side by side | each behaviour follows one part (`focus`) |
| `LedgerProofs`, `IdempotencyProofs`, `WalletMembersProofs`, `SlotsProofs`, `PapersProofs`, `EventsProofs`, `DebtsProofs`, `HomeProofs` | theorems (section 4) | |
| `MC*` | the small instances | |

### Ledger

State: `rows` (the `transactions` table), `balance` and `status` (columns of
`accounts`), `holder` (Postgres row locks), and `request`, what each request in
flight has read, wants to write and still has to lock. An action that begins a
request is the read on the pool with the checks that follow it; from there on the
request only knows `old`, the row it *read*. It locks what it needs in the order
the code locks (`LockedBefore`: wallets, then the row; a linked write, and an edit that
sends a private note, `noted`, lock the row first), passes the wallet's gate under that lock
(`GetAccountBalance`), and then commits.

Abstractions, all deliberate:

- The two table rows of a transfer are one entry with an `out` and an `in` wallet
  and one row lock. They are always written together under the same wallet locks.
- The writes of a database transaction are one step. READ COMMITTED hides them
  from every other request until the commit, and the rows they change are locked.
- Membership is a constant here; it is `WalletMembers` that makes it move.
- A future-dated row's effective balance, categories, tags, notes and currencies
  are left out: no property tells them apart. The type change of a synced debt
  transaction (`SyncDebtTx`) keeps its amount and direction here.
- `stale` is a history variable: a commit acted on a row that was no longer what
  the request had read. Nothing in the model reads it.

### Idempotency and SaveOnce

The state is the row of one key, and for each attempt its place in the middleware
and what its client got. `landed` is the set of attempts whose handler committed.
`lapses` is a history variable that names each event after which a save may land
twice in spite of the key. The age of the row is `fresh` (under a minute),
`abandoned` or `expired`, as the code compares `created_at`.

`SaveOnce` says what a client is promised, with no row at all: of the requests
sent with one key one lands, and every answer tells the truth about it, until the
promise is `waived`. `SavesOnce` is the refinement: `sent` is every attempt that
has left its client, `got` its answer, and the promise is waived when there is a
lapse or a handler has panicked. So the list of lapses is complete.

### WalletMembers

A request is its check (reads on the pool) and, later, its write, which repeats
only what its own WHERE clause says. `raced` is a history variable: a write landed
although its check no longer held. Writes are single statements or short
transactions without a pool read in between and are one step each; accepting an
invitation is two, because it counts the members without locking them. An
invitation with auto-accept holds its rows while it goes on to join.

### Slots

State: `item` (the `recurring_items` row of each slot, or `NoRow` while the
occurrence is only computed), `txs`, `holder` (locks on slots, the wallet and
transactions) and `request`: what a request has read (`seen`), what it has written
in its open database transaction (`now`) and what it still has to do. `store`
inserts a computed occurrence or locks the stored one; either way another request
at that slot waits, so a slot has one lock. A row has an id, since a request keeps
the id of the row it read and finds nothing when that row has gone.

Abstractions:

- One setting of a money type, one wallet. Manual items, legacy drafts, saving
  and debt settings are not in it; the operations on the setting itself are in
  `Schedules`, where a request is one step.
- Which occurrences are due, or have an amount, is any subset of the open ones.
- A transaction's row lock is exclusive. In Postgres a link takes a key-share lock
  and an entry of the unique index, which for two links of one transaction, or a
  link and a delete, wait in the same way.
- `Rollback`, possible at any time, is a refusal, a deadlock victim, a client that
  went away and a crash alike: each leaves nothing behind.
- `recordedFor`, `letGo` and `stale` are history variables.

### Schedules and Calendar

`Calendar` is the real calendar (a day is a number) with the walk of a rule, its
cut to a window, its ends by count and by date, and the period a day is in.
`Schedules` keeps one setting and the rows stored for some of its occurrences, and
follows it through a sequence of days: two writes at any of them, and the daily
check. The pages (due list, calendar, installments left) are operators over the
same state, each with the rows its own query would load.

### Papers, Events, Debts

`Papers`: `paper`, `person` (its rows), `member` (of the event), the transaction
and the debt parts each user keeps, and `work`, the request that holds the paper's
lock. What is read on the pool before (membership, books) is a separate step. Anyone
with a member row can be put on an event's bill, also one who has left the event
(`memberInfoTx` does not look at the status), and a merge of members changes the
event's bills. `change`, `loud`, `told`, `back` and `astray` are history variables:
which changes there were and which of them were no merges, who heard of the last such
one, who is on a bill after leaving its event, and whose book or row slipped away in a
race. `Events`: one request at a time is caught between its read and its write
(`waiting`), the others run whole beside it; an edit of a bill, which takes no lock of
the event, and a merge can be the one that is caught. `Debts`: likewise, with the rows
the caught request holds; `crossed` is the history of a transaction that a co-member of
its wallet edited after its author had linked it. The
arithmetic of a bill is `PaperMath`, checked against reference definitions
(`SimplifiedEvensOut`: the fewest transfers leave each person with the same net).

### Home

The nine parts share no table that any of their properties is about, and none
takes a step of another; a product of their state spaces would say nothing more.
`HomeInit` therefore chooses the part a behaviour follows, and `OneStart` keeps the
others at one of their starts. Where a part reads first and writes later without
a lock (`Contacts`, `Categories`, `SignIn`, `Drafts`, `Sync`, the closing of a
goal in `Savings` and the setting of its recurring saving), the two are two steps, and
a history variable records the races the code does not exclude (`raced`, `overtaken`,
`stolen`, `astray`, `excused`, `hasty`): the property holds without them, and they say exactly when it may not.

## 3. Runs

| run | distinct states | what it shows |
|---|---|---|
| `ledger` | 561,415 | two concurrent requests on a shared and a private wallet, with archiving and restoring: balances follow the rows unless a write was stale, transfers keep two wallets, gates hold, a deadlock needs a request that locks out of order, nothing enters an archived wallet |
| `ledger_answers` | 67,372 | under the fairness below every request commits or is rolled back |
| `ledger_cached_balance` (violation) | | two edits of one row, or an edit and a delete, drift the cached balance for good |
| `idempotency` | 1,109,080 | three sends of a save and a foreign request under one key, with crashes, storage errors, panics and time: the middleware implements `SaveOnce` until a named lapse, replays are faithful, no claim is left behind |
| `wallet_members` | 369,089 | ownership, scopes, invitations and notices with three users and two requests in flight |
| `slots` | 1.25 million | three requests, two at a time, on a setting with two dates: an occurrence is recorded once unless a link overwrote it, a transaction fills one occurrence, filled ones carry no mark, deleting a transaction skips its occurrence, and which deadlocks there can be |
| `papers` | 1,326,059 | a bill of three users, in an event and out of it: only people on the paper hold books, a book that misses a change other than a merge is told, the paper stays even and a book that took the last change says its amounts |
| `events` | 127,314 | the members, bills and settling of an event: what a completed event no longer becomes unless a request, a bill's edit among them, had read it before, and what the transfers and the pairs booked before leave in the books |
| `debts` | 259,221 | two users' books: rows that are one value stay one, partners name each other, statements add up, mirrored books mirror |
| `schedules` | 121,858 | a setting from June to September: no installment is lost, nothing that waits disappears, each occurrence is told once, the pages agree but for rows dated before the tracked days or past the end |
| `schedules_auto` (violation) | | a month recorded automatically on its old day is recorded again when the day is moved |
| `home` | 644,703 | the nine parts, one at a time |

The violations are disagreements of the code with its own comments and scripts;
each is a finding in `PROJECT.json` with the line it contradicts. Where a property
fails in general, the passing run checks the weaker property that does hold and
says exactly what the exception is (`~stale`, `lapses`, `~raced`, the operations
in `stale`, and the history variables of `Home`).

### Other disagreements met while modelling

No run of its own, but each is a behaviour of a model, and the property beside it
is stated around it:

- Ledger: a row that changes wallet locks old, then new, whatever the ids
  (`CyclesNeedAnOutOfOrderLocker` names the lockers); an edit of a paper's row that sends a
  private note writes the row before it locks the wallet (`service.go:600`), where a plain
  edit or delete of the same row locks the wallet first: the two can deadlock.
- Idempotency: a slow first request is taken over after a minute and both land;
  a handler that panics stores an empty 200 (both are lapses or waive the promise).
- Members: a removal between the check and the write of an ownership transfer
  leaves a wallet whose owner is no member (`raced`).
- Slots: a link sent without Replace overwrites a recording committed since the
  link read (`stale` holds `"link"`).
- Savings: a recurring saving can pass its target, a completed goal can hold money
  after an edit, and deleting a withdrawal of a deleted goal leaves money in a
  bucket of no goal. A recurring saving is set or resumed by a request that looked at the
  goal without a lock (`saving_link.go:41`): closed or archived in between, the goal ends
  with a saving that runs on (`hasty`).
- Budgets: a page settles periods of a budget it read before an edit
  (`service.go:85`); an ended recurring budget still reads as behind
  (`period.go:43`).
- Chat and pending: a failed queueing reopens a card whatever it has become
  (`cards.go:122`); a row submitted twice at once is booked twice when its book is
  written in a transaction of its own. A saving draft edited to have no goal counts as
  ready (`readiness.go:40`), and saving it is refused (`saving_goals/writes.go:434`): it
  cannot be submitted until it has one again.
- Contacts: marking a link request answered on the notice's page counts as a yes
  for a link back; of two requests that have one contact in hand the later write
  wins (`raced`).
- Categories: two moves at once can make a cycle that later walks do not leave, and a
  new order written after the children of a category it moves were put a level up by its
  deletion can leave a fourth level (`overtaken`). `Update` asks for one level more than
  it needs (`service.go:192`: the category is counted in the depth below its parent and in
  its own subtree), so it moves a category only below a root, while a new order may put it
  one level further down.
- Connections: the person who loses a chat may not be the one whose last way in
  was looked at (`stolen`).
- Debts: a co-member of a wallet who read a transaction before its author linked it edits
  it by its id, and the entry is looked for among the editor's own
  (`personal_debts/service.go:772`): entry and transaction end with two amounts
  (`crossed`).
- Schedules: a row dated before the days that are tracked is listed as due on the
  setting's own page (`service.go:667-671`), counted in its own count if it has an end and
  the row is not before its start (`service.go:337`), and on neither the due page nor the
  summary (`occ.go:325` starts there). A row dated past the end is on the page and not in
  the setting's own count. `DuePagesAgree` states the pages with these exceptions.
- Sync: a transaction that commits late leaves the fingerprint as it was; a
  fingerprint is read before the body it is stored with (`excused`).
- Events: real pairs booked first are to be subtracted from the simplified lines
  (`lump.go:20-21`), but the code subtracts only the pairs whose other member is on one of
  one's lines. In ordinary use a pair booked with anyone else stays beside the lines: what
  is in the books is the member's net and those pairs (`SettledIsMyNet` says so). After a
  merge, a part with the member who went, when there already was one with the member who
  stays, is left naming a row that is gone (`paper_event.go:274`), which is on nobody's
  line. And a part counts on the side the pair is on by now (`lump.go:202`): one that said
  they owe me, of a pair in which I owe them since the merge, is added where it should be
  taken off (the property is stated for books without one).
- Events: an edit of a bill takes no lock of the event, and the trigger that guards a
  completed event sees it open until completion commits: an edit, like a merge, an update
  or a removal that read the event before, can leave an empty spot on a completed event.
- Papers: a former member is put on an event's bill by the member row
  (`paper_people.go:295-304`), gets books of it by auto-accept (`paper.go:251-269`), and
  does not hear of the event's end; one whose row is `left` or `declined` and who is asked
  again on the paper by that row can never accept. A merge of members changes bills and
  tells nobody (`paper_event.go:227-284`), and can leave a part that names its holder's own
  row.
- Papers: a move out of an event keeps the books of a holder who is no member of
  the new one (`paper_event.go:25`), and a synced part keeps its direction
  (`paper.go:599`); debts told by a paper may be gone or paid down
  (`paper_debts.go:30`); two confirmations of a recurring repayment each read what
  is owed unlocked.

### Bounds

Every bound is a named constant, marked `bound:` where it is declared, that guards
the actions that consume it or ranges over what is asked.

- `MaxRows`, `MaxRequests`, `MaxFlips` (Ledger): three ids, two requests, two
  archive or restore statements. Two requests suffice for every race the ledger
  has, since each involves one pair of requests, and `Seeds` starts each behaviour
  from tables earlier requests left, so that no request is spent on building them.
  Amounts 1 and 2 make a change of amount visible; two wallets make a lock cycle.
- `MaxTicks` (Idempotency): three ageing steps, so that a key can be abandoned,
  taken over and abandoned again, or expire. Three of the four sends ask for the
  same thing and are symmetric; the run checks no liveness property.
- `MaxInvites`, `MaxRequests` (WalletMembers): three membership rows besides the
  creator's (so one user can come back), five requests, two at a time. Clients send
  only the widest scope, `all` (`SentScopes`): the narrower ones are closer to what
  the properties demand. The two invitees, and the two request slots, are symmetric.
- `MaxTx`, `Plain`, `MaxIds`, `MaxRequests` (Slots): one transaction at the start
  and two that can be recorded, so that an occurrence can be recorded again or
  swapped; three requests, so that a row can go and come back under a request that
  read it; six row ids, more than can be stored and remembered at once. Two slots
  make moves of a transaction and lock cycles between rows.
- `MaxChanges`, `Creators`, `Unlinkers`, `Leavers`, `Inputs`, `Forms` (Papers): two
  changes, so that a book can miss one and take the next; one user of each role: who may
  leave the event has the switches on, so that a bill can bring them a book after they left.
- `Scenes`, `Caught`, `MaxBetween`, `Bills`, `BillForms` (Events), `Scenes`,
  `Amounts`, `Dates`, `Entries`, `Txs` (Debts): a scene is what one behaviour asks
  for (an event's life; its settling without merges, with them, and with edits of a bill;
  one user's book, its links, a pair's papers), one request is caught at a time. Five writes are needed before both debts of a
  paper have lost their last part; the last scene of `Debts` makes six.
- `Starts`, `Endings`, `Looks`, `Near`, `Moves`, `Horizon`, `MaxTouches`
  (Schedules): four settings, the days looked at, two writes, and occurrences moved to a
  day before the start, before the first tracked day, after it, or past the end; the walk of a rule is
  cut a year after the last look.
- Home: amounts, entries, texts, names and people are the smallest sets in which
  the part's races occur; `MaxChanges` (budget writes), `MaxBusy`, `MaxLosses`
  (Drafts), `MaxEdits` (Contacts), `MaxCalls` (Categories), `MaxSteps` (SignIn),
  `MaxSavers`, `MaxSaves`, `SyncDays` (Sync) count the steps that could go on
  forever.

`CHECK_DEADLOCK FALSE` is in every configuration because a behaviour ends when its
requests are spent; waiting in a circle is a state of the Ledger and Slots models
and `CyclesNeedAnOutOfOrderLocker` and `CyclesNeedSeveralRows` speak of it directly.

### Fairness

Only `EveryRequestEnds` assumes any. `WF(Proceed(r))` says that a request whose
next step stays possible takes it: the goroutine is scheduled, and Postgres grants
a row lock from a queue. `WF(DeadlockVictim(r))` says that a circle of waiting
requests is broken: the deadlock detector runs after `deadlock_timeout`. Nothing
makes clients send requests, and nothing makes anyone archive a wallet.

## 4. Proofs

Each theorem holds for every value of the constants that satisfies the named
`ASSUME`s of the module, which TLC evaluates on the instances.

### Ledger (`LedgerProofs`)

For any set of wallets, users, requests and amounts and any seed tables the
program could have written:

| theorem | says |
|---|---|
| `TypeCorrect` | `Spec => []TypeOK` |
| `Inductive` | `Spec => []IInv` |
| `RequestsAreChecked` | `Spec => []Structure` |
| `BalancesFollowTheRows` | `Spec => []FreshBalanceIsLedger` |
| `TransfersMoveMoney` | `Spec => []FreshTransfersMoveMoney` |
| `ArchivedIsReadOnly` | `Spec => ArchivedTakesNothingIn` |
| `LocksKeepTheirOrder` | each request holds what it has locked, and locks in the code's order, unless it is one of the writes that do not (a row that changes wallet, a linked write, an edit with a private note) |
| `DeadlocksNeedAnOutOfOrderLocker` | `Spec => []CyclesNeedAnOutOfOrderLocker` |

The balance invariant is not inductive. A commit adds `delta(new) - delta(old)`,
where `old` is the row the request read; this keeps the sum only when `old` is
still the row in the table, which is what `~stale'` says of an edit or a delete,
and only when an insert's id is still free, which is what `InsertsAreNew` adds.
Deleting a wallet sets its balance to zero and must leave no row behind:
`OneWallet` (an opening or adjustment row has no second wallet) is why the other
balances stay right when such rows go. That `ArchivedTakesNothingIn` holds even
for stale writes needs `GatesHold`: from the moment a write's wallet is locked and
gated until the commit, the lock keeps archiving out. So
`IInv == TypeOK /\ Structure /\ RowsAreSound /\ FreshBalanceIsLedger`; TLC checks
it on the small instance. The step proof goes by kind of step: a request starts, a
lock is taken, a write commits, a request ends, a wallet is archived or restored.

The first lemmas of `LedgerProofs` show that changing one row changes the sum by the difference of that
row. The sum is a recursive function; its lemmas are by the least number principle
(a least index where the claim fails), since induction theorems with an operator
parameter are out of the prover's reach.

A circle of waiting requests that all lock in order would go round an order
without an end: each waits for something above all it holds. This is proved
for circles of any length, by the request of the circle that waits for the
greatest lock.

### Idempotency (`IdempotencyProofs`)

| theorem | says |
|---|---|
| `Inductive` | `Spec => []IInv` |
| `Faithful` | `Spec => []ReplaysAreFaithful` |
| `NoneLeftBehind` | `Spec => []NoClaimLeftBehind` |
| `KeepsPromise` | `Spec => SavesOnce`, the refinement |

What makes the refinement's invariant inductive is who owns the row: while no lapse
has happened, at most one attempt is past its claim and before its release, the
row is its claim (`Claimed`), and an answer in the row is of an attempt that
landed (`Stored`). Each action then maps to a step of `SaveOnce`, or to none: the
handler's commit is `Land`, what the client gets is `Answer`, everything else
stutters; an action that names a lapse waives.

### Membership (`WalletMembersProofs`)

`Inductive`, `OwnerStaysOne` (`OneOwner`), `ExMembersStayScoped`
(`ExMembersSeeOwn`), `NoticeAgrees` (`NoticeAgreesWithMembership`) and
`SharingResetsScopes` (the action property `SharedStartsWithNoScopes`).
`IInv == TypeOK /\ TargetsAreUsers /\ JoinsHoldTheirRow /\ OneLiveEach /\
NoticesFollow /\ OwnerIsOne /\ ExMembersSeeOwn /\ NoticeAgreesWithMembership`: a
join between its two steps holds its row, nobody has two live rows, and a notice's
terminal state follows its membership's. Every action is first shown to be one of
twelve kinds of effect on the tables, and each part is proved of the kinds.

### Occurrences (`SlotsProofs`)

`Inductive`, `RecordedOnce` (`RecordedOnceUnlessLinked`), `OneEachWay` (`OneToOne`),
`DeletingSkips` (the action property `DeletedTxSkips`) and `CyclesNeedSeveral`
(`CyclesNeedSeveralRows`), for any dates, transactions and number of requests.

`OneToOne` is about tables, and says nothing of what a request is about to write;
it is kept only because whatever a request has read and decided under its locks is
still so when it commits. `RequestsHold` says this of each request: the shape of
what it intends, the slots and transactions it holds, which other request may
hold what it still waits for, and that the rows it is about to write (`now`)
agree with the tables everywhere it holds no lock (`Pending`). The steps of other
requests cannot disturb it because they hold none of its locks (`OthersSound`);
its own steps short of the commit only add to it; the commit is proved column by
column. Where a link writes blind, `stale` names it and the claims it can break
are conditional on it.

### Papers (`PapersProofs`)

`HoldersAreOnIt` (`HoldersAreOnThePaper`), `StaleAreTold` (`StaleBooksAreTold`) and
`ReadInSync` (`SyncedReadsInSync`), for any users, forms, claims and switches. `PInv` is

    Shapes /\ BooksAreRows /\ HoldersOn /\ NothingBefore /\ LetIn /\ StaleBooksAreTold

- A claim is let in when its request has the lock and writes later. What let it in still
  holds then: nobody else changes the rows of a paper that is held, the event can only
  grow under it, and whoever leaves the event meanwhile is `astray` (`LetIn`).
- Before the paper is made nobody holds a book of it (`NothingBefore`), so the books of a
  new paper are its writer's and those of the people whose switch claims for them.
- The operators on books are handled once each, in lemmas that say what they do to the
  set of holders and to the change a book is of: a claim adds books of one user and of the
  last change (`ClaimAdds`), a sync adds none (`SyncMakesNone`), `OutOf` takes the books of
  those who go (`OutOfTakes`), a part whose person goes stays its holder's (`NamelessKeeps`).
- Former members who are back on a bill (`back`) hold books of an event they are not in:
  `HoldersOn` names them, and so does what is told at the event's end.
- A step then either leaves the change as it is and makes only books of it (`StaleKept`), or is a merge, which
  is no loud change, or tells every holder who is not astray (`StaleIfTold`). The last is why the order of
  `moveIntoEventTx` and `Delete` matters: who is told is who was joined, or a member, and
  `HoldersOn` says that this is everyone with a book.

What a user reads of his share after a sync rests on sums, and on the paper itself:
`SInv` is `PInv /\ IsEven /\ BooksAreSaid`.

- `IsEven`: who is off the paper has nothing on it, and what was paid is what is shared. A
  removal keeps it because the lead is handed what the person paid and shared
  (`HandedOn`), and an equal split because the lead takes the rest of the division
  (`EqualSharesAddUp`), so that there always is a lead while somebody is on it (`LeadIsOn`).
- `BooksAreSaid`: the books of a user that followed the last change carry the paper's
  amounts of that user. A claim and a sync write them so (`ClaimSays`, `SyncSays`); whatever
  changes an amount makes a new change, which leaves nobody in step but the writer and
  those whose switch follows for them.
- A row of a plan is what the two owe each other, net (`PlannedIsNet`), and its transaction
  holds what is owed to all payers, a whole number (`OwedIsNat`). The sums are the same fold
  as in `HomeProofs`, with the lemmas that take one person out and change one value.

They assume what the form's binding checks (`PaperInputs`: somebody is on the bill, amounts,
shares and payments are whole and not negative) and that a bill has finitely many users
(`PaperUsers`).

### Events (`EventsProofs`)

`Inductive`, `CompletedHasNoEmptySpot` (`NoEmptySpotOnCompleted`), `CompletedForGood` (the
action property `LockedUnlessRaced`) and `EventSettles` (`SimplifiedEvensOut`), for any users,
rows, bills, forms and requests.
`IInv == Shapes /\ WaitingFits /\ StaysOver /\ Filled`. A request that is caught between its
reads and its writes decides on what it has read, and the tables move on. `WaitingFits` says
what remains true of it: what it has read is still so until something runs beside it, so that
a guard on what was read is a guard on what is; and if something did run, the write names its
operation in `late`. `StaysOver` and `Filled` are conditional on that history, each on the
operations that can break it: only an update writes a status it has read (`StaysOver`), and only an update, a removal, an edit
of a bill and a merge can leave a completed event with somebody on its bills whose row was taken
off (`Filled`). The four are as the code has them: an edit and a merge look at the event and
write without its lock, so what they looked at may be completed when they write.

`EventSettles` (`SimplifiedEvensOut`) is about money. `EvenBills` says that what was paid on
a bill and what is shared both come to its amount; a merge keeps it because what falls to
the member who stays is what the other had (`ShiftedAddsUp`). What one member owes another
is owed to that member (`NetTurns`), so adding up by rows and by columns gives opposite
sums, which are equal: what the members are to receive adds up to nothing
(`NetsAddUpToNothing`). `simplifyNets` is a recursion over nets, and the provers know
nothing of it but that it picks a table that satisfies the equation. That there is one is
shown from the least number of open members for which there is none (`SettlesThere`): a
payment closes one side and opens nobody (`PaymentIs`), so fewer are open after it
(`FewerOpen`). The same number bounds the payments (`SettlingEnds`), and the last payment
closes two, hence fewer payments than members. When nobody is left on one side, the other
side has nothing either, as the sum is still nothing (`OverIsEven`).

They assume that nobody is no user (`EventUsers`), that rows are numbered and the first is the
owner's (`EventSlots`), that scenes are of those rows and bills (`EventScenes`), that forms are
of bills with whole amounts (`EventForms`) which are even (`EvenForms`: `ErrPaperNotEven` refuses
the others), and that there are finitely many rows and bills (`EventFinite`).

### Debts (`DebtsProofs`)

For any number of entries, transactions and papers, any amounts and dates, and any
interleaving of a caught request with the others:

| theorem | says |
|---|---|
| `OneValueAlways` | `Spec => []RowsAreOneValue` |
| `PartnersAlways` | `Spec => []PartnersMutual` |
| `StatementAlways` | `Spec => []StatementAddsUp` |
| `MirrorAlways` | `Spec => []MirroredWhenPaidDown` |

The invariant, `IInv`, says that both tables are `Good` and that what a caught request
has read was a row, and that they are `Kept` (below). `Good(es, ts, kn)` speaks of any two tables and not of the
variables, because a told repayment is written on what the first one left: rows have
their columns (`RowsFit`), a label is a debt's and a contact's row has the contact
(`Labelled`), a part is in one row of a book (`PartsOnce`), partners name each other
(`Mutual`), an entry and its one transaction agree (`OneValue`). The parts need each
other: a new row is nobody's partner and has no transaction only because partners and
the entries of transactions are live. `OneValue` is of entries and transactions with
the same amount unless the transaction is `crossed`; a link and a write of the author's
make it straight again. Where an operation changes an entry and its
transaction at once, neither change alone keeps `OneValue`: `Revalued` lets the
transaction go, changes the entry, and puts the transaction back with the new value.
The deletion by a stale read (`DeleteTxGood`) needs nothing of what was read but that it
was an entry's id: whatever that row is now, its partners and transactions let go of it.

The sums need a second invariant, `Kept`, about amounts: they are natural numbers; until a
write in one book only, a debt of papers is `Fair` (it is the sum of its parts, all owed one
way, and its partner is a debt the other way); and while all is paid down and told, the
repayments of both books come to nothing together. A second lemma per operation shows that
it keeps these. A statement then adds up by ordering the lines: they are finite and their order
is total, so either no line clears the person, and all are current, or there is a last
one that does, the lines up to it come to zero and those after it to the balance. Two books
mirror each other because the debts cancel, each with its partner (`DebtsCancel`, on
`PairsCancel`: values that cancel under an exchange add up to nothing), and what is left
are the repayments.

The attempt to prove the mirror corrected its statement. A debt that has lost its last part
keeps its amount and its partner (`debtFromPartsTx`, `paper_debts.go:282`), so partners with
equal parts may differ once neither has any; `Paired` therefore asks for parts, and the run
now reaches such debts.

`DebtUsers` (two users), `DebtPapers`, `DebtIds` (finitely many entries and papers, numbered
from 1) and `DebtScenes` are assumed. The sums are the library of the household's proofs
(below).

### Household (`HomeProofs`)

Seven of the nine parts, for any people, chats, contacts, categories, rows, tables, goals,
days and amounts, and any number of requests in flight:

| theorem | property | the inductive invariant |
|---|---|---|
| `NobodyLosesTheLastWay` | `NobodyLockedOut` | `SignInInv` |
| `LinksKept` | `LinksHold` | `ContactsInv` |
| `MessagesAreBookedOnce` | `DraftsHold` | `DraftsInv` |
| `FingerprintsTell` | `SyncHolds` | `SyncInv` |
| `NothingIsOverdrawn` | `SavingsHold` | `SavingsInv` |
| `CardsStay` | `AnswersHold` | `AnswersInv` |
| `TheTreeStands` | `TreeHolds` | `CategoriesInv` |

A step of `Home` is a step of the part the behaviour follows or leaves the part's
variables alone, so each part is proved by itself.

- Signing in. That everybody keeps a way in is not inductive: a request looks at the
  account and removes the link later. `AskedHavePasswords` carries the look through:
  whoever a request will take a link from had a password then, and a password is never
  taken away. With one chat per person (`OneChatEach`) the last link is the only one. The
  look is of the owner of the chat; when the chat has changed hands before the write, the
  person who loses it was never looked at, and `stolen` says so.
- Contacts. A link is agreed to when its request was; so the invariant speaks of each
  notice (what it says, and that an answered one was agreed to), of each request in
  hand (what it has read, and that it still stands) and of who else may change the
  contact in its hand: nobody, unless `raced`. The table's unique index (one live
  contact per owner and linked user) is kept by the writes that look at it.
- Drafts. Whatever is in hand of a card is ready, a card is saved once unless a failed
  queueing reopened it (`revived`), and what a submit holds of a row is the row unless
  another wrote it in between (`astray`). A calendar item follows the card it came from.
- Sync. A fingerprint is the number of rows and the newest time of writing. `Fitting`
  relates each one that is kept to the body kept with it and to the tables: either
  the row with the newest time has been written since, and then that time never comes
  again, or the rows no newer than it are the ones that were there. Equal counts of finite
  sets, one inside the other, then make the bodies equal. Datasets written while their
  fingerprint was taken are `excused`.
- Savings. A goal's pots are whole amounts, and all the goals that are gone share one pot,
  so deleting an empty goal has to leave the pots of the others. What makes
  `SavingsHold` inductive is about the requests in hand: whoever moves money took the
  lock before it looked, so what its split takes is still there when it is written
  (`LooksFit`). A goal that was closed or deleted holds nothing (`EndedAreEmpty`), unless
  it is `loose`: an update wrote an older status over its own, or an entry of it was edited
  after it ended. The recurring saving of one that was closed or archived is paused
  (`EndedArePaused`), unless the goal is loose or `hasty`: who set the saving had seen it
  active.
  The totals of a pocket and of a goal are sums over one table, by rows and by columns.
- Answers of a model. That an edit keeps the item says nothing of how the item came to be;
  `AnswersInv` says field by field what the checks leave, for each kind of item
  (`IsBought`, `IsTransfer`, `IsSaving`, `IsDebt`) and for its bill (`IsBill`). From that
  alone `BoughtTwice`, `TransferTwice`, `SavingTwice` and `DebtTwice` show that what is
  handed to the model of such an item (`Handed`) passes the checks as the item itself:
  an amount that was rounded is rounded, a person on the bill is taken for the same person,
  a wallet or goal that was found is found, what was missing is missing. `Lost` names the
  three kinds of item that do not come back.
- Categories. That the tree has three levels says nothing of what is about to be written;
  `LevelsKept` says that it has them, and would have them with the placing of any request
  in hand. A write must keep that for all the others: two new leaves never get in each
  other's way (`TwoLeaves`); children that rise when their parent is deleted take nobody
  deeper (`Shortcut`), nor does a category that was checked on its own and loses its
  children before it moves (`MovedAlone`). For a new order of several categories this last
  step fails, and the history variable says so: the first form of `TreeIsSound`, without
  the deletions, was not inductive and not true of orders outside the first instance. That
  the month counts every row once is a bijection: rows are numbered within their root
  (`CountedOnce`), and the walk up from a row meets one root, once (`RootIs`).

The sums are handled without an induction over sets: `SumStep` (a sum with one more term)
is read off the fold's own recursion by choosing a smallest set on which it fails, which
a finite set has (`SmallestSet`); `SumChanges`, `SumAtMost`, `SumPart` and `SumSwaps` (rows
first or columns first) follow in the same way.

What they assume is named in the parts: nobody is no person (`NobodyIsNoPerson`),
contacts have owners and addresses (`ContactOwners`, `ContactAddresses`), texts are drafts
and rows finite in number (`TextsAreDrafts`, `LegacyAreRows`, `DraftBounds`), the tables
have finitely many cells and each dataset its tables (`SyncBounds`, `CellsAreFew`,
`SetsHaveSources`), and the savings' buckets are finite and apart (`SavingBuckets`), with whole
bounds and amounts (`SavingBounds`, `SavingAmounts`, `DepositsAreSums`). An answer's amount
is a number (`AnswerAmounts`), and a user's lists are lists (`AnswerLists`): no id is empty
or the word for spare money, a category is of one type, a member of one event, a rule's
amount of whole satangs. A user begins with categories in a tree (`SeedsAreATree`), a new
order is a list of places (`OrdersAreLists`), and the month's rows are finitely many and
filed in one of the categories or in none (`RowsAreFiled`).

### What is only model-checked

- `EveryRequestEnds`: liveness under fairness (and ENABLED in it) is beyond the
  proof system.
- `SettledIsMyNet` of `Events`: what is booked of a settlement line by line is that
  `simplifyNets` pays each pair once and each member their net, two more statements over
  its recursion, and that nothing a settled member booked changes later.
- `Schedules` and the dates in `Home`: what a recursive walk computes for every
  rule is an induction over data. TLC compares it with reference definitions on
  rules chosen for the ends of months, leap years and gaps.
- `Budgets`: sums of the rows of a period whose first day a walk over the calendar computes.

## 5. Not modelled

- The connection pool. A request that holds a transaction asks the pool for a
  second connection in several places; exhaustion is a hazard in `PROJECT.json`
  with no property. In `Schedules` a daily check is one step: two checks at once take
  different settings (`FOR UPDATE SKIP LOCKED`).
- `imports` (text recognition), `dashboard`, `me`, `providers`, `appversion`,
  `user_pack_permissions`, tags: reads, or single-row writes without an invariant
  between two rows. `platform` other than the idempotency middleware:
  configuration, logging, answers.
- In `Events` a merge adds the two rows of a bill; the equal split that
  `mergeOnPaperTx` then makes of a bill split equally is left out, so the bills of
  that module are bills of custom shares (an equal split is in `Papers`).
- Of what is modelled in part: a saving or debt occurrence of a setting and the
  deletion of a setting (`recurring`); a paper claimed without a transaction, as a draft
(`pending`); the import of a contact's entries
  (`personal_debts`); settings of notices other than mutes, and the cleaning of
  old ones; pictures, order and forecasts (`saving_goals`); tokens and password
  hashing (`auth`); the loaders of each dataset beyond two kinds of table
  (`sync`); texts, prompts and rendering (`chatbot`). `PROJECT.json` says it for
  each component.

## 6. What is next

1. A saving or debt occurrence in `Slots`, with the deletion of a setting.
2. An abstract bank whose transfers are atomic, implemented by `Ledger` until a
   write is stale.
