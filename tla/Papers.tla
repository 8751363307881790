------------------------------- MODULE Papers -------------------------------
(***************************************************************************)
(* One paper and the books its users keep of it (internal/modules/         *)
(* projects/paper*.go, personal_debts/paper_debts.go, transactions/        *)
(* paper_book.go).                                                         *)
(*                                                                         *)
(* A paper is a split bill or a bill of an event.  A user on it may claim  *)
(* it: a transaction of theirs and, per person they share a debt with, a   *)
(* part of a debt.  Books follow the paper one way.                        *)
(*                                                                         *)
(* A request locks the paper, reads (event and membership on the pool,     *)
(* books without a lock), then writes; the holder of a book can unlink it, *)
(* a member can leave and the event can close in between.  Of a user with  *)
(* several member rows the one that was active says how they stand.  The   *)
(* paid-back mark, tags, texts and dates are left out: they move no money. *)
(***************************************************************************)
EXTENDS PaperMath

CONSTANTS
  Users,       \* naturals; a user has at most one row on the paper
  Gone,        \* the person of a part whose row was deleted
  Inputs,      \* what the form may send: [type, mode, amount, on, share, paid]
  Forms,       \* what a claim may ask: [payDebt, bookDebts, skipTx, wallet]
  AutoAccept,  \* users whose switch joins and claims new papers
  AutoSync,    \* users whose switch lets their books follow
  EventOwner,  \* the owner of the event
  Creators,    \* bound: users who create the paper
  Unlinkers,   \* bound: users who unlink books by hand
  Leavers,     \* bound: users who leave the event
  MaxChanges   \* bound: changes of the paper's money

ASSUME PaperUsers == Users \subseteq Nat /\ IsFiniteSet(Users) /\ Gone \notin Users /\ EventOwner \in Users
ASSUME PaperSwitches == AutoAccept \subseteq Users /\ AutoSync \subseteq Users
ASSUME PaperActors == Creators \cup Unlinkers \cup Leavers \subseteq Users
ASSUME PaperForms == Forms \subseteq [payDebt: BOOLEAN, bookDebts: BOOLEAN, skipTx: BOOLEAN, wallet: BOOLEAN]
\* The form's binding: somebody is on the bill, nothing in it is negative.
ASSUME PaperInputs ==
  \A in \in Inputs : /\ in.type \in PaperTypes /\ in.mode \in {"equal", "custom"} /\ in.amount \in Nat
                     /\ in.on # {} /\ in.on \subseteq Users
                     /\ in.share \in [Users -> Nat] /\ in.paid \in [Users -> Nat]
ASSUME PaperBound == MaxChanges \in Nat \ {0}

Statuses == {"none", "invited", "joined", "declined", "left",
             "asked",   \* a row of a member who has not accepted the event
             "name"}    \* a row without a user
NoRow  == [st |-> "none", share |-> 0, paid |-> 0]
NoBook == [has |-> FALSE, type |-> "none", wallet |-> FALSE, amount |-> 0, my |-> 0, at |-> 0]
NoWork == [op |-> "none", by |-> EventOwner, done |-> FALSE, tx |-> {}, parts |-> {}]

VARIABLES
  paper,    \* [there, ended, event, done, owner, type, mode, amount]; done: completed
  person,   \* split_transaction_people, by user
  member,   \* the event's members: no, asked (invited), active, left
  tx,       \* my transaction following the paper, by user
  parts,    \* personal_debt_bills: [of, with, iOwe, amount, repay, at]
  work,     \* the request that holds the paper's lock
  change,   \* history: changes of what books are to say
  loud,     \* history: the last of them that was no merge of members
  told,     \* history: users who heard of that one, or made it
  back,     \* history: users put on the event's bill after they had left the event; with
            \* the event deleted, until the bill's next change
  astray    \* history: users whose row lost its user in a move, or who left the event
            \* while a request held the paper

vars == <<paper, person, member, tx, parts, work, change, loud, told, back, astray>>

-----------------------------------------------------------------------------
OnPaper(p) == {u \in Users : p[u].st # "none"}
\* PersonOfUser: u's row names the user.
UserRow(p, u) == p[u].st \in {"invited", "joined", "declined", "left"}
Active(u) == member[u] = "active"

Money(ppr, p) == [type |-> ppr.type, amount |-> ppr.amount,
                  share |-> [u \in Users |-> p[u].share], paid |-> [u \in Users |-> p[u].paid]]

PartsOf(ps, u) == {b \in ps : b.of = u}
Books == [tx |-> tx, parts |-> parts]

\* Mutant: only the users with a transaction are looked up.
Followers_TxOnly(books) == {u \in Users : books.tx[u].has}

\* The users with books of the paper.
Followers(books) == {u \in Users : books.tx[u].has \/ PartsOf(books.parts, u) # {}}

\* A part is about the pair's net, and about nothing when its person is gone.
Net(m, b) == IF b.with = Gone THEN 0 ELSE NetOf(m, b.of, b.with)

\* claimTx: the transaction and the parts not booked yet, as far as the request
\* saw; the form says on which branch, with which wallet, and what to skip.
Claimed(books, seen, m, u, event, form) ==
  LET plan == PlanFor(m, u, event, form.payDebt, form.bookDebts)
      booked == {b.with : b \in PartsOf(seen.parts, u)}
      new(rows, repay) ==
        {[of |-> u, with |-> r.with, iOwe |-> r.iOwe, amount |-> r.amount, repay |-> repay,
          at |-> change'] : r \in {x \in rows : x.with \notin booked}}
      makes == plan.ok /\ plan.tx /\ u \notin seen.tx /\ ~form.skipTx
      mine  == [has |-> TRUE, type |-> m.type, wallet |-> plan.wallet /\ form.wallet,
                amount |-> plan.amount, my |-> plan.my, at |-> change']
  IN [tx |-> IF makes THEN [books.tx EXCEPT ![u] = mine] ELSE books.tx,
      parts |-> IF plan.ok THEN books.parts \cup new(plan.debts, FALSE)
                                            \cup new(plan.repayments, TRUE)
                ELSE books.parts]

\* The claim nobody asked for: the debt branch, with the event's default wallet.
AutoForm == [payDebt |-> TRUE, bookDebts |-> FALSE, skipTx |-> FALSE, wallet |-> TRUE]

\* A book takes what the paper says now.
TxFollows(t, plan) == [t EXCEPT !.amount = plan.amount, !.my = plan.my, !.at = change']
PartFollows(b, net) == [b EXCEPT !.amount = Abs(net), !.at = change']

\* Mutant: the parts keep their amounts.
Synced_TxOnly(books, m, u, event) ==
  LET t == books.tx[u]
      plan == PlanFor(m, u, event, ~t.wallet, FALSE)
  IN [tx |-> IF t.has /\ plan.ok /\ plan.tx
             THEN [books.tx EXCEPT ![u] = TxFollows(t, plan)] ELSE books.tx,
      parts |-> {IF b.of = u THEN [b EXCEPT !.at = change'] ELSE b : b \in books.parts}]

\* syncBooksTx: the transaction takes its amounts on the branch it seems to be
\* on; each part takes its pair's amount, a part of an even pair goes.  Neither
\* the type of the transaction nor the side of a part changes.
Synced(books, m, u, event) ==
  LET t == books.tx[u]
      payDebt == ~t.wallet \/ \E b \in PartsOf(books.parts, u) : Net(m, b) > 0
      plan == PlanFor(m, u, event, payDebt, FALSE)
  IN [tx |-> IF t.has /\ plan.ok /\ plan.tx
             THEN [books.tx EXCEPT ![u] = TxFollows(t, plan)] ELSE books.tx,
      parts |-> (books.parts \ PartsOf(books.parts, u)) \cup
                {PartFollows(b, Net(m, b)) : b \in {x \in PartsOf(books.parts, u) : Net(m, x) # 0}}]

SyncedAll(books, m, us, event) ==
  [tx    |-> [u \in Users |-> IF u \in us THEN Synced(books, m, u, event).tx[u] ELSE books.tx[u]],
   parts |-> {b \in books.parts : b.of \notin us}
             \cup UNION {PartsOf(Synced(books, m, u, event).parts, u) : u \in us}]

\* Mutant: the parts stay.
OutOf_Parts(books, us) == [books EXCEPT !.tx = [u \in Users |-> IF u \in us THEN NoBook ELSE @[u]]]

\* booksOutTx: their books follow the paper no more (kept as plain records or
\* deleted, by the user's switch: either way they are no books of it any more).
OutOf(books, us) == [tx    |-> [u \in Users |-> IF u \in us THEN NoBook ELSE books.tx[u]],
                     parts |-> {b \in books.parts : b.of \notin us}]

\* The parts that name a deleted row name nobody (ON DELETE SET NULL).
Nameless(books, us) ==
  [books EXCEPT !.parts = {IF b.with \in us THEN [b EXCEPT !.with = Gone] ELSE b : b \in @}]

ClaimedAll(books, m, us, event) ==
  LET seen == [tx |-> {u \in Users : books.tx[u].has}, parts |-> books.parts]
      one(u) == Claimed(books, seen, m, u, event, AutoForm)
  IN [tx |-> [u \in Users |-> IF u \in us THEN one(u).tx[u] ELSE books.tx[u]],
      parts |-> books.parts \cup UNION {PartsOf(one(u).parts, u) : u \in us}]

\* A book the request read is not there any more: writing it fails.
TornOut(u)     == (u \in work.tx /\ ~tx[u].has) \/ ~ PartsOf(work.parts, u) \subseteq parts
TornSync(m, u) == \E b \in PartsOf(work.parts, u) \ parts : Abs(Net(m, b)) # b.amount

\* followTx: whose books take the paper's new money; all the others with books
\* are told.  A row that has lost its user follows nothing.
Following(books, p, writer) ==
  {u \in Followers(books) : (u = writer \/ u \in AutoSync) /\ UserRow(p, u)}

-----------------------------------------------------------------------------
\* resolvePeople, writePeopleTx: a new row of an event bill is joined when its member
\* row names the user (an active one, or one picked by `named'); others are asked to
\* the event, or by the switch made members at once.  Of a split bill the writer is
\* joined, others are invited or joined by the switch.
NewStatus(u, v, event, named) ==
  IF event
  THEN IF Active(v) \/ v \in named \/ (member[v] = "no" /\ v \in AutoAccept) THEN "joined" ELSE "asked"
  ELSE IF v = u \/ v \in AutoAccept THEN "joined" ELSE "invited"

Lead(on, owner) == IF owner \in on THEN owner ELSE CHOOSE x \in on : \A y \in on : x <= y

Shares(in, owner) == IF in.mode = "equal" /\ in.type # "payback"
                     THEN EqualShares(in.amount, in.on, Lead(in.on, owner)) ELSE in.share

\* writePeopleTx: the rows an input leaves; kept rows keep their status.
Written(in, u, owner, event, named) ==
  [v \in Users |->
     IF v \notin in.on THEN NoRow
     ELSE [st    |-> IF person[v].st # "none" THEN person[v].st ELSE NewStatus(u, v, event, named),
           share |-> Shares(in, owner)[v], paid |-> in.paid[v]]]

\* matcher.forUser: new rows of an event bill make their users members, at once
\* or by an invitation.
Matched(p, event) ==
  [v \in Users |-> IF event /\ person[v].st = "none" /\ p[v].st # "none" /\ member[v] \in {"no", "asked"}
                   THEN IF p[v].st = "joined" THEN "active" ELSE "asked" ELSE member[v]]

\* The people new on an event bill who left the event: a member row is picked
\* whatever its status, so it puts them on.
Former(on, event) == {v \in on : event /\ person[v].st = "none" /\ member[v] = "left"}

\* The matcher does not see the row of a user who left: it makes the writer no
\* member, and asks others again, who cannot be made members twice.
Matchable(left, u) == u \notin left /\ left \cap AutoAccept = {}

\* welcomeTx: the new people whose switch claims for them.
Welcomed(p, u) ==
  {v \in AutoAccept \ {u} : person[v].st = "none" /\ p[v].st = "joined"}

Fits(in, p, ppr) == (in.type = "payback" => ppr.event) /\ Balanced(Money(ppr, p))

Take(books) == tx' = books.tx /\ parts' = books.parts

\* CreatePaperTx: the writer owns the paper and claims it at once, unless told not to.
CreatePaper(u, in, event, named) ==
  LET ppr == [there |-> TRUE, ended |-> FALSE, event |-> event, done |-> FALSE, owner |-> u,
              type |-> in.type, mode |-> in.mode, amount |-> in.amount]
      p   == Written(in, u, u, event, named)
      m   == Money(ppr, p)
      mine == IF u \notin in.on THEN {Books}
              ELSE {Books} \cup {Claimed(Books, [tx |-> {}, parts |-> {}], m, u, event, f) :
                                    f \in Forms}
  IN /\ ~paper.there /\ ~paper.ended
     /\ event => Active(u)
     /\ named \subseteq Former(in.on, event)
     /\ Matchable(Former(in.on, event) \ named, u) /\ Fits(in, p, ppr)
     /\ paper' = ppr /\ person' = p /\ member' = Matched(p, event)
     /\ change' = 1 /\ loud' = 1
     /\ \E bk \in mine : Take(ClaimedAll(bk, m, Welcomed(p, u), event))
     /\ told' = Users /\ back' = named
     /\ UNCHANGED <<work, astray>>

-----------------------------------------------------------------------------
\* accessTx, the paper locked.
CanSee(u) == IF paper.event THEN Active(u) ELSE person[u].st \in {"invited", "joined"}
CanWrite(u) == CanSee(u) /\ (paper.event \/ person[u].st = "joined")

Starts(op, u) ==
  CASE op = "update" -> CanWrite(u) /\ ~paper.done
    [] op = "claim"  -> CanSee(u) /\ person[u].st = "joined"
    [] op = "sync"   -> UserRow(person, u) /\ ~paper.done
    [] op = "leave"  -> CanSee(u) /\ UserRow(person, u)
    [] op = "remove" -> CanSee(u) /\ paper.owner = u
    [] op = "answer" -> ~paper.event /\ person[u].st = "invited"
    [] op = "move"   -> CanSee(u) /\ paper.owner = u /\ ~paper.done

Ops == {"update", "claim", "sync", "leave", "remove", "answer", "move"}

\* The request has the lock and has read what it decides on.
Begin(op, u) ==
  /\ paper.there /\ work.op = "none"
  /\ Starts(op, u)
  /\ work' = [op |-> op, by |-> u, done |-> paper.done,
              tx |-> {v \in Users : tx[v].has}, parts |-> parts]
  /\ UNCHANGED <<paper, person, member, tx, parts, change, loud, told, back, astray>>

\* The request fails, whatever the reason; nothing it wrote stays.
GiveUp ==
  /\ work.op # "none" /\ work' = NoWork
  /\ UNCHANGED <<paper, person, member, tx, parts, change, loud, told, back, astray>>

Working(op) == work.op = op /\ work' = NoWork

\* Bound.  One more change, of which users are told.
Changes == change < MaxChanges /\ change' = change + 1 /\ loud' = change'

Back(named) == IF paper.event THEN back \cup named ELSE {}

\* followTx and welcomeTx, after a write left the paper's money m and people p.
FollowAndWelcome(books, m, p, u, new) ==
  LET autos == Following(books, p, u) IN
  /\ Changes
  /\ \A v \in autos : ~TornSync(m, v)
  /\ Take(ClaimedAll(SyncedAll(books, m, autos, paper.event), m, new, paper.event))
  /\ told' = Followers(books) \cup new \cup {u}

\* updatePaper, with the version the paper has.  The books of users taken off
\* go out; only the owner takes joined users off, and never themselves.
UpdatePaper ==
  LET u == work.by IN
  /\ Working("update")
  /\ ~paper.done                       \* the triggers on a completed event's bills
  /\ \E in \in Inputs : \E named \in SUBSET Former(in.on, paper.event) :
       LET p    == Written(in, u, paper.owner, paper.event, named)
           ppr  == [paper EXCEPT !.type = in.type, !.mode = in.mode, !.amount = in.amount]
           gone == OnPaper(person) \ in.on
           out  == {v \in gone : UserRow(person, v)}
       IN /\ Matchable(Former(in.on, paper.event) \ named, u) /\ Fits(in, p, ppr)
          /\ paper.owner \notin out
          /\ u # paper.owner => \A v \in gone : person[v].st # "joined"
          /\ \A v \in out : ~TornOut(v)
          /\ paper' = ppr /\ person' = p /\ member' = Matched(p, paper.event)
          /\ FollowAndWelcome(Nameless(OutOf(Books, out), gone), Money(ppr, p), p, u,
                              Welcomed(p, u))
          /\ back' = Back(named)
  /\ UNCHANGED astray

\* reshareWithout: what the one gone paid falls to the owner's row; an equal bill
\* is split again, else their share falls to it as well.
Reshared(gone) ==
  LET keep == OnPaper(person) \ {gone}
      lead == Lead(keep, paper.owner)
      equal == paper.mode = "equal" /\ paper.type # "payback"
      add(v, n) == IF v = lead THEN n ELSE 0
  IN [v \in Users |->
        IF v \notin keep THEN NoRow
        ELSE [person[v] EXCEPT
                !.paid = @ + add(v, person[gone].paid),
                !.share = IF equal THEN EqualShares(paper.amount, keep, lead)[v]
                          ELSE @ + add(v, person[gone].share)]]

\* removePerson: the owner takes someone off.
RemovePerson ==
  LET u == work.by IN
  /\ Working("remove")
  /\ ~paper.done
  /\ \E gone \in OnPaper(person) \ (IF UserRow(person, u) THEN {u} ELSE {}) :
       LET p == Reshared(gone)
           out == {gone} \cap {v \in Users : UserRow(person, v)}
       IN /\ OnPaper(p) # {}
          /\ \A v \in out : ~TornOut(v)
          /\ person' = p
          /\ FollowAndWelcome(Nameless(OutOf(Books, out), {gone}), Money(paper, p), p, u, {})
  /\ back' = Back({})
  /\ UNCHANGED <<paper, member, astray>>

\* claim: my books of what I have not booked yet; nothing new is refused.
Claim ==
  LET u == work.by
      after(f) == Claimed(Books, work, Money(paper, person), u, paper.event, f)
  IN /\ Working("claim")
     /\ change' = change
     /\ \E f \in Forms : after(f) # Books /\ Take(after(f))
     /\ UNCHANGED <<paper, person, member, loud, told, back, astray>>

\* SyncMyBooks, from the paper, from my transaction or from my debt.
SyncMyBooks ==
  LET u == work.by IN
  /\ Working("sync")
  /\ ~TornSync(Money(paper, person), u)
  /\ change' = change
  /\ Take(Synced(Books, Money(paper, person), u, paper.event))
  /\ UNCHANGED <<paper, person, member, loud, told, back, astray>>

\* answerInvite: a split bill's invitation.
AnswerInvite ==
  LET u == work.by IN
  /\ Working("answer")
  /\ \E st \in {"joined", "declined"} : person' = [person EXCEPT ![u].st = st]
  /\ UNCHANGED <<paper, member, tx, parts, change, loud, told, back, astray>>

\* deletePaperTx: everyone's books go out, then the paper.
Deleted == /\ paper' = [paper EXCEPT !.there = FALSE, !.ended = TRUE]
           /\ person' = [v \in Users |-> NoRow]
           /\ Take(OutOf(Books, Users))

\* leave: my row stays and my books go out.  The owner hands the paper to a joined
\* user; with none left a split bill is deleted, an event bill is the event owner's.
Leave ==
  LET u == work.by
      heirs == {v \in Users \ {u} : person[v].st = "joined"}
  IN /\ Working("leave")
     /\ ~TornOut(u)
     /\ IF paper.owner = u /\ heirs = {} /\ ~paper.event
        THEN Deleted
        ELSE /\ person' = [person EXCEPT ![u].st = "left"]
             /\ Take(OutOf(Books, {u}))
             /\ \E next \in IF paper.owner # u THEN {paper.owner}
                            ELSE IF heirs # {} THEN heirs ELSE {EventOwner} :
                  paper' = [paper EXCEPT !.owner = next]
     /\ UNCHANGED <<member, change, loud, told, back, astray>>

-----------------------------------------------------------------------------
\* moveIntoEventTx: those on the paper become members or are asked to; who declined
\* or left too, when a contact of the owner's is linked to them (known), else they
\* stay as a name.
MoveIntoEvent ==
  LET u == work.by
      met == {v \in Users : person[v].st \in {"invited", "joined"}}
  IN /\ Working("move") /\ ~paper.event
     /\ Active(u)
     /\ \E known \in SUBSET (OnPaper(person) \ met) :
          LET st(v) == CASE person[v].st = "none" -> "none"
                         [] v \in met \cup known   -> NewStatus(u, v, TRUE, {})
                         [] OTHER                -> "name"
              p == [v \in Users |-> [person[v] EXCEPT !.st = st(v)]]
          IN /\ Matchable({v \in met \cup known : member[v] = "left"}, u)
             /\ person' = p
             /\ member' = [v \in Users |-> CASE p[v].st = "joined" -> "active"
                                             [] p[v].st = "asked" /\ member[v] = "no" -> "asked"
                                             [] OTHER -> member[v]]
             /\ told' = {v \in Users : p[v].st = "joined"} \cup {u}
             /\ astray' = astray \cup {v \in Followers(Books) : p[v].st \in {"asked", "name"}}
     /\ paper' = [paper EXCEPT !.event = TRUE]
     /\ Changes /\ back' = {}
     /\ UNCHANGED <<tx, parts>>

\* moveOutOfEventTx: whoever did not leave is joined; a row without a user stays so.
PeopleOut == [v \in Users |-> [person[v] EXCEPT
                !.st = CASE @ = "asked" -> "name" [] @ = "declined" -> "joined" [] OTHER -> @]]

MoveOutOfEvent ==
  /\ Working("move") /\ paper.event
  /\ ~paper.done
  /\ paper' = [paper EXCEPT !.event = FALSE]
  /\ person' = PeopleOut
  /\ Changes
  /\ told' = {v \in Users : PeopleOut[v].st = "joined"} \cup {work.by}
  /\ astray' = astray \cup {v \in Followers(Books) : PeopleOut[v].st = "name"}
  /\ back' = {}
  /\ UNCHANGED <<member, tx, parts>>

-----------------------------------------------------------------------------
(* What no lock of the paper orders.                                       *)

\* The event goes; its bills become split bills.
DeleteEvent ==
  /\ paper.there /\ paper.event /\ work.op = "none"
  /\ paper' = [paper EXCEPT !.event = FALSE, !.done = FALSE]
  /\ person' = PeopleOut
  /\ member' = [v \in Users |-> IF v = EventOwner THEN "active" ELSE "no"]
  /\ Changes
  /\ told' = {v \in Users : Active(v)}
  /\ astray' = astray \cup {v \in Followers(Books) : PeopleOut[v].st = "name"}
  /\ UNCHANGED <<tx, parts, work, back>>

\* mergeOnPaperTx: a row without a user goes into another row: what it has is
\* added, an equal bill is split again.
Merged(from, into) ==
  LET keep == OnPaper(person) \ {from}
      equal == paper.mode = "equal" /\ paper.type # "payback"
      add(v, n) == IF v = into THEN n ELSE 0
  IN [v \in Users |->
        IF v \notin keep THEN NoRow
        ELSE [person[v] EXCEPT
                !.paid = @ + add(v, person[from].paid),
                !.share = IF equal THEN EqualShares(paper.amount, keep, Lead(keep, paper.owner))[v]
                          ELSE @ + add(v, person[from].share)]]

\* Its parts go along, beside a part the holder has with the other already.
Repointed(ps, from, into) ==
  {IF b.with # from THEN b
   ELSE [b EXCEPT !.with = IF \E x \in PartsOf(ps, b.of) : x.with = into THEN Gone ELSE into] : b \in ps}

\* The row of `from' becomes the row of `into', of whom there was none.
TakenOver(from, into, st) ==
  [[person EXCEPT ![from] = NoRow] EXCEPT ![into] = [person[from] EXCEPT !.st = st]]

\* How a row stands that a member takes over: it names the user of a member row, left
\* or not; of one who is asked, and of a member who is a name, it names nobody.
TakesAs(from, into) ==
  {st \in {"joined", "asked", "name"} :
     CASE st = "joined" -> member[into] \in {"active", "left"}
       [] st = "asked"  -> member[into] = "asked" /\ (into = from => person[from].st = "name")
       [] OTHER         -> into = from}

\* MergeMember: the member of a row without a user goes into another member.  No book
\* follows and nobody is told.
MergeMembers(from, into) ==
  /\ paper.there /\ paper.event /\ ~paper.done /\ work.op = "none"
  /\ person[from].st \in {"asked", "name"}
  /\ \/ /\ into # from /\ person[into].st # "none"
        /\ person' = Merged(from, into)
     \/ /\ into = from \/ person[into].st = "none"
        /\ \E st \in TakesAs(from, into) : person' = TakenOver(from, into, st)
  /\ parts' = IF into = from THEN parts ELSE Repointed(parts, from, into)
  /\ member' = [member EXCEPT ![from] = IF @ = "asked" /\ person[from].st = "asked" THEN "no" ELSE @]
  /\ change < MaxChanges /\ change' = change + 1
  /\ UNCHANGED <<paper, tx, work, loud, told, back, astray>>

\* Complete: the bills are locked for good.
Complete ==
  /\ paper.there /\ paper.event /\ ~paper.done
  /\ paper' = [paper EXCEPT !.done = TRUE]
  /\ UNCHANGED <<person, member, tx, parts, work, change, loud, told, back, astray>>

\* AcceptLinkRequest: the member is linked; a trigger names the user on the rows,
\* on a completed event's bills too.
AcceptEventInvite(u) ==
  /\ member[u] = "asked" \/ (member[u] = "no" /\ ~paper.there)
  /\ member' = [member EXCEPT ![u] = "active"]
  /\ person' = [person EXCEPT ![u].st = IF @ = "asked" THEN "joined" ELSE @]
  /\ UNCHANGED <<paper, tx, parts, work, change, loud, told, back, astray>>

\* memberOutTx: a member leaves the event or is removed; their books go out.
MemberOut(u) ==
  /\ Active(u) /\ u # EventOwner
  /\ member' = [member EXCEPT ![u] = "left"]
  /\ IF paper.event THEN Take(OutOf(Books, {u})) ELSE UNCHANGED <<tx, parts>>
  /\ astray' = IF work.op # "none" THEN astray \cup {u} ELSE astray
  /\ UNCHANGED <<paper, person, work, change, loud, told, back>>

\* UnlinkMyTransaction, UnlinkMyDebt (a debt here is of one part).
UnlinkMyTransaction(u) ==
  /\ tx[u].has
  /\ tx' = [tx EXCEPT ![u] = NoBook]
  /\ UNCHANGED <<paper, person, member, parts, work, change, loud, told, back, astray>>

UnlinkMyDebt(b) ==
  /\ parts' = parts \ {b}
  /\ UNCHANGED <<paper, person, member, tx, work, change, loud, told, back, astray>>

Init ==
  /\ paper = [there |-> FALSE, ended |-> FALSE, event |-> FALSE, done |-> FALSE,
              owner |-> EventOwner, type |-> "expense", mode |-> "equal", amount |-> 0]
  /\ person = [u \in Users |-> NoRow]
  /\ member = [u \in Users |-> IF u = EventOwner THEN "active" ELSE "no"]
  /\ tx = [u \in Users |-> NoBook]
  /\ parts = {}
  /\ work = NoWork
  /\ change = 0 /\ loud = 0
  /\ told = {} /\ back = {}
  /\ astray = {}

Next ==
  \/ \E u \in Creators, in \in Inputs, event \in BOOLEAN, named \in SUBSET Users :
       CreatePaper(u, in, event, named)
  \/ \E op \in Ops, u \in Users : Begin(op, u)
  \/ GiveUp
  \/ UpdatePaper \/ RemovePerson \/ Claim \/ SyncMyBooks \/ AnswerInvite \/ Leave
  \/ MoveIntoEvent \/ MoveOutOfEvent \/ DeleteEvent \/ Complete
  \/ \E from, into \in Users : MergeMembers(from, into)
  \/ \E u \in Users : AcceptEventInvite(u)
  \/ \E u \in Leavers : MemberOut(u)
  \/ \E u \in Unlinkers : UnlinkMyTransaction(u)
  \/ \E b \in parts : b.of \in Unlinkers /\ UnlinkMyDebt(b)

Spec == Init /\ [][Next]_vars

-----------------------------------------------------------------------------
Holders == {u \in Users : tx[u].has \/ \E b \in parts : b.of = u}

\* Every variable keeps its shape; a book is of a change there has been.
TypeOK ==
  /\ paper.owner \in Users /\ paper.type \in PaperTypes /\ paper.mode \in {"equal", "custom"}
  /\ person \in [Users -> [st: Statuses, share: Nat, paid: Nat]]
  /\ member \in [Users -> {"no", "asked", "active", "left"}]
  /\ \A u \in Users : tx[u].at \in 0 .. change
  /\ \A b \in parts : b.of \in Users /\ b.with \in Users \cup {Gone} /\ b.at \in 0 .. change
  /\ change \in 0 .. MaxChanges /\ loud \in 0 .. change
  /\ told \cup back \cup astray \subseteq Users

\* Who holds books is on the paper, and in its event or put on its bill after they had
\* left: leaving, being taken off, a change of the form and the event's end take the
\* books out.  Beside a move that unnames a row and a leaving that races a request
\* (see astray).
HoldersAreOnThePaper ==
  TypeOK /\ \A u \in Holders \ astray :
    person[u].st = "joined" /\ (paper.event => Active(u) \/ u \in back)

\* Books that have missed a change are known to their holder: each change either
\* reaches them or is told (followTx, movePaper, Delete).  Only what a merge of
\* members changed is told to nobody, and the event's end not to a former member
\* who is back on the bill.
StaleBooksAreTold ==
  \A u \in Holders \ astray :
    (tx[u].has /\ tx[u].at < loud) \/ (\E b \in PartsOf(parts, u) : b.at < loud)
      => u \in told \/ (u \in back /\ ~paper.event)

\* A paper that is there is even, whatever was written, removed, answered, left or moved.
\* Books that followed the last change say the paper's amounts.
SyncedReadsInSync ==
  /\ paper.there => Balanced(Money(paper, person))
  /\ \A u \in Users : tx[u].has => tx[u].amount \in Nat
  /\ \A u \in Users : tx[u].has /\ tx[u].at = change =>
       TxInSync(Money(paper, person), u, paper.event, tx[u].amount, tx[u].my)
  /\ \A b \in parts : b.at = change /\ b.with # Gone =>
       b.amount = Abs(Net(Money(paper, person), b))

=============================================================================
