------------------------------- MODULE Events -------------------------------
(***************************************************************************)
(* An event (project): its members, its life and how it settles            *)
(* (internal/modules/projects: service.go, complete.go, lump.go,           *)
(* paper_event.go, members_store.go, store.go).                            *)
(*                                                                         *)
(* Most requests read the event and the member on the pool, decide, and    *)
(* only then open a transaction that writes by id.  One request at a time  *)
(* is caught in between (`waiting', with what it read); the others run     *)
(* whole.  Bills are PaperMath papers over the members; who may write them *)
(* and the books that follow them are the module Papers.                   *)
(***************************************************************************)
EXTENDS PaperMath

CONSTANTS
  Slots,      \* rows of project_members, naturals
  Users,
  NoUser,
  First,      \* <<slot, user>> of the owner the event is made with
  Bills,      \* bill ids, naturals
  BillForms,  \* what a bill may say: PaperMath papers over Slots
  Scenes,     \* bound: what one event meets: [kinds: of requests, slots, bills, forms,
              \*   auto: users whose switch links them at once]
  Caught,     \* bound: kinds of requests that may be caught between read and write
  MaxBetween  \* bound: what runs while one is caught

ASSUME EventUsers == NoUser \notin Users /\ \A s \in Scenes : s.auto \subseteq Users
ASSUME EventSlots == Slots \subseteq Nat /\ First[1] \in Slots /\ First[2] \in Users
ASSUME EventScenes ==
  \A s \in Scenes : s.slots \subseteq Slots /\ s.bills \subseteq Bills /\ s.forms \subseteq BillForms
ASSUME EventForms == BillForms \subseteq [type: PaperTypes, amount: Nat, share: [Slots -> Nat], paid: [Slots -> Nat]]
ASSUME EventFinite == IsFiniteSet(Slots) /\ IsFiniteSet(Bills)
ASSUME EvenForms == \A f \in BillForms : Balanced(f)     \* others are ErrPaperNotEven

Roles    == {"owner", "contributor", "viewer"}
Statuses == {"active", "archived", "cancelled", "completed"}
NoRow    == [st |-> "none", user |-> NoUser, invited |-> NoUser, role |-> "contributor",
             removed |-> FALSE]
NoBill   == [type |-> "none", amount |-> 0, share |-> [s \in Slots |-> 0], paid |-> [s \in Slots |-> 0]]
NoRequest == [op |-> "none"]
Gone      == -1                  \* whom a part is with when its row was merged into one that has a part

VARIABLES
  ev,       \* projects: [there, status, locked, owner]; locked: completed_at
  mem,      \* project_members: [st, user, invited, role, removed]
  notices,  \* project_invite notices: [slot, to, answered]
  bill,     \* the bills, by id
  settled,  \* event_settle_bookings: users who booked their simplified lines
  books,    \* what settling put in the books: [of, bill, with, owed]; a lump's bill is 0
  waiting,  \* the request between its reads and its transaction
  scene,    \* what this event meets, a member of Scenes
  late      \* history: requests that wrote on what had changed since they read it

vars == <<ev, mem, notices, bill, settled, books, waiting, scene, late>>

Seen == [ev |-> ev, mem |-> mem, settled |-> settled, books |-> books]

-----------------------------------------------------------------------------
Present(m, s) == m[s].st \in {"active", "pending"}
SlotOf(m, u)  == {s \in Slots : m[s].user = u}
IsActive(m, u) == \E s \in SlotOf(m, u) : m[s].st = "active"
\* AssertCanWrite.
CanWrite(m, u) == \E s \in SlotOf(m, u) : m[s].st = "active" /\ m[s].role # "viewer"

\* writable(status, op).
Writable(e, op) ==
  CASE op = "create_pt"   -> e.status = "active"
    [] op = "edit_pt"     -> e.status = "active"
    [] op = "member_crud" -> e.status \in {"active", "cancelled"}
    [] op = "resolve"     -> e.status # "archived"

\* idx_project_members_user: a user has one row, a row left included.
UserIsFree(u, s) == \A t \in Slots \ {s} : mem[t].user # u

On(f, s)     == f.share[s] > 0 \/ f.paid[s] > 0
OnBill(b, s) == On(bill[b], s)
BillsOf(s)   == {b \in Bills : OnBill(b, s)}

\* Mutant: the check on a completed event is gone.
CompletedUpdate_Any(e, to) == to

\* completedUpdate: the status an update asking for `to' writes; a completed event
\* takes the archive and comes back from it as completed.
CompletedUpdate(e, to) ==
  IF ~e.locked THEN (IF to = "completed" /\ e.status # "completed" THEN "refused" ELSE to)
  ELSE IF to \in {"archived", "completed"} THEN to
  ELSE IF to = "active" /\ e.status = "archived" THEN "completed" ELSE "refused"

\* Update, Archive, Restore: the status the owner asks for.
Update(u, to, seen) ==
  LET status == CompletedUpdate(seen.ev, to) IN
  /\ seen.ev.owner = u
  /\ status # "refused" /\ status # seen.ev.status
  /\ ev' = [ev EXCEPT !.status = status]
  /\ UNCHANGED <<mem, notices, bill, settled, books>>

\* Mutant: completing looks at no spot.
SpotsFilled_Any == TRUE

\* Members the owner took off are on no bill any more.
SpotsFilled == \A s \in Slots : mem[s].removed => BillsOf(s) = {}

\* Complete: in one transaction that holds the event.
Complete(u) ==
  /\ ev.owner = u /\ ev.status = "active"
  /\ SpotsFilled
  /\ ev' = [ev EXCEPT !.status = "completed", !.locked = TRUE]
  /\ UNCHANGED <<mem, notices, bill, settled, books>>

\* Delete: the event, its members and its settle bookings go; bills become split bills.
Delete(u, seen) ==
  /\ seen.ev.owner = u
  /\ ev' = [ev EXCEPT !.there = FALSE, !.locked = FALSE]
  /\ mem' = [s \in Slots |-> NoRow]
  /\ bill' = [b \in Bills |-> NoBill]
  /\ settled' = {}
  /\ books' = {}
  /\ UNCHANGED notices

-----------------------------------------------------------------------------
\* TransferOwnershipTx.
Transferred(from, to) ==
  [s \in Slots |-> IF s = to THEN [mem[s] EXCEPT !.role = "owner"]
                   ELSE IF mem[s].user = from /\ mem[s].role = "owner"
                   THEN [mem[s] EXCEPT !.role = "contributor"] ELSE mem[s]]

\* TransferOwnership: to an active member; idx_project_members_owner refuses a second owner.
Transfer(u, to, seen) ==
  /\ seen.ev.owner = u
  /\ to # u
  /\ \E s \in SlotOf(mem, to) :
       /\ mem[s].st = "active"
       /\ \A t \in Slots : mem[t].role = "owner" => mem[t].user = u
       /\ mem' = Transferred(u, s)
  /\ ev' = [ev EXCEPT !.owner = to]
  /\ UNCHANGED <<notices, bill, settled, books>>

\* A row out of the event; a removal is remembered, whatever comes later.
OutRow(row, removed) == [row EXCEPT !.st = "left", !.removed = @ \/ removed]

\* memberOutTx: by id, whatever the row is by now.
MemberOut(s, removed) ==
  /\ mem' = [mem EXCEPT ![s] = OutRow(@, removed)]
  /\ books' = {b \in books : b.of # mem[s].user \/ b.bill = 0}
  /\ UNCHANGED <<ev, notices, bill, settled>>

\* Leave refuses the owner.
OwnerStays(seen, u) == seen.ev.owner # u

Leave(u, seen) ==
  /\ OwnerStays(seen, u)
  /\ \E s \in SlotOf(seen.mem, u) : seen.mem[s].st = "active" /\ MemberOut(s, FALSE)

\* RemoveMember: the owner takes a member off; their spots on the bills stay empty.
RemoveMember(u, s, seen) ==
  /\ seen.ev.owner = u /\ Writable(seen.ev, "member_crud")
  /\ seen.mem[s].st # "none" /\ seen.mem[s].role # "owner"
  /\ mem[s].st # "none"
  /\ MemberOut(s, TRUE)

\* UpdateMember: a role, by id.
UpdateMember(u, s, role, seen) ==
  /\ seen.ev.owner = u /\ Writable(seen.ev, "member_crud")
  /\ seen.mem[s].st # "none" /\ seen.mem[s].role # "owner"
  /\ mem[s].st # "none" /\ mem[s].role # role
  /\ mem' = [mem EXCEPT ![s].role = role]
  /\ UNCHANGED <<ev, notices, bill, settled, books>>

\* A new row; a user linked at once has it alone.
Inserted(s, user, invited, st) ==
  [mem EXCEPT ![s] = [st |-> st, user |-> user, invited |-> invited,
                      role |-> "contributor", removed |-> FALSE]]

Invitation(s, u, answered) ==
  notices' = {n \in notices : n.slot # s \/ n.to # u} \cup {[slot |-> s, to |-> u, answered |-> answered]}

\* AddMember by e-mail: a pending row and an invitation; the switch links at once.
AddByEmail(u, s, to, seen) ==
  /\ seen.ev.owner = u /\ Writable(seen.ev, "member_crud")
  /\ mem[s].st = "none" /\ to # u
  /\ to \in scene.auto => UserIsFree(to, s)
  /\ mem' = Inserted(s, IF to \in scene.auto THEN to ELSE NoUser, NoUser,
                     IF to \in scene.auto THEN "active" ELSE "pending")
  /\ Invitation(s, to, to \in scene.auto)
  /\ UNCHANGED <<ev, bill, settled, books>>

\* AddMember of a typed person, by anyone who may write.
AddByName(u, s, seen) ==
  /\ CanWrite(seen.mem, u) /\ Writable(seen.ev, "member_crud")
  /\ mem[s].st = "none"
  /\ mem' = Inserted(s, NoUser, NoUser, "active")
  /\ UNCHANGED <<ev, notices, bill, settled, books>>

\* A row that a user has taken.
LinkedRow(row, u) == [row EXCEPT !.user = u, !.st = "active"]

\* InviteMember: a row without a user is offered to one (again).
Invite(u, s, to, seen) ==
  /\ seen.ev.owner = u /\ Writable(seen.ev, "member_crud")
  /\ Present(mem, s) /\ mem[s].user = NoUser
  /\ to # u /\ (mem[s].invited # NoUser => to = mem[s].invited)
  /\ to \in scene.auto => UserIsFree(to, s)
  /\ mem' = [mem EXCEPT ![s] = [IF to \in scene.auto THEN LinkedRow(@, to) ELSE @ EXCEPT !.invited = to]]
  /\ Invitation(s, to, to \in scene.auto)
  /\ UNCHANGED <<ev, bill, settled, books>>

\* AcceptLinkRequest: the row is linked, whatever became of it or of the event.
Accept(n) ==
  LET s == n.slot IN
  /\ n \in notices
  /\ mem[s].st # "none"
  /\ mem[s].user = NoUser \/ mem[s].user = n.to
  /\ mem[s].user = NoUser => UserIsFree(n.to, s)
  /\ mem' = IF mem[s].user = NoUser THEN [mem EXCEPT ![s] = LinkedRow(@, n.to)] ELSE mem
  /\ notices' = (notices \ {n}) \cup {[n EXCEPT !.answered = TRUE]}
  /\ UNCHANGED <<ev, bill, settled, books>>

\* RejectLinkRequest: the pending row goes; a dismissed notice answers nothing more.
Reject(n) ==
  LET s == n.slot IN
  /\ n \in notices /\ ~n.answered
  /\ mem' = IF mem[s].user = NoUser /\ mem[s].st = "pending"
            THEN [mem EXCEPT ![s].st = "left"] ELSE mem
  /\ notices' = notices \ {n}
  /\ UNCHANGED <<ev, bill, settled, books>>

-----------------------------------------------------------------------------
\* What `from' had falls to `into'.
Shifted(f, from, into) ==
  [s \in Slots |-> CASE s = from -> 0 [] s = into -> f[into] + f[from] [] OTHER -> f[s]]

\* mergeOnPaperTx, of a bill of custom shares (an equal one is split again).
MergedOn(p, from, into) ==
  [p EXCEPT !.share = Shifted(@, from, into), !.paid = Shifted(@, from, into)]

\* A part with `from' is one with `into', unless there is one already: then it names a row that is gone.
Reparted(x, from, into) ==
  IF x.with # from THEN x
  ELSE [x EXCEPT !.with = IF \E y \in books : y.of = x.of /\ y.bill = x.bill /\ y.with = into
                          THEN Gone ELSE into]

\* Of two rows the one without a user goes.
FromOf(a, b) == IF mem[a].user # NoUser THEN b ELSE a
IntoOf(a, b) == IF mem[a].user # NoUser THEN a ELSE b

\* MergeMember; split_people_locked answered while it held its rows.
Merge(u, a, b, seen) ==
  LET from == FromOf(a, b)
      into == IntoOf(a, b)
  IN /\ SlotOf(seen.mem, u) # {} /\ CanWrite(seen.mem, u) /\ Writable(seen.ev, "member_crud")
     /\ a # b /\ mem[a].st # "none" /\ mem[b].st # "none"
     /\ mem[a].user = NoUser \/ mem[b].user = NoUser
     /\ mem[from].role # "owner"
     /\ seen.ev.locked => BillsOf(from) = {}
     /\ bill' = [x \in Bills |-> IF OnBill(x, from) THEN MergedOn(bill[x], from, into) ELSE bill[x]]
     /\ mem' = [mem EXCEPT ![from] = NoRow]
     /\ notices' = {n \in notices : n.slot # from}
     /\ books' = {Reparted(x, from, into) : x \in books}
     /\ UNCHANGED <<ev, settled>>

\* A bill over rows of the event, whoever has left included (who may write it: the module Papers).
CreateBill(u, b, form) ==
  /\ Writable(ev, "create_pt") /\ ~ev.locked
  /\ CanWrite(mem, u)
  /\ bill[b] = NoBill
  /\ \A x \in scene.bills : bill[x] = NoBill => b <= x     \* ids are given in order
  /\ \A s \in Slots : On(form, s) => mem[s].st # "none"
  /\ bill' = [bill EXCEPT ![b] = form]
  /\ UNCHANGED <<ev, mem, notices, settled, books>>

\* A part whose holder or other may be off the bill by now; the part of one who keeps in step
\* takes the pair's amount, on the side it has, and goes with it.
Followed(x, form, synced) ==
  LET me == CHOOSE s \in SlotOf(mem, x.of) : TRUE
      net == NetOf(form, me, x.with)
  IN IF SlotOf(mem, x.of) = {} \/ ~On(form, me) THEN {}
     ELSE IF x.with = Gone \/ ~On(form, x.with)
     THEN IF x.of \in synced THEN {} ELSE {[x EXCEPT !.with = Gone]}
     ELSE IF x.of \notin synced THEN {x}
     ELSE IF net = 0 THEN {}
     ELSE {[x EXCEPT !.owed = IF @ > 0 THEN Abs(net) ELSE -Abs(net)]}

\* updatePaper of an event's bill holds the bill, not the event; the triggers answered while it
\* wrote.  The writer's books follow, and those of whoever keeps theirs in step (syncBooksTx).
EditBill(u, b, form, seen) ==
  /\ CanWrite(seen.mem, u) /\ Writable(seen.ev, "edit_pt") /\ ~seen.ev.locked
  /\ bill[b] # NoBill /\ bill[b] # form
  /\ \A s \in Slots : On(form, s) => mem[s].st # "none"
  /\ bill' = [bill EXCEPT ![b] = form]
  /\ \E synced \in SUBSET Users :
       /\ u \in synced
       /\ books' = UNION {IF x.bill = b THEN Followed(x, form, synced) ELSE {x} : x \in books}
  /\ UNCHANGED <<ev, mem, notices, settled>>

-----------------------------------------------------------------------------
TheBills == [b \in {x \in Bills : bill[x] # NoBill} |-> bill[b]]
NetWith(b, me, s) == -NetOf(bill[b], me, s)          \* what s owes me on the bill

\* The bills with the other that are not in my books yet.
Unbooked(u, me, with, seen) ==
  {b \in Bills : bill[b] # NoBill /\ NetWith(b, me, with) # 0
                 /\ \A x \in seen.books : ~(x.of = u /\ x.bill = b /\ x.with = with)}

\* bookPairsTx.
BookPairs(u, with, seen) ==
  LET me == CHOOSE s \in SlotOf(mem, u) : TRUE
      new == Unbooked(u, me, with, seen)
  IN /\ SlotOf(seen.mem, u) # {} /\ Writable(seen.ev, "resolve")
     /\ SlotOf(mem, u) # {} /\ with # me
     /\ u \notin seen.settled
     /\ new # {}
     /\ \A x \in books : ~(x.of = u /\ x.bill \in new /\ x.with = with)   \* one part per pair
     /\ books' = books \cup {[of |-> u, bill |-> b, with |-> with, owed |-> NetWith(b, me, with)] : b \in new}
     /\ UNCHANGED <<ev, mem, notices, bill, settled>>

\* bookedWith: what my books hold with a member, each part on the side the bill has us on by now.
BookedWith(bs, u, me, s) ==
  MapThenSumSet(LAMBDA x : IF NetWith(x.bill, me, s) > 0 THEN Abs(x.owed) ELSE -Abs(x.owed),
                {x \in bs : x.of = u /\ x.with = s /\ x.bill # 0
                             /\ OnBill(x.bill, me) /\ OnBill(x.bill, s)})

\* Mutant: what is booked already is booked again.
Lumps_Again(u, me, net, had) ==
  {[of |-> u, bill |-> 0, with |-> IF m.from = me THEN m.to ELSE m.from,
    owed |-> IF m.from = me THEN -m.amount ELSE m.amount] :
     m \in {x \in SimplifyNets(net).moves : x.from = me \/ x.to = me}}

\* bookSimplifiedTx: my lines, less what my books hold with that member.
Lumps(u, me, net, had) ==
  LET mine == {m \in SimplifyNets(net).moves : m.from = me \/ m.to = me}
      other(m) == IF m.from = me THEN m.to ELSE m.from
      left(m) == (IF m.from = me THEN -m.amount ELSE m.amount) - BookedWith(had, u, me, other(m))
  IN {[of |-> u, bill |-> 0, with |-> other(m), owed |-> left(m)] : m \in {x \in mine : left(x) # 0}}

\* BookSettle, simplified: once, the event completed.
BookSimplified(u, seen) ==
  LET me == CHOOSE s \in SlotOf(mem, u) : TRUE IN
  /\ SlotOf(mem, u) # {} /\ SlotOf(seen.mem, u) # {} /\ Writable(seen.ev, "resolve")
  /\ seen.ev.locked
  /\ u \notin seen.settled /\ u \notin settled       \* event_settle_bookings_pkey
  /\ books' = books \cup Lumps(u, me, MemberNets(TheBills, Slots), seen.books)
  /\ settled' = settled \cup {u}
  /\ UNCHANGED <<ev, mem, notices, bill>>

-----------------------------------------------------------------------------
Requests ==
  [op: {"update"}, u: Users, to: Statuses]
  \cup [op: {"complete", "delete", "leave", "simplified"}, u: Users]
  \cup [op: {"transfer"}, u: Users, to: Users]
  \cup [op: {"remove", "name", "pairs"}, u: Users, s: scene.slots]
  \cup [op: {"role"}, u: Users, s: scene.slots, to: Roles \ {"owner"}]
  \cup [op: {"email", "invite"}, u: Users, s: scene.slots, to: Users]
  \cup [op: {"merge"}, u: Users, s: scene.slots, t: scene.slots]
  \cup [op: {"edit"}, u: Users, b: scene.bills, form: scene.forms]

Do(r, seen) == ev.there /\ (
  \/ r.op = "update"     /\ Update(r.u, r.to, seen)
  \/ r.op = "complete"   /\ Complete(r.u)
  \/ r.op = "delete"     /\ Delete(r.u, seen)
  \/ r.op = "transfer"   /\ Transfer(r.u, r.to, seen)
  \/ r.op = "leave"      /\ Leave(r.u, seen)
  \/ r.op = "remove"     /\ RemoveMember(r.u, r.s, seen)
  \/ r.op = "role"       /\ UpdateMember(r.u, r.s, r.to, seen)
  \/ r.op = "name"       /\ AddByName(r.u, r.s, seen)
  \/ r.op = "email"      /\ AddByEmail(r.u, r.s, r.to, seen)
  \/ r.op = "invite"     /\ Invite(r.u, r.s, r.to, seen)
  \/ r.op = "merge"      /\ Merge(r.u, r.s, r.t, seen)
  \/ r.op = "edit"       /\ EditBill(r.u, r.b, r.form, seen)
  \/ r.op = "pairs"      /\ BookPairs(r.u, r.s, seen)
  \/ r.op = "simplified" /\ BookSimplified(r.u, seen))

\* What runs beside the one that waits.
Passing ==
  /\ waiting # NoRequest => waiting.between < MaxBetween
  /\ waiting' = IF waiting = NoRequest THEN waiting ELSE [waiting EXCEPT !.between = @ + 1]
  /\ UNCHANGED <<scene, late>>

\* What the one that waits holds: an edit its bill, and the rows it names from being deleted; a
\* merge the row that goes, and its bills.
HeldBills == CASE waiting.op = "edit"  -> {waiting.request.b}
               [] waiting.op = "merge" -> BillsOf(FromOf(waiting.request.s, waiting.request.t))
               [] OTHER -> {}
HeldRow(s) == waiting.op = "merge" /\ s = FromOf(waiting.request.s, waiting.request.t)
Named(s) == \/ waiting.op = "edit" /\ (OnBill(waiting.request.b, s) \/ On(waiting.request.form, s))
            \/ waiting.op = "merge" /\ s \in {waiting.request.s, waiting.request.t}

\* What need not wait for it.
Free(r) ==
  /\ r.op = "edit" => r.b \notin HeldBills /\ \A s \in Slots : On(r.form, s) => ~HeldRow(s)
  /\ r.op = "delete" => waiting.op \notin {"edit", "merge"}
  /\ r.op \in {"remove", "role", "invite"} => ~HeldRow(r.s)
  /\ r.op = "merge" => /\ ~Named(FromOf(r.s, r.t)) /\ ~HeldRow(IntoOf(r.s, r.t))
                       /\ BillsOf(FromOf(r.s, r.t)) \cap HeldBills = {}
  /\ r.op = "pairs" => \A me \in SlotOf(mem, r.u) : Unbooked(r.u, me, r.s, Seen) \cap HeldBills = {}

\* A request that runs whole.
Whole(r) == Free(r) /\ Do(r, Seen) /\ Passing

\* A request has read what it decides on, and waits for its transaction.
Read(r) ==
  /\ waiting = NoRequest /\ late = {}       \* one that is late is enough
  /\ ENABLED Do(r, Seen)
  /\ waiting' = [op |-> r.op, request |-> r, seen |-> Seen, between |-> 0]
  /\ UNCHANGED <<ev, mem, notices, bill, settled, books, scene, late>>

\* The one that waited writes, by what it read.
Write ==
  /\ waiting # NoRequest
  /\ Do(waiting.request, waiting.seen)
  /\ waiting' = NoRequest
  /\ UNCHANGED scene
  /\ late' = IF waiting.between > 0 THEN late \cup {waiting.op} ELSE late

\* Or fails on what it finds.
Fail ==
  /\ waiting # NoRequest /\ waiting' = NoRequest
  /\ UNCHANGED <<ev, mem, notices, bill, settled, books, scene, late>>

Init ==
  /\ ev = [there |-> TRUE, status |-> "active", locked |-> FALSE, owner |-> First[2]]
  /\ mem = [s \in Slots |-> IF s = First[1]
                            THEN [st |-> "active", user |-> First[2], invited |-> NoUser,
                                  role |-> "owner", removed |-> FALSE]
                            ELSE NoRow]
  /\ notices = {}
  /\ bill = [b \in Bills |-> NoBill]
  /\ settled = {}
  /\ books = {}
  /\ waiting = NoRequest
  /\ scene \in Scenes
  /\ late = {}

Next ==
  \/ \E r \in {x \in Requests : x.op \in scene.kinds} : Whole(r)
  \/ \E r \in {x \in Requests : x.op \in scene.kinds \cap Caught} : Read(r)
  \/ Write
  \/ Fail
  \/ \E n \in notices : ~HeldRow(n.slot) /\ Accept(n) /\ Passing
  \/ \E n \in notices : ~HeldRow(n.slot) /\ Reject(n) /\ Passing
  \/ \E u \in Users, b \in scene.bills, f \in scene.forms :
       (\A s \in Slots : On(f, s) => ~HeldRow(s)) /\ CreateBill(u, b, f) /\ Passing

Spec == Init /\ [][Next]_vars

-----------------------------------------------------------------------------
\* Every variable keeps its shape; no user has two rows.
TypeOK ==
  /\ ev.status \in Statuses /\ ev.owner \in Users /\ ev.there \in BOOLEAN
  /\ mem \in [Slots -> [st: {"none", "active", "pending", "left"}, user: Users \cup {NoUser},
                        invited: Users \cup {NoUser}, role: Roles, removed: BOOLEAN]]
  /\ \A u \in Users : Cardinality(SlotOf(mem, u)) <= 1
  /\ \A n \in notices : n.slot \in Slots /\ n.to \in Users
  /\ settled \subseteq Users /\ late \subseteq Caught

\* Locked for good, "never back to active or cancelled", beside an update that read the event before it was completed.
LockedUnlessRaced ==
  [][ev.locked /\ ev'.there /\ "update" \notin late'
       => ev'.locked /\ ev'.status \in {"completed", "archived"}]_vars

\* A completed event has no empty spot left to assign, beside a removal, a bill's edit or a merge
\* that was under way when the event was completed.
NoEmptySpotOnCompleted ==
  TypeOK /\ (ev.locked /\ late \cap {"update", "remove", "edit", "merge"} = {} =>
    \A s \in Slots, b \in Bills : mem[s].removed => bill[b].share[s] = 0 /\ bill[b].paid[s] = 0)

\* The fewest transfers even everyone out, in fewer payments than members: the bills stay balanced,
\* merges of their people included.
SimplifiedEvensOut ==
  LET s == SimplifyNets(MemberNets(TheBills, Slots)) IN
  /\ \A b \in DOMAIN TheBills : Balanced(bill[b])
  /\ \A m \in Slots : s.left[m] = 0
  /\ Cardinality(s.moves) < Cardinality(Slots)

BooksOf(u) == {x \in books : x.of = u}
OnMyLines(me) == {o \in Slots : \E m \in SimplifyNets(MemberNets(TheBills, Slots)).moves : {m.from, m.to} = {me, o}}

\* Whoever has booked their simplified lines and is still in the event has in the books just what the
\* event owes them or they it, and beside it every pair they had booked before with a member who is
\* on none of those lines: only the pairs of the lines are subtracted.  While no merge turned a pair's
\* side around, and beside bookings that had read the books before another's.
SettledIsMyNet ==
  \A u \in settled : \A me \in SlotOf(mem, u) :
    LET pairs == {x \in BooksOf(u) : x.bill # 0}
        off   == {x \in pairs : x.with \notin OnMyLines(me)}
        owed(xs) == MapThenSumSet(LAMBDA x : x.owed, xs)
    IN ev.there /\ late = {} /\ mem[me].st = "active"
       /\ (\A x \in pairs \ off : x.owed > 0 <=> NetWith(x.bill, me, x.with) > 0)
         => owed(BooksOf(u)) = MemberNets(TheBills, Slots)[me] + owed(off)
=============================================================================
