---------------------------- MODULE EventsProofs ----------------------------
(***************************************************************************)
(* A completed event, and how an event settles, for every number of users, *)
(* rows and bills, any forms and any requests caught between their reads   *)
(* and their writes.                                                       *)
(***************************************************************************)
EXTENDS Events, FiniteSetTheorems, WellFoundedInduction, TLAPS

EventRow == [there: BOOLEAN, status: Statuses, locked: BOOLEAN, owner: Users]
MemRow   == [st: {"none", "active", "pending", "left"}, user: Users \cup {NoUser},
             invited: Users \cup {NoUser}, role: Roles, removed: BOOLEAN]
NoticeRow == [slot: Slots, to: Users, answered: BOOLEAN]
BillRow  == [type: PaperTypes \cup {"none"}, amount: Nat, share: [Slots -> Nat], paid: [Slots -> Nat]]

\* A user has one row.
OneRowEach(m) == \A s, t \in Slots : m[s].user \in Users /\ m[s].user = m[t].user => s = t

\* The tables keep their shapes.
Shapes ==
  /\ ev \in EventRow
  /\ mem \in [Slots -> MemRow] /\ OneRowEach(mem)
  /\ notices \subseteq NoticeRow
  /\ bill \in [Bills -> BillRow]
  /\ settled \subseteq Users /\ late \subseteq Caught /\ scene \in Scenes

\* A request that waits is one of those that may be caught; what it has read is still so until
\* something runs beside it.
WaitingFits ==
  waiting # NoRequest =>
    /\ waiting = [op |-> waiting.op, request |-> waiting.request, seen |-> waiting.seen,
                  between |-> waiting.between]
    /\ waiting.request \in Requests /\ waiting.op = waiting.request.op /\ waiting.op \in Caught
    /\ waiting.between \in Nat
    /\ waiting.between = 0 => waiting.seen = Seen

\* A completed event is completed or archived, until an update wrote what it had read before.
Over(e) == e.locked => e.status \in {"completed", "archived"}
StaysOver == "update" \notin late => Over(ev)

\* Whoever was taken off is on no bill of it.
NoSpot(m, bs) == \A s \in Slots, b \in Bills : m[s].removed => bs[b].share[s] = 0 /\ bs[b].paid[s] = 0
Filled == ev.locked /\ late \cap {"update", "remove", "edit", "merge"} = {} => NoSpot(mem, bill)

IInv == Shapes /\ WaitingFits /\ StaysOver /\ Filled

-----------------------------------------------------------------------------
(* Rows.                                                                   *)

\* An event that is finished, and one that is deleted.
LEMMA EventChanges ==
  ASSUME NEW e \in EventRow
  PROVE  /\ \A u \in Users : [e EXCEPT !.owner = u] \in EventRow /\ [e EXCEPT !.owner = u].locked = e.locked
                             /\ [e EXCEPT !.owner = u].status = e.status
         /\ \A st \in Statuses : [e EXCEPT !.status = st] \in EventRow /\ [e EXCEPT !.status = st].locked = e.locked
                                 /\ [e EXCEPT !.status = st].status = st
  BY DEF EventRow

\* Completing it closes it.
LEMMA EventEnds ==
  ASSUME NEW e \in EventRow
  PROVE  /\ [e EXCEPT !.status = "completed", !.locked = TRUE] \in EventRow
         /\ [e EXCEPT !.status = "completed", !.locked = TRUE].status = "completed"
         /\ [e EXCEPT !.status = "completed", !.locked = TRUE].locked = TRUE
  BY DEF EventRow, Statuses

\* What is deleted is open and not there.
LEMMA EventGoes ==
  ASSUME NEW e \in EventRow
  PROVE  /\ [e EXCEPT !.there = FALSE, !.locked = FALSE] \in EventRow
         /\ [e EXCEPT !.there = FALSE, !.locked = FALSE].locked = FALSE
         /\ [e EXCEPT !.there = FALSE, !.locked = FALSE].there = FALSE
  BY DEF EventRow, Statuses

\* A row that is taken off stays the row of its user.
LEMMA OutRowIs ==
  ASSUME NEW r \in MemRow, NEW b \in BOOLEAN
  PROVE  OutRow(r, b) \in MemRow /\ OutRow(r, b).user = r.user /\ (OutRow(r, b).removed => r.removed \/ b)
  BY DEF OutRow, MemRow

\* A row that is somebody's now was taken off if it was before.
LEMMA LinkedRowIs ==
  ASSUME NEW r \in MemRow, NEW u \in Users
  PROVE  LinkedRow(r, u) \in MemRow /\ LinkedRow(r, u).user = u /\ LinkedRow(r, u).removed = r.removed
  BY DEF LinkedRow, MemRow

\* An invitation, a role and a member who leaves change nothing else of the row.
LEMMA MemberFields ==
  ASSUME NEW r \in MemRow
  PROVE  /\ \A u \in Users : LET q == [r EXCEPT !.invited = u] IN
              q \in MemRow /\ q.user = r.user /\ q.removed = r.removed
         /\ \A x \in Roles : LET q == [r EXCEPT !.role = x] IN
              q \in MemRow /\ q.user = r.user /\ q.removed = r.removed
         /\ LET q == [r EXCEPT !.st = "left"] IN q \in MemRow /\ q.user = r.user /\ q.removed = r.removed
  BY DEF MemRow

\* A row nobody has.
LEMMA NoRowIs == NoRow \in MemRow /\ NoRow.user = NoUser /\ ~NoRow.removed
  BY DEF NoRow, MemRow, Roles

\* A row that is made.
LEMMA NewRowIs ==
  ASSUME NEW st \in {"active", "pending"}, NEW u \in Users \cup {NoUser}
  PROVE  LET q == [st |-> st, user |-> u, invited |-> NoUser, role |-> "contributor", removed |-> FALSE]
         IN q \in MemRow /\ q.user = u /\ ~q.removed
  BY DEF MemRow, Roles

\* One row is replaced by one of the same user, or of a user who has no other row: everybody still
\* has one.
LEMMA OneRowChanges ==
  ASSUME NEW m \in [Slots -> MemRow], OneRowEach(m), NEW s \in Slots, NEW q \in MemRow,
         NEW after, after = [m EXCEPT ![s] = q],
         \/ q.user = m[s].user
         \/ q.user = NoUser
         \/ \A t \in Slots \ {s} : m[t].user # q.user
  PROVE  after \in [Slots -> MemRow] /\ OneRowEach(after)
  BY EventUsers DEF OneRowEach

\* No row that changes was taken off, or the one that was had been before: the bills stay as they were.
LEMMA NoSpotKept ==
  ASSUME NEW m, NEW after, NEW bs, NoSpot(m, bs),
         \A s \in Slots : after[s].removed => m[s].removed
  PROVE  NoSpot(after, bs)
  BY DEF NoSpot

-----------------------------------------------------------------------------
(* What a request leaves: its parts, whatever it had read.                 *)

\* Requests name users, roles and rows of the scene.
LEMMA RequestFields ==
  ASSUME NEW r \in Requests, scene \in Scenes
  PROVE  /\ r.u \in Users
         /\ r.op = "update" => r.to \in Statuses
         /\ r.op = "transfer" => r.to \in Users
         /\ r.op \in {"remove", "name", "pairs", "role", "email", "invite", "merge"} => r.s \in Slots
         /\ r.op = "role" => r.to \in Roles
         /\ r.op \in {"email", "invite"} => r.to \in Users
         /\ r.op = "merge" => r.t \in Slots
         /\ r.op = "edit" => r.b \in Bills /\ r.form \in BillForms
<1>1. scene.slots \subseteq Slots /\ scene.bills \subseteq Bills /\ scene.forms \subseteq BillForms
  BY EventScenes
<1> QED BY <1>1 DEF Requests

\* What a step may do to the rows of the members.
MembersFit(m) == m \in [Slots -> MemRow] /\ OneRowEach(m)
NoneTakenOff(after) == \A s \in Slots : after[s].removed => mem[s].removed

\* The owner's requests for the event itself.
LEMMA EventRequests ==
  ASSUME Shapes, NEW r \in Requests, NEW seen,
         \/ r.op = "update"     /\ Update(r.u, r.to, seen)
         \/ r.op = "complete"   /\ Complete(r.u)
         \/ r.op = "delete"     /\ Delete(r.u, seen)
         \/ r.op = "transfer"   /\ Transfer(r.u, r.to, seen)
  PROVE  /\ ev' \in EventRow /\ MembersFit(mem') /\ NoneTakenOff(mem')
         /\ notices' = notices /\ settled' \subseteq Users /\ bill' \in [Bills -> BillRow]
         /\ ev'.locked => \/ ev.locked /\ bill' = bill
                          \/ SpotsFilled /\ mem' = mem /\ bill' = bill
<1> USE DEF MembersFit, NoneTakenOff
<1>0. scene \in Scenes
  BY DEF Shapes
<1>1. CASE r.op = "update" /\ Update(r.u, r.to, seen)
  <2>1. CompletedUpdate(seen.ev, r.to) \in Statuses
    BY <1>0, <1>1, RequestFields DEF Update, CompletedUpdate, Statuses
  <2> QED BY <1>1, <2>1, EventChanges DEF Update, Shapes
<1>2. CASE r.op = "complete" /\ Complete(r.u)
  BY <1>2, EventEnds DEF Complete, Shapes
<1>3. CASE r.op = "delete" /\ Delete(r.u, seen)
  <2>1. ev' \in EventRow /\ ~ev'.locked
    BY <1>3, EventGoes DEF Delete, Shapes
  <2>2. mem' = [s \in Slots |-> NoRow] /\ notices' = notices /\ settled' = {}
        /\ bill' = [b \in Bills |-> NoBill]
    BY <1>3 DEF Delete
  <2>3. MembersFit(mem') /\ NoneTakenOff(mem')
    BY <2>2, NoRowIs, EventUsers DEF OneRowEach
  <2>4. NoBill \in BillRow
    BY DEF NoBill, BillRow
  <2> QED BY <2>1, <2>2, <2>3, <2>4
<1>4. CASE r.op = "transfer" /\ Transfer(r.u, r.to, seen)
  <2>1. PICK s \in Slots : mem' = Transferred(r.u, s)
    BY <1>4 DEF Transfer, SlotOf
  <2>2. \A t \in Slots : mem'[t] \in MemRow /\ mem'[t].user = mem[t].user /\ mem'[t].removed = mem[t].removed
    <3> SUFFICES ASSUME NEW t \in Slots
                 PROVE  mem'[t] \in MemRow /\ mem'[t].user = mem[t].user /\ mem'[t].removed = mem[t].removed
      OBVIOUS
    <3>1. mem[t] \in MemRow
      BY DEF Shapes
    <3>2. mem'[t] = mem[t] \/ \E x \in Roles : mem'[t] = [mem[t] EXCEPT !.role = x]
      BY <2>1 DEF Transferred, Roles
    <3> QED BY <3>1, <3>2, MemberFields
  <2>3. MembersFit(mem') /\ NoneTakenOff(mem')
    BY <2>1, <2>2 DEF Transferred, Shapes, OneRowEach
  <2>4. ev' \in EventRow /\ ev'.locked = ev.locked
    BY <1>0, <1>4, EventChanges, RequestFields DEF Transfer, Shapes
  <2> QED BY <1>4, <2>3, <2>4 DEF Transfer, Shapes
<1> QED BY <1>1, <1>2, <1>3, <1>4

\* An invitation is one more notice.
LEMMA InvitationFits ==
  ASSUME notices \subseteq NoticeRow, NEW s \in Slots, NEW u \in Users
  PROVE  \A x \in BOOLEAN : Invitation(s, u, x) => notices' \subseteq NoticeRow
<1>1. \A x \in BOOLEAN : [slot |-> s, to |-> u, answered |-> x] \in NoticeRow
  BY DEF NoticeRow
<1> QED BY <1>1 DEF Invitation

\* One row, by id.
LEMMA RowRequests ==
  ASSUME Shapes, NEW r \in Requests, NEW seen,
         \/ r.op = "leave"  /\ Leave(r.u, seen)
         \/ r.op = "remove" /\ RemoveMember(r.u, r.s, seen)
         \/ r.op = "role"   /\ UpdateMember(r.u, r.s, r.to, seen)
         \/ r.op = "name"   /\ AddByName(r.u, r.s, seen)
         \/ r.op = "email"  /\ AddByEmail(r.u, r.s, r.to, seen)
         \/ r.op = "invite" /\ Invite(r.u, r.s, r.to, seen)
  PROVE  /\ ev' = ev /\ bill' = bill /\ settled' = settled
         /\ MembersFit(mem') /\ (r.op # "remove" => NoneTakenOff(mem'))
         /\ notices' \subseteq NoticeRow
<1> USE DEF MembersFit, NoneTakenOff
<1>0. scene \in Scenes /\ mem \in [Slots -> MemRow] /\ OneRowEach(mem)
  BY DEF Shapes
<1>1. CASE r.op = "leave" /\ Leave(r.u, seen)
  <2>1. PICK s \in Slots : MemberOut(s, FALSE)
    BY <1>1 DEF Leave, SlotOf
  <2>2. PICK q : q = OutRow(mem[s], FALSE)
    OBVIOUS
  <2>3. q \in MemRow /\ q.user = mem[s].user /\ (q.removed => mem[s].removed)
    BY <1>0, <2>2, OutRowIs
  <2>4. mem' = [mem EXCEPT ![s] = q]
    BY <2>1, <2>2 DEF MemberOut
  <2>5. MembersFit(mem')
    BY <1>0, <2>3, <2>4, OneRowChanges
  <2>6. NoneTakenOff(mem')
    BY <1>0, <2>3, <2>4
  <2> QED BY <1>1, <2>1, <2>5, <2>6 DEF MemberOut, Shapes
<1>2. CASE r.op = "remove" /\ RemoveMember(r.u, r.s, seen)
  <2>1. r.s \in Slots /\ MemberOut(r.s, TRUE)
    BY <1>0, <1>2, RequestFields DEF RemoveMember
  <2>2. PICK q : q = OutRow(mem[r.s], TRUE)
    OBVIOUS
  <2>3. q \in MemRow /\ q.user = mem[r.s].user
    BY <1>0, <2>1, <2>2, OutRowIs
  <2>4. mem' = [mem EXCEPT ![r.s] = q]
    BY <2>1, <2>2 DEF MemberOut
  <2>5. MembersFit(mem')
    BY <1>0, <2>1, <2>3, <2>4, OneRowChanges
  <2> QED BY <1>2, <2>1, <2>5 DEF MemberOut, Shapes
<1>3. CASE r.op = "role" /\ UpdateMember(r.u, r.s, r.to, seen)
  <2>1. r.s \in Slots /\ r.to \in Roles
    BY <1>0, <1>3, RequestFields
  <2>2. PICK q : q = [mem[r.s] EXCEPT !.role = r.to]
    OBVIOUS
  <2>3. q \in MemRow /\ q.user = mem[r.s].user /\ q.removed = mem[r.s].removed
    BY <1>0, <2>1, <2>2, MemberFields
  <2>4. mem' = [mem EXCEPT ![r.s] = q]
    BY <1>3, <2>2 DEF UpdateMember
  <2>5. MembersFit(mem')
    BY <1>0, <2>1, <2>3, <2>4, OneRowChanges
  <2>6. NoneTakenOff(mem')
    BY <1>0, <2>1, <2>3, <2>4
  <2> QED BY <1>3, <2>5, <2>6 DEF UpdateMember, Shapes
<1>4. ASSUME NEW st \in {"active", "pending"}, NEW u \in Users \cup {NoUser}, r.s \in Slots,
             u # NoUser => UserIsFree(u, r.s), mem' = Inserted(r.s, u, NoUser, st)
      PROVE  MembersFit(mem') /\ NoneTakenOff(mem')
  <2>1. PICK q : q = [st |-> st, user |-> u, invited |-> NoUser, role |-> "contributor", removed |-> FALSE]
    OBVIOUS
  <2>2. q \in MemRow /\ q.user = u /\ ~q.removed
    BY <2>1, NewRowIs
  <2>3. mem' = [mem EXCEPT ![r.s] = q]
    BY <1>4, <2>1 DEF Inserted
  <2>4. MembersFit(mem')
    BY <1>0, <1>4, <2>2, <2>3, OneRowChanges DEF UserIsFree
  <2>5. NoneTakenOff(mem')
    BY <1>0, <1>4, <2>2, <2>3
  <2> QED BY <2>4, <2>5
<1>5. CASE r.op = "name" /\ AddByName(r.u, r.s, seen)
  <2>1. r.s \in Slots
    BY <1>0, <1>5, RequestFields
  <2>2. mem' = Inserted(r.s, NoUser, NoUser, "active")
    BY <1>5 DEF AddByName
  <2> QED BY <1>4, <1>5, <2>1, <2>2 DEF AddByName, Shapes
<1>6. CASE r.op = "email" /\ AddByEmail(r.u, r.s, r.to, seen)
  <2>1. r.s \in Slots /\ r.to \in Users
    BY <1>0, <1>6, RequestFields
  <2>2. MembersFit(mem') /\ NoneTakenOff(mem')
    <3>1. CASE r.to \in scene.auto
      <4>1. mem' = Inserted(r.s, r.to, NoUser, "active") /\ UserIsFree(r.to, r.s)
        BY <1>6, <3>1 DEF AddByEmail
      <4> QED BY <1>4, <2>1, <4>1
    <3>2. CASE r.to \notin scene.auto
      <4>1. mem' = Inserted(r.s, NoUser, NoUser, "pending")
        BY <1>6, <3>2 DEF AddByEmail
      <4> QED BY <1>4, <2>1, <4>1
    <3> QED BY <3>1, <3>2
  <2>3. notices' \subseteq NoticeRow
    <3>1. Invitation(r.s, r.to, r.to \in scene.auto) /\ notices \subseteq NoticeRow
      BY <1>6 DEF AddByEmail, Shapes
    <3>2. (r.to \in scene.auto) \in BOOLEAN
      OBVIOUS
    <3>3. \A x \in BOOLEAN : Invitation(r.s, r.to, x) => notices' \subseteq NoticeRow
      BY <2>1, <3>1, InvitationFits
    <3> QED BY <3>1, <3>2, <3>3, Zenon
  <2> QED BY <1>6, <2>2, <2>3 DEF AddByEmail
<1>7. CASE r.op = "invite" /\ Invite(r.u, r.s, r.to, seen)
  <2>1. r.s \in Slots /\ r.to \in Users
    BY <1>0, <1>7, RequestFields
  <2>2. PICK p : p = IF r.to \in scene.auto THEN LinkedRow(mem[r.s], r.to) ELSE mem[r.s]
    OBVIOUS
  <2>3. p \in MemRow /\ p.removed = mem[r.s].removed
        /\ (p.user = mem[r.s].user \/ (p.user = r.to /\ r.to \in scene.auto))
    BY <1>0, <2>1, <2>2, LinkedRowIs
  <2>4. PICK q : q = [p EXCEPT !.invited = r.to]
    OBVIOUS
  <2>5. q \in MemRow /\ q.user = p.user /\ q.removed = p.removed
    BY <2>1, <2>3, <2>4, MemberFields
  <2>6. mem' = [mem EXCEPT ![r.s] = q]
    BY <1>7, <2>2, <2>4 DEF Invite
  <2>7. r.to \in scene.auto => \A t \in Slots \ {r.s} : mem[t].user # r.to
    BY <1>7 DEF Invite, UserIsFree
  <2>8. MembersFit(mem')
    BY <1>0, <2>1, <2>3, <2>5, <2>6, <2>7, OneRowChanges
  <2>9. NoneTakenOff(mem')
    BY <1>0, <2>1, <2>3, <2>5, <2>6
  <2>10. notices' \subseteq NoticeRow
    <3>1. Invitation(r.s, r.to, r.to \in scene.auto) /\ notices \subseteq NoticeRow
      BY <1>7 DEF Invite, Shapes
    <3>2. (r.to \in scene.auto) \in BOOLEAN
      OBVIOUS
    <3>3. \A x \in BOOLEAN : Invitation(r.s, r.to, x) => notices' \subseteq NoticeRow
      BY <2>1, <3>1, InvitationFits
    <3> QED BY <3>1, <3>2, <3>3, Zenon
  <2> QED BY <1>7, <2>8, <2>9, <2>10 DEF Invite
<1> QED BY <1>1, <1>2, <1>3, <1>5, <1>6, <1>7

\* What falls to another row stays a bill.
LEMMA MergedIs ==
  ASSUME NEW p \in BillRow, NEW from \in Slots, NEW into \in Slots
  PROVE  MergedOn(p, from, into) \in BillRow
<1>1. PICK f : f = Shifted(p.share, from, into)
  OBVIOUS
<1>2. PICK g : g = Shifted(p.paid, from, into)
  OBVIOUS
<1>3. f \in [Slots -> Nat] /\ g \in [Slots -> Nat]
  BY <1>1, <1>2 DEF Shifted, BillRow
<1>4. MergedOn(p, from, into) = [p EXCEPT !.share = f, !.paid = g]
  BY <1>1, <1>2 DEF MergedOn
<1> QED BY <1>3, <1>4 DEF BillRow

\* Two rows become one; on an event it knew completed the one that goes was on no bill.
LEMMA MergeRequest ==
  ASSUME Shapes, NEW u, NEW a \in Slots, NEW b \in Slots, NEW seen, Merge(u, a, b, seen)
  PROVE  /\ ev' = ev /\ settled' = settled
         /\ MembersFit(mem') /\ NoneTakenOff(mem')
         /\ notices' \subseteq NoticeRow
         /\ bill' \in [Bills -> BillRow] /\ (seen.ev.locked => bill' = bill)
<1>1. PICK from \in {a, b}, into \in {a, b} :
        /\ seen.ev.locked => BillsOf(from) = {}
        /\ bill' = [x \in Bills |-> IF OnBill(x, from) THEN MergedOn(bill[x], from, into) ELSE bill[x]]
        /\ mem' = [mem EXCEPT ![from] = NoRow]
        /\ notices' = {n \in notices : n.slot # from}
        /\ ev' = ev /\ settled' = settled
  BY Zenon DEF Merge, FromOf, IntoOf
<1>2. MembersFit(mem')
  BY <1>1, NoRowIs, OneRowChanges DEF Shapes, MembersFit
<1>3. NoneTakenOff(mem')
  BY <1>1, NoRowIs DEF Shapes, NoneTakenOff
<1>4. bill' \in [Bills -> BillRow]
  BY <1>1, MergedIs DEF Shapes
<1>5. seen.ev.locked => bill' = bill
  <2> SUFFICES ASSUME seen.ev.locked PROVE bill' = bill
    OBVIOUS
  <2>1. \A x \in Bills : ~OnBill(x, from)
    BY <1>1 DEF BillsOf
  <2>2. bill' = [x \in Bills |-> bill[x]]
    BY <1>1, <2>1
  <2> QED BY <2>2 DEF Shapes
<1> QED BY <1>1, <1>2, <1>3, <1>4, <1>5 DEF Shapes

\* A bill that says something else; the event was not completed when it was asked.
LEMMA EditRequest ==
  ASSUME Shapes, NEW u, NEW b \in Bills, NEW form \in BillForms, NEW seen, EditBill(u, b, form, seen)
  PROVE  /\ UNCHANGED <<ev, mem, notices, settled>> /\ ~seen.ev.locked
         /\ bill' = [bill EXCEPT ![b] = form] /\ bill' \in [Bills -> BillRow]
<1>1. form \in BillRow
  BY EventForms DEF BillRow
<1> QED BY <1>1 DEF EditBill, Shapes

\* Every request keeps the shapes, locks an event only when its spots are filled, and then changes
\* nothing on its bills, an edit or a merge what it did not know completed; only a removal takes
\* anybody off.
LEMMA Requested ==
  ASSUME Shapes, NEW r \in Requests, NEW seen, Do(r, seen)
  PROVE  /\ ev' \in EventRow /\ MembersFit(mem')
         /\ notices' \subseteq NoticeRow
         /\ settled' \subseteq Users /\ bill' \in [Bills -> BillRow]
         /\ r.op # "remove" => NoneTakenOff(mem')
         /\ ev'.locked /\ (r.op \in {"edit", "merge"} => seen.ev = ev) => bill' = bill /\ (ev.locked \/ (SpotsFilled /\ mem' = mem))
<1>0. scene \in Scenes
  BY DEF Shapes
<1>1. CASE \/ r.op = "update"     /\ Update(r.u, r.to, seen)
           \/ r.op = "complete"   /\ Complete(r.u)
           \/ r.op = "delete"     /\ Delete(r.u, seen)
           \/ r.op = "transfer"   /\ Transfer(r.u, r.to, seen)
  <2>1. /\ ev' \in EventRow /\ MembersFit(mem') /\ NoneTakenOff(mem')
        /\ notices' = notices /\ settled' \subseteq Users /\ bill' \in [Bills -> BillRow]
        /\ ev'.locked => \/ ev.locked /\ bill' = bill
                         \/ SpotsFilled /\ mem' = mem /\ bill' = bill
    BY <1>1, EventRequests
  <2> QED BY <2>1 DEF Shapes
<1>2. CASE \/ r.op = "leave"  /\ Leave(r.u, seen)
           \/ r.op = "remove" /\ RemoveMember(r.u, r.s, seen)
           \/ r.op = "role"   /\ UpdateMember(r.u, r.s, r.to, seen)
           \/ r.op = "name"   /\ AddByName(r.u, r.s, seen)
           \/ r.op = "email"  /\ AddByEmail(r.u, r.s, r.to, seen)
           \/ r.op = "invite" /\ Invite(r.u, r.s, r.to, seen)
  <2>1. /\ ev' = ev /\ bill' = bill /\ settled' = settled
        /\ MembersFit(mem') /\ (r.op # "remove" => NoneTakenOff(mem'))
        /\ notices' \subseteq NoticeRow
    BY <1>2, RowRequests
  <2> QED BY <2>1 DEF Shapes
<1>3. CASE r.op = "merge" /\ Merge(r.u, r.s, r.t, seen)
  <2>1. r.s \in Slots /\ r.t \in Slots
    BY <1>0, <1>3, RequestFields
  <2>2. /\ ev' = ev /\ settled' = settled
        /\ MembersFit(mem') /\ NoneTakenOff(mem')
        /\ notices' \subseteq NoticeRow
        /\ bill' \in [Bills -> BillRow] /\ (seen.ev.locked => bill' = bill)
    BY <1>3, <2>1, MergeRequest
  <2> QED BY <1>3, <2>2 DEF Shapes
<1>3a. CASE r.op = "edit" /\ EditBill(r.u, r.b, r.form, seen)
  <2>1. r.b \in Bills /\ r.form \in BillForms
    BY <1>0, <1>3a, RequestFields
  <2>2. /\ UNCHANGED <<ev, mem, notices, settled>> /\ ~seen.ev.locked
        /\ bill' \in [Bills -> BillRow]
    BY <1>3a, <2>1, EditRequest
  <2> QED BY <1>3a, <2>2 DEF Shapes, MembersFit, NoneTakenOff
<1>4. CASE \/ r.op = "pairs"      /\ BookPairs(r.u, r.s, seen)
           \/ r.op = "simplified" /\ BookSimplified(r.u, seen)
  <2>1. ev' = ev /\ mem' = mem /\ notices' = notices /\ bill' = bill /\ settled' \subseteq settled \cup {r.u}
    BY <1>4 DEF BookPairs, BookSimplified
  <2>2. r.u \in Users
    BY <1>0, RequestFields
  <2> QED BY <2>1, <2>2 DEF Shapes, MembersFit, NoneTakenOff
<1> QED BY <1>1, <1>2, <1>3, <1>3a, <1>4 DEF Do

\* A request that decides on what is still so leaves a completed event completed or archived,
\* unless it deletes it.
LEMMA RequestedOver ==
  ASSUME Shapes, NEW r \in Requests, NEW seen, Do(r, seen), r.op = "update" => seen = Seen, Over(ev)
  PROVE  Over(ev') /\ (ev.locked /\ ev'.there => ev'.locked)
<1>0. scene \in Scenes /\ ev \in EventRow
  BY DEF Shapes
<1>1. CASE r.op = "update" /\ Update(r.u, r.to, seen)
  <2>1. seen.ev = ev
    BY <1>1 DEF Seen
  <2>2. r.to \in Statuses
    BY <1>0, <1>1, RequestFields
  <2>3. CompletedUpdate(ev, r.to) # "refused" /\ ev' = [ev EXCEPT !.status = CompletedUpdate(ev, r.to)]
    BY <1>1, <2>1 DEF Update
  <2>4. CompletedUpdate(ev, r.to) \in Statuses
    BY <2>2, <2>3 DEF CompletedUpdate, Statuses
  <2>5. ev'.locked = ev.locked /\ ev'.status = CompletedUpdate(ev, r.to)
    BY <1>0, <2>3, <2>4, EventChanges
  <2>6. ev.locked => CompletedUpdate(ev, r.to) \in {"completed", "archived"}
    BY <2>3 DEF CompletedUpdate
  <2> QED BY <2>5, <2>6 DEF Over
<1>2. CASE r.op = "complete" /\ Complete(r.u)
  BY <1>0, <1>2, EventEnds DEF Complete, Over
<1>3. CASE r.op = "delete" /\ Delete(r.u, seen)
  BY <1>0, <1>3, EventGoes DEF Delete, Over
<1>4. CASE r.op = "transfer" /\ Transfer(r.u, r.to, seen)
  BY <1>0, <1>4, EventChanges, RequestFields DEF Transfer, Over
<1>5. CASE \/ r.op = "leave"  /\ Leave(r.u, seen)
           \/ r.op = "remove" /\ RemoveMember(r.u, r.s, seen)
           \/ r.op = "role"   /\ UpdateMember(r.u, r.s, r.to, seen)
           \/ r.op = "name"   /\ AddByName(r.u, r.s, seen)
           \/ r.op = "email"  /\ AddByEmail(r.u, r.s, r.to, seen)
           \/ r.op = "invite" /\ Invite(r.u, r.s, r.to, seen)
  BY <1>5, RowRequests
<1>6. CASE r.op = "merge" /\ Merge(r.u, r.s, r.t, seen)
  BY <1>0, <1>6, RequestFields, MergeRequest
<1>6a. CASE r.op = "edit" /\ EditBill(r.u, r.b, r.form, seen)
  BY <1>6a DEF EditBill
<1>7. CASE \/ r.op = "pairs"      /\ BookPairs(r.u, r.s, seen)
           \/ r.op = "simplified" /\ BookSimplified(r.u, seen)
  BY <1>7 DEF BookPairs, BookSimplified
<1> QED BY <1>1, <1>2, <1>3, <1>4, <1>5, <1>6, <1>6a, <1>7 DEF Do

\* A removal that decides on what is still so takes nobody off a completed event, and an edit or a
\* merge changes none of its bills.
LEMMA RequestedFilled ==
  ASSUME Shapes, NEW r \in Requests, NEW seen, Do(r, seen), Over(ev),
         r.op \in {"remove", "edit", "merge"} => seen = Seen,
         ev.locked => NoSpot(mem, bill)
  PROVE  ev'.locked => NoSpot(mem', bill')
<1> SUFFICES ASSUME ev'.locked PROVE NoSpot(mem', bill')
  OBVIOUS
<1>1. bill' = bill /\ (ev.locked \/ (SpotsFilled /\ mem' = mem)) /\ (r.op # "remove" => NoneTakenOff(mem'))
  BY Requested DEF Seen
<1>2. CASE ~ev.locked
  <2>1. \A s \in Slots, b \in Bills : mem[s].removed => ~OnBill(b, s)
    BY <1>1, <1>2 DEF SpotsFilled, BillsOf
  <2>2. \A s \in Slots, b \in Bills : bill[b].share[s] \in Nat /\ bill[b].paid[s] \in Nat
    BY DEF Shapes, BillRow
  <2> QED BY <1>1, <1>2, <2>1, <2>2 DEF NoSpot, OnBill, On
<1>3. CASE ev.locked /\ r.op # "remove"
  BY <1>1, <1>3, NoSpotKept DEF NoneTakenOff
<1>4. CASE ev.locked /\ r.op = "remove"
  <2>1. RemoveMember(r.u, r.s, seen)
    BY <1>4 DEF Do
  <2>2. Writable(ev, "member_crud")
    BY <1>4, <2>1 DEF RemoveMember, Seen
  <2> QED BY <1>4, <2>2 DEF Writable, Over
<1> QED BY <1>2, <1>3, <1>4

-----------------------------------------------------------------------------
(* The steps.                                                              *)

\* What runs while a request waits.
LEMMA PassingFits ==
  ASSUME WaitingFits, Passing
  PROVE  WaitingFits'
<1>1. scene' = scene /\ late' = late /\ Requests' = Requests
  BY DEF Passing, Requests
<1>2. CASE waiting = NoRequest
  BY <1>2 DEF Passing, WaitingFits
<1>3. CASE waiting # NoRequest
  <2>1. waiting' = [waiting EXCEPT !.between = @ + 1]
    BY <1>3 DEF Passing
  <2>2. waiting' = [op |-> waiting.op, request |-> waiting.request, seen |-> waiting.seen,
                    between |-> waiting.between + 1]
    BY <1>3, <2>1 DEF WaitingFits
  <2> QED BY <1>1, <1>3, <2>2 DEF WaitingFits
<1> QED BY <1>2, <1>3

\* An answer to an invitation, and a bill: nobody is taken off, and a completed event gets no bill.
LEMMA BesidesFit ==
  ASSUME Shapes,
         \/ \E n \in notices : Accept(n) \/ Reject(n)
         \/ \E u \in Users, b \in scene.bills, f \in scene.forms : CreateBill(u, b, f)
  PROVE  /\ ev' = ev /\ settled' = settled /\ MembersFit(mem') /\ NoneTakenOff(mem')
         /\ notices' \subseteq NoticeRow
         /\ bill' \in [Bills -> BillRow] /\ (ev.locked => bill' = bill)
<1> USE DEF MembersFit, NoneTakenOff
<1>0. scene \in Scenes /\ mem \in [Slots -> MemRow] /\ OneRowEach(mem)
  BY DEF Shapes
<1>1. ASSUME NEW n \in notices, Accept(n)
      PROVE  /\ ev' = ev /\ settled' = settled /\ bill' = bill /\ MembersFit(mem') /\ NoneTakenOff(mem')
             /\ notices' \subseteq NoticeRow
  <2>1. n.slot \in Slots /\ n.to \in Users
    BY DEF Shapes, NoticeRow
  <2>2. PICK q : q = LinkedRow(mem[n.slot], n.to)
    OBVIOUS
  <2>3. q \in MemRow /\ q.user = n.to /\ q.removed = mem[n.slot].removed
    BY <1>0, <2>1, <2>2, LinkedRowIs
  <2>4. mem' = mem \/ (mem' = [mem EXCEPT ![n.slot] = q] /\ \A t \in Slots \ {n.slot} : mem[t].user # n.to)
    BY <1>1, <2>2 DEF Accept, UserIsFree
  <2>5. MembersFit(mem')
    BY <1>0, <2>1, <2>3, <2>4, OneRowChanges
  <2>6. NoneTakenOff(mem')
    BY <1>0, <2>1, <2>3, <2>4
  <2>7. [n EXCEPT !.answered = TRUE] \in NoticeRow
    BY DEF Shapes, NoticeRow
  <2> QED BY <1>1, <2>5, <2>6, <2>7 DEF Accept, Shapes
<1>2. ASSUME NEW n \in notices, Reject(n)
      PROVE  /\ ev' = ev /\ settled' = settled /\ bill' = bill /\ MembersFit(mem') /\ NoneTakenOff(mem')
             /\ notices' \subseteq NoticeRow
  <2>1. n.slot \in Slots
    BY DEF Shapes, NoticeRow
  <2>2. PICK q : q = [mem[n.slot] EXCEPT !.st = "left"]
    OBVIOUS
  <2>3. q \in MemRow /\ q.user = mem[n.slot].user /\ q.removed = mem[n.slot].removed
    BY <1>0, <2>1, <2>2, MemberFields
  <2>4. mem' = mem \/ mem' = [mem EXCEPT ![n.slot] = q]
    BY <1>2, <2>2 DEF Reject
  <2>5. MembersFit(mem')
    BY <1>0, <2>1, <2>3, <2>4, OneRowChanges
  <2>6. NoneTakenOff(mem')
    BY <1>0, <2>1, <2>3, <2>4
  <2> QED BY <1>2, <2>5, <2>6 DEF Reject, Shapes
<1>3. ASSUME NEW u \in Users, NEW b \in scene.bills, NEW f \in scene.forms, CreateBill(u, b, f)
      PROVE  /\ ev' = ev /\ settled' = settled /\ mem' = mem /\ notices' = notices /\ ~ev.locked
             /\ bill' \in [Bills -> BillRow]
  <2>1. f \in BillRow
    BY <1>0, EventForms, EventScenes DEF BillRow
  <2> QED BY <1>3, <2>1 DEF CreateBill, Shapes
<1> QED BY <1>0, <1>1, <1>2, <1>3 DEF Shapes

\* Each action keeps the invariant: whole requests, the two halves of one that is caught, and what
\* runs beside it.
LEMMA StepFits == IInv /\ [Next]_vars => IInv'
<1> SUFFICES ASSUME IInv, [Next]_vars PROVE IInv'
  OBVIOUS
<1>0. Shapes /\ WaitingFits /\ StaysOver /\ Filled
  BY DEF IInv
<1>1. ASSUME NEW r \in Requests, Whole(r) PROVE IInv'
  <2>1. Do(r, Seen) /\ Passing
    BY <1>1 DEF Whole
  <2>2. Shapes'
    BY <1>0, <2>1, Requested DEF Passing, Shapes, MembersFit
  <2>3. WaitingFits'
    BY <1>0, <2>1, PassingFits
  <2>4. StaysOver'
    BY <1>0, <2>1, RequestedOver DEF Passing, StaysOver
  <2>5. Filled'
    <3> SUFFICES ASSUME ev'.locked, late' \cap {"update", "remove", "edit", "merge"} = {} PROVE NoSpot(mem', bill')
      BY DEF Filled, NoSpot
    <3>1. "update" \notin late /\ late \cap {"update", "remove", "edit", "merge"} = {}
      BY <2>1 DEF Passing
    <3> QED BY <1>0, <2>1, <3>1, RequestedFilled DEF StaysOver, Filled
  <2> QED BY <2>2, <2>3, <2>4, <2>5 DEF IInv
<1>2. ASSUME NEW r \in Requests, r.op \in Caught, Read(r) PROVE IInv'
  <2>1. /\ waiting' = [op |-> r.op, request |-> r, seen |-> Seen, between |-> 0]
        /\ UNCHANGED <<ev, mem, notices, bill, settled, books, scene, late>>
    BY <1>2 DEF Read
  <2>2. WaitingFits'
    BY <1>2, <2>1 DEF WaitingFits, Requests, Seen
  <2>3. Shapes' /\ StaysOver' /\ Filled'
    BY <1>0, <2>1 DEF Shapes, StaysOver, Filled, NoSpot, Over, OneRowEach
  <2> QED BY <2>2, <2>3 DEF IInv
<1>3. CASE Write
  <2> DEFINE r == waiting.request
             seen == waiting.seen
  <2>1. /\ waiting # NoRequest /\ Do(r, seen) /\ waiting' = NoRequest /\ scene' = scene
        /\ late' = IF waiting.between > 0 THEN late \cup {waiting.op} ELSE late
    BY <1>3 DEF Write
  <2>2. /\ r \in Requests /\ waiting.op = r.op /\ r.op \in Caught /\ waiting.between \in Nat
        /\ waiting.between = 0 => seen = Seen
    BY <1>0, <2>1 DEF WaitingFits
  <2> HIDE DEF r, seen
  <2>3. late \subseteq late' /\ late' \subseteq late \cup {r.op} /\ (r.op \in late' \/ seen = Seen)
    BY <2>1, <2>2
  <2>4. Shapes'
    BY <1>0, <2>1, <2>2, <2>3, Requested DEF Shapes, MembersFit
  <2>5. StaysOver'
    <3> SUFFICES ASSUME "update" \notin late' PROVE Over(ev')
      BY DEF StaysOver, Over
    <3>1. "update" \notin late /\ (r.op = "update" => seen = Seen)
      BY <2>3
    <3> QED BY <1>0, <2>1, <2>2, <3>1, RequestedOver DEF StaysOver
  <2>6. Filled'
    <3> SUFFICES ASSUME ev'.locked, late' \cap {"update", "remove", "edit", "merge"} = {} PROVE NoSpot(mem', bill')
      BY DEF Filled, NoSpot
    <3>1. /\ "update" \notin late /\ late \cap {"update", "remove", "edit", "merge"} = {}
          /\ r.op \in {"remove", "edit", "merge"} => seen = Seen
      BY <2>3
    <3> QED BY <1>0, <2>1, <2>2, <3>1, RequestedFilled DEF StaysOver, Filled
  <2>7. WaitingFits'
    BY <2>1 DEF WaitingFits
  <2> QED BY <2>4, <2>5, <2>6, <2>7 DEF IInv
<1>4. CASE Fail
  <2>1. WaitingFits'
    BY <1>4 DEF Fail, WaitingFits
  <2> QED BY <1>0, <1>4, <2>1 DEF Fail, IInv, Shapes, StaysOver, Filled, NoSpot, Over, OneRowEach
<1>5. ASSUME \/ \E n \in notices : Accept(n) \/ Reject(n)
             \/ \E u \in Users, b \in scene.bills, f \in scene.forms : CreateBill(u, b, f),
             Passing
      PROVE  IInv'
  <2>1. /\ ev' = ev /\ settled' = settled /\ MembersFit(mem') /\ NoneTakenOff(mem')
        /\ notices' \subseteq NoticeRow
        /\ bill' \in [Bills -> BillRow] /\ (ev.locked => bill' = bill)
    BY <1>0, <1>5, BesidesFit
  <2>2. late' = late /\ scene' = scene
    BY <1>5 DEF Passing
  <2>3. Shapes' /\ StaysOver'
    BY <1>0, <2>1, <2>2 DEF Shapes, MembersFit, StaysOver, Over
  <2>4. Filled'
    <3> SUFFICES ASSUME ev'.locked, late' \cap {"update", "remove", "edit", "merge"} = {} PROVE NoSpot(mem', bill')
      BY DEF Filled, NoSpot
    <3>1. ev.locked /\ NoSpot(mem, bill) /\ bill' = bill
      BY <1>0, <2>1, <2>2 DEF Filled
    <3> QED BY <2>1, <3>1, NoSpotKept DEF NoneTakenOff
  <2>5. WaitingFits'
    BY <1>0, <1>5, PassingFits
  <2> QED BY <2>3, <2>4, <2>5 DEF IInv
<1>6. CASE UNCHANGED vars
  <2>1. Seen' = Seen /\ Requests' = Requests
    BY <1>6 DEF vars, Seen, Requests
  <2>2. WaitingFits'
    BY <1>0, <1>6, <2>1 DEF vars, WaitingFits
  <2> QED BY <1>0, <1>6, <2>2 DEF vars, IInv, Shapes, StaysOver, Filled, NoSpot, Over, OneRowEach
<1> QED BY <1>1, <1>2, <1>3, <1>4, <1>5, <1>6 DEF Next

\* Before the first request.
LEMMA InitFits == Init => IInv
<1> SUFFICES ASSUME Init PROVE IInv
  OBVIOUS
<1>1. ev \in EventRow /\ ~ev.locked
  BY EventSlots DEF Init, EventRow, Statuses
<1>2. mem \in [Slots -> MemRow] /\ OneRowEach(mem)
  <2>1. [st |-> "active", user |-> First[2], invited |-> NoUser, role |-> "owner", removed |-> FALSE] \in MemRow
    BY EventSlots DEF MemRow, Roles
  <2>2. mem \in [Slots -> MemRow]
    BY <2>1, NoRowIs DEF Init
  <2>3. \A s \in Slots : mem[s].user \in Users => s = First[1]
    BY NoRowIs, EventUsers DEF Init
  <2> QED BY <2>2, <2>3 DEF OneRowEach
<1>3. bill \in [Bills -> BillRow]
  BY DEF Init, NoBill, BillRow
<1>4. Shapes
  BY <1>1, <1>2, <1>3 DEF Init, Shapes
<1>5. WaitingFits /\ StaysOver /\ Filled
  BY <1>1 DEF Init, WaitingFits, StaysOver, Filled, Over
<1> QED BY <1>4, <1>5 DEF IInv

\* Shapes, what a caught request has read, and what a completed event has no more, in every state.
THEOREM Inductive == Spec => []IInv
<1> QED BY InitFits, StepFits, PTL DEF Spec

\* A user's rows are one at most, as the type invariant counts them.
LEMMA ShapesAreTyped ==
  ASSUME Shapes
  PROVE  TypeOK
<1>1. ASSUME NEW u \in Users PROVE Cardinality(SlotOf(mem, u)) <= 1
  <2>1. \A s, t \in SlotOf(mem, u) : s = t
    BY DEF Shapes, OneRowEach, SlotOf
  <2>2. CASE SlotOf(mem, u) = {}
    <3>1. Cardinality(SlotOf(mem, u)) = 0
      BY <2>2, FS_EmptySet
    <3> QED BY <3>1
  <2>3. CASE SlotOf(mem, u) # {}
    <3>1. PICK s : SlotOf(mem, u) = {s}
      BY <2>1, <2>3
    <3>2. Cardinality(SlotOf(mem, u)) = 1
      BY <3>1, FS_Singleton
    <3> QED BY <3>2
  <2> QED BY <2>2, <2>3
<1>2. ev.status \in Statuses /\ ev.owner \in Users /\ ev.there \in BOOLEAN
  BY DEF Shapes, EventRow
<1> QED BY <1>1, <1>2 DEF Shapes, TypeOK, MemRow, NoticeRow

\* A completed event has no empty spot left (NoEmptySpotOnCompleted): whatever was asked of it, and
\* whoever was caught between reading and writing, unless that was an update, a removal, a bill's
\* edit or a merge.
THEOREM CompletedHasNoEmptySpot == Spec => []NoEmptySpotOnCompleted
<1>1. IInv => NoEmptySpotOnCompleted
  BY ShapesAreTyped DEF IInv, Filled, NoSpot, NoEmptySpotOnCompleted
<1> QED BY <1>1, Inductive, PTL

\* A completed event is never active or cancelled again (LockedUnlessRaced), and stays completed until
\* it is deleted, unless an update wrote what it had read before the event was completed.
THEOREM CompletedForGood == Spec => LockedUnlessRaced
<1> DEFINE Kept == ev.locked /\ ev'.there /\ "update" \notin late'
                     => ev'.locked /\ ev'.status \in {"completed", "archived"}
<1>1. IInv /\ [Next]_vars => [Kept]_vars
  <2> SUFFICES ASSUME IInv, Next, ev.locked, ev'.there, "update" \notin late'
               PROVE  ev'.locked /\ ev'.status \in {"completed", "archived"}
    BY DEF Kept
  <2>0. Shapes /\ WaitingFits /\ StaysOver
    BY DEF IInv
  <2>1. ASSUME NEW r \in Requests, NEW seen, Do(r, seen), r.op = "update" => seen = Seen, "update" \notin late
        PROVE  ev'.locked /\ ev'.status \in {"completed", "archived"}
    <3>1. Over(ev)
      BY <2>0, <2>1 DEF StaysOver
    <3>2. Over(ev') /\ (ev.locked /\ ev'.there => ev'.locked)
      BY <2>0, <2>1, <3>1, RequestedOver
    <3> QED BY <3>2 DEF Over
  <2>2. ASSUME ev' = ev, "update" \notin late
        PROVE  ev'.locked /\ ev'.status \in {"completed", "archived"}
    BY <2>0, <2>2 DEF StaysOver, Over
  <2>3. ASSUME NEW r \in Requests, Whole(r) PROVE ev'.locked /\ ev'.status \in {"completed", "archived"}
    BY <2>1, <2>3 DEF Whole, Passing
  <2>4. ASSUME NEW r \in Requests, Read(r) PROVE ev' = ev /\ late' = late
    BY <2>4 DEF Read
  <2>5. CASE Write
    <3> DEFINE r == waiting.request
               seen == waiting.seen
    <3>1. /\ waiting # NoRequest /\ Do(r, seen)
          /\ late' = IF waiting.between > 0 THEN late \cup {waiting.op} ELSE late
      BY <2>5 DEF Write
    <3>2. /\ r \in Requests /\ waiting.op = r.op /\ waiting.between \in Nat
          /\ waiting.between = 0 => seen = Seen
      BY <2>0, <3>1 DEF WaitingFits
    <3> HIDE DEF r, seen
    <3>3. "update" \notin late /\ (r.op = "update" => seen = Seen)
      BY <3>1, <3>2
    <3> QED BY <2>1, <3>1, <3>2, <3>3
  <2>6. CASE Fail
    BY <2>2, <2>6 DEF Fail
  <2>7. CASE /\ \/ \E n \in notices : Accept(n) \/ Reject(n)
                \/ \E u \in Users, b \in scene.bills, f \in scene.forms : CreateBill(u, b, f)
             /\ Passing
    BY <2>0, <2>2, <2>7, BesidesFit DEF Passing
  <2> QED BY <2>2, <2>3, <2>4, <2>5, <2>6, <2>7 DEF Next
<1> QED BY <1>1, Inductive, PTL DEF Spec, LockedUnlessRaced

-----------------------------------------------------------------------------
(* Sums over finite sets, as an event adds up its bills (MapThenSumSet).     *)
(* A smallest set of those that fail leads to a smaller one; HomeProofs and *)
(* DebtsProofs have the same library.                                       *)

SumIn(f, S) == MapThenSumSet(LAMBDA x : f[x], S)
OneOf(S) == CHOOSE x \in S : TRUE

\* Of the subsets of a finite set that fail at something, one has no other inside it.
LEMMA SmallestSet ==
  ASSUME NEW S, IsFiniteSet(S), NEW F, F \subseteq SUBSET S, F # {}
  PROVE  \E T \in F : \A U \in F : U \subseteq T => U = T
<1>1. F \subseteq FiniteSubsetsOf(S)
  <2> SUFFICES ASSUME NEW T \in F PROVE T \in FiniteSubsetsOf(S)
    OBVIOUS
  <2>1. T \in SUBSET S
    OBVIOUS
  <2>2. IsFiniteSet(T)
    BY <2>1, FS_Subset
  <2> QED BY <2>1, <2>2 DEF FiniteSubsetsOf
<1>2. IsWellFoundedOn(StrictSubsetOrdering(S), FiniteSubsetsOf(S))
  BY FS_StrictSubsetOrderingWellFounded
<1>3. PICK T \in F : \A U \in F : <<U, T>> \notin StrictSubsetOrdering(S)
  BY <1>1, <1>2, WFMin, Zenon
<1> SUFFICES ASSUME NEW U \in F, U \subseteq T, U # T PROVE FALSE
  BY Zenon
<1>4. <<U, T>> \in StrictSubsetOrdering(S)
  BY DEF StrictSubsetOrdering
<1> QED BY <1>3, <1>4, Zenon

\* A table of the sums over every subset, as the fold makes it.
Runs(g, f, S) ==
  g = [T \in SUBSET S |-> IF T = {} THEN 0 ELSE f[OneOf(T)] + g[T \ {OneOf(T)}]]

\* The sum is the last entry of the table.
LEMMA SumUnfold ==
  ASSUME NEW f, NEW S
  PROVE  SumIn(f, S) = (CHOOSE g : Runs(g, f, S))[S]
BY DEF SumIn, Runs, MapThenSumSet, MapThenFoldSet, OneOf

\* A set that is not empty has the element that is taken.
LEMMA OneOfIn == ASSUME NEW T, T # {} PROVE OneOf(T) \in T /\ T \ {OneOf(T)} \subseteq T
  BY DEF OneOf

\* The table of a set holds that of its subsets.
LEMMA RunsInside ==
  ASSUME NEW S, NEW f, NEW g, Runs(g, f, S), NEW V \in SUBSET S
  PROVE  Runs([T \in SUBSET V |-> g[T]], f, V)
<1> DEFINE h == [T \in SUBSET V |-> g[T]]
           r == [T \in SUBSET V |-> IF T = {} THEN 0 ELSE f[OneOf(T)] + h[T \ {OneOf(T)}]]
<1>1. \A T \in SUBSET V : h[T] = r[T]
  <2> SUFFICES ASSUME NEW T \in SUBSET V PROVE h[T] = r[T]
    OBVIOUS
  <2>1. T \in SUBSET S
    OBVIOUS
  <2>2. g[T] = IF T = {} THEN 0 ELSE f[OneOf(T)] + g[T \ {OneOf(T)}]
    BY <2>1 DEF Runs
  <2>3. T \ {OneOf(T)} \in SUBSET V
    OBVIOUS
  <2> QED BY <2>2, <2>3
<1>2. h = r
  BY <1>1
<1> QED BY <1>2 DEF Runs

\* There is one table at most.
LEMMA RunsOnce ==
  ASSUME NEW S, IsFiniteSet(S), NEW f, NEW g, NEW h, Runs(g, f, S), Runs(h, f, S)
  PROVE  g = h
<1> DEFINE F == {T \in SUBSET S : g[T] # h[T]}
<1>1. F = {}
  <2> SUFFICES ASSUME F # {} PROVE FALSE
    OBVIOUS
  <2>0. F \subseteq SUBSET S
    OBVIOUS
  <2>1. PICK T \in F : \A U \in F : U \subseteq T => U = T
    <3> HIDE DEF F
    <3> QED BY <2>0, SmallestSet
  <2>2. /\ g[T] = IF T = {} THEN 0 ELSE f[OneOf(T)] + g[T \ {OneOf(T)}]
        /\ h[T] = IF T = {} THEN 0 ELSE f[OneOf(T)] + h[T \ {OneOf(T)}]
    BY DEF Runs
  <2>3. T # {} /\ g[T \ {OneOf(T)}] # h[T \ {OneOf(T)}]
    BY <2>2
  <2>4. T \ {OneOf(T)} \in F /\ T \ {OneOf(T)} # T
    BY <2>3, OneOfIn
  <2> QED BY <2>1, <2>4
<1>2. \A T \in SUBSET S : g[T] = h[T]
  BY <1>1
<1>3. /\ g = [T \in SUBSET S |-> g[T]]
      /\ h = [T \in SUBSET S |-> h[T]]
  BY DEF Runs
<1> QED BY <1>2, <1>3

\* What a table says of a subset is that subset's sum.
LEMMA RunsSay ==
  ASSUME NEW S, IsFiniteSet(S), NEW f, NEW g, Runs(g, f, S), NEW V \in SUBSET S
  PROVE  SumIn(f, V) = g[V]
<1>1. IsFiniteSet(V)
  BY FS_Subset
<1> DEFINE h == [T \in SUBSET V |-> g[T]]
<1>2. Runs(h, f, V)
  BY RunsInside
<1>3. h[V] = g[V]
  OBVIOUS
<1> HIDE DEF h
<1>4. PICK k : k = CHOOSE q : Runs(q, f, V)
  OBVIOUS
<1>5. Runs(k, f, V)
  BY <1>2, <1>4, Zenon
<1>6. k = h
  BY <1>1, <1>2, <1>5, RunsOnce
<1> QED BY <1>3, <1>4, <1>6, SumUnfold

\* There is a table for every finite set.
LEMMA RunsThere ==
  ASSUME NEW S, IsFiniteSet(S), NEW f
  PROVE  \E g : Runs(g, f, S)
<1> DEFINE F == {T \in SUBSET S : ~\E g : Runs(g, f, T)}
<1>1. F = {}
  <2> SUFFICES ASSUME F # {} PROVE FALSE
    OBVIOUS
  <2>0. F \subseteq SUBSET S
    OBVIOUS
  <2>1. PICK T \in F : \A U \in F : U \subseteq T => U = T
    <3> HIDE DEF F
    <3> QED BY <2>0, SmallestSet
  <2>2. T \in SUBSET S /\ IsFiniteSet(T)
    BY FS_Subset
  <2> DEFINE g == [U \in SUBSET T |-> IF U = {} THEN 0 ELSE f[OneOf(U)] + SumIn(f, U \ {OneOf(U)})]
             r == [U \in SUBSET T |-> IF U = {} THEN 0 ELSE f[OneOf(U)] + g[U \ {OneOf(U)}]]
  <2>3. \A V \in SUBSET T : V # T => SumIn(f, V) = g[V]
    <3> SUFFICES ASSUME NEW V \in SUBSET T, V # T PROVE SumIn(f, V) = g[V]
      OBVIOUS
    <3>1. IsFiniteSet(V) /\ V \notin F /\ V \in SUBSET S
      BY <2>1, <2>2, FS_Subset
    <3>2. PICK h : Runs(h, f, V)
      BY <3>1
    <3>3. SumIn(f, V) = h[V]
      BY <3>1, <3>2, RunsSay
    <3>4. h[V] = IF V = {} THEN 0 ELSE f[OneOf(V)] + h[V \ {OneOf(V)}]
      BY <3>2 DEF Runs
    <3>5. V # {} => SumIn(f, V \ {OneOf(V)}) = h[V \ {OneOf(V)}]
      BY <3>1, <3>2, RunsSay
    <3> QED BY <3>3, <3>4, <3>5
  <2>4. \A U \in SUBSET T : g[U] = r[U]
    <3> SUFFICES ASSUME NEW U \in SUBSET T, U # {} PROVE g[U] = r[U]
      OBVIOUS
    <3>1. U \ {OneOf(U)} \in SUBSET T /\ U \ {OneOf(U)} # T
      BY OneOfIn
    <3>2. SumIn(f, U \ {OneOf(U)}) = g[U \ {OneOf(U)}]
      BY <2>3, <3>1
    <3> QED BY <3>2
  <2>5. g = r
    BY <2>4
  <2>6. Runs(g, f, T)
    BY <2>5 DEF Runs
  <2> QED BY <2>6
<1> QED BY <1>1

\* The fold takes one element at a time.
LEMMA SumStep ==
  ASSUME NEW S, IsFiniteSet(S), NEW f
  PROVE  SumIn(f, S) = IF S = {} THEN 0 ELSE f[OneOf(S)] + SumIn(f, S \ {OneOf(S)})
<1>1. PICK g : Runs(g, f, S)
  BY RunsThere
<1>2. SumIn(f, S) = g[S] /\ SumIn(f, S \ {OneOf(S)}) = g[S \ {OneOf(S)}]
  BY <1>1, RunsSay
<1>3. g[S] = IF S = {} THEN 0 ELSE f[OneOf(S)] + g[S \ {OneOf(S)}]
  BY <1>1 DEF Runs
<1> QED BY <1>2, <1>3

\* A sum of integers is one.
LEMMA SumType ==
  ASSUME NEW S, IsFiniteSet(S), NEW f, \A x \in S : f[x] \in Int
  PROVE  SumIn(f, S) \in Int
<1> DEFINE F == {T \in SUBSET S : SumIn(f, T) \notin Int}
<1>1. F = {}
  <2> SUFFICES ASSUME F # {} PROVE FALSE
    OBVIOUS
  <2>0. F \subseteq SUBSET S
    OBVIOUS
  <2>1. PICK T \in F : \A U \in F : U \subseteq T => U = T
    <3> HIDE DEF F
    <3> QED BY <2>0, SmallestSet
  <2>2. SumIn(f, T) = IF T = {} THEN 0 ELSE f[OneOf(T)] + SumIn(f, T \ {OneOf(T)})
    BY FS_Subset, SumStep
  <2>3. T # {} /\ SumIn(f, T \ {OneOf(T)}) \notin Int
    BY <2>2, OneOfIn
  <2> QED BY <2>1, <2>3, OneOfIn
<1> QED BY <1>1

\* It may take any of its elements first.
LEMMA SumTakes ==
  ASSUME NEW S, IsFiniteSet(S), NEW f, \A x \in S : f[x] \in Int
  PROVE  \A x \in S : SumIn(f, S) = f[x] + SumIn(f, S \ {x})
<1> DEFINE F == {T \in SUBSET S : \E x \in T : SumIn(f, T) # f[x] + SumIn(f, T \ {x})}
<1>1. F = {}
  <2> SUFFICES ASSUME F # {} PROVE FALSE
    OBVIOUS
  <2>0. F \subseteq SUBSET S
    OBVIOUS
  <2>1. PICK T \in F : \A U \in F : U \subseteq T => U = T
    <3> HIDE DEF F
    <3> QED BY <2>0, SmallestSet
  <2>2. PICK x \in T : SumIn(f, T) # f[x] + SumIn(f, T \ {x})
    OBVIOUS
  <2> DEFINE y == OneOf(T)
  <2>3. SumIn(f, T) = f[y] + SumIn(f, T \ {y}) /\ y \in T /\ x # y
    BY <2>2, FS_Subset, SumStep, OneOfIn
  <2> HIDE DEF y
  <2>4. T \ {x} \notin F /\ T \ {y} \notin F
    BY <2>1, <2>3
  <2>5. SumIn(f, T \ {y}) = f[x] + SumIn(f, (T \ {y}) \ {x})
    BY <2>3, <2>4
  <2>6. SumIn(f, T \ {x}) = f[y] + SumIn(f, (T \ {x}) \ {y})
    BY <2>3, <2>4
  <2>7. (T \ {x}) \ {y} = (T \ {y}) \ {x} /\ IsFiniteSet((T \ {x}) \ {y})
    BY FS_Subset
  <2>8. SumIn(f, (T \ {y}) \ {x}) \in Int /\ f[x] \in Int /\ f[y] \in Int
    BY <2>3, <2>7, SumType
  <2>9. SumIn(f, (T \ {x}) \ {y}) = SumIn(f, (T \ {y}) \ {x})
    BY <2>7
  <2> QED BY <2>2, <2>3, <2>5, <2>6, <2>8, <2>9
<1>2. S \notin F
  BY <1>1
<1> QED BY <1>2

\* Nothing adds up to nothing.
LEMMA SumNone == ASSUME NEW f PROVE SumIn(f, {}) = 0
  BY FS_EmptySet, SumStep

\* A sum of sums is the sum of both.
LEMMA SumPlus ==
  ASSUME NEW S, IsFiniteSet(S), NEW f, NEW g, NEW h,
         \A x \in S : f[x] \in Int /\ g[x] \in Int /\ h[x] = f[x] + g[x]
  PROVE  SumIn(h, S) = SumIn(f, S) + SumIn(g, S)
<1> DEFINE F == {T \in SUBSET S : SumIn(h, T) # SumIn(f, T) + SumIn(g, T)}
<1>1. F = {}
  <2> SUFFICES ASSUME F # {} PROVE FALSE
    OBVIOUS
  <2>0. F \subseteq SUBSET S
    OBVIOUS
  <2>1. PICK T \in F : \A U \in F : U \subseteq T => U = T
    <3> HIDE DEF F
    <3> QED BY <2>0, SmallestSet
  <2>2. IsFiniteSet(T) /\ T \in SUBSET S
    BY FS_Subset
  <2>3. T # {}
    <3> SUFFICES ASSUME T = {} PROVE FALSE
      OBVIOUS
    <3>1. SumIn(f, T) = 0 /\ SumIn(g, T) = 0 /\ SumIn(h, T) = 0
      BY SumNone
    <3> QED BY <3>1
  <2>4. PICK x \in T : TRUE
    BY <2>3
  <2>5. T \ {x} \notin F /\ IsFiniteSet(T \ {x})
    BY <2>1, <2>2, FS_Subset
  <2>6. /\ SumIn(f, T) = f[x] + SumIn(f, T \ {x})
        /\ SumIn(g, T) = g[x] + SumIn(g, T \ {x})
    BY <2>2, SumTakes
  <2>7. \A y \in T : h[y] \in Int
    BY <2>2
  <2>8. SumIn(h, T) = h[x] + SumIn(h, T \ {x})
    BY <2>2, <2>7, SumTakes
  <2>9. SumIn(f, T \ {x}) \in Int /\ SumIn(g, T \ {x}) \in Int
    BY <2>2, <2>5, SumType
  <2>10. SumIn(h, T \ {x}) = SumIn(f, T \ {x}) + SumIn(g, T \ {x})
    BY <2>2, <2>5
  <2> QED BY <2>2, <2>6, <2>8, <2>9, <2>10
<1> QED BY <1>1

\* What is nothing outside a part adds up to the part.
LEMMA SumPart ==
  ASSUME NEW S, IsFiniteSet(S), NEW P \in SUBSET S, NEW f,
         \A x \in S : f[x] \in Int, \A x \in S \ P : f[x] = 0
  PROVE  SumIn(f, S) = SumIn(f, P)
<1> DEFINE F == {T \in SUBSET S : P \subseteq T /\ SumIn(f, T) # SumIn(f, P)}
<1>1. F = {}
  <2> SUFFICES ASSUME F # {} PROVE FALSE
    OBVIOUS
  <2>0. F \subseteq SUBSET S
    OBVIOUS
  <2>1. PICK T \in F : \A U \in F : U \subseteq T => U = T
    <3> HIDE DEF F
    <3> QED BY <2>0, SmallestSet
  <2>2. IsFiniteSet(T) /\ T \in SUBSET S /\ P \subseteq T /\ T # P
    BY FS_Subset
  <2>4. PICK x \in T : x \notin P
    BY <2>2
  <2>5. T \ {x} \notin F /\ P \subseteq T \ {x} /\ IsFiniteSet(T \ {x})
    BY <2>1, <2>2, <2>4, FS_Subset
  <2>6. SumIn(f, T) = f[x] + SumIn(f, T \ {x}) /\ f[x] = 0 /\ SumIn(f, T \ {x}) \in Int
    BY <2>2, <2>4, <2>5, SumTakes, SumType
  <2> QED BY <2>2, <2>5, <2>6
<1> QED BY <1>1

\* Nothing but nothing adds up to nothing.
LEMMA SumZero ==
  ASSUME NEW S, IsFiniteSet(S), NEW f, \A x \in S : f[x] = 0
  PROVE  SumIn(f, S) = 0
BY SumPart, SumNone

\* The same amounts add up to the same.
LEMMA SumSame ==
  ASSUME NEW S, IsFiniteSet(S), NEW f, NEW g, \A x \in S : f[x] \in Int /\ f[x] = g[x]
  PROVE  SumIn(f, S) = SumIn(g, S)
<1> DEFINE none == [x \in S |-> 0]
<1>1. /\ SumIn(none, S) = 0
      /\ \A x \in S : g[x] \in Int /\ none[x] \in Int /\ f[x] = g[x] + none[x]
  BY SumZero
<1> HIDE DEF none
<1>2. SumIn(f, S) = SumIn(g, S) + SumIn(none, S) /\ SumIn(g, S) \in Int
  BY <1>1, SumPlus, SumType
<1> QED BY <1>1, <1>2

\* One amount changes: the sum does by as much.
LEMMA SumChanges ==
  ASSUME NEW S, IsFiniteSet(S), NEW f, NEW g, NEW x \in S,
         \A y \in S : f[y] \in Int /\ g[y] \in Int,
         \A y \in S \ {x} : f[y] = g[y]
  PROVE  SumIn(g, S) = SumIn(f, S) + g[x] - f[x]
<1>1. IsFiniteSet(S \ {x})
  BY FS_Subset
<1>2. SumIn(f, S \ {x}) = SumIn(g, S \ {x}) /\ SumIn(f, S \ {x}) \in Int
  BY <1>1, SumSame, SumType
<1>3. SumIn(f, S) = f[x] + SumIn(f, S \ {x}) /\ SumIn(g, S) = g[x] + SumIn(g, S \ {x})
  BY SumTakes
<1> QED BY <1>2, <1>3

\* A sum of natural numbers is one.
LEMMA SumNat ==
  ASSUME NEW S, IsFiniteSet(S), NEW f, \A x \in S : f[x] \in Nat
  PROVE  SumIn(f, S) \in Nat
<1> DEFINE F == {T \in SUBSET S : SumIn(f, T) \notin Nat}
<1>1. F = {}
  <2> SUFFICES ASSUME F # {} PROVE FALSE
    OBVIOUS
  <2>0. F \subseteq SUBSET S
    OBVIOUS
  <2>1. PICK T \in F : \A U \in F : U \subseteq T => U = T
    <3> HIDE DEF F
    <3> QED BY <2>0, SmallestSet
  <2>2. SumIn(f, T) = IF T = {} THEN 0 ELSE f[OneOf(T)] + SumIn(f, T \ {OneOf(T)})
    BY FS_Subset, SumStep
  <2>3. T # {} /\ SumIn(f, T \ {OneOf(T)}) \notin Nat
    BY <2>2, OneOfIn
  <2> QED BY <2>1, <2>3, OneOfIn
<1> QED BY <1>1

\* What one gives and another takes leaves the sum.
LEMMA SumMoves ==
  ASSUME NEW S, IsFiniteSet(S), NEW f, NEW g, NEW x \in S, NEW y \in S, x # y,
         \A z \in S : f[z] \in Int /\ g[z] \in Int,
         g[x] + g[y] = f[x] + f[y], \A z \in S \ {x, y} : f[z] = g[z]
  PROVE  SumIn(g, S) = SumIn(f, S)
<1> DEFINE A == S \ {x}
           R == A \ {y}
<1>1. IsFiniteSet(A) /\ IsFiniteSet(R) /\ y \in A /\ A \subseteq S /\ R \subseteq S
  BY FS_Subset
<1>2. \A z \in R : f[z] \in Int /\ f[z] = g[z]
  OBVIOUS
<1>3. \A z \in A : f[z] \in Int
  OBVIOUS
<1>4. \A z \in A : g[z] \in Int
  OBVIOUS
<1>5. SumIn(f, S) = f[x] + SumIn(f, A) /\ SumIn(g, S) = g[x] + SumIn(g, A)
  <2>1. \A z \in S : f[z] \in Int
    OBVIOUS
  <2>2. \A z \in S : g[z] \in Int
    OBVIOUS
  <2> QED BY <2>1, <2>2, SumTakes
<1> HIDE DEF A
<1>6. SumIn(f, A) = f[y] + SumIn(f, R)
  BY <1>1, <1>3, SumTakes
<1>7. SumIn(g, A) = g[y] + SumIn(g, R)
  BY <1>1, <1>4, SumTakes
<1> HIDE DEF R
<1>8. SumIn(f, R) = SumIn(g, R) /\ SumIn(f, R) \in Int
  <2>1. SumIn(f, R) = SumIn(g, R)
    BY <1>1, <1>2, SumSame
  <2>2. SumIn(f, R) \in Int
    BY <1>1, <1>2, SumType
  <2> QED BY <2>1, <2>2
<1>9. f[x] \in Int /\ f[y] \in Int /\ g[x] \in Int /\ g[y] \in Int
  OBVIOUS
<1> QED BY <1>5, <1>6, <1>7, <1>8, <1>9

\* Where nothing is negative and all adds up to nothing, there is nothing.
LEMMA SumOfNothing ==
  ASSUME NEW S, IsFiniteSet(S), NEW f, \A z \in S : f[z] \in Nat, SumIn(f, S) = 0
  PROVE  \A z \in S : f[z] = 0
<1> SUFFICES ASSUME NEW z \in S PROVE f[z] = 0
  OBVIOUS
<1>1. IsFiniteSet(S \ {z})
  BY FS_Subset
<1>2. \A x \in S \ {z} : f[x] \in Nat
  OBVIOUS
<1>3. SumIn(f, S \ {z}) \in Nat
  BY <1>1, <1>2, SumNat
<1>4. \A x \in S : f[x] \in Int
  OBVIOUS
<1>5. SumIn(f, S) = f[z] + SumIn(f, S \ {z})
  BY <1>4, SumTakes
<1> QED BY <1>3, <1>5

\* Rows first or columns first.
LEMMA SumSwaps ==
  ASSUME NEW A, IsFiniteSet(A), NEW B, IsFiniteSet(B), NEW m \in [A -> [B -> Int]]
  PROVE  SumIn([a \in A |-> SumIn(m[a], B)], A) = SumIn([b \in B |-> SumIn([a \in A |-> m[a][b]], A)], B)
<1> DEFINE Across == [a \in A |-> SumIn(m[a], B)]
           Col(b) == [a \in A |-> m[a][b]]
           Cols(T) == [b \in B |-> SumIn(Col(b), T)]
           F == {T \in SUBSET A : SumIn(Across, T) # SumIn(Cols(T), B)}
<1>0. /\ \A a \in A : Across[a] = SumIn(m[a], B) /\ Across[a] \in Int
      /\ \A a \in A, b \in B : Col(b)[a] = m[a][b] /\ m[a][b] \in Int
  BY SumType
<1>1. F = {}
  <2> SUFFICES ASSUME F # {} PROVE FALSE
    OBVIOUS
  <2>0. F \subseteq SUBSET A
    OBVIOUS
  <2>1. PICK T \in F : \A U \in F : U \subseteq T => U = T
    <3> HIDE DEF F
    <3> QED BY <2>0, SmallestSet
  <2>2. IsFiniteSet(T) /\ T \in SUBSET A
    BY FS_Subset
  <2>3. T # {}
    <3> SUFFICES ASSUME T = {} PROVE FALSE
      OBVIOUS
    <3>1. \A b \in B : Cols(T)[b] = 0
      BY SumNone
    <3>2. SumIn(Cols(T), B) = 0
      BY <3>1, SumZero
    <3> QED BY <3>2, SumNone
  <2>4. PICK x \in T : TRUE
    BY <2>3
  <2>5. T \ {x} \notin F /\ IsFiniteSet(T \ {x}) /\ T \ {x} \in SUBSET A
    BY <2>1, <2>2, FS_Subset
  <2>6. SumIn(Across, T) = Across[x] + SumIn(Across, T \ {x})
    <3> HIDE DEF Across
    <3> QED BY <1>0, <2>2, SumTakes
  <2>7. \A b \in B : SumIn(Col(b), T) = m[x][b] + SumIn(Col(b), T \ {x}) /\ SumIn(Col(b), T \ {x}) \in Int
    <3> SUFFICES ASSUME NEW b \in B
                 PROVE  SumIn(Col(b), T) = m[x][b] + SumIn(Col(b), T \ {x}) /\ SumIn(Col(b), T \ {x}) \in Int
      OBVIOUS
    <3> PICK c : c = Col(b)
      OBVIOUS
    <3>1. \A a \in A : c[a] = m[a][b] /\ c[a] \in Int
      OBVIOUS
    <3>2. SumIn(c, T) = c[x] + SumIn(c, T \ {x}) /\ SumIn(c, T \ {x}) \in Int
      BY <2>2, <2>5, <3>1, SumTakes, SumType
    <3> QED BY <2>2, <3>1, <3>2
  <2>8. SumIn(Cols(T), B) = SumIn(m[x], B) + SumIn(Cols(T \ {x}), B)
    <3>1. \A b \in B : m[x][b] \in Int /\ Cols(T \ {x})[b] \in Int /\ Cols(T)[b] = m[x][b] + Cols(T \ {x})[b]
      BY <1>0, <2>2, <2>7
    <3> HIDE DEF Cols
    <3> QED BY <3>1, SumPlus
  <2>9. SumIn(Across, T \ {x}) = SumIn(Cols(T \ {x}), B)
    BY <2>5
  <2> QED BY <1>0, <2>2, <2>6, <2>8, <2>9
<1>2. SumIn(Across, A) = SumIn(Cols(A), B)
  BY <1>1
<1> QED BY <1>2

-----------------------------------------------------------------------------
(* The settling of nets.                                                   *)

Owers(net, M) == {m \in M : net[m] < 0}
Owed(net, M)  == {m \in M : net[m] > 0}
Open(net, M)  == {m \in M : net[m] # 0}
Ower(net, M)  == Largest([m \in M |-> -net[m]], Owers(net, M))
OwedOne(net, M) == Largest(net, Owed(net, M))
AfterOne(net, M) == PayOff(net, Ower(net, M), OwedOne(net, M))
Payment(net, M) == [from |-> Ower(net, M), to |-> OwedOne(net, M),
                    amount |-> AfterOne(net, M)[Ower(net, M)] - net[Ower(net, M)]]
IsOver(net, M) == Owers(net, M) = {} \/ Owed(net, M) = {}
\* How nets are settled, by how those after one payment are.
SettledBy(g, net, M) ==
  IF IsOver(net, M) THEN [left |-> net, moves |-> {}]
  ELSE [g[AfterOne(net, M)] EXCEPT !.moves = @ \cup {Payment(net, M)}]

\* A table of how nets are settled, as the recursion makes it.
Settles(g, M) == g = [net \in [M -> Int] |-> SettledBy(g, net, M)]

\* What settling gives is an entry of the table.
LEMMA SettleUnfold ==
  ASSUME NEW nets
  PROVE  SimplifyNets(nets) = (CHOOSE g : Settles(g, DOMAIN nets))[nets]
BY DEF SimplifyNets, Settles, SettledBy, IsOver, Owers, Owed, Ower, OwedOne, AfterOne, Payment

\* Of some natural numbers one is the least.
LEMMA LeastOf ==
  ASSUME NEW L, L \subseteq Nat, L # {}
  PROVE  \E k \in L : \A j \in L : k <= j
<1>1. IsWellFoundedOn(OpToRel(<, Nat), Nat)
  BY NatLessThanWellFounded
<1>2. PICK k \in L : \A j \in L : <<j, k>> \notin OpToRel(<, Nat)
  BY <1>1, WFMin, Zenon
<1> SUFFICES ASSUME NEW j \in L, ~(k <= j) PROVE FALSE
  OBVIOUS
<1>3. j \in Nat /\ k \in Nat /\ j < k
  OBVIOUS
<1>4. <<j, k>> \in OpToRel(<, Nat)
  BY <1>3 DEF OpToRel
<1> QED BY <1>2, <1>4

\* The larger of two, the first id among equals.
Above(bal, m, o) == bal[m] > bal[o] \/ (bal[m] = bal[o] /\ m <= o)

\* Of finitely many there is a largest, the first among equals.
LEMMA LargestIs ==
  ASSUME NEW ids, IsFiniteSet(ids), ids # {}, NEW bal, \A m \in ids : m \in Nat /\ bal[m] \in Int
  PROVE  Largest(bal, ids) \in ids
<1> DEFINE F == {T \in SUBSET ids : T # {} /\ ~\E m \in T : \A o \in T : Above(bal, m, o)}
<1>1. F = {}
  <2> SUFFICES ASSUME F # {} PROVE FALSE
    OBVIOUS
  <2>0. F \subseteq SUBSET ids
    OBVIOUS
  <2>1. PICK T \in F : \A U \in F : U \subseteq T => U = T
    <3> HIDE DEF F
    <3> QED BY <2>0, SmallestSet
  <2>2. T \in SUBSET ids /\ T # {} /\ ~\E m \in T : \A o \in T : Above(bal, m, o)
    OBVIOUS
  <2>3. PICK x \in T : TRUE
    BY <2>2
  <2>4. T \ {x} \notin F /\ T \ {x} \in SUBSET ids
    BY <2>1, <2>2
  <2>5. \A m, o \in ids : m \in Nat /\ bal[m] \in Int /\ Above(bal, m, m) /\ (Above(bal, m, o) \/ Above(bal, o, m))
    BY DEF Above
  <2>6. \A m, o, n \in ids : Above(bal, m, o) /\ Above(bal, o, n) => Above(bal, m, n)
    BY <2>5 DEF Above
  <2>7. CASE T \ {x} = {}
    BY <2>2, <2>5, <2>7
  <2>8. CASE T \ {x} # {}
    <3>1. PICK y \in T \ {x} : \A o \in T \ {x} : Above(bal, y, o)
      BY <2>4, <2>8
    <3>2. x \in ids /\ y \in ids /\ \A o \in T : o \in ids
      BY <2>2
    <3>3. CASE Above(bal, y, x)
      <4>1. \A o \in T : Above(bal, y, o)
        BY <3>1, <3>3
      <4> QED BY <2>2, <4>1
    <3>4. CASE Above(bal, x, y)
      <4>1. \A o \in T \ {x} : Above(bal, x, o)
        BY <2>6, <3>1, <3>2, <3>4
      <4>2. \A o \in T : Above(bal, x, o)
        BY <2>5, <3>2, <4>1
      <4> QED BY <2>2, <4>2
    <3> QED BY <2>5, <3>2, <3>3, <3>4
  <2> QED BY <2>7, <2>8
<1>2. \E m \in ids : \A o \in ids : Above(bal, m, o)
  BY <1>1
<1> QED BY <1>2 DEF Largest, Above

\* One payment is between two who are open, keeps the sum, and evens one of them out.
LEMMA PaymentIs ==
  ASSUME NEW M, \A m \in M : m \in Nat, IsFiniteSet(M), NEW net \in [M -> Int], ~IsOver(net, M),
         NEW after, after = AfterOne(net, M)
  PROVE  /\ after \in [M -> Int]
         /\ SumIn(after, M) = SumIn(net, M)
         /\ Open(after, M) \subseteq Open(net, M) /\ Open(after, M) # Open(net, M)
         /\ Cardinality(Open(net, M)) >= 2
<1> DEFINE d == Ower(net, M)
           c == OwedOne(net, M)
           pay == IF -net[d] < net[c] THEN -net[d] ELSE net[c]
<1>1. d \in Owers(net, M)
  <2>1. Owers(net, M) # {} /\ IsFiniteSet(Owers(net, M))
    BY FS_Subset DEF IsOver, Owers
  <2>2. \A m \in Owers(net, M) : m \in Nat /\ [x \in M |-> -net[x]][m] \in Int
    BY DEF Owers
  <2> QED BY <2>1, <2>2, LargestIs DEF Ower
<1>2. c \in Owed(net, M)
  <2>1. Owed(net, M) # {} /\ IsFiniteSet(Owed(net, M))
    BY FS_Subset DEF IsOver, Owed
  <2>2. \A m \in Owed(net, M) : m \in Nat /\ net[m] \in Int
    BY DEF Owed
  <2> QED BY <2>1, <2>2, LargestIs DEF OwedOne
<1>3. after = [net EXCEPT ![d] = @ + pay, ![c] = @ - pay]
  BY DEF AfterOne, PayOff
<1> HIDE DEF d, c
<1>4. d \in M /\ c \in M /\ net[d] < 0 /\ net[c] > 0 /\ d # c /\ net[d] \in Int /\ net[c] \in Int
  BY <1>1, <1>2 DEF Owers, Owed
<1>5. pay \in Int /\ pay > 0 /\ (net[d] + pay = 0 \/ net[c] - pay = 0)
  BY <1>4
<1> HIDE DEF pay
<1>6. /\ after \in [M -> Int]
      /\ after[d] = net[d] + pay /\ after[c] = net[c] - pay
      /\ \A m \in M \ {d, c} : after[m] = net[m]
  BY <1>3, <1>4, <1>5
<1>7. SumIn(after, M) = SumIn(net, M)
  <2>1. \A z \in M : net[z] \in Int /\ after[z] \in Int
    BY <1>6
  <2>2. after[d] + after[c] = net[d] + net[c]
    BY <1>4, <1>5, <1>6
  <2>3. \A z \in M \ {d, c} : net[z] = after[z]
    BY <1>6
  <2>4. ASSUME NEW x \in M, NEW y \in M, x # y, after[x] + after[y] = net[x] + net[y],
               \A z \in M \ {x, y} : net[z] = after[z]
        PROVE  SumIn(after, M) = SumIn(net, M)
    BY <2>1, <2>4, SumMoves
  <2> QED BY <1>4, <2>2, <2>3, <2>4
<1>8. Open(after, M) \subseteq Open(net, M) /\ Open(after, M) # Open(net, M)
  <2>1. \A m \in M : after[m] # 0 => net[m] # 0
    BY <1>4, <1>6
  <2>2. after[d] = 0 \/ after[c] = 0
    BY <1>5, <1>6
  <2>3. d \in Open(net, M) /\ c \in Open(net, M)
    BY <1>4 DEF Open
  <2>4. d \notin Open(after, M) \/ c \notin Open(after, M)
    BY <2>2 DEF Open
  <2> QED BY <2>1, <2>3, <2>4 DEF Open
<1>9. Cardinality(Open(net, M)) >= 2
  <2>1. {d} \subseteq Open(net, M) /\ c \in Open(net, M) /\ d \in Open(net, M) /\ IsFiniteSet(Open(net, M))
    BY <1>4, FS_Subset DEF Open
  <2> DEFINE O == Open(net, M)
  <2> HIDE DEF O
  <2>2. IsFiniteSet(O \ {d}) /\ Cardinality(O \ {d}) = Cardinality(O) - 1 /\ c \in O \ {d}
    BY <2>1, <1>4, FS_RemoveElement DEF O
  <2>3. Cardinality(O \ {d}) \in Nat /\ Cardinality(O) \in Nat /\ Cardinality(O \ {d}) # 0
    BY <2>1, <2>2, FS_CardinalityType, FS_EmptySet DEF O
  <2>4. Cardinality(O) >= 2
    BY <2>2, <2>3
  <2> QED BY <2>4 DEF O
<1> QED BY <1>6, <1>7, <1>8, <1>9

\* Nets of which no more than k are open.
UpTo(k, M) == {net \in [M -> Int] : Cardinality(Open(net, M)) <= k}

\* Who is open is among the members.
LEMMA OpenIs ==
  ASSUME NEW M, IsFiniteSet(M), NEW net
  PROVE  /\ IsFiniteSet(Open(net, M)) /\ Open(net, M) \subseteq M
         /\ Cardinality(Open(net, M)) \in Nat /\ Cardinality(Open(net, M)) <= Cardinality(M)
<1>1. Open(net, M) \in SUBSET M
  BY DEF Open
<1> QED BY <1>1, FS_Subset, FS_CardinalityType

\* One payment leaves fewer open.
LEMMA FewerOpen ==
  ASSUME NEW M, \A m \in M : m \in Nat, IsFiniteSet(M), NEW net \in [M -> Int], ~IsOver(net, M)
  PROVE  /\ AfterOne(net, M) \in [M -> Int]
         /\ Cardinality(Open(AfterOne(net, M), M)) + 1 <= Cardinality(Open(net, M))
<1> DEFINE A == Open(AfterOne(net, M), M)
           O == Open(net, M)
<1>1. AfterOne(net, M) \in [M -> Int] /\ A \in SUBSET O /\ A # O
  BY PaymentIs
<1>2. IsFiniteSet(O) /\ Cardinality(A) \in Nat /\ Cardinality(O) \in Nat
  BY OpenIs
<1> HIDE DEF A, O
<1>3. Cardinality(A) <= Cardinality(O) /\ Cardinality(A) # Cardinality(O)
  BY <1>1, <1>2, FS_Subset
<1>4. Cardinality(A) + 1 <= Cardinality(O)
  BY <1>2, <1>3
<1> QED BY <1>1, <1>4 DEF A, O

\* There is a table, whatever the members.
LEMMA SettlesThere ==
  ASSUME NEW M, \A m \in M : m \in Nat, IsFiniteSet(M)
  PROVE  \E g : Settles(g, M)
<1> DEFINE Good(g, k) == \A net \in UpTo(k, M) : g[net] = SettledBy(g, net, M)
           L == {k \in Nat : ~\E g : Good(g, k)}
           step(g) == [net \in [M -> Int] |-> SettledBy(g, net, M)]
\* From a table that is good up to k, one that is good up to k + 1.
<1>1. ASSUME NEW k \in Nat, NEW g, \A net \in UpTo(k, M) : ~IsOver(net, M) => AfterOne(net, M) \in [M -> Int],
             \A net \in UpTo(k, M) : ~IsOver(net, M) => step(g)[AfterOne(net, M)] = g[AfterOne(net, M)]
      PROVE  Good(step(g), k)
  <2> SUFFICES ASSUME NEW net \in UpTo(k, M) PROVE step(g)[net] = SettledBy(step(g), net, M)
    OBVIOUS
  <2>1. net \in [M -> Int]
    BY DEF UpTo
  <2>2. step(g)[net] = SettledBy(g, net, M)
    BY <2>1
  <2>3. ~IsOver(net, M) => step(g)[AfterOne(net, M)] = g[AfterOne(net, M)]
    BY <1>1
  <2> HIDE DEF step
  <2> QED BY <2>2, <2>3 DEF SettledBy
<1>2. L = {}
  <2> SUFFICES ASSUME L # {} PROVE FALSE
    OBVIOUS
  <2>1. PICK k \in L : \A j \in L : k <= j
    <3>1. L \subseteq Nat
      OBVIOUS
    <3> HIDE DEF L
    <3> QED BY <3>1, LeastOf
  <2>2. k \in Nat /\ ~\E g : Good(g, k)
    OBVIOUS
  <2>3. PICK g : k # 0 => Good(g, k - 1)
    <3>1. k # 0 => k - 1 \in Nat /\ k - 1 \notin L
      BY <2>1, <2>2
    <3> QED BY <3>1
  <2>4. \A net \in UpTo(k, M) : ~IsOver(net, M) => AfterOne(net, M) \in [M -> Int]
    BY FewerOpen DEF UpTo
  <2>5. ASSUME NEW net \in UpTo(k, M), ~IsOver(net, M)
        PROVE  step(g)[AfterOne(net, M)] = g[AfterOne(net, M)]
    <3> DEFINE after == AfterOne(net, M)
    <3>1. net \in [M -> Int] /\ Cardinality(Open(net, M)) <= k
      BY DEF UpTo
    <3>2. after \in [M -> Int] /\ Cardinality(Open(after, M)) + 1 <= Cardinality(Open(net, M))
      BY <2>5, <3>1, FewerOpen
    <3>3. Cardinality(Open(after, M)) \in Nat /\ Cardinality(Open(net, M)) \in Nat
      BY OpenIs
    <3> HIDE DEF after
    <3>4. k # 0 /\ Cardinality(Open(after, M)) <= k - 1
      BY <2>2, <3>1, <3>2, <3>3
    <3>45. after \in UpTo(k - 1, M)
      BY <3>2, <3>4 DEF UpTo
    <3>5. g[after] = SettledBy(g, after, M)
      BY <2>3, <3>4, <3>45
    <3>6. step(g)[after] = SettledBy(g, after, M)
      BY <3>2
    <3> QED BY <3>5, <3>6 DEF after
  <2>6. Good(step(g), k)
    <3> HIDE DEF Good, step
    <3> QED BY <1>1, <2>2, <2>4, <2>5
  <2> QED BY <2>2, <2>6
<1>3. Cardinality(M) \in Nat
  BY FS_CardinalityType
<1>4. PICK g : Good(g, Cardinality(M))
  BY <1>2, <1>3
<1>5. \A net \in [M -> Int] : g[net] = SettledBy(g, net, M)
  BY <1>4, OpenIs DEF UpTo
<1>6. \A net \in [M -> Int] : ~IsOver(net, M) => AfterOne(net, M) \in [M -> Int]
  BY FewerOpen
<1> DEFINE t == step(g)
<1>7. \A net \in [M -> Int] : t[net] = SettledBy(t, net, M)
  <2> SUFFICES ASSUME NEW net \in [M -> Int] PROVE t[net] = SettledBy(t, net, M)
    OBVIOUS
  <2>1. t[net] = SettledBy(g, net, M)
    OBVIOUS
  <2>2. ~IsOver(net, M) => t[AfterOne(net, M)] = g[AfterOne(net, M)]
    BY <1>5, <1>6
  <2> HIDE DEF t
  <2> QED BY <2>1, <2>2 DEF SettledBy
<1>8. t = [net \in [M -> Int] |-> t[net]]
  OBVIOUS
<1> HIDE DEF t
<1>9. t = [net \in [M -> Int] |-> SettledBy(t, net, M)]
  BY <1>7, <1>8
<1> QED BY <1>9 DEF Settles

\* What settling some nets gives: everyone even when they add up to nothing, in fewer payments than
\* there are open ones.
Settled(s, net, M) ==
  /\ IsFiniteSet(s.moves)
  /\ Cardinality(s.moves) <= Cardinality(Open(net, M))
  /\ Open(net, M) # {} => Cardinality(s.moves) + 1 <= Cardinality(Open(net, M))
  /\ SumIn(net, M) = 0 => \A m \in M : s.left[m] = 0
  /\ s = [left |-> s.left, moves |-> s.moves]

\* With nobody who owes or nobody who is owed, nets that add up to nothing are nothing.
LEMMA OverIsEven ==
  ASSUME NEW M, IsFiniteSet(M), NEW net \in [M -> Int], IsOver(net, M), SumIn(net, M) = 0
  PROVE  \A m \in M : net[m] = 0
<1>1. CASE Owers(net, M) = {}
  <2>1. \A m \in M : net[m] \in Nat
    BY <1>1 DEF Owers
  <2> QED BY <2>1, SumOfNothing
<1>2. CASE Owed(net, M) = {}
  <2> DEFINE neg == [m \in M |-> -net[m]]
             none == [m \in M |-> 0]
  <2>1. \A m \in M : neg[m] \in Nat /\ neg[m] = -net[m] /\ neg[m] \in Int /\ net[m] \in Int
                     /\ none[m] = 0 /\ none[m] = net[m] + neg[m]
    BY <1>2 DEF Owed
  <2> HIDE DEF neg, none
  <2>2. SumIn(none, M) = SumIn(net, M) + SumIn(neg, M)
    BY <2>1, SumPlus
  <2>3. SumIn(none, M) = 0 /\ SumIn(neg, M) \in Int
    BY <2>1, SumZero, SumType
  <2>4. SumIn(neg, M) = 0
    BY <2>2, <2>3
  <2>5. \A m \in M : neg[m] = 0
    BY <2>1, <2>4, SumOfNothing
  <2> QED BY <2>1, <2>5
<1> QED BY <1>1, <1>2 DEF IsOver

\* Every entry of the table does.
LEMMA SettlingEnds ==
  ASSUME NEW M, \A m \in M : m \in Nat, IsFiniteSet(M), NEW g, Settles(g, M)
  PROVE  \A net \in [M -> Int] : Settled(g[net], net, M)
<1> DEFINE Bad == {net \in [M -> Int] : ~Settled(g[net], net, M)}
           L == {Cardinality(Open(net, M)) : net \in Bad}
<1>1. Bad = {}
  <2> SUFFICES ASSUME Bad # {} PROVE FALSE
    OBVIOUS
  <2>1. L \subseteq Nat /\ L # {}
    BY OpenIs
  <2>2. PICK k \in L : \A j \in L : k <= j
    <3> HIDE DEF L
    <3> QED BY <2>1, LeastOf
  <2>3. PICK net \in Bad : k = Cardinality(Open(net, M))
    OBVIOUS
  <2>4. net \in [M -> Int] /\ ~Settled(g[net], net, M)
    OBVIOUS
  <2>5. g[net] = SettledBy(g, net, M)
    BY <2>4 DEF Settles
  <2>6. IsFiniteSet(Open(net, M)) /\ Cardinality(Open(net, M)) \in Nat
    BY OpenIs
  <2>7. CASE IsOver(net, M)
    <3>1. g[net] = [left |-> net, moves |-> {}]
      BY <2>5, <2>7 DEF SettledBy
    <3>2. g[net].left = net /\ g[net].moves = {}
      BY <3>1
    <3>3. IsFiniteSet({}) /\ Cardinality({}) = 0
      BY FS_EmptySet
    <3>4. Open(net, M) # {} => Cardinality(Open(net, M)) # 0
      BY <2>6, FS_EmptySet
    <3>5. SumIn(net, M) = 0 => \A m \in M : net[m] = 0
      BY <2>4, <2>7, OverIsEven
    <3>6. /\ IsFiniteSet(g[net].moves)
          /\ Cardinality(g[net].moves) <= Cardinality(Open(net, M))
          /\ Open(net, M) # {} => Cardinality(g[net].moves) + 1 <= Cardinality(Open(net, M))
      BY <2>6, <3>2, <3>3, <3>4
    <3> QED BY <2>4, <3>1, <3>2, <3>5, <3>6 DEF Settled
  <2>8. CASE ~IsOver(net, M)
    <3> DEFINE after == AfterOne(net, M)
               rest == g[after]
    <3>1. after \in [M -> Int] /\ Cardinality(Open(after, M)) + 1 <= Cardinality(Open(net, M))
      BY <2>4, <2>8, FewerOpen
    <3>2. SumIn(after, M) = SumIn(net, M) /\ Cardinality(Open(net, M)) >= 2
      BY <2>4, <2>8, PaymentIs
    <3>3. g[net] = [rest EXCEPT !.moves = @ \cup {Payment(net, M)}]
      BY <2>5, <2>8 DEF SettledBy
    <3>4. IsFiniteSet(Open(after, M)) /\ Cardinality(Open(after, M)) \in Nat
      BY OpenIs
    <3> HIDE DEF after
    <3>5. after \notin Bad
      <4> SUFFICES ASSUME after \in Bad PROVE FALSE
        OBVIOUS
      <4>1. Cardinality(Open(after, M)) \in L
        OBVIOUS
      <4>2. k <= Cardinality(Open(after, M))
        BY <2>2, <4>1
      <4> QED BY <2>3, <2>6, <3>1, <3>4, <4>2
    <3>6. Settled(rest, after, M)
      BY <3>1, <3>5
    <3> HIDE DEF rest
    <3>7. rest = [left |-> rest.left, moves |-> rest.moves]
      BY <3>6 DEF Settled
    <3> PICK p : p = Payment(net, M)
      OBVIOUS
    <3>8. g[net] = [left |-> rest.left, moves |-> rest.moves \cup {p}]
      BY <3>3, <3>7
    <3>9. IsFiniteSet(rest.moves) /\ Cardinality(rest.moves) \in Nat
      BY <3>6, FS_CardinalityType DEF Settled
    <3>10. /\ IsFiniteSet(rest.moves \cup {p})
           /\ Cardinality(rest.moves \cup {p}) <= Cardinality(rest.moves) + 1
           /\ Cardinality(rest.moves \cup {p}) \in Nat
      <4>1. /\ IsFiniteSet(rest.moves \cup {p})
            /\ Cardinality(rest.moves \cup {p}) = IF p \in rest.moves THEN Cardinality(rest.moves)
                                                  ELSE Cardinality(rest.moves) + 1
        BY <3>9, FS_AddElement, Zenon
      <4>2. Cardinality(rest.moves \cup {p}) \in Nat
        BY <4>1, FS_CardinalityType
      <4> QED BY <3>9, <4>1, <4>2
    <3>11. Cardinality(rest.moves) + 2 <= Cardinality(Open(net, M))
      <4>1. CASE Open(after, M) = {}
        <5>1. Cardinality(Open(after, M)) = 0
          BY <4>1, FS_EmptySet
        <5>2. Cardinality(rest.moves) <= Cardinality(Open(after, M))
          BY <3>6 DEF Settled
        <5> QED BY <3>2, <3>9, <5>1, <5>2
      <4>2. CASE Open(after, M) # {}
        <5>1. Cardinality(rest.moves) + 1 <= Cardinality(Open(after, M))
          BY <3>6, <4>2 DEF Settled
        <5> QED BY <2>6, <3>1, <3>4, <3>9, <5>1
      <4> QED BY <4>1, <4>2
    <3>12. SumIn(net, M) = 0 => \A m \in M : rest.left[m] = 0
      BY <3>2, <3>6 DEF Settled
    <3>13. g[net].left = rest.left /\ g[net].moves = rest.moves \cup {p}
      BY <3>8
    <3>14. /\ Cardinality(rest.moves \cup {p}) <= Cardinality(Open(net, M))
           /\ Cardinality(rest.moves \cup {p}) + 1 <= Cardinality(Open(net, M))
      BY <2>6, <3>9, <3>10, <3>11
    <3> QED BY <2>4, <3>8, <3>10, <3>12, <3>13, <3>14 DEF Settled
  <2> QED BY <2>7, <2>8
<1> QED BY <1>1

\* Nets that add up to nothing are evened out, in fewer payments than there are members.
LEMMA SettlesWell ==
  ASSUME NEW M, \A m \in M : m \in Nat, IsFiniteSet(M), M # {}, NEW nets \in [M -> Int], SumIn(nets, M) = 0
  PROVE  /\ \A m \in M : SimplifyNets(nets).left[m] = 0
         /\ Cardinality(SimplifyNets(nets).moves) < Cardinality(M)
<1>1. DOMAIN nets = M
  OBVIOUS
<1>2. PICK t : t = CHOOSE g : Settles(g, M)
  OBVIOUS
<1>3. Settles(t, M)
  BY <1>2, SettlesThere, Zenon
<1>4. SimplifyNets(nets) = t[nets]
  BY <1>1, <1>2, SettleUnfold
<1>5. Settled(t[nets], nets, M)
  BY <1>3, SettlingEnds
<1> PICK s : s = t[nets]
  OBVIOUS
<1>6. /\ \A m \in M : s.left[m] = 0
      /\ IsFiniteSet(s.moves)
      /\ Cardinality(s.moves) <= Cardinality(Open(nets, M))
      /\ Open(nets, M) # {} => Cardinality(s.moves) + 1 <= Cardinality(Open(nets, M))
  BY <1>5 DEF Settled
<1>7. Cardinality(s.moves) \in Nat /\ Cardinality(M) \in Nat /\ Cardinality(M) # 0
      /\ Cardinality(Open(nets, M)) \in Nat /\ Cardinality(Open(nets, M)) <= Cardinality(M)
  BY <1>6, FS_CardinalityType, FS_EmptySet, OpenIs
<1>8. Open(nets, M) = {} => Cardinality(Open(nets, M)) = 0
  BY FS_EmptySet
<1>9. Cardinality(s.moves) < Cardinality(M)
  BY <1>6, <1>7, <1>8
<1> QED BY <1>4, <1>6, <1>9

-----------------------------------------------------------------------------
(* What the members of an event are to receive.                            *)

MoneyFits(p) == p.amount \in Nat /\ p.share \in [Slots -> Nat] /\ p.paid \in [Slots -> Nat]

\* A quotient of naturals is one.
LEMMA Quotient == ASSUME NEW a \in Nat, NEW d \in Nat \ {0} PROVE a \div d \in Nat
  OBVIOUS

\* What one owes another is a natural number.
LEMMA PairIsNat ==
  ASSUME NEW m, MoneyFits(m), NEW u \in Slots, NEW v \in Slots
  PROVE  PairAmount(m, u, v) \in Nat
<1>1. CASE u = v \/ m.amount <= 0 \/ m.share[u] <= 0 \/ m.paid[v] <= 0
  BY <1>1 DEF PairAmount
<1>2. CASE ~(u = v \/ m.amount <= 0 \/ m.share[u] <= 0 \/ m.paid[v] <= 0)
  <2>1. m.share[u] * m.paid[v] \in Nat /\ m.amount \in Nat \ {0}
    BY <1>2 DEF MoneyFits
  <2>2. 2 * (m.share[u] * m.paid[v]) + m.amount \in Nat /\ 2 * m.amount \in Nat \ {0}
    BY <2>1
  <2>3. Round(m.share[u] * m.paid[v], m.amount) \in Nat
    BY <2>2, Quotient DEF Round
  <2> QED BY <2>3, <1>2 DEF PairAmount
<1> QED BY <1>1, <1>2

\* What one owes another, net, the other is owed.
LEMMA NetTurns ==
  ASSUME NEW m, MoneyFits(m), NEW u \in Slots, NEW v \in Slots
  PROVE  NetOf(m, u, v) \in Int /\ NetOf(m, v, u) = -NetOf(m, u, v)
<1>1. Owes(m, u, v) \in Nat /\ Owes(m, v, u) \in Nat
  BY PairIsNat DEF Owes
<1> QED BY <1>1 DEF NetOf

\* The sum of the opposites is the opposite of the sum.
LEMMA SumTurns ==
  ASSUME NEW S, IsFiniteSet(S), NEW f, NEW g, \A x \in S : f[x] \in Int /\ g[x] = -f[x]
  PROVE  SumIn(f, S) \in Int /\ SumIn(g, S) = -SumIn(f, S)
<1> DEFINE none == [x \in S |-> 0]
<1>1. \A x \in S : f[x] \in Int /\ g[x] \in Int /\ none[x] = f[x] + g[x] /\ none[x] = 0
  OBVIOUS
<1> HIDE DEF none
<1>2. SumIn(none, S) = SumIn(f, S) + SumIn(g, S) /\ SumIn(none, S) = 0
  BY <1>1, SumPlus, SumZero
<1>3. SumIn(f, S) \in Int /\ SumIn(g, S) \in Int
  BY <1>1, SumType
<1> QED BY <1>2, <1>3

\* The fold over the papers, and the one over the members, are sums.
PaperNets(papers, a, b) == [p \in DOMAIN papers |-> NetOf(papers[p], a, b)]
PairNets(papers, members, m) == [o \in members |-> PairNet(papers, m, o)]
MemberSum(papers, members, m) == MapThenSumSet(LAMBDA o : PairNet(papers, m, o), members)
PaperRuns(g, papers, a, b) ==
  g = [T \in SUBSET DOMAIN papers |-> IF T = {} THEN 0 ELSE NetOf(papers[OneOf(T)], a, b) + g[T \ {OneOf(T)}]]
MemberRuns(g, papers, members, m) ==
  g = [T \in SUBSET members |-> IF T = {} THEN 0 ELSE PairNet(papers, m, OneOf(T)) + g[T \ {OneOf(T)}]]

\* The fold over the papers is the last entry of its table.
LEMMA PairUnfold ==
  ASSUME NEW papers, NEW a, NEW b
  PROVE  PairNet(papers, a, b) = (CHOOSE g : PaperRuns(g, papers, a, b))[DOMAIN papers]
BY DEF PairNet, PaperRuns, MapThenSumSet, MapThenFoldSet, OneOf

\* The fold over the members is the last entry of its table.
LEMMA MemberUnfold ==
  ASSUME NEW papers, NEW members, NEW m
  PROVE  MemberSum(papers, members, m) = (CHOOSE g : MemberRuns(g, papers, members, m))[members]
BY DEF MemberSum, MemberRuns, MapThenSumSet, MapThenFoldSet, OneOf

\* What two owe each other over all papers is the sum of what they do on each.
LEMMA PairIsSum ==
  ASSUME NEW papers, IsFiniteSet(DOMAIN papers), NEW a, NEW b
  PROVE  PairNet(papers, a, b) = SumIn(PaperNets(papers, a, b), DOMAIN papers)
<1> DEFINE S == DOMAIN papers
           f == PaperNets(papers, a, b)
<1>1. \A p \in S : f[p] = NetOf(papers[p], a, b)
  BY DEF PaperNets
<1> HIDE DEF f
<1>2. ASSUME NEW g PROVE PaperRuns(g, papers, a, b) <=> Runs(g, f, S)
  <2> DEFINE h == [T \in SUBSET S |-> IF T = {} THEN 0 ELSE NetOf(papers[OneOf(T)], a, b) + g[T \ {OneOf(T)}]]
             k == [T \in SUBSET S |-> IF T = {} THEN 0 ELSE f[OneOf(T)] + g[T \ {OneOf(T)}]]
  <2>1. \A T \in SUBSET S : h[T] = k[T]
    <3> SUFFICES ASSUME NEW T \in SUBSET S, T # {} PROVE h[T] = k[T]
      OBVIOUS
    <3>1. OneOf(T) \in S
      BY OneOfIn
    <3>2. f[OneOf(T)] = NetOf(papers[OneOf(T)], a, b)
      BY <3>1, <1>1
    <3> QED BY <3>2
  <2>2. h = k
    BY <2>1
  <2> QED BY <2>2 DEF PaperRuns, Runs
<1> HIDE DEF S
<1>3. PICK k : k = CHOOSE g : PaperRuns(g, papers, a, b)
  OBVIOUS
<1>4. \E g : PaperRuns(g, papers, a, b)
  BY <1>2, RunsThere DEF S
<1>5. Runs(k, f, S)
  BY <1>2, <1>3, <1>4, Zenon
<1>6. SumIn(f, S) = k[S]
  BY <1>5, RunsSay DEF S
<1>7. PairNet(papers, a, b) = k[S]
  BY <1>3, PairUnfold DEF S
<1> QED BY <1>6, <1>7 DEF S, f

\* What a member owes is the sum of what they owe each.
LEMMA MemberIsSum ==
  ASSUME NEW papers, NEW members, IsFiniteSet(members), NEW m
  PROVE  MemberSum(papers, members, m) = SumIn(PairNets(papers, members, m), members)
<1> DEFINE f == PairNets(papers, members, m)
<1>1. \A o \in members : f[o] = PairNet(papers, m, o)
  BY DEF PairNets
<1> HIDE DEF f
<1>2. ASSUME NEW g PROVE MemberRuns(g, papers, members, m) <=> Runs(g, f, members)
  <2> DEFINE h == [T \in SUBSET members |-> IF T = {} THEN 0 ELSE PairNet(papers, m, OneOf(T)) + g[T \ {OneOf(T)}]]
             k == [T \in SUBSET members |-> IF T = {} THEN 0 ELSE f[OneOf(T)] + g[T \ {OneOf(T)}]]
  <2>1. \A T \in SUBSET members : h[T] = k[T]
    <3> SUFFICES ASSUME NEW T \in SUBSET members, T # {} PROVE h[T] = k[T]
      OBVIOUS
    <3>1. OneOf(T) \in members
      BY OneOfIn
    <3>2. f[OneOf(T)] = PairNet(papers, m, OneOf(T))
      BY <3>1, <1>1
    <3> QED BY <3>2
  <2>2. h = k
    BY <2>1
  <2> QED BY <2>2 DEF MemberRuns, Runs
<1>3. PICK k : k = CHOOSE g : MemberRuns(g, papers, members, m)
  OBVIOUS
<1>4. \E g : MemberRuns(g, papers, members, m)
  BY <1>2, RunsThere
<1>5. Runs(k, f, members)
  BY <1>2, <1>3, <1>4, Zenon
<1>6. SumIn(f, members) = k[members]
  BY <1>5, RunsSay
<1>7. MemberSum(papers, members, m) = k[members]
  BY <1>3, MemberUnfold
<1> QED BY <1>6, <1>7 DEF f

\* What is owed over all papers between two of them turns with them.
LEMMA PairTurns ==
  ASSUME NEW papers, IsFiniteSet(DOMAIN papers), \A p \in DOMAIN papers : MoneyFits(papers[p]),
         NEW a \in Slots, NEW b \in Slots
  PROVE  PairNet(papers, a, b) \in Int /\ PairNet(papers, b, a) = -PairNet(papers, a, b)
<1>1. \A p \in DOMAIN papers : /\ PaperNets(papers, a, b)[p] \in Int
                               /\ PaperNets(papers, b, a)[p] = -PaperNets(papers, a, b)[p]
  BY NetTurns DEF PaperNets
<1>2. /\ SumIn(PaperNets(papers, a, b), DOMAIN papers) \in Int
      /\ SumIn(PaperNets(papers, b, a), DOMAIN papers) = -SumIn(PaperNets(papers, a, b), DOMAIN papers)
  BY <1>1, SumTurns
<1> QED BY <1>2, PairIsSum

\* What the members are to receive adds up to nothing: what one owes another is owed.
LEMMA NetsAddUpToNothing ==
  ASSUME NEW papers, IsFiniteSet(DOMAIN papers), \A p \in DOMAIN papers : MoneyFits(papers[p])
  PROVE  MemberNets(papers, Slots) \in [Slots -> Int] /\ SumIn(MemberNets(papers, Slots), Slots) = 0
<1> DEFINE mat == [m \in Slots |-> [o \in Slots |-> PairNet(papers, m, o)]]
           row == [m \in Slots |-> SumIn(mat[m], Slots)]
           column(o) == [m \in Slots |-> mat[m][o]]
           columns == [o \in Slots |-> SumIn(column(o), Slots)]
           nets == MemberNets(papers, Slots)
<1>1. \A m, o \in Slots : PairNet(papers, m, o) \in Int /\ PairNet(papers, o, m) = -PairNet(papers, m, o)
  BY PairTurns
<1>2. mat \in [Slots -> [Slots -> Int]]
  BY <1>1
<1>3. \A m, o \in Slots : mat[m][o] = PairNet(papers, m, o)
  OBVIOUS
<1>4. \A m \in Slots : mat[m] = PairNets(papers, Slots, m)
  BY DEF PairNets
<1> HIDE DEF mat
<1>5. \A m \in Slots : nets[m] = -row[m] /\ nets[m] = -MemberSum(papers, Slots, m)
  BY <1>4, EventFinite, MemberIsSum DEF MemberNets, MemberSum
<1>6. \A m \in Slots : row[m] \in Int
  <2> SUFFICES ASSUME NEW m \in Slots PROVE SumIn(mat[m], Slots) \in Int
    OBVIOUS
  <2>1. \A o \in Slots : mat[m][o] \in Int
    BY <1>2
  <2> QED BY <2>1, EventFinite, SumType
<1>7. SumIn(row, Slots) = SumIn(columns, Slots)
  BY <1>2, EventFinite, SumSwaps
<1>8. \A o \in Slots : columns[o] = -row[o]
  <2> SUFFICES ASSUME NEW o \in Slots PROVE SumIn(column(o), Slots) = -SumIn(mat[o], Slots)
    OBVIOUS
  <2>1. PICK c : c = column(o)
    OBVIOUS
  <2>2. \A m \in Slots : mat[o][m] \in Int /\ c[m] = -mat[o][m]
    BY <1>1, <1>3, <2>1
  <2>3. SumIn(c, Slots) = -SumIn(mat[o], Slots)
    BY <2>2, EventFinite, SumTurns
  <2> QED BY <2>1, <2>3
<1> HIDE DEF row, columns
<1>9. SumIn(columns, Slots) = -SumIn(row, Slots) /\ SumIn(row, Slots) \in Int
  BY <1>6, <1>8, EventFinite, SumTurns
<1>10. SumIn(row, Slots) = 0
  BY <1>7, <1>9
<1>11. nets \in [Slots -> Int]
  <2>1. nets = [m \in Slots |-> -MemberSum(papers, Slots, m)]
    BY DEF MemberNets, MemberSum
  <2>2. \A m \in Slots : -MemberSum(papers, Slots, m) \in Int
    BY <1>5, <1>6
  <2> QED BY <2>1, <2>2
<1> HIDE DEF nets
<1>12. \A m \in Slots : nets[m] \in Int /\ row[m] = -nets[m]
  BY <1>5, <1>6
<1>13. SumIn(nets, Slots) \in Int /\ SumIn(row, Slots) = -SumIn(nets, Slots)
  BY <1>12, EventFinite, SumTurns
<1>14. SumIn(nets, Slots) = 0
  BY <1>10, <1>13
<1> QED BY <1>11, <1>14 DEF nets

-----------------------------------------------------------------------------
(* The bills stay balanced, so that an event settles.                      *)

EvenBills == \A b \in Bills : Balanced(bill[b])

\* A column of a bill adds up as its people do.
LEMMA TotalIs == ASSUME NEW f PROVE Total(f) = SumIn(f, DOMAIN f)
  BY DEF Total, SumIn

\* Being balanced, said of the sums.
LEMMA BalancedIs ==
  ASSUME NEW p, p.share \in [Slots -> Nat], p.paid \in [Slots -> Nat]
  PROVE  Balanced(p) <=> SumIn(p.share, Slots) = p.amount /\ SumIn(p.paid, Slots) = p.amount
<1>1. DOMAIN p.share = Slots /\ DOMAIN p.paid = Slots
  OBVIOUS
<1>2. Total(p.share) = SumIn(p.share, Slots) /\ Total(p.paid) = SumIn(p.paid, Slots)
  BY <1>1, TotalIs
<1> QED BY <1>2 DEF Balanced

\* What falls to another is still there.
LEMMA ShiftedAddsUp ==
  ASSUME NEW f, \A s \in Slots : f[s] \in Nat, NEW from \in Slots, NEW into \in Slots, from # into
  PROVE  SumIn(Shifted(f, from, into), Slots) = SumIn(f, Slots)
<1> DEFINE g == Shifted(f, from, into)
<1>1. /\ \A z \in Slots : f[z] \in Int /\ g[z] \in Int
      /\ g[from] + g[into] = f[from] + f[into]
      /\ \A z \in Slots \ {from, into} : f[z] = g[z]
  BY DEF Shifted
<1> HIDE DEF g
<1>2. IsFiniteSet(Slots)
  BY EventFinite
<1>3. \A z \in Slots : f[z] \in Int /\ g[z] \in Int
  BY <1>1
<1>4. g[from] + g[into] = f[from] + f[into] /\ \A z \in Slots \ {from, into} : f[z] = g[z]
  BY <1>1
<1>5. SumIn(g, Slots) = SumIn(f, Slots)
  BY <1>2, <1>3, <1>4, SumMoves
<1> QED BY <1>5 DEF g

\* A merged bill is balanced.
LEMMA MergedIsEven ==
  ASSUME NEW p \in BillRow, Balanced(p), NEW from \in Slots, NEW into \in Slots, from # into
  PROVE  Balanced(MergedOn(p, from, into))
<1> DEFINE q == MergedOn(p, from, into)
<1>1. q \in BillRow
  BY MergedIs
<1>2. q.amount = p.amount /\ q.share = Shifted(p.share, from, into) /\ q.paid = Shifted(p.paid, from, into)
  BY DEF MergedOn, BillRow
<1>3. /\ p.share \in [Slots -> Nat] /\ p.paid \in [Slots -> Nat]
      /\ q.share \in [Slots -> Nat] /\ q.paid \in [Slots -> Nat]
  BY <1>1 DEF BillRow
<1> HIDE DEF q
<1>4. SumIn(q.share, Slots) = SumIn(p.share, Slots) /\ SumIn(q.paid, Slots) = SumIn(p.paid, Slots)
  BY <1>2, <1>3, ShiftedAddsUp
<1>5. SumIn(p.share, Slots) = p.amount /\ SumIn(p.paid, Slots) = p.amount
  BY <1>3, BalancedIs
<1>6. Balanced(q)
  BY <1>2, <1>3, <1>4, <1>5, BalancedIs
<1> QED BY <1>6 DEF q

\* Nothing is balanced.
LEMMA NoBillIsEven == Balanced(NoBill)
<1> DEFINE none == [s \in Slots |-> 0]
<1>1. NoBill.share = none /\ NoBill.paid = none /\ NoBill.amount = 0
  BY DEF NoBill
<1>2. none \in [Slots -> Nat] /\ \A s \in Slots : none[s] = 0
  OBVIOUS
<1> HIDE DEF none
<1>3. SumIn(none, Slots) = 0
  BY <1>2, EventFinite, SumZero
<1> QED BY <1>1, <1>2, <1>3, BalancedIs

\* Every request leaves the bills balanced.
LEMMA RequestedEven ==
  ASSUME Shapes, EvenBills, NEW r \in Requests, NEW seen, Do(r, seen)
  PROVE  EvenBills'
<1>0. scene \in Scenes /\ bill \in [Bills -> BillRow]
  BY DEF Shapes
<1>1. CASE r.op = "delete" /\ Delete(r.u, seen)
  BY <1>1, NoBillIsEven DEF Delete, EvenBills
<1>2. CASE r.op = "merge" /\ Merge(r.u, r.s, r.t, seen)
  <2>1. r.s \in Slots /\ r.t \in Slots
    BY <1>0, <1>2, RequestFields
  <2>2. PICK from \in {r.s, r.t}, into \in {r.s, r.t} :
          /\ from # into
          /\ bill' = [x \in Bills |-> IF OnBill(x, from) THEN MergedOn(bill[x], from, into) ELSE bill[x]]
    BY <1>2, Zenon DEF Merge, FromOf, IntoOf
  <2>3. from \in Slots /\ into \in Slots
    BY <2>1
  <2>4. \A x \in Bills : Balanced(bill[x]) /\ Balanced(MergedOn(bill[x], from, into))
    BY <1>0, <2>2, <2>3, MergedIsEven DEF EvenBills
  <2> QED BY <2>2, <2>4 DEF EvenBills
<1>2a. CASE r.op = "edit" /\ EditBill(r.u, r.b, r.form, seen)
  <2>1. r.b \in Bills /\ r.form \in BillForms
    BY <1>0, <1>2a, RequestFields
  <2>2. bill' = [bill EXCEPT ![r.b] = r.form] /\ Balanced(r.form)
    BY <1>2a, <2>1, EditRequest, EvenForms
  <2> QED BY <1>0, <2>1, <2>2 DEF EvenBills
<1>3. CASE \/ r.op = "update"     /\ Update(r.u, r.to, seen)
           \/ r.op = "complete"   /\ Complete(r.u)
           \/ r.op = "transfer"   /\ Transfer(r.u, r.to, seen)
           \/ r.op = "pairs"      /\ BookPairs(r.u, r.s, seen)
           \/ r.op = "simplified" /\ BookSimplified(r.u, seen)
  <2>1. bill' = bill
    BY <1>3 DEF Update, Complete, Transfer, BookPairs, BookSimplified
  <2> QED BY <2>1 DEF EvenBills
<1>4. CASE \/ r.op = "leave"  /\ Leave(r.u, seen)
           \/ r.op = "remove" /\ RemoveMember(r.u, r.s, seen)
           \/ r.op = "role"   /\ UpdateMember(r.u, r.s, r.to, seen)
           \/ r.op = "name"   /\ AddByName(r.u, r.s, seen)
           \/ r.op = "email"  /\ AddByEmail(r.u, r.s, r.to, seen)
           \/ r.op = "invite" /\ Invite(r.u, r.s, r.to, seen)
  <2>1. bill' = bill
    BY <1>4, RowRequests
  <2> QED BY <2>1 DEF EvenBills
<1> QED BY <1>1, <1>2, <1>2a, <1>3, <1>4 DEF Do

\* Each action leaves the bills balanced.
LEMMA EvenStays == IInv /\ EvenBills /\ [Next]_vars => EvenBills'
<1> SUFFICES ASSUME IInv, EvenBills, [Next]_vars PROVE EvenBills'
  OBVIOUS
<1>0. Shapes /\ WaitingFits
  BY DEF IInv
<1>1. ASSUME NEW r \in Requests, Whole(r) PROVE EvenBills'
  BY <1>0, <1>1, RequestedEven DEF Whole
<1>2. ASSUME NEW r \in Requests, Read(r) PROVE EvenBills'
  BY <1>2 DEF Read, EvenBills
<1>3. CASE Write
  BY <1>0, <1>3, RequestedEven DEF Write, WaitingFits
<1>4. CASE Fail
  BY <1>4 DEF Fail, EvenBills
<1>5. ASSUME NEW n \in notices, Accept(n) \/ Reject(n) PROVE EvenBills'
  BY <1>5 DEF Accept, Reject, EvenBills
<1>6. ASSUME NEW u \in Users, NEW b \in scene.bills, NEW f \in scene.forms, CreateBill(u, b, f) PROVE EvenBills'
  <2>1. bill' = [bill EXCEPT ![b] = f] /\ Balanced(f)
    BY <1>0, <1>6, EvenForms, EventScenes DEF CreateBill, Shapes
  <2> QED BY <1>0, <2>1 DEF EvenBills, Shapes
<1>7. CASE UNCHANGED vars
  BY <1>7 DEF vars, EvenBills
<1> QED BY <1>1, <1>2, <1>3, <1>4, <1>5, <1>6, <1>7 DEF Next

\* The event settles (SimplifiedEvensOut): whatever its bills, edits and merges of their people, the bills
\* stay balanced, and the largest debtor paying the largest creditor (simplifyNets) comes to an end,
\* with everyone even and fewer payments than members.
THEOREM EventSettles == Spec => []SimplifiedEvensOut
<1>1. Init => EvenBills
  BY NoBillIsEven DEF Init, EvenBills
<1>2. IInv /\ EvenBills => SimplifiedEvensOut
  <2> SUFFICES ASSUME IInv, EvenBills PROVE SimplifiedEvensOut
    OBVIOUS
  <2> DEFINE nets == MemberNets(TheBills, Slots)
  <2>1. DOMAIN TheBills \in SUBSET Bills /\ IsFiniteSet(DOMAIN TheBills)
    BY EventFinite, FS_Subset DEF TheBills
  <2>2. \A b \in DOMAIN TheBills : TheBills[b] \in BillRow /\ Balanced(bill[b])
    BY <2>1 DEF TheBills, IInv, Shapes, EvenBills
  <2>3. \A b \in DOMAIN TheBills : MoneyFits(TheBills[b])
    BY <2>2 DEF BillRow, MoneyFits
  <2>4. nets \in [Slots -> Int] /\ SumIn(nets, Slots) = 0
    BY <2>1, <2>3, NetsAddUpToNothing
  <2>5. Slots # {} /\ \A s \in Slots : s \in Nat
    BY EventSlots
  <2> HIDE DEF nets
  <2>6. /\ \A m \in Slots : SimplifyNets(nets).left[m] = 0
        /\ Cardinality(SimplifyNets(nets).moves) < Cardinality(Slots)
    BY <2>4, <2>5, EventFinite, SettlesWell
  <2> QED BY <2>2, <2>6 DEF nets, SimplifiedEvensOut
<1> QED BY <1>1, <1>2, EvenStays, Inductive, PTL DEF Spec
=============================================================================
