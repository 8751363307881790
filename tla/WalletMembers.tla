---------------------------- MODULE WalletMembers ----------------------------
(***************************************************************************)
(* Who shares a wallet (internal/modules/accounts: members, archive,       *)
(* delete), for one wallet.                                                *)
(*                                                                         *)
(* A request first checks, with reads on the connection pool, that the     *)
(* caller may do it; then it writes.  Nothing ties the two together: the   *)
(* write repeats only what its own WHERE clause says.  Accepting an invite *)
(* works under locks on the notice and the invitation, but it counts the   *)
(* members without locking them.                                           *)
(***************************************************************************)
EXTENDS Naturals, FiniteSets

CONSTANTS
  Users,
  Creator,     \* who made the wallet
  Requests,    \* HTTP requests in flight at once
  SentScopes,  \* report scopes the clients choose
  MaxInvites,  \* bound: account_members rows besides the creator's
  MaxRequests, \* bound: requests begun in a behaviour
  Nobody

ASSUME CreatorAssumption == Creator \in Users /\ Nobody \notin Users
ASSUME BoundsAssumption == MaxInvites \in Nat /\ MaxRequests \in Nat

Ids    == 0 .. MaxInvites
Scopes == {"none", "own", "all"}

ASSUME SentScopesAssumption == SentScopes \subseteq Scopes

\* joined_at / left_at: invited (neither), active (joined), left (both), void
\* (left without joining).
Phases == {"none", "invited", "active", "left", "void"}

NoMember == [user |-> Nobody, role |-> "member", scope |-> "none", phase |-> "none"]

Idle == [op |-> "idle", user |-> Nobody, member |-> 0, other |-> Nobody,
         scope |-> "none", auto |-> FALSE, count |-> 0]

VARIABLES
  member,   \* account_members, by id
  notice,   \* the invitation's notice in the invitee's inbox
  status,   \* accounts.status; "gone": deleted
  owner,    \* accounts.user_id
  request,  \* what each request slot is about to write
  raced,    \* history: a write landed although its check no longer held
  begun     \* requests begun

vars == <<member, notice, status, owner, request, raced, begun>>

Ops == {"idle", "invite", "join", "remove", "transfer", "scope", "archive", "restore", "delete"}

\* A row of account_members.
AccountMember ==
  [user : Users \cup {Nobody}, role : {"owner", "member"}, scope : Scopes, phase : Phases]

\* What a request remembers from its check to its write.
Request ==
  [op : Ops, user : Users \cup {Nobody}, member : Ids, other : Users \cup {Nobody},
   scope : Scopes, auto : BOOLEAN, count : 0 .. MaxInvites + 1]

TypeOK ==
  /\ member \in [Ids -> AccountMember]
  /\ notice \in [Ids -> {"none", "open", "actioned", "dismissed"}]
  /\ status \in {"active", "archived", "gone"}
  /\ owner \in Users
  /\ request \in [Requests -> Request]
  /\ raced \in BOOLEAN
  /\ begun \in 0 .. MaxRequests

-----------------------------------------------------------------------------
Live(m)   == member[m].phase \in {"invited", "active"}
Active    == {m \in Ids : member[m].phase = "active"}
LiveOf(u) == {m \in Ids : Live(m) /\ member[m].user = u}

IsActiveMember(u) == \E m \in Active : member[m].user = u
CanEdit(u) == \E m \in Active : member[m].user = u /\ member[m].role = "owner"

\* The membership that rules u's reports: the active one, else the latest.
GoverningMembership(u) ==
  LET joined == {m \in Ids : member[m].user = u /\ member[m].phase \in {"active", "left"}}
  IN {m \in joined : \/ m \in Active
                     \/ joined \cap Active = {} /\ \A n \in joined : n <= m}

\* An accept that is counting members holds the invitation's row lock.
RowLocked(m) == \E r \in Requests : request[r].op = "join" /\ request[r].member = m

Init ==
  /\ member = [m \in Ids |-> IF m = 0
       THEN [user |-> Creator, role |-> "owner", scope |-> "all", phase |-> "active"]
       ELSE NoMember]
  /\ notice = [m \in Ids |-> "none"]
  /\ status = "active"
  /\ owner = Creator
  /\ request = [r \in Requests |-> Idle]
  /\ raced = FALSE
  /\ begun = 0

-----------------------------------------------------------------------------
(* What each request checks before it writes.                              *)

\* Mutant: an owner may be removed or leave.
MayRemove_Owner(u, m) ==
  /\ IsActiveMember(u)
  /\ Live(m)
  /\ member[m].user = u \/ CanEdit(u)

\* Removing a member, leaving, or withdrawing an invitation.
MayRemove(u, m) ==
  /\ IsActiveMember(u)
  /\ Live(m)
  /\ member[m].role # "owner"
  /\ member[m].user = u \/ CanEdit(u)

Alone == Cardinality(Active) <= 1

Allowed(q) ==
  CASE q.op = "invite"   -> CanEdit(q.user) /\ q.other # q.user /\ LiveOf(q.other) = {}
    [] q.op = "join"     -> q.count = Cardinality(Active)
    [] q.op = "remove"   -> MayRemove(q.user, q.member)
    [] q.op = "transfer" -> CanEdit(q.user) /\ q.other # q.user /\ IsActiveMember(q.other)
    [] q.op = "scope"    -> q.member \in GoverningMembership(q.user)
                            /\ (member[q.member].phase = "left" => q.scope # "all")
    [] q.op = "archive"  -> CanEdit(q.user) /\ Alone
    [] q.op = "restore"  -> CanEdit(q.user)
    [] q.op = "delete"   -> CanEdit(q.user) /\ Alone
    [] OTHER -> FALSE

Begin(r, q) ==
  /\ request[r] = Idle
  /\ begun < MaxRequests
  /\ Allowed(q)
  /\ begun' = begun + 1
  /\ request' = [request EXCEPT ![r] = q]
  /\ UNCHANGED <<member, notice, status, owner, raced>>

\* auto: the invitee's auto-accept switch is on.
InviteMember(r, u) ==
  \E v \in Users, auto \in BOOLEAN :
    Begin(r, [Idle EXCEPT !.op = "invite", !.user = u, !.other = v, !.auto = auto])

RemoveMember(r, u) ==
  \E m \in Ids : Begin(r, [Idle EXCEPT !.op = "remove", !.user = u, !.member = m])

TransferOwnership(r, u) ==
  \E v \in Users : Begin(r, [Idle EXCEPT !.op = "transfer", !.user = u, !.other = v])

UpdateReportScope(r, u) ==
  \E m \in Ids, s \in SentScopes :
    Begin(r, [Idle EXCEPT !.op = "scope", !.user = u, !.member = m, !.scope = s])

ChangeWallet(r, u) ==
  \E op \in {"archive", "restore", "delete"} : Begin(r, [Idle EXCEPT !.op = op, !.user = u])

\* The invitee answers yes: notice and invitation are locked, members counted.
\* A notice that was dismissed takes no yes; one that only reads answered does.
AcceptInvite(r) ==
  \E m \in Ids :
    /\ notice[m] \in {"open", "actioned"}
    /\ member[m].phase = "invited"
    /\ ~RowLocked(m)
    /\ Begin(r, [Idle EXCEPT !.op = "join", !.user = member[m].user, !.member = m,
                             !.count = Cardinality(Active)])

-----------------------------------------------------------------------------
(* The writes.                                                             *)

\* The request of slot r, whose write takes effect now.
Landing(r, op) == request[r].op = op

Done(r) ==
  /\ request' = [request EXCEPT ![r] = Idle]
  /\ raced' = (raced \/ ~Allowed(request[r]))

Slot == {m \in Ids : member[m].phase = "none" /\ \A n \in 0 .. m - 1 : member[n].phase # "none"}

\* The invitation and its notice; with auto-accept the transaction goes on to
\* join, and its rows stay locked.
InsertMember(r) ==
  LET q == request[r] IN
    /\ Landing(r, "invite")
    /\ status # "gone"
    /\ LiveOf(q.other) = {}
    /\ \E m \in Slot :
         /\ member' = [member EXCEPT ![m] =
              [user |-> q.other, role |-> "member", scope |-> "none", phase |-> "invited"]]
         /\ raced' = (raced \/ ~Allowed(q))
         /\ IF q.auto
              THEN /\ request' = [request EXCEPT ![r] =
                        [Idle EXCEPT !.op = "join", !.user = q.other, !.member = m,
                                     !.count = Cardinality(Active)]]
                   /\ UNCHANGED notice
              ELSE /\ request' = [request EXCEPT ![r] = Idle]
                   /\ \E n \in {"open", "none"} : notice' = [notice EXCEPT ![m] = n]
    /\ UNCHANGED <<status, owner, begun>>

\* Mutant: a wallet that becomes shared keeps its owner's report scope.
joinTx_KeepsScopes(r) ==
  LET q == request[r] IN
    /\ Landing(r, "join")
    /\ member' = [member EXCEPT ![q.member].phase = "active", ![q.member].scope = "none"]
    /\ \E n \in {"actioned", notice[q.member]} :
         n # "open" /\ notice' = [notice EXCEPT ![q.member] = n]
    /\ Done(r)
    /\ UNCHANGED <<status, owner, begun>>

\* A wallet that was one member's alone goes back to scope none for everyone.
joinTx(r) ==
  LET q == request[r] IN
    /\ Landing(r, "join")
    /\ member' = [n \in Ids |->
         IF n = q.member THEN [member[n] EXCEPT !.phase = "active", !.scope = "none"]
         ELSE IF q.count = 1 /\ Live(n) THEN [member[n] EXCEPT !.scope = "none"]
         ELSE member[n]]
    /\ \E n \in {"actioned", notice[q.member]} :
         n # "open" /\ notice' = [notice EXCEPT ![q.member] = n]
    /\ Done(r)
    /\ UNCHANGED <<status, owner, begun>>

\* Mutant: a leaver keeps the report scope.
SoftRemoveMember_KeepsScope(r) ==
  LET q == request[r] IN
    /\ Landing(r, "remove")
    /\ Live(q.member)
    /\ ~RowLocked(q.member)
    /\ member' = [member EXCEPT ![q.member].phase = IF @ = "invited" THEN "void" ELSE "left"]
    /\ Done(r)
    /\ UNCHANGED <<notice, status, owner, begun>>

SoftRemoveMember(r) ==
  LET q == request[r] IN
    /\ Landing(r, "remove")
    /\ Live(q.member)
    /\ ~RowLocked(q.member)
    /\ member' = [member EXCEPT
         ![q.member].phase = IF @ = "invited" THEN "void" ELSE "left",
         ![q.member].scope = IF @ = "all" THEN "own" ELSE @]
    /\ Done(r)
    /\ UNCHANGED <<notice, status, owner, begun>>

\* Demote the caller, promote the target, move the wallet: one transaction.
TransferOwnershipTx(r) ==
  LET q == request[r] IN
    /\ Landing(r, "transfer")
    /\ IsActiveMember(q.other)
    /\ member' = [m \in Ids |->
         IF member[m].user = q.other /\ m \in Active THEN [member[m] EXCEPT !.role = "owner"]
         ELSE IF member[m].user = q.user /\ Live(m) THEN [member[m] EXCEPT !.role = "member"]
         ELSE member[m]]
    /\ owner' = q.other
    /\ Done(r)
    /\ UNCHANGED <<notice, status, begun>>

WriteReportScope(r) ==
  LET q == request[r] IN
    /\ Landing(r, "scope")
    /\ member[q.member].phase # "none"
    /\ member' = [member EXCEPT ![q.member].scope = q.scope]
    /\ Done(r)
    /\ UNCHANGED <<notice, status, owner, begun>>

Archive(r) ==
  /\ Landing(r, "archive")
  /\ status # "gone" /\ owner = request[r].user
  /\ status' = "archived"
  /\ Done(r)
  /\ UNCHANGED <<member, notice, owner, begun>>

Restore(r) ==
  /\ Landing(r, "restore")
  /\ status = "archived" /\ owner = request[r].user
  /\ status' = "active"
  /\ Done(r)
  /\ UNCHANGED <<member, notice, owner, begun>>

\* The memberships go with the wallet (ON DELETE CASCADE); notices stay.
Delete(r) ==
  /\ Landing(r, "delete")
  /\ status # "gone"
  /\ \A m \in Ids : ~RowLocked(m)
  /\ status' = "gone"
  /\ member' = [m \in Ids |-> NoMember]
  /\ Done(r)
  /\ UNCHANGED <<notice, owner, begun>>

\* The write finds no row, or a conflict: nothing changes.
Refused(r) ==
  LET q == request[r] IN
    /\ \/ q.op = "invite" /\ (status = "gone" \/ LiveOf(q.other) # {})
       \/ q.op = "remove" /\ ~Live(q.member)
       \/ q.op = "scope" /\ member[q.member].phase = "none"
       \/ q.op = "transfer" /\ ~IsActiveMember(q.other)
       \/ q.op \in {"archive", "restore"} /\ (status = "gone" \/ owner # q.user)
       \/ q.op = "restore" /\ status # "archived"
       \/ q.op = "delete" /\ status = "gone"
    /\ request' = [request EXCEPT ![r] = Idle]
    /\ UNCHANGED <<member, notice, status, owner, raced, begun>>

-----------------------------------------------------------------------------
(* The invitee's inbox.                                                    *)

\* Mutant: a late no dismisses the notice of an invitation that was accepted.
RejectInvite_AfterYes(m) ==
  /\ notice[m] # "none"
  /\ ~RowLocked(m)
  /\ notice' = [notice EXCEPT ![m] = "dismissed"]
  /\ member' = [member EXCEPT ![m].phase = IF @ = "invited" THEN "void" ELSE @]
  /\ UNCHANGED <<status, owner, request, raced, begun>>

\* The invitee answers no, or dismisses first and answers no later.
RejectInvite(m) ==
  /\ notice[m] \in {"open", "dismissed"}
  /\ ~RowLocked(m)
  /\ notice' = [notice EXCEPT ![m] = "dismissed"]
  /\ member' = [member EXCEPT ![m].phase = IF @ = "invited" THEN "void" ELSE @]
  /\ UNCHANGED <<status, owner, request, raced, begun>>

\* The invitee reads, dismisses, restores or deletes the notice, and answers
\* nothing: actioned and dismissed exclude each other.
ClearNotice(m) ==
  /\ ~RowLocked(m)
  /\ \E n \in CASE notice[m] = "open"      -> {"actioned", "dismissed", "none"}
                [] notice[m] = "dismissed" -> {"open", "none"}
                [] notice[m] = "actioned"  -> {"none"}
                [] notice[m] = "none"      -> {} :
       notice' = [notice EXCEPT ![m] = n]
  /\ UNCHANGED <<member, status, owner, request, raced, begun>>

Check(r, u) ==
  \/ InviteMember(r, u)
  \/ RemoveMember(r, u)
  \/ TransferOwnership(r, u)
  \/ UpdateReportScope(r, u)
  \/ ChangeWallet(r, u)

Write(r) ==
  \/ InsertMember(r)
  \/ joinTx(r)
  \/ SoftRemoveMember(r)
  \/ TransferOwnershipTx(r)
  \/ WriteReportScope(r)
  \/ Archive(r)
  \/ Restore(r)
  \/ Delete(r)
  \/ Refused(r)

Next ==
  \/ \E r \in Requests, u \in Users : Check(r, u)
  \/ \E r \in Requests : AcceptInvite(r) \/ Write(r)
  \/ \E m \in Ids : RejectInvite(m) \/ ClearNotice(m)

Spec == Init /\ [][Next]_vars

-----------------------------------------------------------------------------
\* The checks are enough: as long as every check still holds when its write
\* lands, a wallet has one live owner membership, it is active, and it is the
\* user accounts.user_id names.
OneOwner ==
  TypeOK /\ (~raced /\ status # "gone" =>
    {m \in Ids : Live(m) /\ member[m].role = "owner"} = {m \in Active : member[m].user = owner}
    /\ \E m \in Active : member[m].user = owner)

\* members_store.go:29, "ex-members may only use report_scope 'none' or 'own'".
ExMembersSeeOwn ==
  ~raced => \A m \in Ids : member[m].phase = "left" => member[m].scope # "all"

\* members_service.go:378: a wallet that becomes shared starts with report
\* scope none for everyone.
SharedStartsWithNoScopes ==
  [][~raced' /\ Cardinality(Active) = 1 /\ Cardinality(Active') = 2
       => \A m \in Active' : member'[m].scope = "none"]_vars

\* An invitation is answered once: when the invitee has joined, the notice
\* neither asks again nor says no, whatever the inbox did with it meanwhile.
NoticeAgreesWithMembership ==
  \A m \in Ids : member[m].phase \in {"active", "left"} => notice[m] \in {"actioned", "none"}
=============================================================================
