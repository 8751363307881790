------------------------ MODULE WalletMembersProofs -------------------------
(***************************************************************************)
(* Who shares a wallet, for any users, requests, scopes and bounds.  IInv  *)
(* is the inductive invariant: an invitation that is being accepted keeps  *)
(* its row, nobody has two live memberships, and from these follow the one *)
(* owner, the scopes of former members and the agreement of the notices.   *)
(***************************************************************************)
EXTENDS WalletMembers, TLAPS, FiniteSetTheorems

\* Whoever counts the members holds the row of a live invitation, alone.
JoinsHoldTheirRow ==
  \A r \in Requests : request[r].op = "join" =>
    /\ member[request[r].member].phase = "invited"
    /\ member[request[r].member].user = request[r].user
    /\ \A s \in Requests : request[s].op = "join" /\ request[s].member = request[r].member => s = r

\* idx_account_members_live_unique.
OneLiveEach ==
  \A m, n \in Ids : Live(m) /\ Live(n) /\ member[m].user = member[n].user => m = n

\* A notice comes with its invitation, and none that was dismissed is being accepted.
NoticesFollow ==
  /\ \A r \in Requests : request[r].op = "join" => notice[request[r].member] # "dismissed"
  /\ status # "gone" => \A m \in Ids : member[m].phase = "none" => notice[m] = "none"

OwnerIsOne ==
  ~raced /\ status # "gone" =>
    /\ \A m \in Ids : Live(m) /\ member[m].role = "owner" <=> m \in Active /\ member[m].user = owner
    /\ \E m \in Active : member[m].user = owner

\* A wallet is only ever handed to a user.
TargetsAreUsers == \A r \in Requests : request[r].op = "transfer" => request[r].other \in Users

IInv ==
  /\ TypeOK /\ TargetsAreUsers /\ JoinsHoldTheirRow /\ OneLiveEach /\ NoticesFollow
  /\ OwnerIsOne /\ ExMembersSeeOwn /\ NoticeAgreesWithMembership

-----------------------------------------------------------------------------
\* What a check may leave behind.
Asked == {q \in Request : q.op # "join" /\ (q.op = "transfer" => q.other \in Users)}

LEMMA IdleTyped == Idle \in Request /\ Idle.op = "idle"
  BY BoundsAssumption DEF Request, Idle, Ops, Ids, Scopes

\* Every step is a check that begins a request, an accept, one of the writes, or the inbox.
LEMMA StepKinds == TypeOK /\ [Next]_vars =>
  \/ \E r \in Requests :
       \/ \E q \in Asked : Begin(r, q)
       \/ AcceptInvite(r) \/ InsertMember(r) \/ joinTx(r) \/ SoftRemoveMember(r)
       \/ TransferOwnershipTx(r) \/ WriteReportScope(r) \/ (Archive(r) \/ Restore(r))
       \/ Delete(r) \/ Refused(r)
  \/ \E m \in Ids : RejectInvite(m) \/ ClearNotice(m)
  \/ UNCHANGED vars
<1> SUFFICES ASSUME TypeOK, NEW r \in Requests, NEW u \in Users, Check(r, u)
    PROVE \E q \in Asked : Begin(r, q)
  BY DEF Next, Write
<1> USE IdleTyped
<1>1. CASE InviteMember(r, u)
  <2>1. ASSUME NEW v \in Users, NEW b \in BOOLEAN
        PROVE  [Idle EXCEPT !.op = "invite", !.user = u, !.other = v, !.auto = b] \in Asked
    BY DEF Asked, Request, Ops
  <2> QED
    BY <1>1, <2>1 DEF InviteMember
<1>2. CASE RemoveMember(r, u)
  <2>1. ASSUME NEW m \in Ids PROVE [Idle EXCEPT !.op = "remove", !.user = u, !.member = m] \in Asked
    BY DEF Asked, Request, Ops
  <2> QED
    BY <1>2, <2>1 DEF RemoveMember
<1>3. CASE TransferOwnership(r, u)
  <2>1. ASSUME NEW v \in Users PROVE [Idle EXCEPT !.op = "transfer", !.user = u, !.other = v] \in Asked
    BY DEF Asked, Request, Ops
  <2> QED
    BY <1>3, <2>1 DEF TransferOwnership
<1>4. CASE UpdateReportScope(r, u)
  <2>1. ASSUME NEW m \in Ids, NEW s \in SentScopes
        PROVE  [Idle EXCEPT !.op = "scope", !.user = u, !.member = m, !.scope = s] \in Asked
    BY SentScopesAssumption DEF Asked, Request, Ops
  <2> QED
    BY <1>4, <2>1 DEF UpdateReportScope
<1>5. CASE ChangeWallet(r, u)
  <2>1. ASSUME NEW op \in {"archive", "restore", "delete"}
        PROVE  [Idle EXCEPT !.op = op, !.user = u] \in Asked
    BY DEF Asked, Request, Ops
  <2> QED
    BY <1>5, <2>1 DEF ChangeWallet
<1> QED
  BY <1>1, <1>2, <1>3, <1>4, <1>5 DEF Check

\* The members there are can be counted.
LEMMA MembersAreFew == IsFiniteSet(Active) /\ Cardinality(Active) \in 0 .. MaxInvites + 1
<1>1. IsFiniteSet(Ids) /\ Cardinality(Ids) = MaxInvites + 1
  BY BoundsAssumption, FS_Interval DEF Ids
<1>2. Active \subseteq Ids
  BY DEF Active
<1> QED
  BY <1>1, <1>2, FS_Subset, FS_CardinalityType, BoundsAssumption

\* What a counting accept remembers.
Answer(u, m, c) == [Idle EXCEPT !.op = "join", !.user = u, !.member = m, !.count = c]

LEMMA AnswerTyped ==
  ASSUME NEW u \in Users \cup {Nobody}, NEW m \in Ids, NEW c \in 0 .. MaxInvites + 1
  PROVE  /\ Answer(u, m, c) \in Request /\ Answer(u, m, c).op = "join"
         /\ Answer(u, m, c).user = u /\ Answer(u, m, c).member = m
  BY IdleTyped DEF Answer, Request, Ops

-----------------------------------------------------------------------------
(* What each step does, column by column.                                  *)

\* The other requests go on as they were.
OthersWait(r) == \A s \in Requests \ {r} : request'[s] = request[s]

\* The request of slot r ends, and tells whether its check still held.
Lands(r, op) ==
  /\ request[r].op = op /\ OthersWait(r) /\ request'[r].op = "idle"
  /\ ~raced' => ~raced /\ Allowed(request[r])

\* Of the rows, only x changes, and it keeps its user and role.
OnlyRow(x) ==
  /\ x \in Ids /\ \A n \in Ids \ {x} : member'[n] = member[n]
  /\ member'[x].user = member[x].user /\ member'[x].role = member[x].role

Starts(r) ==
  /\ OthersWait(r) /\ request'[r].op # "join"
  /\ request'[r].op = "transfer" => request'[r].other \in Users
  /\ UNCHANGED <<member, notice, status, owner, raced>>

Counts(r, x) ==
  /\ x \in Ids /\ notice[x] \in {"open", "actioned"} /\ member[x].phase = "invited" /\ ~RowLocked(x)
  /\ OthersWait(r) /\ request'[r].op = "join"
  /\ request'[r].member = x /\ request'[r].user = member[x].user
  /\ UNCHANGED <<member, notice, status, owner, raced>>

Asks(r, x) ==
  /\ request[r].op = "invite" /\ OthersWait(r) /\ status # "gone" /\ LiveOf(request[r].other) = {}
  /\ x \in Ids /\ member[x].phase = "none" /\ \A n \in Ids \ {x} : member'[n] = member[n]
  /\ member'[x].user = request[r].other /\ member'[x].role = "member"
  /\ member'[x].scope = "none" /\ member'[x].phase = "invited"
  /\ \A n \in Ids \ {x} : notice'[n] = notice[n]
  /\ \/ /\ request'[r].op = "join" /\ request'[r].member = x /\ request'[r].user = request[r].other
        /\ notice'[x] = notice[x]
     \/ request'[r].op = "idle" /\ notice'[x] \in {"open", "none"}
  /\ ~raced' => ~raced /\ Allowed(request[r])
  /\ UNCHANGED <<status, owner>>

Enters(r, x) ==
  /\ Lands(r, "join") /\ x = request[r].member /\ x \in Ids
  /\ \A n \in Ids :
       /\ member'[n].user = member[n].user /\ member'[n].role = member[n].role
       /\ member'[n].phase = (IF n = x THEN "active" ELSE member[n].phase)
       /\ member'[n].scope =
            (IF n = x \/ (request[r].count = 1 /\ Live(n)) THEN "none" ELSE member[n].scope)
  /\ \A n \in Ids \ {x} : notice'[n] = notice[n]
  /\ notice'[x] \in {"actioned", notice[x]} \ {"open"}
  /\ UNCHANGED <<status, owner>>

Leaves(r, x) ==
  /\ Lands(r, "remove") /\ x = request[r].member /\ Live(x) /\ ~RowLocked(x)
  /\ OnlyRow(x)
  /\ member'[x].phase = (IF member[x].phase = "invited" THEN "void" ELSE "left")
  /\ member'[x].scope # "all"
  /\ UNCHANGED <<notice, status, owner>>

HandsOn(r) ==
  /\ Lands(r, "transfer") /\ IsActiveMember(request[r].other)
  /\ \A n \in Ids :
       /\ member'[n].user = member[n].user /\ member'[n].scope = member[n].scope
       /\ member'[n].phase = member[n].phase
       /\ member'[n].role =
            (IF member[n].user = request[r].other /\ n \in Active THEN "owner"
             ELSE IF member[n].user = request[r].user /\ Live(n) THEN "member"
             ELSE member[n].role)
  /\ owner' = request[r].other
  /\ UNCHANGED <<notice, status>>

Rescopes(r, x) ==
  /\ Lands(r, "scope") /\ x = request[r].member
  /\ OnlyRow(x)
  /\ member'[x].phase = member[x].phase /\ member'[x].scope = request[r].scope
  /\ UNCHANGED <<notice, status, owner>>

Switches(r) ==
  /\ OthersWait(r) /\ request'[r].op = "idle" /\ status # "gone" /\ (~raced' => ~raced)
  /\ UNCHANGED <<member, notice, owner>>

Erases(r) ==
  /\ OthersWait(r) /\ request'[r].op = "idle" /\ status' = "gone" /\ (~raced' => ~raced)
  /\ \A s \in Requests : request[s].op # "join"
  /\ \A n \in Ids : member'[n] = NoMember
  /\ UNCHANGED <<notice, owner>>

GivesUp(r) ==
  /\ OthersWait(r) /\ request'[r].op = "idle"
  /\ UNCHANGED <<member, notice, status, owner, raced>>

SaysNo(x) ==
  /\ notice[x] \in {"open", "dismissed"} /\ ~RowLocked(x)
  /\ OnlyRow(x) /\ member'[x].scope = member[x].scope
  /\ member'[x].phase = (IF member[x].phase = "invited" THEN "void" ELSE member[x].phase)
  /\ \A n \in Ids \ {x} : notice'[n] = notice[n]
  /\ notice'[x] = "dismissed"
  /\ UNCHANGED <<status, owner, request, raced>>

Clears(x) ==
  /\ x \in Ids /\ ~RowLocked(x)
  /\ \A n \in Ids \ {x} : notice'[n] = notice[n]
  /\ notice[x] # "none" /\ (notice[x] = "actioned" => notice'[x] = "none")
  /\ UNCHANGED <<member, status, owner, request, raced>>

\* The columns a step leaves are typed.
StaysTyped ==
  /\ member' \in [Ids -> AccountMember] /\ request' \in [Requests -> Request]
  /\ notice' \in [Ids -> {"none", "open", "actioned", "dismissed"}]

LEMMA Landed ==
  ASSUME TypeOK, NEW r \in Requests, NEW op, Landing(r, op), Done(r)
  PROVE  Lands(r, op) /\ request' \in [Requests -> Request]
  BY IdleTyped DEF TypeOK, Done, Landing, Lands, OthersWait

LEMMA Started ==
  ASSUME TypeOK, NEW r \in Requests, NEW q \in Asked, Begin(r, q)
  PROVE  StaysTyped /\ Starts(r)
<1>1. q \in Request /\ q.op # "join" /\ (q.op = "transfer" => q.other \in Users)
  BY DEF Asked
<1> QED
  BY <1>1 DEF TypeOK, Begin, Starts, OthersWait, StaysTyped

LEMMA Counted ==
  ASSUME TypeOK, NEW r \in Requests, AcceptInvite(r)
  PROVE  StaysTyped /\ \E x : Counts(r, x)
<1>1. PICK x \in Ids :
        /\ notice[x] \in {"open", "actioned"} /\ member[x].phase = "invited" /\ ~RowLocked(x)
        /\ Begin(r, [Idle EXCEPT !.op = "join", !.user = member[x].user, !.member = x,
                                 !.count = Cardinality(Active)])
  BY DEF AcceptInvite
<1>2. member[x].user \in Users \cup {Nobody} /\ Cardinality(Active) \in 0 .. MaxInvites + 1
  BY MembersAreFew DEF TypeOK, AccountMember
<1> DEFINE q == Answer(member[x].user, x, Cardinality(Active))
<1>3. q \in Request /\ q.op = "join" /\ q.user = member[x].user /\ q.member = x
  BY <1>2, AnswerTyped
<1>4. Begin(r, q)
  BY <1>1 DEF Answer
<1> HIDE DEF q
<1> QED
  BY <1>1, <1>3, <1>4 DEF TypeOK, Begin, Counts, OthersWait, StaysTyped

LEMMA Invited ==
  ASSUME TypeOK, NEW r \in Requests, InsertMember(r)
  PROVE  StaysTyped /\ \E x : Asks(r, x)
<1>1. /\ member \in [Ids -> AccountMember] /\ request[r].other \in Users \cup {Nobody}
      /\ Cardinality(Active) \in 0 .. MaxInvites + 1
  BY MembersAreFew DEF TypeOK, Request
<1> DEFINE row == [user |-> request[r].other, role |-> "member", scope |-> "none", phase |-> "invited"]
           q(k) == Answer(request[r].other, k, Cardinality(Active))
<1>2. PICK x \in Slot :
        /\ member' = [member EXCEPT ![x] = row]
        /\ \/ request' = [request EXCEPT ![r] = q(x)] /\ notice' = notice
           \/ /\ request' = [request EXCEPT ![r] = Idle]
              /\ \E n \in {"open", "none"} : notice' = [notice EXCEPT ![x] = n]
  BY DEF InsertMember, Answer
<1>3. x \in Ids /\ member[x].phase = "none"
  BY DEF Slot
<1>4. /\ q(x) \in Request /\ q(x).op = "join" /\ q(x).user = request[r].other /\ q(x).member = x
  <2> PICK u \in Users \cup {Nobody}, c \in 0 .. MaxInvites + 1 :
         u = request[r].other /\ c = Cardinality(Active)
    BY <1>1
  <2> QED
    BY <1>3, AnswerTyped
<1>5. /\ row \in AccountMember /\ row.user = request[r].other /\ row.role = "member"
      /\ row.scope = "none" /\ row.phase = "invited"
  BY <1>1 DEF AccountMember, Scopes, Phases
<1>6. /\ request[r].op = "invite" /\ status # "gone" /\ LiveOf(request[r].other) = {}
      /\ (~raced' => ~raced /\ Allowed(request[r])) /\ UNCHANGED <<status, owner>>
  BY DEF InsertMember, Landing
<1> HIDE DEF row, q
<1>7. /\ OthersWait(r) /\ request' \in [Requests -> Request]
      /\ notice' \in [Ids -> {"none", "open", "actioned", "dismissed"}]
      /\ \A n \in Ids \ {x} : notice'[n] = notice[n]
      /\ \/ /\ request'[r].op = "join" /\ request'[r].member = x /\ request'[r].user = request[r].other
            /\ notice'[x] = notice[x]
         \/ request'[r].op = "idle" /\ notice'[x] \in {"open", "none"}
  BY <1>2, <1>3, <1>4, IdleTyped DEF TypeOK, OthersWait
<1>8. /\ member' \in [Ids -> AccountMember] /\ member'[x] = row
      /\ \A n \in Ids \ {x} : member'[n] = member[n]
  BY <1>1, <1>2, <1>3, <1>5
<1> QED
  BY <1>3, <1>5, <1>6, <1>7, <1>8 DEF Asks, StaysTyped

LEMMA Joined ==
  ASSUME TypeOK, NEW r \in Requests, joinTx(r)
  PROVE  StaysTyped /\ \E x : Enters(r, x)
<1> PICK x : x = request[r].member
  OBVIOUS
<1> DEFINE in(n)  == [member[n] EXCEPT !.phase = "active", !.scope = "none"]
           out(n) == [member[n] EXCEPT !.scope = "none"]
<1>1. x \in Ids /\ member \in [Ids -> AccountMember]
  BY DEF TypeOK, Request
<1>2. ASSUME NEW n \in Ids
      PROVE  /\ in(n) \in AccountMember /\ in(n).role = member[n].role /\ in(n).user = member[n].user
             /\ in(n).scope = "none" /\ in(n).phase = "active"
  BY <1>1 DEF AccountMember, Scopes, Phases
<1>3. ASSUME NEW n \in Ids
      PROVE  /\ out(n) \in AccountMember /\ out(n).role = member[n].role /\ out(n).user = member[n].user
             /\ out(n).scope = "none" /\ out(n).phase = member[n].phase
  BY <1>1 DEF AccountMember, Scopes
<1>4. member' = [n \in Ids |-> IF n = x THEN in(n)
                               ELSE IF request[r].count = 1 /\ Live(n) THEN out(n) ELSE member[n]]
  BY DEF joinTx
<1>5. PICK n \in {"actioned", notice[x]} : n # "open" /\ notice' = [notice EXCEPT ![x] = n]
  BY DEF joinTx
<1>6. Lands(r, "join") /\ request' \in [Requests -> Request] /\ UNCHANGED <<status, owner>>
  BY Landed DEF joinTx
<1>7. /\ notice' \in [Ids -> {"none", "open", "actioned", "dismissed"}]
      /\ \A k \in Ids \ {x} : notice'[k] = notice[k]
      /\ notice'[x] \in {"actioned", notice[x]} \ {"open"}
  BY <1>1, <1>5 DEF TypeOK
<1> HIDE DEF in, out
<1>8. /\ member' \in [Ids -> AccountMember]
      /\ \A k \in Ids :
           /\ member'[k].user = member[k].user /\ member'[k].role = member[k].role
           /\ member'[k].phase = (IF k = x THEN "active" ELSE member[k].phase)
           /\ member'[k].scope =
                (IF k = x \/ (request[r].count = 1 /\ Live(k)) THEN "none" ELSE member[k].scope)
  BY <1>1, <1>2, <1>3, <1>4
<1> QED
  BY <1>1, <1>6, <1>7, <1>8 DEF Enters, StaysTyped

LEMMA Removed ==
  ASSUME TypeOK, NEW r \in Requests, SoftRemoveMember(r)
  PROVE  StaysTyped /\ \E x : Leaves(r, x)
<1> PICK x : x = request[r].member
  OBVIOUS
<1> DEFINE p == IF member[x].phase = "invited" THEN "void" ELSE "left"
           s == IF member[x].scope = "all" THEN "own" ELSE member[x].scope
<1>1. x \in Ids /\ member \in [Ids -> AccountMember]
  BY DEF TypeOK, Request
<1>2. member' = [member EXCEPT ![x].phase = p, ![x].scope = s]
  BY DEF SoftRemoveMember
<1>3. p \in Phases /\ s \in Scopes /\ s # "all"
  BY <1>1 DEF AccountMember, Phases, Scopes
<1>4. /\ Lands(r, "remove") /\ request' \in [Requests -> Request] /\ Live(x) /\ ~RowLocked(x)
      /\ UNCHANGED <<notice, status, owner>>
  BY Landed DEF SoftRemoveMember
<1> HIDE DEF p, s
<1>5. /\ member' \in [Ids -> AccountMember] /\ OnlyRow(x)
      /\ member'[x].phase = p /\ member'[x].scope = s
  BY <1>1, <1>2, <1>3 DEF AccountMember, OnlyRow
<1> QED
  BY <1>3, <1>4, <1>5 DEF p, Leaves, StaysTyped, TypeOK

LEMMA Rescoped ==
  ASSUME TypeOK, NEW r \in Requests, WriteReportScope(r)
  PROVE  StaysTyped /\ \E x : Rescopes(r, x)
<1> PICK x : x = request[r].member
  OBVIOUS
<1> PICK s : s = request[r].scope
  OBVIOUS
<1>1. x \in Ids /\ s \in Scopes /\ member \in [Ids -> AccountMember]
  BY DEF TypeOK, Request
<1>2. member' = [member EXCEPT ![x].scope = s]
  BY DEF WriteReportScope
<1>3. /\ Lands(r, "scope") /\ request' \in [Requests -> Request] /\ UNCHANGED <<notice, status, owner>>
  BY Landed DEF WriteReportScope
<1>4. /\ member' \in [Ids -> AccountMember] /\ OnlyRow(x)
      /\ member'[x].phase = member[x].phase /\ member'[x].scope = s
  BY <1>1, <1>2 DEF AccountMember, OnlyRow
<1> QED
  BY <1>3, <1>4 DEF Rescopes, StaysTyped, TypeOK

LEMMA Transferred ==
  ASSUME TypeOK, NEW r \in Requests, TransferOwnershipTx(r)
  PROVE  StaysTyped /\ HandsOn(r)
<1> DEFINE owning(n) == [member[n] EXCEPT !.role = "owner"]
           plain(n)  == [member[n] EXCEPT !.role = "member"]
<1>1. member \in [Ids -> AccountMember]
  BY DEF TypeOK
<1>2. ASSUME NEW n \in Ids
      PROVE  /\ owning(n) \in AccountMember /\ owning(n).role = "owner" /\ owning(n).user = member[n].user
             /\ owning(n).scope = member[n].scope /\ owning(n).phase = member[n].phase
  BY <1>1 DEF AccountMember
<1>3. ASSUME NEW n \in Ids
      PROVE  /\ plain(n) \in AccountMember /\ plain(n).role = "member" /\ plain(n).user = member[n].user
             /\ plain(n).scope = member[n].scope /\ plain(n).phase = member[n].phase
  BY <1>1 DEF AccountMember
<1>4. member' = [n \in Ids |->
         IF member[n].user = request[r].other /\ n \in Active THEN owning(n)
         ELSE IF member[n].user = request[r].user /\ Live(n) THEN plain(n)
         ELSE member[n]]
  BY DEF TransferOwnershipTx
<1>5. /\ Lands(r, "transfer") /\ request' \in [Requests -> Request] /\ IsActiveMember(request[r].other)
      /\ owner' = request[r].other /\ UNCHANGED <<notice, status>>
  BY Landed DEF TransferOwnershipTx
<1> HIDE DEF owning, plain
<1>6. /\ member' \in [Ids -> AccountMember]
      /\ \A n \in Ids :
           /\ member'[n].user = member[n].user /\ member'[n].scope = member[n].scope
           /\ member'[n].phase = member[n].phase
           /\ member'[n].role =
                (IF member[n].user = request[r].other /\ n \in Active THEN "owner"
                 ELSE IF member[n].user = request[r].user /\ Live(n) THEN "member"
                 ELSE member[n].role)
  BY <1>1, <1>2, <1>3, <1>4
<1> QED
  BY <1>5, <1>6 DEF HandsOn, StaysTyped, TypeOK

LEMMA Switched ==
  ASSUME TypeOK, NEW r \in Requests, Archive(r) \/ Restore(r)
  PROVE  StaysTyped /\ Switches(r)
<1>1. ASSUME NEW op, Landing(r, op), Done(r)
      PROVE  OthersWait(r) /\ request'[r].op = "idle" /\ (~raced' => ~raced)
             /\ request' \in [Requests -> Request]
  BY <1>1, Landed DEF Lands
<1> QED
  BY <1>1 DEF Archive, Restore, Switches, StaysTyped, TypeOK

LEMMA Deleted ==
  ASSUME TypeOK, NEW r \in Requests, Delete(r)
  PROVE  StaysTyped /\ Erases(r)
<1>1. Lands(r, "delete") /\ request' \in [Requests -> Request]
  BY Landed DEF Delete
<1>2. NoMember \in AccountMember
  BY DEF NoMember, AccountMember, Scopes, Phases
<1>3. member' = [n \in Ids |-> NoMember] /\ status' = "gone" /\ UNCHANGED <<notice, owner>>
  BY DEF Delete
<1>4. ASSUME NEW s \in Requests PROVE request[s].op # "join"
  <2>1. request[s].member \in Ids
    BY DEF TypeOK, Request
  <2> QED
    BY <2>1 DEF Delete, RowLocked
<1> HIDE DEF NoMember
<1> QED
  BY <1>1, <1>2, <1>3, <1>4 DEF Lands, Erases, StaysTyped, TypeOK

LEMMA GaveUp ==
  ASSUME TypeOK, NEW r \in Requests, Refused(r)
  PROVE  StaysTyped /\ GivesUp(r)
<1>1. request' = [request EXCEPT ![r] = Idle] /\ UNCHANGED <<member, notice, status, owner, raced>>
  BY DEF Refused
<1> QED
  BY <1>1, IdleTyped DEF GivesUp, OthersWait, StaysTyped, TypeOK

LEMMA SaidNo ==
  ASSUME TypeOK, NEW x \in Ids, RejectInvite(x)
  PROVE  StaysTyped /\ SaysNo(x)
<1> DEFINE p == IF member[x].phase = "invited" THEN "void" ELSE member[x].phase
<1>1. member \in [Ids -> AccountMember]
  BY DEF TypeOK
<1>2. member' = [member EXCEPT ![x].phase = p]
  BY DEF RejectInvite
<1>3. p \in Phases
  BY <1>1 DEF AccountMember, Phases
<1>4. /\ notice[x] \in {"open", "dismissed"} /\ ~RowLocked(x)
      /\ notice' = [notice EXCEPT ![x] = "dismissed"] /\ UNCHANGED <<status, owner, request, raced>>
  BY DEF RejectInvite
<1> HIDE DEF p
<1>5. /\ member' \in [Ids -> AccountMember] /\ OnlyRow(x)
      /\ member'[x].scope = member[x].scope /\ member'[x].phase = p
  BY <1>1, <1>2, <1>3 DEF AccountMember, OnlyRow
<1>6. /\ notice' \in [Ids -> {"none", "open", "actioned", "dismissed"}] /\ notice'[x] = "dismissed"
      /\ \A n \in Ids \ {x} : notice'[n] = notice[n]
  BY <1>4 DEF TypeOK
<1> QED
  BY <1>4, <1>5, <1>6 DEF p, SaysNo, StaysTyped, TypeOK

LEMMA Cleared ==
  ASSUME TypeOK, NEW x \in Ids, ClearNotice(x)
  PROVE  StaysTyped /\ Clears(x)
  BY DEF ClearNotice, Clears, StaysTyped, TypeOK

\* Every step has one of these effects, and leaves typed columns.
LEMMA Effects == TypeOK /\ [Next]_vars =>
  /\ StaysTyped
  /\ \/ \E r \in Requests :
          \/ Starts(r) \/ HandsOn(r) \/ Switches(r) \/ Erases(r) \/ GivesUp(r)
          \/ \E x : Counts(r, x) \/ Asks(r, x) \/ Enters(r, x) \/ Leaves(r, x) \/ Rescopes(r, x)
     \/ \E x \in Ids : SaysNo(x) \/ Clears(x)
     \/ UNCHANGED vars
  BY StepKinds, Started, Counted, Invited, Joined, Removed, Rescoped, Transferred, Switched,
     Deleted, GaveUp, SaidNo, Cleared DEF vars, StaysTyped, TypeOK

-----------------------------------------------------------------------------
(* The invariant, part by part.                                            *)

LEMMA TypeKept == IInv /\ [Next]_vars => TypeOK'
<1> SUFFICES ASSUME IInv, [Next]_vars PROVE TypeOK'
  OBVIOUS
<1>1. StaysTyped
  BY Effects DEF IInv
<1>2. status' \in {"active", "archived", "gone"}
  BY StepKinds DEF IInv, TypeOK, Begin, AcceptInvite, InsertMember, joinTx, SoftRemoveMember,
     TransferOwnershipTx, WriteReportScope, Archive, Restore, Delete, Refused, RejectInvite, ClearNotice, vars
<1>3. owner' \in Users
  BY Effects DEF IInv, TypeOK, TargetsAreUsers, Starts, HandsOn, Lands, Switches, Erases, GivesUp,
     Counts, Asks, Enters, Leaves, Rescopes, SaysNo, Clears, vars
<1>4. raced' \in BOOLEAN
  BY StepKinds DEF IInv, TypeOK, Begin, AcceptInvite, InsertMember, joinTx, SoftRemoveMember,
     TransferOwnershipTx, WriteReportScope, Archive, Restore, Delete, Refused, RejectInvite, ClearNotice,
     Done, vars
<1>5. begun' \in 0 .. MaxRequests
  <2>1. begun \in 0 .. MaxRequests /\ (begun < MaxRequests => begun + 1 \in 0 .. MaxRequests)
    BY BoundsAssumption DEF IInv, TypeOK
  <2>2. begun' = begun \/ (begun < MaxRequests /\ begun' = begun + 1)
    BY StepKinds DEF IInv, Begin, AcceptInvite, InsertMember, joinTx, SoftRemoveMember,
       TransferOwnershipTx, WriteReportScope, Archive, Restore, Delete, Refused, RejectInvite, ClearNotice, vars
  <2> QED
    BY <2>1, <2>2
<1> QED
  BY <1>1, <1>2, <1>3, <1>4, <1>5 DEF TypeOK, StaysTyped

\* What the requests name is typed.
LEMMA Named == TypeOK => \A r \in Requests : request[r].member \in Ids
  BY DEF TypeOK, Request

\* A request that hands the wallet on names a user.
LEMMA TargetsKept == IInv /\ [Next]_vars => TargetsAreUsers'
<1> SUFFICES ASSUME IInv, [Next]_vars PROVE TargetsAreUsers'
  OBVIOUS
<1>0. TargetsAreUsers
  BY DEF IInv
<1> USE <1>0 DEF TargetsAreUsers
<1>1. ASSUME NEW r \in Requests, Starts(r) PROVE TargetsAreUsers'
  BY <1>1 DEF Starts, OthersWait
<1>2. ASSUME NEW r \in Requests, NEW x, Counts(r, x) PROVE TargetsAreUsers'
  BY <1>2 DEF Counts, OthersWait
<1>3. ASSUME NEW r \in Requests, NEW x, Asks(r, x) PROVE TargetsAreUsers'
  BY <1>3 DEF Asks, OthersWait
<1>4. ASSUME NEW r \in Requests, NEW x, Enters(r, x) PROVE TargetsAreUsers'
  BY <1>4 DEF Enters, Lands, OthersWait
<1>5. ASSUME NEW r \in Requests, NEW x, Leaves(r, x) PROVE TargetsAreUsers'
  BY <1>5 DEF Leaves, Lands, OnlyRow, OthersWait
<1>6. ASSUME NEW r \in Requests, HandsOn(r) PROVE TargetsAreUsers'
  BY <1>6 DEF HandsOn, Lands, OthersWait
<1>7. ASSUME NEW r \in Requests, NEW x, Rescopes(r, x) PROVE TargetsAreUsers'
  BY <1>7 DEF Rescopes, Lands, OnlyRow, OthersWait
<1>8. ASSUME NEW r \in Requests, Switches(r) PROVE TargetsAreUsers'
  BY <1>8 DEF Switches, OthersWait
<1>9. ASSUME NEW r \in Requests, Erases(r) PROVE TargetsAreUsers'
  BY <1>9 DEF Erases, OthersWait
<1>10. ASSUME NEW r \in Requests, GivesUp(r) PROVE TargetsAreUsers'
  BY <1>10 DEF GivesUp, OthersWait
<1>11. ASSUME NEW x \in Ids, SaysNo(x) PROVE TargetsAreUsers'
  BY <1>11 DEF SaysNo, OnlyRow
<1>12. ASSUME NEW x \in Ids, Clears(x) PROVE TargetsAreUsers'
  BY <1>12 DEF Clears
<1>13. ASSUME UNCHANGED vars PROVE TargetsAreUsers'
  BY <1>13 DEF vars
<1> QED
  BY Effects, <1>1, <1>2, <1>3, <1>4, <1>5, <1>6, <1>7, <1>8, <1>9, <1>10, <1>11, <1>12, <1>13 DEF IInv

\* Nobody touches the row of an invitation that is being accepted.
LEMMA JoinsKept == IInv /\ [Next]_vars => JoinsHoldTheirRow'
<1> SUFFICES ASSUME IInv, [Next]_vars PROVE JoinsHoldTheirRow'
  OBVIOUS
<1>0. JoinsHoldTheirRow /\ TypeOK
  BY DEF IInv
<1> USE <1>0, Named DEF JoinsHoldTheirRow, RowLocked
<1>1. ASSUME NEW r \in Requests, Starts(r) PROVE JoinsHoldTheirRow'
  BY <1>1 DEF Starts, OthersWait
<1>2. ASSUME NEW r \in Requests, NEW x, Counts(r, x) PROVE JoinsHoldTheirRow'
  BY <1>2 DEF Counts, OthersWait
<1>3. ASSUME NEW r \in Requests, NEW x, Asks(r, x) PROVE JoinsHoldTheirRow'
  BY <1>3 DEF Asks, OthersWait
<1>4. ASSUME NEW r \in Requests, NEW x, Enters(r, x) PROVE JoinsHoldTheirRow'
  BY <1>4 DEF Enters, Lands, OthersWait
<1>5. ASSUME NEW r \in Requests, NEW x, Leaves(r, x) PROVE JoinsHoldTheirRow'
  BY <1>5 DEF Leaves, Lands, OnlyRow, OthersWait
<1>6. ASSUME NEW r \in Requests, HandsOn(r) PROVE JoinsHoldTheirRow'
  BY <1>6 DEF HandsOn, Lands, OthersWait
<1>7. ASSUME NEW r \in Requests, NEW x, Rescopes(r, x) PROVE JoinsHoldTheirRow'
  BY <1>7 DEF Rescopes, Lands, OnlyRow, OthersWait
<1>8. ASSUME NEW r \in Requests, Switches(r) PROVE JoinsHoldTheirRow'
  BY <1>8 DEF Switches, OthersWait
<1>9. ASSUME NEW r \in Requests, Erases(r) PROVE JoinsHoldTheirRow'
  BY <1>9 DEF Erases, OthersWait
<1>10. ASSUME NEW r \in Requests, GivesUp(r) PROVE JoinsHoldTheirRow'
  BY <1>10 DEF GivesUp, OthersWait
<1>11. ASSUME NEW x \in Ids, SaysNo(x) PROVE JoinsHoldTheirRow'
  BY <1>11 DEF SaysNo, OnlyRow
<1>12. ASSUME NEW x \in Ids, Clears(x) PROVE JoinsHoldTheirRow'
  BY <1>12 DEF Clears
<1>13. ASSUME UNCHANGED vars PROVE JoinsHoldTheirRow'
  BY <1>13 DEF vars
<1> QED
  BY Effects, <1>1, <1>2, <1>3, <1>4, <1>5, <1>6, <1>7, <1>8, <1>9, <1>10, <1>11, <1>12, <1>13 DEF IInv

\* Nobody gets a second live membership.
LEMMA LiveKept == IInv /\ [Next]_vars => OneLiveEach'
<1> SUFFICES ASSUME IInv, [Next]_vars PROVE OneLiveEach'
  OBVIOUS
<1>0. OneLiveEach /\ TypeOK /\ JoinsHoldTheirRow
  BY DEF IInv
<1> USE <1>0, Named DEF OneLiveEach, Live, LiveOf
<1>1. ASSUME NEW r \in Requests, Starts(r) PROVE OneLiveEach'
  BY <1>1 DEF Starts
<1>2. ASSUME NEW r \in Requests, NEW x, Counts(r, x) PROVE OneLiveEach'
  BY <1>2 DEF Counts
<1>3. ASSUME NEW r \in Requests, NEW x, Asks(r, x) PROVE OneLiveEach'
  BY <1>3 DEF Asks
<1>4. ASSUME NEW r \in Requests, NEW x, Enters(r, x) PROVE OneLiveEach'
  BY <1>4 DEF Enters, Lands, JoinsHoldTheirRow
<1>5. ASSUME NEW r \in Requests, NEW x, Leaves(r, x) PROVE OneLiveEach'
  BY <1>5 DEF Leaves, Lands, OnlyRow
<1>6. ASSUME NEW r \in Requests, HandsOn(r) PROVE OneLiveEach'
  BY <1>6 DEF HandsOn, Lands
<1>7. ASSUME NEW r \in Requests, NEW x, Rescopes(r, x) PROVE OneLiveEach'
  BY <1>7 DEF Rescopes, Lands, OnlyRow
<1>8. ASSUME NEW r \in Requests, Switches(r) PROVE OneLiveEach'
  BY <1>8 DEF Switches
<1>9. ASSUME NEW r \in Requests, Erases(r) PROVE OneLiveEach'
  BY <1>9 DEF Erases, NoMember
<1>10. ASSUME NEW r \in Requests, GivesUp(r) PROVE OneLiveEach'
  BY <1>10 DEF GivesUp
<1>11. ASSUME NEW x \in Ids, SaysNo(x) PROVE OneLiveEach'
  BY <1>11 DEF SaysNo, OnlyRow
<1>12. ASSUME NEW x \in Ids, Clears(x) PROVE OneLiveEach'
  BY <1>12 DEF Clears
<1>13. ASSUME UNCHANGED vars PROVE OneLiveEach'
  BY <1>13 DEF vars
<1> QED
  BY Effects, <1>1, <1>2, <1>3, <1>4, <1>5, <1>6, <1>7, <1>8, <1>9, <1>10, <1>11, <1>12, <1>13 DEF IInv

\* No notice is dismissed while its invitation is being accepted.
LEMMA NoticesKept == IInv /\ [Next]_vars => NoticesFollow'
<1> SUFFICES ASSUME IInv, [Next]_vars PROVE NoticesFollow'
  OBVIOUS
<1>0. NoticesFollow /\ TypeOK /\ JoinsHoldTheirRow
  BY DEF IInv
<1> USE <1>0, Named DEF NoticesFollow, RowLocked
<1>1. ASSUME NEW r \in Requests, Starts(r) PROVE NoticesFollow'
  BY <1>1 DEF Starts, OthersWait
<1>2. ASSUME NEW r \in Requests, NEW x, Counts(r, x) PROVE NoticesFollow'
  BY <1>2 DEF Counts, OthersWait
<1>3. ASSUME NEW r \in Requests, NEW x, Asks(r, x) PROVE NoticesFollow'
  BY <1>3 DEF Asks, OthersWait
<1>4. ASSUME NEW r \in Requests, NEW x, Enters(r, x) PROVE NoticesFollow'
  BY <1>4 DEF Enters, Lands, OthersWait
<1>5. ASSUME NEW r \in Requests, NEW x, Leaves(r, x) PROVE NoticesFollow'
  BY <1>5 DEF Leaves, Lands, OnlyRow, OthersWait
<1>6. ASSUME NEW r \in Requests, HandsOn(r) PROVE NoticesFollow'
  BY <1>6 DEF HandsOn, Lands, OthersWait
<1>7. ASSUME NEW r \in Requests, NEW x, Rescopes(r, x) PROVE NoticesFollow'
  BY <1>7 DEF Rescopes, Lands, OnlyRow, OthersWait
<1>8. ASSUME NEW r \in Requests, Switches(r) PROVE NoticesFollow'
  BY <1>8 DEF Switches, OthersWait
<1>9. ASSUME NEW r \in Requests, Erases(r) PROVE NoticesFollow'
  BY <1>9 DEF Erases, OthersWait
<1>10. ASSUME NEW r \in Requests, GivesUp(r) PROVE NoticesFollow'
  BY <1>10 DEF GivesUp, OthersWait
<1>11. ASSUME NEW x \in Ids, SaysNo(x) PROVE NoticesFollow'
  BY <1>11 DEF SaysNo, OnlyRow
<1>12. ASSUME NEW x \in Ids, Clears(x) PROVE NoticesFollow'
  BY <1>12 DEF Clears
<1>13. ASSUME UNCHANGED vars PROVE NoticesFollow'
  BY <1>13 DEF vars
<1> QED
  BY Effects, <1>1, <1>2, <1>3, <1>4, <1>5, <1>6, <1>7, <1>8, <1>9, <1>10, <1>11, <1>12, <1>13 DEF IInv

\* Whoever has joined has no notice left to answer.
LEMMA AgreementKept == IInv /\ [Next]_vars => NoticeAgreesWithMembership'
<1> SUFFICES ASSUME IInv, [Next]_vars PROVE NoticeAgreesWithMembership'
  OBVIOUS
<1>0. NoticeAgreesWithMembership /\ TypeOK /\ NoticesFollow
  BY DEF IInv
<1> USE <1>0 DEF NoticeAgreesWithMembership
<1>1. ASSUME NEW r \in Requests, Starts(r) PROVE NoticeAgreesWithMembership'
  BY <1>1 DEF Starts
<1>2. ASSUME NEW r \in Requests, NEW x, Counts(r, x) PROVE NoticeAgreesWithMembership'
  BY <1>2 DEF Counts
<1>3. ASSUME NEW r \in Requests, NEW x, Asks(r, x) PROVE NoticeAgreesWithMembership'
  BY <1>3 DEF Asks
<1>4. ASSUME NEW r \in Requests, NEW x, Enters(r, x) PROVE NoticeAgreesWithMembership'
  BY <1>4 DEF Enters, Lands, NoticesFollow, TypeOK
<1>5. ASSUME NEW r \in Requests, NEW x, Leaves(r, x) PROVE NoticeAgreesWithMembership'
  BY <1>5 DEF Leaves, Live, OnlyRow
<1>6. ASSUME NEW r \in Requests, HandsOn(r) PROVE NoticeAgreesWithMembership'
  BY <1>6 DEF HandsOn, Lands
<1>7. ASSUME NEW r \in Requests, NEW x, Rescopes(r, x) PROVE NoticeAgreesWithMembership'
  BY <1>7 DEF Rescopes, Lands, OnlyRow
<1>8. ASSUME NEW r \in Requests, Switches(r) PROVE NoticeAgreesWithMembership'
  BY <1>8 DEF Switches
<1>9. ASSUME NEW r \in Requests, Erases(r) PROVE NoticeAgreesWithMembership'
  BY <1>9 DEF Erases, NoMember
<1>10. ASSUME NEW r \in Requests, GivesUp(r) PROVE NoticeAgreesWithMembership'
  BY <1>10 DEF GivesUp
<1>11. ASSUME NEW x \in Ids, SaysNo(x) PROVE NoticeAgreesWithMembership'
  BY <1>11 DEF SaysNo, OnlyRow
<1>12. ASSUME NEW x \in Ids, Clears(x) PROVE NoticeAgreesWithMembership'
  BY <1>12 DEF Clears
<1>13. ASSUME UNCHANGED vars PROVE NoticeAgreesWithMembership'
  BY <1>13 DEF vars
<1> QED
  BY Effects, <1>1, <1>2, <1>3, <1>4, <1>5, <1>6, <1>7, <1>8, <1>9, <1>10, <1>11, <1>12, <1>13 DEF IInv

\* Nobody who left sees everything.
LEMMA ScopesKept == IInv /\ [Next]_vars => ExMembersSeeOwn'
<1> SUFFICES ASSUME IInv, [Next]_vars PROVE ExMembersSeeOwn'
  OBVIOUS
<1>0. ExMembersSeeOwn
  BY DEF IInv
<1> USE <1>0 DEF ExMembersSeeOwn
<1>1. ASSUME NEW r \in Requests, Starts(r) PROVE ExMembersSeeOwn'
  BY <1>1 DEF Starts
<1>2. ASSUME NEW r \in Requests, NEW x, Counts(r, x) PROVE ExMembersSeeOwn'
  BY <1>2 DEF Counts
<1>3. ASSUME NEW r \in Requests, NEW x, Asks(r, x) PROVE ExMembersSeeOwn'
  BY <1>3 DEF Asks
<1>4. ASSUME NEW r \in Requests, NEW x, Enters(r, x) PROVE ExMembersSeeOwn'
  BY <1>4 DEF Enters, Lands
<1>5. ASSUME NEW r \in Requests, NEW x, Leaves(r, x) PROVE ExMembersSeeOwn'
  BY <1>5 DEF Leaves, Lands, OnlyRow
<1>6. ASSUME NEW r \in Requests, HandsOn(r) PROVE ExMembersSeeOwn'
  BY <1>6 DEF HandsOn, Lands
<1>7. ASSUME NEW r \in Requests, NEW x, Rescopes(r, x) PROVE ExMembersSeeOwn'
  <2>1. ~raced' /\ member[x].phase = "left" => request[r].scope # "all"
    BY <1>7 DEF Rescopes, Lands, Allowed
  <2> QED
    BY <1>7, <2>1 DEF Rescopes, Lands, OnlyRow
<1>8. ASSUME NEW r \in Requests, Switches(r) PROVE ExMembersSeeOwn'
  BY <1>8 DEF Switches
<1>9. ASSUME NEW r \in Requests, Erases(r) PROVE ExMembersSeeOwn'
  BY <1>9 DEF Erases, NoMember
<1>10. ASSUME NEW r \in Requests, GivesUp(r) PROVE ExMembersSeeOwn'
  BY <1>10 DEF GivesUp
<1>11. ASSUME NEW x \in Ids, SaysNo(x) PROVE ExMembersSeeOwn'
  BY <1>11 DEF SaysNo, OnlyRow
<1>12. ASSUME NEW x \in Ids, Clears(x) PROVE ExMembersSeeOwn'
  BY <1>12 DEF Clears
<1>13. ASSUME UNCHANGED vars PROVE ExMembersSeeOwn'
  BY <1>13 DEF vars
<1> QED
  BY Effects, <1>1, <1>2, <1>3, <1>4, <1>5, <1>6, <1>7, <1>8, <1>9, <1>10, <1>11, <1>12, <1>13 DEF IInv

\* While every check still held at its write, the owner's is the one live owner membership.
LEMMA OwnerKept == IInv /\ [Next]_vars => OwnerIsOne'
<1> SUFFICES ASSUME IInv, [Next]_vars PROVE OwnerIsOne'
  OBVIOUS
<1>0. OwnerIsOne /\ TypeOK /\ OneLiveEach /\ JoinsHoldTheirRow
  BY DEF IInv
<1> USE <1>0 DEF OwnerIsOne, Active
<1>1. ASSUME NEW r \in Requests, Starts(r) PROVE OwnerIsOne'
  BY <1>1 DEF Starts, Live
<1>2. ASSUME NEW r \in Requests, NEW x, Counts(r, x) PROVE OwnerIsOne'
  BY <1>2 DEF Counts, Live
<1>3. ASSUME NEW r \in Requests, NEW x, Asks(r, x) PROVE OwnerIsOne'
  <2>1. ~raced' => LiveOf(request[r].other) = {}
    BY <1>3 DEF Asks
  <2> QED
    BY <1>3, <2>1 DEF Asks, Live, LiveOf
<1>4. ASSUME NEW r \in Requests, NEW x, Enters(r, x) PROVE OwnerIsOne'
  <2>1. member[x].phase = "invited" /\ x \in Ids /\ (~raced' => ~raced)
    <3>1. request[r].op = "join" /\ x = request[r].member /\ x \in Ids /\ (~raced' => ~raced)
      BY <1>4 DEF Enters, Lands
    <3> QED
      BY <3>1 DEF JoinsHoldTheirRow
  <2>2. ~raced' /\ status # "gone" => member[x].user # owner /\ member[x].role # "owner"
    BY <2>1 DEF Live, OneLiveEach
  <2>3. /\ owner' = owner /\ status' = status
        /\ \A n \in Ids :
             /\ member'[n].user = member[n].user /\ member'[n].role = member[n].role
             /\ member'[n].phase = (IF n = x THEN "active" ELSE member[n].phase)
    BY <1>4 DEF Enters
  <2> QED
    BY <2>1, <2>2, <2>3 DEF Live
<1>5. ASSUME NEW r \in Requests, NEW x, Leaves(r, x) PROVE OwnerIsOne'
  <2>1. ~raced' => ~raced /\ member[x].role # "owner"
    BY <1>5 DEF Leaves, Lands, Allowed, MayRemove
  <2> QED
    BY <1>5, <2>1 DEF Leaves, OnlyRow, Live
<1>6. ASSUME NEW r \in Requests, HandsOn(r) PROVE OwnerIsOne'
  <2> DEFINE u == request[r].user
             v == request[r].other
  <2>1. ~raced' => ~raced /\ CanEdit(u) /\ v # u /\ IsActiveMember(v)
    BY <1>6 DEF HandsOn, Lands, Allowed
  <2>2. ~raced' /\ status # "gone" => owner = u
    BY <2>1 DEF CanEdit, Live
  <2> HIDE DEF u, v
  <2>3. ASSUME NEW n \in Ids
        PROVE  /\ member'[n].user = member[n].user /\ member'[n].phase = member[n].phase
               /\ member'[n].role = (IF member[n].user = v /\ n \in Active THEN "owner"
                                     ELSE IF member[n].user = u /\ Live(n) THEN "member"
                                     ELSE member[n].role)
    BY <1>6 DEF HandsOn, u, v
  <2>4. owner' = v /\ status' = status
    BY <1>6 DEF HandsOn, v
  <2> QED
    BY <2>1, <2>2, <2>3, <2>4 DEF Live, OneLiveEach, IsActiveMember
<1>7. ASSUME NEW r \in Requests, NEW x, Rescopes(r, x) PROVE OwnerIsOne'
  BY <1>7 DEF Rescopes, Lands, OnlyRow, Live
<1>8. ASSUME NEW r \in Requests, Switches(r) PROVE OwnerIsOne'
  BY <1>8 DEF Switches, Live
<1>9. ASSUME NEW r \in Requests, Erases(r) PROVE OwnerIsOne'
  BY <1>9 DEF Erases
<1>10. ASSUME NEW r \in Requests, GivesUp(r) PROVE OwnerIsOne'
  BY <1>10 DEF GivesUp, Live
<1>11. ASSUME NEW x \in Ids, SaysNo(x) PROVE OwnerIsOne'
  BY <1>11 DEF SaysNo, OnlyRow, Live
<1>12. ASSUME NEW x \in Ids, Clears(x) PROVE OwnerIsOne'
  BY <1>12 DEF Clears, Live
<1>13. ASSUME UNCHANGED vars PROVE OwnerIsOne'
  BY <1>13 DEF vars, Live
<1> QED
  BY Effects, <1>1, <1>2, <1>3, <1>4, <1>5, <1>6, <1>7, <1>8, <1>9, <1>10, <1>11, <1>12, <1>13 DEF IInv

-----------------------------------------------------------------------------
LEMMA Begins == Init => IInv
<1> SUFFICES ASSUME Init PROVE IInv
  OBVIOUS
<1>1. 0 \in Ids /\ \A m \in Ids : m # 0 => member[m] = NoMember
  BY BoundsAssumption DEF Ids, Init
<1>2. member[0] = [user |-> Creator, role |-> "owner", scope |-> "all", phase |-> "active"]
  BY <1>1 DEF Init
<1>3. TypeOK
  <2>1. member \in [Ids -> AccountMember]
    BY CreatorAssumption DEF Init, AccountMember, NoMember, Scopes, Phases
  <2>2. request \in [Requests -> Request]
    BY IdleTyped DEF Init
  <2>3. notice \in [Ids -> {"none", "open", "actioned", "dismissed"}] /\ begun \in 0 .. MaxRequests
    BY BoundsAssumption DEF Init
  <2> QED
    BY <2>1, <2>2, <2>3, CreatorAssumption DEF Init, TypeOK
<1>4. TargetsAreUsers /\ JoinsHoldTheirRow /\ NoticesFollow
  BY IdleTyped DEF Init, TargetsAreUsers, JoinsHoldTheirRow, NoticesFollow
<1>5. \A m \in Ids : Live(m) <=> m = 0
  BY <1>1, <1>2 DEF Live, NoMember
<1>6. OneLiveEach /\ ExMembersSeeOwn
  BY <1>1, <1>2, <1>5 DEF OneLiveEach, ExMembersSeeOwn, NoMember
<1>7. OwnerIsOne
  BY <1>1, <1>2, <1>5 DEF Init, OwnerIsOne, Active, NoMember
<1>8. NoticeAgreesWithMembership
  BY DEF Init, NoticeAgreesWithMembership
<1> QED
  BY <1>3, <1>4, <1>6, <1>7, <1>8 DEF IInv

\* Whatever the requests in flight do to each other, the memberships, the requests that hold a
\* row and the notices keep to the invariant.
THEOREM Inductive == Spec => []IInv
<1>1. IInv /\ [Next]_vars => IInv'
  BY TypeKept, TargetsKept, JoinsKept, LiveKept, NoticesKept, OwnerKept, ScopesKept, AgreementKept DEF IInv
<1> QED
  BY <1>1, Begins, PTL DEF Spec

\* While every check still holds when its write lands, a wallet has one live owner membership,
\* it is active, and it is that of the user the wallet names.
THEOREM OwnerStaysOne == Spec => []OneOwner
<1>1. IInv => OneOwner
  BY DEF IInv, OwnerIsOne, OneOwner, Active
<1> QED
  BY <1>1, Inductive, PTL

\* A former member's report scope is never all, while every check still holds at its write.
THEOREM ExMembersStayScoped == Spec => []ExMembersSeeOwn
<1>1. IInv => ExMembersSeeOwn
  BY DEF IInv
<1> QED
  BY <1>1, Inductive, PTL

\* An invitation is answered once, whatever the inbox did with its notice meanwhile.
THEOREM NoticeAgrees == Spec => []NoticeAgreesWithMembership
<1>1. IInv => NoticeAgreesWithMembership
  BY DEF IInv
<1> QED
  BY <1>1, Inductive, PTL

\* A wallet that becomes shared starts with report scope none for everyone.
THEOREM SharingResetsScopes == Spec => SharedStartsWithNoScopes
<1> DEFINE One == ~raced' /\ Cardinality(Active) = 1 /\ Cardinality(Active') = 2
           Reset == \A m \in Active' : member'[m].scope = "none"
<1>1. IInv /\ [Next]_vars => (One => Reset)
  <2> SUFFICES ASSUME IInv, [Next]_vars, One PROVE Reset
    OBVIOUS
  <2>1. ~(Active' \subseteq Active)
    BY MembersAreFew, FS_Subset
  <2>2. PICK x \in Ids : member'[x].phase = "active" /\ member[x].phase # "active"
    BY <2>1 DEF Active
  <2>3. PICK r \in Requests : Enters(r, x)
    BY <2>2, Effects DEF IInv, Starts, HandsOn, Switches, Erases, NoMember, GivesUp, Counts, Asks, Enters,
       Leaves, Rescopes, OnlyRow, SaysNo, Clears, vars
  <2>4. request[r].count = 1
    BY <2>3 DEF Enters, Lands, Allowed
  <2> QED
    BY <2>3, <2>4 DEF Enters, Active, Live
<1>2. IInv /\ [Next]_vars => [One => Reset]_vars
  BY <1>1
<1> QED
  BY <1>2, Inductive, PTL DEF Spec, SharedStartsWithNoScopes

=============================================================================
