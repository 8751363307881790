------------------------------ MODULE Contacts ------------------------------
(***************************************************************************)
(* Contacts, and the requests that link them to users (contacts,           *)
(* notifications).  A request is a notice to the user the contact's        *)
(* address belongs to; an accepted one links the sender's contact, and     *)
(* lets the recipient link one back.  What is read of a contact is not     *)
(* locked; a notice that is being answered is.                             *)
(***************************************************************************)
EXTENDS Integers, FiniteSets

CONSTANTS
  Users,
  People,       \* bound: the contacts there may be
  Owner,        \* of each contact its user
  Addresses,    \* bound: of each contact whose address it may be given, "" for none
  Notices,      \* bound: the requests there may be
  Entries,      \* bound: person book entries
  EntryOwner,
  Switches,     \* pairs: who accepts requests at once, who gets no notice of one
  LinkAsks,     \* bound: requests in flight that have read and not yet written
  MaxEdits      \* bound: changes that are no part of a request

ASSUME ContactOwners == Owner \in [People -> Users] /\ "" \notin Users \cup People
ASSUME ContactAddresses == Addresses \in [People -> SUBSET (Users \cup {""})]

VARIABLES
  contact,      \* contacts: [st, email, link]; an address is that of a user, or ""
  notice,       \* notifications: [st, to, from, contact]
  auto,         \* who accepts requests at once
  muted,        \* who gets no notice of a request
  asks,         \* [op, c, to, n, accept]: what a request has read
  entry,        \* personal_debts: the contact of each entry, "" for a typed name
  agreed,       \* history: <<from, to>> of the requests that were answered yes
  raced,        \* history: contacts two requests had in hand at a time
  linked,       \* history: contacts with the user they were linked to, until they are unlinked
  edits         \* bound: changes that were no part of a request

contactVars == <<contact, notice, auto, muted, asks, entry, agreed, raced, linked, edits>>

NoContact == [st |-> "none", email |-> "", link |-> ""]
NoNotice  == [st |-> "none", to |-> "", from |-> "", contact |-> ""]
ContactRow == [st : {"none", "active", "archived", "gone"}, email : Users \cup {""}, link : Users \cup {""}]
NoAsk     == [op |-> "idle", c |-> "", to |-> "", n |-> "", accept |-> FALSE]

\* A row's id does not matter: the next one takes any that is new.
FirstOf(ids)  == IF ids = {} THEN {} ELSE {CHOOSE i \in ids : TRUE}
LiveContact(c) == contact[c].st \in {"active", "archived"}
Mine(u)       == {c \in People : Owner[c] = u /\ LiveContact(c)}
InHand(c)     == \E q \in LinkAsks : asks[q].op # "idle" /\ asks[q].c = c
Answering(n)  == \E q \in LinkAsks : asks[q].op # "idle" /\ asks[q].n = n
Edit          == edits < MaxEdits /\ edits' = edits + 1
NotedRace(c)  == IF InHand(c) THEN raced \cup {c} ELSE raced

\* LinkExistsBetween.
LinkBetween(u, v) == \/ \E c \in Mine(u) : contact[c].link = v
                     \/ \E c \in Mine(v) : contact[c].link = u
\* What a user has set for requests: to accept them at once, and whether to hear of them.
AcceptRequest(u) == u \in auto
Deliver(u)       == u \notin muted

\* idx_contacts_owner_linked_user.
Taken(c, u) == \E d \in Mine(Owner[c]) \ {c} : contact[d].link = u

\* HasPendingContactLinkRequest.
Pending(c, u) == \E n \in Notices : notice[n] = [st |-> "open", to |-> u, from |-> Owner[c], contact |-> c]

\* SetLinkedUserIDTx: whatever the contact is linked to by now.
Linked(c, u) ==
  /\ contact' = [contact EXCEPT ![c].link = u]
  /\ linked' = linked \cup {<<c, u>>}

-----------------------------------------------------------------------------
(* The contacts, and the entries that are with them.                       *)

\* Create; the names it takes over are taken by Absorb, in a transaction of its own.
CreateContact(c, email) ==
  /\ contact[c].st = "none"
  /\ contact' = [contact EXCEPT ![c] = [st |-> "active", email |-> email, link |-> ""]]
  /\ UNCHANGED <<notice, auto, muted, asks, entry, agreed, raced, linked, edits>>

\* AbsorbForContact: only an entry that is with nobody.
Absorb(c, e) ==
  /\ Edit
  /\ LiveContact(c) /\ EntryOwner[e] = Owner[c] /\ entry[e] = ""
  /\ entry' = [entry EXCEPT ![e] = c]
  /\ UNCHANGED <<contact, notice, auto, muted, asks, agreed, raced, linked>>

UpdateContact(c, email) ==
  /\ Edit
  /\ LiveContact(c) /\ email # contact[c].email
  /\ contact' = [contact EXCEPT ![c].email = email]
  /\ UNCHANGED <<notice, auto, muted, asks, entry, agreed, raced, linked>>

SetContactStatus(c) ==
  /\ Edit
  /\ LiveContact(c)
  /\ contact' = [contact EXCEPT ![c].st = IF @ = "active" THEN "archived" ELSE "active"]
  /\ UNCHANGED <<notice, auto, muted, asks, entry, agreed, raced, linked>>

\* Delete, and RestoreOnContactDeleteTx: its entries keep the name.
DeleteContact(c) ==
  /\ Edit
  /\ LiveContact(c)
  /\ contact' = [contact EXCEPT ![c] = [NoContact EXCEPT !.st = "gone"]]
  /\ entry' = [e \in Entries |-> IF entry[e] = c THEN "" ELSE entry[e]]
  /\ linked' = {l \in linked : l[1] # c}
  /\ UNCHANGED <<notice, auto, muted, asks, agreed, raced>>

\* Unlink: the request it came from stays answered.
Unlink(c) ==
  /\ Edit
  /\ LiveContact(c) /\ contact[c].link # ""
  /\ contact' = [contact EXCEPT ![c].link = ""]
  /\ linked' = {l \in linked : l[1] # c}
  /\ UNCHANGED <<notice, auto, muted, asks, entry, agreed, raced>>

-----------------------------------------------------------------------------
(* A request to link.                                                      *)

\* RequestLink, what it reads: an active user the address is of, and no request that waits.
Request(q, c) ==
  /\ q \in FirstOf({p \in LinkAsks : asks[p] = NoAsk}) /\ LiveContact(c) /\ contact[c].link = ""
  /\ contact[c].email \notin {"", Owner[c]} /\ ~Pending(c, contact[c].email)
  /\ \E u \in {contact[c].email} :
       asks' = [asks EXCEPT ![q] = [op |-> "request", c |-> c, to |-> u, n |-> "",
                                    accept |-> AcceptRequest(u) /\ ~LinkBetween(u, Owner[c])]]
  /\ raced' = NotedRace(c)
  /\ UNCHANGED <<contact, notice, auto, muted, entry, agreed, linked, edits>>

\* DispatchContactLinkRequest.
Noticed(q) ==
  IF ~Deliver(asks[q].to) THEN notice' = notice
  ELSE \E n \in FirstOf({m \in Notices : notice[m].st = "none"}) :
         /\ notice' = [notice EXCEPT ![n] = [st |-> IF asks[q].accept THEN "actioned" ELSE "open", to |-> asks[q].to,
                                             from |-> Owner[asks[q].c], contact |-> asks[q].c]]

\* ... and what it writes; the index refuses a second contact with the same user.
Requested(q) ==
  /\ asks[q].op = "request" /\ asks' = [asks EXCEPT ![q] = NoAsk]
  /\ \E c \in {asks[q].c}, u \in {asks[q].to} :
       IF ~asks[q].accept
       THEN Noticed(q) /\ UNCHANGED <<contact, linked, agreed>>
       ELSE /\ LiveContact(c) /\ ~Taken(c, u)
            /\ Linked(c, u) /\ Noticed(q) /\ agreed' = agreed \cup {<<Owner[c], u>>}
  /\ UNCHANGED <<auto, muted, entry, raced, edits>>

\* AcceptLinkRequest, what it reads, with the notice locked.  A notice that was marked answered
\* elsewhere can still be accepted.
Accept(q, n) ==
  /\ q \in FirstOf({p \in LinkAsks : asks[p] = NoAsk}) /\ notice[n].st \in {"open", "actioned"} /\ ~Answering(n)
  /\ \E c \in {notice[n].contact} :
       /\ LiveContact(c) /\ contact[c].link = "" /\ ~LinkBetween(notice[n].to, notice[n].from)
       /\ asks' = [asks EXCEPT ![q] = [op |-> "accept", c |-> c, to |-> notice[n].to, n |-> n, accept |-> TRUE]]
       /\ raced' = NotedRace(c)
  /\ UNCHANGED <<contact, notice, auto, muted, entry, agreed, linked, edits>>

Accepted(q) ==
  /\ asks[q].op = "accept" /\ asks' = [asks EXCEPT ![q] = NoAsk]
  /\ \E c \in {asks[q].c}, u \in {asks[q].to} :
       /\ LiveContact(c) /\ ~Taken(c, u) /\ Linked(c, u)
       /\ agreed' = agreed \cup {<<Owner[c], u>>}
  /\ notice' = [notice EXCEPT ![asks[q].n].st = "actioned"]
  /\ UNCHANGED <<auto, muted, entry, raced, edits>>

\* RejectLinkRequest, and the notice marked dismissed: not after it was answered.
Reject(n) ==
  /\ notice[n].st = "open" /\ ~Answering(n)
  /\ notice' = [notice EXCEPT ![n].st = "dismissed"]
  /\ UNCHANGED <<contact, auto, muted, asks, entry, agreed, raced, linked, edits>>

\* MarkActioned, on the notice's own page: no link comes of it, but one can be made back.
MarkActioned(n) ==
  /\ Edit
  /\ notice[n].st = "open" /\ ~Answering(n)
  /\ notice' = [notice EXCEPT ![n].st = "actioned"]
  /\ agreed' = agreed \cup {<<notice[n].from, notice[n].to>>}
  /\ UNCHANGED <<contact, auto, muted, asks, entry, raced, linked>>

\* Restore: a dismissed one waits again.
RestoreNotice(n) ==
  /\ Edit
  /\ notice[n].st = "dismissed"
  /\ notice' = [notice EXCEPT ![n].st = "open"]
  /\ UNCHANGED <<contact, auto, muted, asks, entry, agreed, raced, linked>>

DeleteNotice(n) ==
  /\ Edit
  /\ notice[n].st \in {"open", "actioned", "dismissed"} /\ ~Answering(n)
  /\ notice' = [notice EXCEPT ![n] = [NoNotice EXCEPT !.st = "gone"]]
  /\ UNCHANGED <<contact, auto, muted, asks, entry, agreed, raced, linked>>

\* Mutant: a request that still waits will do.
Verified_AnyAnswer(n) == notice[n].st \in {"open", "actioned"}

\* verifyAcceptedLinkRequestTx.
Verified(n) == notice[n].st = "actioned"

\* CreateLinkedContactFromLinkRequest.
CreateLinked(n, c) ==
  /\ Verified(n) /\ ~Answering(n)
  /\ contact[c].st = "none" /\ Owner[c] = notice[n].to /\ ~Taken(c, notice[n].from)
  /\ contact' = [contact EXCEPT ![c] = [st |-> "active", email |-> notice[n].from, link |-> notice[n].from]]
  /\ linked' = linked \cup {<<c, notice[n].from>>}
  /\ UNCHANGED <<notice, auto, muted, asks, entry, agreed, raced, edits>>

\* LinkExistingContactFromLinkRequest, what it reads.
LinkExisting(q, n, c) ==
  /\ q \in FirstOf({p \in LinkAsks : asks[p] = NoAsk}) /\ Verified(n) /\ ~Answering(n)
  /\ LiveContact(c) /\ Owner[c] = notice[n].to /\ contact[c].link \in {"", notice[n].from}
  /\ asks' = [asks EXCEPT ![q] = [op |-> "existing", c |-> c, to |-> notice[n].from, n |-> n, accept |-> TRUE]]
  /\ raced' = NotedRace(c)
  /\ UNCHANGED <<contact, notice, auto, muted, entry, agreed, linked, edits>>
LinkedExisting(q) ==
  /\ asks[q].op = "existing" /\ asks' = [asks EXCEPT ![q] = NoAsk]
  /\ \E c \in {asks[q].c}, u \in {asks[q].to} : LiveContact(c) /\ ~Taken(c, u) /\ Linked(c, u)
  /\ UNCHANGED <<notice, auto, muted, entry, agreed, raced, edits>>

\* The contact is gone, or the index has refused: nothing is written.
AskFails(q) ==
  /\ asks[q].accept /\ (~LiveContact(asks[q].c) \/ Taken(asks[q].c, asks[q].to))
  /\ asks' = [asks EXCEPT ![q] = NoAsk]
  /\ UNCHANGED <<contact, notice, auto, muted, entry, agreed, raced, linked, edits>>

-----------------------------------------------------------------------------
ContactsInit ==
  /\ contact = [c \in People |-> NoContact] /\ notice = [n \in Notices |-> NoNotice]
  /\ \E s \in Switches : auto = s[1] /\ muted = s[2]
  /\ asks = [q \in LinkAsks |-> NoAsk] /\ entry = [e \in Entries |-> ""]
  /\ agreed = {} /\ raced = {} /\ linked = {} /\ edits = 0

Answers ==
  \E n \in Notices : \/ Reject(n) \/ MarkActioned(n) \/ RestoreNotice(n) \/ DeleteNotice(n)
                     \/ \E c \in People : CreateLinked(n, c)
Requests ==
  \E q \in LinkAsks :
    \/ Requested(q) \/ Accepted(q) \/ LinkedExisting(q) \/ AskFails(q)
    \/ \E c \in People : Request(q, c) \/ \E n \in Notices : LinkExisting(q, n, c)
    \/ \E n \in Notices : Accept(q, n)
ContactsNext ==
  \/ \E c \in People : \/ \E u \in Addresses[c] : CreateContact(c, u) \/ UpdateContact(c, u)
                       \/ \E e \in Entries : Absorb(c, e)
                       \/ SetContactStatus(c) \/ DeleteContact(c) \/ Unlink(c)
  \/ Answers \/ Requests

-----------------------------------------------------------------------------
ContactsTypeOK ==
  /\ contact \in [People -> ContactRow]
  /\ \A n \in Notices : notice[n].st \in {"none", "open", "actioned", "dismissed", "gone"}
  /\ \A q \in LinkAsks : asks[q].op \in {"idle", "request", "accept", "existing"}

\* A contact stands for a user only with that user's word: a request between the two was answered
\* yes, by hand, by the switch or on the notice's page.  It stands for the user it was linked to
\* until it is unlinked, unless two requests had it in hand at once: what they read is not locked,
\* and the later one takes it from the other; and nobody has two contacts for one user, nor one
\* for themselves.  An entry is with a contact that is there.
LinksAreAgreed ==
  /\ ContactsTypeOK
  /\ \A c \in People : contact[c].link # "" =>
       /\ contact[c].link # Owner[c] /\ ~Taken(c, contact[c].link)
       /\ <<Owner[c], contact[c].link>> \in agreed \/ <<contact[c].link, Owner[c]>> \in agreed
  /\ \A l \in linked : contact[l[1]].link = l[2] \/ l[1] \in raced
  /\ \A e \in Entries : entry[e] # "" => LiveContact(entry[e])
=============================================================================
