----------------------------- MODULE HomeProofs -----------------------------
(***************************************************************************)
(* What the parts of a household promise, for every value of the bounds.   *)
(* A step of Home is a step of the part that is followed, or leaves the    *)
(* part alone: each section proves its part by itself, and then what Home  *)
(* promises of it.                                                         *)
(***************************************************************************)
EXTENDS Home, FiniteSetTheorems, WellFoundedInduction, TLAPS

-----------------------------------------------------------------------------
(* Signing in.                                                             *)

LoginRow == [op : {"idle", "signup", "link", "unlink", "unlinkchat"}, who : Persons \cup {""},
             chat : Chats \cup {""}, owner : Persons \cup {""}]

\* Rows of user_connections name accounts, requests what they are about.
SignInTyped ==
  /\ SignInTypeOK
  /\ link \in [Chats -> [to : Persons \cup {""}, on : BOOLEAN]]
  /\ login \in [Logins -> LoginRow]
  /\ handed \in [Updates -> Nat]
  /\ stolen \in BOOLEAN

\* One row of user_connections per person and app.
OneChatEach == \A c, d \in Chats : link[c].to = link[d].to /\ link[c].to # "" => c = d

ChatsAreOfSomebody == \A c \in Chats : link[c].to # "" => person[link[c].to].st # "none"

HasAWayIn ==
  \A u \in Persons : person[u].st # "none" =>
    person[u].password \/ (\E c \in Chats : link[c].to = u) \/ stolen

\* Whoever a request will take a link from had a password when it looked, and a password stays.
AskedHavePasswords ==
  \A q \in Logins :
    /\ login[q].op = "signup" => login[q].chat \in Chats
    /\ login[q].op = "link" =>
         /\ login[q].who \in Persons /\ login[q].chat \in Chats
         /\ person[login[q].who].st # "none"
         /\ login[q].owner # "" => person[login[q].owner].password
    /\ login[q].op = "unlink" => login[q].who \in Persons /\ person[login[q].who].password
    /\ login[q].op = "unlinkchat" =>
         /\ login[q].chat \in Chats /\ login[q].who = ""
         /\ login[q].owner # "" /\ person[login[q].owner].password

PasswordsAreOfSomebody == \A u \in Persons : person[u].password => person[u].st # "none"

\* A message that had its turn is stored, or could not be.
TurnsAreKept ==
  \A m \in Updates : /\ handed[m] <= 1 \/ m \in lost
                     /\ handed[m] = 0 \/ m \in kept \/ m \in lost

SignInInv ==
  /\ SignInTyped /\ OneChatEach /\ ChatsAreOfSomebody /\ HasAWayIn
  /\ PasswordsAreOfSomebody /\ AskedHavePasswords /\ TurnsAreKept

\* With at most one chat each, the last way in is the only one.
LEMMA LinksCounted ==
  ASSUME SignInTyped, OneChatEach, NEW u \in Persons
  PROVE  IsFiniteSet(LinksOf(u)) /\ Cardinality(LinksOf(u)) \in Nat /\ Cardinality(LinksOf(u)) <= 1
<1>1. CASE LinksOf(u) = {}
  BY <1>1, FS_EmptySet
<1>2. CASE LinksOf(u) # {}
  <2>1. PICK c \in Chats : c \in LinksOf(u)
    BY <1>2 DEF LinksOf
  <2>2. LinksOf(u) = {c}
    BY <2>1, NobodyIsNoPerson DEF LinksOf, OneChatEach
  <2> QED
    BY <2>2, FS_Singleton
<1> QED
  BY <1>1, <1>2

\* A link that is not the last way in may go: there is a password.
LEMMA NotTheLastWay ==
  ASSUME SignInTyped, OneChatEach, NEW u \in Persons, ~LastWay(u)
  PROVE  person[u].password
BY LinksCounted DEF LastWay, SignInTyped, SignInTypeOK, PersonRow

\* At the start nobody has an account and nothing is in hand.
LEMMA SignInStarts == SignInInit => SignInInv
<1> SUFFICES ASSUME SignInInit PROVE SignInInv
  OBVIOUS
<1> USE DEF SignInInit, NoPerson, NoLink, NoLogin
<1>1. SignInTyped
  <2>1. NoLogin \in LoginRow
    BY DEF LoginRow
  <2>2. login \in [Logins -> LoginRow]
    BY <2>1
  <2> QED
    BY <2>2 DEF SignInTyped, SignInTypeOK, PersonRow
<1>2. OneChatEach /\ ChatsAreOfSomebody /\ HasAWayIn /\ PasswordsAreOfSomebody
  BY DEF OneChatEach, ChatsAreOfSomebody, HasAWayIn, PasswordsAreOfSomebody
<1>4. TurnsAreKept
  <2>1. \A m \in Updates : handed[m] = 0
    OBVIOUS
  <2> HIDE DEF SignInInit
  <2> QED
    BY <2>1 DEF TurnsAreKept
<1>3. AskedHavePasswords
  BY DEF AskedHavePasswords
<1> QED
  BY <1>1, <1>2, <1>3, <1>4 DEF SignInInv

\* Accounts: a password is only ever set, and an account that was there stays.
LEMMA AccountKept ==
  ASSUME SignInInv, NEW u \in Persons, Register(u) \/ ChangePassword(u) \/ Deactivate(u) \/ Reactivate(u)
  PROVE  SignInInv'
<1> USE DEF SignInInv
<1>0. /\ person' \in [Persons -> PersonRow]
      /\ \A v \in Persons \ {u} : person'[v] = person[v]
      /\ person'[u].st # "none"
      /\ person[u].st = "none" => person'[u].password
      /\ person[u].password => person'[u].password
      /\ UNCHANGED <<link, login, stolen, seen, kept, handed, lost>>
  <2> USE DEF SignInTyped, SignInTypeOK, PersonRow, ChatVars
  <2>1. CASE Register(u)
    BY <2>1 DEF Register
  <2>2. CASE ChangePassword(u)
    BY <2>2 DEF ChangePassword, ActiveUser
  <2>3. CASE Deactivate(u)
    BY <2>3 DEF Deactivate, ActiveUser
  <2>4. CASE Reactivate(u)
    BY <2>4 DEF Reactivate
  <2> QED
    BY <2>1, <2>2, <2>3, <2>4
<1>1. SignInTyped'
  BY <1>0 DEF SignInTyped, SignInTypeOK
<1>2. \A v \in Persons : /\ person[v].st # "none" => person'[v].st # "none"
                         /\ person[v].password => person'[v].password
  BY <1>0
<1>3. OneChatEach' /\ TurnsAreKept'
  BY <1>0 DEF OneChatEach, TurnsAreKept
<1>4. ChatsAreOfSomebody'
  BY <1>0, <1>2 DEF ChatsAreOfSomebody, SignInTyped
<1>5. HasAWayIn' /\ PasswordsAreOfSomebody'
  BY <1>0, <1>2 DEF HasAWayIn, PasswordsAreOfSomebody
<1>6. AskedHavePasswords'
  <2>1. \A q \in Logins : login[q] \in LoginRow /\ login'[q] = login[q]
    BY <1>0 DEF SignInTyped
  <2> SUFFICES ASSUME NEW q \in Logins PROVE AskedHavePasswords!(q)'
    BY DEF AskedHavePasswords
  <2>2. AskedHavePasswords!(q)
    BY DEF AskedHavePasswords
  <2>3. /\ login'[q] = login[q]
        /\ login[q].owner # "" => login[q].owner \in Persons
    BY <2>1 DEF LoginRow
  <2>4. login[q].op = "link" =>
          /\ person'[login[q].who].st # "none"
          /\ login[q].owner # "" => person'[login[q].owner].password
    BY <1>2, <2>2, <2>3
  <2>5. /\ login[q].op = "unlink" => person'[login[q].who].password
        /\ login[q].op = "unlinkchat" => person'[login[q].owner].password
    BY <1>2, <2>2, <2>3
  <2> QED
    BY <2>2, <2>3, <2>4, <2>5
<1> QED
  BY <1>1, <1>3, <1>4, <1>5, <1>6

\* Requests look, and remember whom they asked about.
Looks(q, u, c) ==
  \/ c \in Chats /\ (TokenLogin(q, c) \/ UnlinkChat(q, c))
  \/ u \in Persons /\ UnlinkApp(q, u)
  \/ u \in Persons /\ c \in Chats /\ LinkTelegram(q, u, c)

\* A request that has looked is about somebody, and remembers a password only where there is one.
LEMMA LooksKept ==
  ASSUME SignInInv, NEW q \in Logins, NEW u, NEW c, Looks(q, u, c)
  PROVE  SignInInv'
<1> USE DEF SignInInv, ChatVars
<1>0. /\ UNCHANGED <<person, link, open, stolen, seen, kept, handed, lost>>
      /\ login' \in [Logins -> LoginRow]
      /\ \A p \in Logins \ {q} : login'[p] = login[p]
  <2> USE DEF Takes, LoginRow, SignInTyped, NoLogin
  <2>1. CASE c \in Chats /\ TokenLogin(q, c)
    BY <2>1 DEF TokenLogin
  <2>2. CASE c \in Chats /\ UnlinkChat(q, c)
    BY <2>2 DEF UnlinkChat
  <2>3. CASE u \in Persons /\ UnlinkApp(q, u)
    BY <2>3 DEF UnlinkApp
  <2>4. CASE u \in Persons /\ c \in Chats /\ LinkTelegram(q, u, c)
    BY <2>4 DEF LinkTelegram
  <2> QED
    BY <2>1, <2>2, <2>3, <2>4 DEF Looks
<1>1. SignInTyped'
  BY <1>0 DEF SignInTyped, SignInTypeOK, LoginRow
<1>2. OneChatEach' /\ ChatsAreOfSomebody' /\ HasAWayIn' /\ PasswordsAreOfSomebody' /\ TurnsAreKept'
  BY <1>0 DEF OneChatEach, ChatsAreOfSomebody, HasAWayIn, PasswordsAreOfSomebody, TurnsAreKept
<1>3. AskedHavePasswords'
  <2> SUFFICES ASSUME NEW p \in Logins PROVE AskedHavePasswords!(p)'
    BY DEF AskedHavePasswords
  <2>1. CASE p # q
    BY <1>0, <2>1 DEF AskedHavePasswords, Takes, SignInTyped
  <2>2. CASE p = q
    <3>1. CASE c \in Chats /\ TokenLogin(q, c)
      BY <2>2, <3>1 DEF TokenLogin, Takes, NoLogin, SignInTyped
    <3>2. CASE c \in Chats /\ UnlinkChat(q, c)
      BY <2>2, <3>2, NotTheLastWay DEF UnlinkChat, Takes, SignInTyped
    <3>3. CASE u \in Persons /\ UnlinkApp(q, u)
      BY <2>2, <3>3, NotTheLastWay DEF UnlinkApp, Takes, NoLogin, SignInTyped
    <3>4. CASE u \in Persons /\ c \in Chats /\ LinkTelegram(q, u, c)
      BY <2>2, <3>4, NotTheLastWay DEF LinkTelegram, Takes, SignInTyped, ActiveUser
    <3> QED
      BY <3>1, <3>2, <3>3, <3>4 DEF Looks
  <2> QED
    BY <2>1, <2>2
<1> QED
  BY <1>1, <1>2, <1>3

\* A request is over: those that go on are what they were.
LEMMA OthersHavePasswords ==
  ASSUME SignInTyped, AskedHavePasswords, NEW q \in Logins, Frees(q), UNCHANGED person
  PROVE  AskedHavePasswords' /\ login' \in [Logins -> LoginRow]
<1>1. \A p \in Logins : login'[p] = login[p] \/ login'[p].op = "idle"
  BY DEF Frees, NoLogin, SignInTyped
<1>2. login' \in [Logins -> LoginRow]
  BY DEF Frees, NoLogin, LoginRow, SignInTyped
<1> QED
  BY <1>1, <1>2 DEF AskedHavePasswords

\* A chat may chat or not.
LEMMA SetChatKept ==
  ASSUME SignInInv, NEW u \in Persons, NEW c \in Chats, SetChat(u, c)
  PROVE  SignInInv'
<1> USE DEF SignInInv, SetChat, ChatVars
<1>1. link' \in [Chats -> [to : Persons \cup {""}, on : BOOLEAN]] /\ \A d \in Chats : link'[d].to = link[d].to
  BY DEF SignInTyped
<1>2. SignInTyped'
  BY <1>1 DEF SignInTyped, SignInTypeOK
<1>3. OneChatEach'
  <2> SUFFICES ASSUME NEW d \in Chats, NEW e \in Chats, link'[d].to = link'[e].to, link'[d].to # "" PROVE d = e
    BY DEF OneChatEach
  <2>1. link[d].to = link[e].to /\ link[d].to # ""
    BY <1>1
  <2> QED
    BY <2>1 DEF OneChatEach
<1>4. ChatsAreOfSomebody'
  BY <1>1 DEF ChatsAreOfSomebody
<1>5. HasAWayIn'
  BY <1>1 DEF HasAWayIn
<1>6. PasswordsAreOfSomebody' /\ AskedHavePasswords' /\ TurnsAreKept'
  BY DEF PasswordsAreOfSomebody, AskedHavePasswords, TurnsAreKept
<1> QED
  BY <1>2, <1>3, <1>4, <1>5, <1>6

\* A chat signs up: a new account, with the chat for its way in.
LEMMA SignedUpKept ==
  ASSUME SignInInv, NEW q \in Logins, NEW u \in Persons, SignedUp(q, u)
  PROVE  SignInInv'
<1> USE DEF SignInInv
<1>0. PICK c \in Chats :
        /\ c = login[q].chat
        /\ IF link[c].to # "" THEN UNCHANGED <<person, link>>
           ELSE /\ person[u].st = "none"
                /\ person' = [person EXCEPT ![u] = [st |-> "active", password |-> FALSE]]
                /\ link' = [link EXCEPT ![c] = [to |-> u, on |-> TRUE]]
  BY DEF SignedUp, AskedHavePasswords, FirstNew, NewPerson
<1>1. Frees(q) /\ UNCHANGED <<stolen, seen, kept, handed, lost>>
  BY DEF SignedUp, ChatVars
<1>2. CASE link[c].to # ""
  <2>1. SignInTyped'
    BY <1>0, <1>1, <1>2, OthersHavePasswords DEF SignInTyped, SignInTypeOK, LoginRow
  <2>2. OneChatEach' /\ ChatsAreOfSomebody' /\ HasAWayIn' /\ PasswordsAreOfSomebody' /\ TurnsAreKept'
    BY <1>0, <1>1, <1>2 DEF OneChatEach, ChatsAreOfSomebody, HasAWayIn, PasswordsAreOfSomebody, TurnsAreKept
  <2> QED
    BY <2>1, <2>2, <1>0, <1>1, <1>2, OthersHavePasswords
<1>3. CASE link[c].to = ""
  <2>0. /\ person[u].st = "none" /\ person' = [person EXCEPT ![u] = [st |-> "active", password |-> FALSE]]
        /\ link' = [link EXCEPT ![c] = [to |-> u, on |-> TRUE]]
    BY <1>0, <1>3
  <2>1. /\ person' \in [Persons -> PersonRow] /\ person'[u].st = "active"
        /\ \A v \in Persons \ {u} : person'[v] = person[v]
    BY <2>0 DEF SignInTyped, SignInTypeOK, PersonRow
  <2>2. /\ link' \in [Chats -> [to : Persons \cup {""}, on : BOOLEAN]] /\ link'[c].to = u
        /\ \A d \in Chats \ {c} : link'[d] = link[d]
    BY <2>0 DEF SignInTyped
  <2>3. \A d \in Chats : link[d].to # u
    BY <1>0, <1>3, NobodyIsNoPerson DEF ChatsAreOfSomebody
  <2>4. \A p \in Logins : login'[p] = login[p] \/ login'[p].op = "idle"
    BY <1>1 DEF Frees, NoLogin, SignInTyped
  <2>5. login' \in [Logins -> LoginRow]
    BY <1>1 DEF Frees, NoLogin, SignInTyped, LoginRow
  <2>6. SignInTyped'
    BY <1>1, <2>1, <2>2, <2>5 DEF SignInTyped, SignInTypeOK, LoginRow
  <2>7. OneChatEach'
    BY <2>2, <2>3 DEF OneChatEach
  <2>8. ChatsAreOfSomebody'
    <3> SUFFICES ASSUME NEW d \in Chats, link'[d].to # "" PROVE person'[link'[d].to].st # "none"
      BY DEF ChatsAreOfSomebody
    <3>1. CASE d = c
      BY <3>1, <2>1, <2>2
    <3>2. CASE d # c
      <4>1. link'[d] = link[d]
        BY <3>2, <2>2
      <4>2. link[d].to \in Persons \ {u}
        BY <3>2, <4>1, <2>3 DEF SignInTyped
      <4> QED
        BY <4>1, <4>2, <2>1 DEF ChatsAreOfSomebody
    <3> QED
      BY <3>1, <3>2
  <2>9. HasAWayIn'
    <3> SUFFICES ASSUME NEW v \in Persons, person'[v].st # "none"
                 PROVE  person'[v].password \/ (\E d \in Chats : link'[d].to = v) \/ stolen'
      BY DEF HasAWayIn
    <3>1. CASE v = u
      BY <3>1, <2>2
    <3>2. CASE v # u
      <4>1. person'[v] = person[v] /\ (person[v].password \/ (\E d \in Chats : link[d].to = v) \/ stolen)
        BY <3>2, <2>1 DEF HasAWayIn
      <4>2. ASSUME NEW d \in Chats, link[d].to = v PROVE link'[d].to = v
        BY <4>2, <1>3, <2>2, NobodyIsNoPerson
      <4> QED
        BY <4>1, <4>2, <1>1
    <3> QED
      BY <3>1, <3>2
  <2>10. AskedHavePasswords'
    <3> SUFFICES ASSUME NEW p \in Logins, login'[p] = login[p] PROVE AskedHavePasswords!(p)'
      BY <2>4 DEF AskedHavePasswords
    <3>1. AskedHavePasswords!(p)
      BY DEF AskedHavePasswords
    <3>2. login[p] \in LoginRow
      BY DEF SignInTyped
    <3>3. \A v \in Persons : /\ person[v].st # "none" => v # u
                             /\ person[v].password => v # u
      BY <2>0 DEF PasswordsAreOfSomebody
    <3>4. /\ login[p].op = "link" => login[p].who # u
          /\ login[p].op \in {"link", "unlinkchat"} /\ login[p].owner # "" => login[p].owner \in Persons \ {u}
          /\ login[p].op = "unlink" => login[p].who # u
      BY <3>1, <3>2, <3>3 DEF LoginRow
    <3> QED
      BY <3>1, <3>4, <2>1
  <2>11. PasswordsAreOfSomebody'
    BY <2>1 DEF PasswordsAreOfSomebody
  <2> QED
    BY <1>1, <2>6, <2>7, <2>8, <2>9, <2>10, <2>11 DEF TurnsAreKept
<1> QED
  BY <1>2, <1>3

\* What is noted of a link that is taken from somebody else stays noted.
LEMMA StolenStays ==
  ASSUME NEW q \in Logins, NEW c \in Chats, Stolen(q, c)
  PROVE  /\ stolen' \in BOOLEAN /\ (stolen => stolen')
         /\ link[c].to \notin {"", login[q].who, login[q].owner} => stolen'
BY Zenon DEF Stolen

\* A link is taken away or handed on: whoever loses it has a password, or is somebody else than the
\* one who was asked about.
LEMMA RelinkedKept ==
  ASSUME SignInInv, NEW q \in Logins, LinkedTelegram(q) \/ UnlinkedApp(q) \/ UnlinkedChat(q)
  PROVE  SignInInv'
<1> USE DEF SignInInv
<1>0. /\ Frees(q) /\ UNCHANGED <<person, seen, kept, handed, lost>>
      /\ login[q] \in LoginRow
      /\ login[q].op \in {"link", "unlink", "unlinkchat"}
  BY DEF LinkedTelegram, UnlinkedApp, UnlinkedChat, ChatVars, SignInTyped
<1>1. /\ link' \in [Chats -> [to : Persons \cup {""}, on : BOOLEAN]]
      /\ stolen' \in BOOLEAN /\ (stolen => stolen')
      /\ \A d \in Chats : \/ link'[d] = link[d]
                          \/ link'[d].to = ""
                          \/ /\ login[q].op = "link" /\ d = login[q].chat /\ link'[d].to = login[q].who
                             /\ \A e \in Chats \ {d} : link'[e].to # login[q].who
      /\ \A d \in Chats : link[d].to # "" /\ link'[d].to # link[d].to =>
           \/ person[link[d].to].password
           \/ \E e \in Chats : link'[e].to = link[d].to
           \/ stolen'
  <2> USE DEF AskedHavePasswords, NoLink, SignInTyped
  <2>1. CASE LinkedTelegram(q)
    <3>1. PICK u \in Persons, c \in Chats :
            /\ u = login[q].who /\ c = login[q].chat /\ login[q].op = "link"
            /\ login[q].owner # "" => person[login[q].owner].password
            /\ link' = [d \in Chats |-> IF d = c THEN [to |-> u, on |-> TRUE] ELSE IF link[d].to = u THEN NoLink ELSE link[d]]
            /\ stolen' \in BOOLEAN /\ (stolen => stolen')
            /\ link[c].to \notin {"", u, login[q].owner} => stolen'
      <4>1. /\ login[q].op = "link" /\ login[q].who \in Persons /\ login[q].chat \in Chats
            /\ login[q].owner # "" => person[login[q].owner].password
        BY <2>1 DEF LinkedTelegram
      <4>2. /\ link' = [d \in Chats |-> IF d = login[q].chat THEN [to |-> login[q].who, on |-> TRUE]
                                       ELSE IF link[d].to = login[q].who THEN NoLink ELSE link[d]]
            /\ Stolen(q, login[q].chat)
        BY <2>1 DEF LinkedTelegram
      <4> QED
        BY <4>1, <4>2, StolenStays
    <3>2. link' \in [Chats -> [to : Persons \cup {""}, on : BOOLEAN]]
      BY <3>1
    <3>3. /\ link'[c].to = u
          /\ \A d \in Chats \ {c} : link'[d] = (IF link[d].to = u THEN NoLink ELSE link[d])
      BY <3>1
    <3>4. \A d \in Chats \ {c} : link'[d].to # u
      <4> SUFFICES ASSUME NEW d \in Chats \ {c} PROVE link'[d].to # u
        OBVIOUS
      <4> QED
        <5>1. CASE link[d].to = u
          <6>1. u # ""
            BY NobodyIsNoPerson
          <6>2. link'[d] = NoLink
            BY <3>3, <5>1
          <6>3. NoLink.to = ""
            OBVIOUS
          <6> HIDE DEF NoLink
          <6> QED
            BY <6>1, <6>2, <6>3
        <5>2. CASE link[d].to # u
          BY <3>3, <5>2
        <5> QED
          BY <5>1, <5>2
    <3>5. \A d \in Chats : link[d].to # "" /\ link'[d].to # link[d].to =>
            \/ person[link[d].to].password \/ link'[c].to = link[d].to \/ stolen'
      BY <3>1, <3>3
    <3> QED
      BY <3>1, <3>2, <3>3, <3>4, <3>5
  <2>2. CASE UnlinkedApp(q)
    BY <2>2 DEF UnlinkedApp
  <2>3. CASE UnlinkedChat(q)
    <3>1. PICK c \in Chats :
            /\ login[q].who = "" /\ login[q].owner # "" /\ person[login[q].owner].password
            /\ link' = [link EXCEPT ![c] = NoLink]
            /\ stolen' \in BOOLEAN /\ (stolen => stolen')
            /\ link[c].to \notin {"", login[q].who, login[q].owner} => stolen'
      BY <2>3, StolenStays DEF UnlinkedChat
    <3>2. login[q].who \in Persons \cup {""}
      BY <1>0 DEF LoginRow
    <3>3. link'[c].to = "" /\ \A d \in Chats \ {c} : link'[d] = link[d]
      BY <3>1
    <3>4. link' \in [Chats -> [to : Persons \cup {""}, on : BOOLEAN]]
      BY <3>1
    <3> QED
      BY <3>1, <3>2, <3>3, <3>4
  <2> QED
    BY <2>1, <2>2, <2>3
<1>2. AskedHavePasswords' /\ login' \in [Logins -> LoginRow]
  BY <1>0, OthersHavePasswords
<1>3. SignInTyped'
  BY <1>0, <1>1, <1>2 DEF SignInTyped, SignInTypeOK, LoginRow
<1>4. OneChatEach'
  <2> SUFFICES ASSUME NEW d \in Chats, NEW e \in Chats, link'[d].to = link'[e].to, link'[d].to # "" PROVE d = e
    BY DEF OneChatEach
  <2>1. CASE link'[d] = link[d] /\ link'[e] = link[e]
    BY <2>1 DEF OneChatEach
  <2> QED
    BY <1>1, <2>1
<1>5. ChatsAreOfSomebody'
  BY <1>0, <1>1 DEF ChatsAreOfSomebody, AskedHavePasswords
<1>6. HasAWayIn'
  <2> SUFFICES ASSUME NEW u \in Persons, person[u].st # "none", ~person[u].password, ~stolen'
               PROVE  \E d \in Chats : link'[d].to = u
    BY <1>0 DEF HasAWayIn
  <2>1. PICK d \in Chats : link[d].to = u
    BY <1>1 DEF HasAWayIn
  <2> QED
    BY <2>1, <1>1, NobodyIsNoPerson
<1>7. PasswordsAreOfSomebody' /\ TurnsAreKept'
  BY <1>0 DEF PasswordsAreOfSomebody, TurnsAreKept
<1> QED
  BY <1>2, <1>3, <1>4, <1>5, <1>6, <1>7

\* A message has its turn only when it is not stored, or cannot be.
LEMMA HandledKept ==
  ASSUME SignInInv, NEW m \in Updates, NEW stores \in BOOLEAN, HandleUpdate(m, stores)
  PROVE  SignInInv'
<1> USE DEF SignInInv
<1>1. UNCHANGED <<person, link, login, stolen>> /\ seen' = seen \cup {m}
  BY DEF HandleUpdate
<1>2. \/ UNCHANGED <<kept, handed, lost>>
      \/ /\ handed' = [handed EXCEPT ![m] = @ + 1]
         /\ \/ m \notin kept /\ kept' = kept \cup {m} /\ lost' = lost
            \/ kept' = kept /\ lost' = lost \cup {m}
  BY DEF HandleUpdate, Stored
<1>3. SignInTyped'
  <2>1. handed' \in [Updates -> Nat] /\ kept' \subseteq Updates
    <3>1. CASE UNCHANGED <<kept, handed, lost>>
      BY <3>1 DEF SignInTyped, SignInTypeOK
    <3>2. CASE handed' = [handed EXCEPT ![m] = @ + 1] /\ kept' \in {kept, kept \cup {m}}
      <4>1. handed \in [Updates -> Nat] /\ kept \subseteq Updates
        BY DEF SignInTyped, SignInTypeOK
      <4> QED
        BY <3>2, <4>1
    <3> QED
      BY <1>2, <3>1, <3>2
  <2> QED
    BY <1>1, <2>1 DEF SignInTyped, SignInTypeOK
<1>4. TurnsAreKept'
  <2> SUFFICES ASSUME NEW n \in Updates PROVE TurnsAreKept!(n)'
    BY DEF TurnsAreKept
  <2>1. handed[n] \in Nat /\ TurnsAreKept!(n)
    BY DEF SignInTyped, TurnsAreKept
  <2>2. CASE n # m
    BY <1>2, <2>1, <2>2 DEF SignInTyped
  <2>3. CASE n = m
    <3>1. CASE UNCHANGED <<kept, handed, lost>>
      BY <3>1, <2>1
    <3>2. CASE handed' = [handed EXCEPT ![m] = @ + 1]
      <4>1. handed'[m] = handed[m] + 1
        BY <3>2 DEF SignInTyped
      <4> QED
        BY <1>2, <2>1, <2>3, <4>1
    <3> QED
      BY <1>2, <3>1, <3>2
  <2> QED
    BY <2>2, <2>3
<1>5. OneChatEach' /\ ChatsAreOfSomebody' /\ HasAWayIn' /\ PasswordsAreOfSomebody' /\ AskedHavePasswords'
  BY <1>1 DEF OneChatEach, ChatsAreOfSomebody, HasAWayIn, PasswordsAreOfSomebody, AskedHavePasswords
<1> QED
  BY <1>3, <1>4, <1>5

\* A restart forgets the requests in hand.
LEMMA RestartedKept ==
  ASSUME SignInInv, ServerRestarts
  PROVE  SignInInv'
<1> USE DEF SignInInv, ServerRestarts, NoLogin
<1>1. login' \in [Logins -> LoginRow] /\ \A q \in Logins : login'[q].op = "idle"
  BY DEF LoginRow
<1>2. SignInTyped' /\ AskedHavePasswords'
  BY <1>1 DEF SignInTyped, SignInTypeOK, AskedHavePasswords
<1>3. OneChatEach' /\ ChatsAreOfSomebody' /\ HasAWayIn' /\ PasswordsAreOfSomebody' /\ TurnsAreKept'
  BY DEF OneChatEach, ChatsAreOfSomebody, HasAWayIn, PasswordsAreOfSomebody, TurnsAreKept
<1> QED
  BY <1>2, <1>3

\* Every step of the part keeps the invariant, and so does a step of another part.
LEMMA SignInKept == SignInInv /\ [SignInNext]_signInVars => SignInInv'
<1> SUFFICES ASSUME SignInInv, [SignInNext]_signInVars PROVE SignInInv'
  OBVIOUS
<1>1. CASE SignInNext
  <2>1. CASE \E u \in Persons : Register(u) \/ ChangePassword(u) \/ Deactivate(u) \/ Reactivate(u)
    BY <2>1, AccountKept
  <2>2. CASE \E u \in Persons, c \in Chats : SetChat(u, c)
    BY <2>2, SetChatKept
  <2>3. CASE \E q \in Logins : LinkedTelegram(q) \/ UnlinkedApp(q) \/ UnlinkedChat(q)
    BY <2>3, RelinkedKept
  <2>4. CASE \E q \in Logins, c \in Chats : TokenLogin(q, c) \/ UnlinkChat(q, c)
    BY <2>4, LooksKept DEF Looks
  <2>5. CASE \E q \in Logins, u \in Persons : UnlinkApp(q, u)
    BY <2>5, LooksKept DEF Looks
  <2>6. CASE \E q \in Logins, u \in Persons, c \in Chats : LinkTelegram(q, u, c)
    BY <2>6, LooksKept DEF Looks
  <2>7. CASE \E q \in Logins, u \in Persons : SignedUp(q, u)
    BY <2>7, SignedUpKept
  <2>8. CASE \E m \in Updates, stores \in BOOLEAN : HandleUpdate(m, stores)
    BY <2>8, HandledKept
  <2> QED
    BY <1>1, <2>1, <2>2, <2>3, <2>4, <2>5, <2>6, <2>7, <2>8, RestartedKept DEF SignInNext
<1>2. CASE UNCHANGED signInVars
  <2>1. SignInTyped' /\ OneChatEach' /\ ChatsAreOfSomebody' /\ HasAWayIn'
    BY <1>2 DEF signInVars, SignInInv, SignInTyped, SignInTypeOK, OneChatEach, ChatsAreOfSomebody, HasAWayIn
  <2>2. PasswordsAreOfSomebody' /\ AskedHavePasswords' /\ TurnsAreKept'
    BY <1>2 DEF signInVars, SignInInv, PasswordsAreOfSomebody, AskedHavePasswords, TurnsAreKept
  <2> QED
    BY <2>1, <2>2 DEF SignInInv
<1> QED
  BY <1>1, <1>2

\* The invariant is what the run checks, and more.
LEMMA SignInSafe == SignInInv => NobodyLockedOut
<1> SUFFICES ASSUME SignInInv PROVE NobodyLockedOut
  OBVIOUS
<1> USE DEF SignInInv
<1>1. \A u \in Persons : Cardinality(LinksOf(u)) <= 1
  BY LinksCounted
<1>2. \A u \in Persons : person[u].st # "none" => person[u].password \/ LinksOf(u) # {} \/ stolen
  BY DEF HasAWayIn, LinksOf
<1>3. \A m \in Updates : handed[m] <= 1 \/ m \in lost
  BY DEF TurnsAreKept
<1> QED
  BY <1>1, <1>2, <1>3 DEF NobodyLockedOut, SignInTyped, ChatsAreOfSomebody

\* Nobody loses the last way in, unless a link was taken from another person than the one asked
\* about; a person has one chat, and a message one turn (auth, connections, telegram).
THEOREM NobodyLosesTheLastWay == Spec => []NobodyLockedOut
<1>1. HomeInit => SignInInv
  BY SignInStarts DEF HomeInit
<1>2. [HomeNext]_homeVars => [SignInNext]_signInVars
  BY DEF HomeNext, homeVars, signInVars
<1> QED
  BY <1>1, <1>2, SignInKept, SignInSafe, PTL DEF Spec

-----------------------------------------------------------------------------
(* Contacts.                                                               *)

NoticeRow == [st : {"none", "open", "actioned", "dismissed", "gone"},
              to : Users \cup {""}, from : Users \cup {""}, contact : People \cup {""}]
AskRow == [op : {"idle", "request", "accept", "existing"}, c : People \cup {""}, to : Users \cup {""},
           n : Notices \cup {""}, accept : BOOLEAN]

ContactsTyped ==
  /\ contact \in [People -> ContactRow]
  /\ notice \in [Notices -> NoticeRow]
  /\ asks \in [LinkAsks -> AskRow]
  /\ linked \subseteq People \X Users
  /\ entry \in [Entries -> People \cup {""}]

\* A request that was ever sent is from the owner of the contact it is about to another user; one
\* that is answered was agreed to.
NoticeSays(n) ==
  notice[n].st \in {"open", "actioned", "dismissed"} =>
    /\ notice[n].contact \in People /\ notice[n].to \in Users
    /\ notice[n].from = Owner[notice[n].contact] /\ notice[n].to # notice[n].from
    /\ notice[n].st = "actioned" => <<notice[n].from, notice[n].to>> \in agreed

\* What a request in hand has read and nobody else changes: the contact was there, the notice it
\* answers says what it says.
AskSays(q) ==
  IF asks[q].op = "idle" THEN ~asks[q].accept
  ELSE
    /\ asks[q].c \in People /\ contact[asks[q].c].st # "none"
    /\ asks[q].to \in Users /\ asks[q].to # Owner[asks[q].c]
    /\ asks[q].op = "accept" =>
         /\ asks[q].n \in Notices /\ notice[asks[q].n].st \in {"open", "actioned"}
         /\ notice[asks[q].n].contact = asks[q].c /\ notice[asks[q].n].to = asks[q].to
    /\ asks[q].op = "existing" => <<asks[q].to, Owner[asks[q].c]>> \in agreed

\* ... and what somebody else may change: the link, if two have the contact in hand.
ReadStands(q) ==
  asks[q].op # "idle" /\ asks[q].c \notin raced =>
    contact[asks[q].c].link = "" \/ (asks[q].op = "existing" /\ contact[asks[q].c].link = asks[q].to)

AloneUnlessRaced ==
  \A p, q \in LinkAsks :
    p # q /\ asks[p].op # "idle" /\ asks[q].op # "idle" /\ asks[p].c = asks[q].c => asks[q].c \in raced

LinkSays(c) ==
  contact[c].link # "" =>
    /\ LiveContact(c) /\ contact[c].link # Owner[c]
    /\ <<Owner[c], contact[c].link>> \in agreed \/ <<contact[c].link, Owner[c]>> \in agreed

\* idx_contacts_owner_linked_user.
OneContactEach ==
  \A c, d \in People : c # d /\ Owner[c] = Owner[d] /\ contact[c].link = contact[d].link => contact[c].link = ""

LinkedStands == \A l \in linked : contact[l[1]].link = l[2] \/ l[1] \in raced

EntriesStand == \A e \in Entries : entry[e] # "" => LiveContact(entry[e])

ContactsInv ==
  /\ ContactsTyped
  /\ \A n \in Notices : NoticeSays(n)
  /\ \A q \in LinkAsks : AskSays(q) /\ ReadStands(q)
  /\ AloneUnlessRaced
  /\ \A c \in People : LinkSays(c)
  /\ OneContactEach /\ LinkedStands /\ EntriesStand

\* The first of some ids is one of them.
LEMMA FirstIsOne == ASSUME NEW ids, NEW i \in FirstOf(ids) PROVE i \in ids
BY DEF FirstOf

\* The index, as the writes look at it.
LEMMA TakenMeans ==
  ASSUME ContactsTyped, \A d \in People : LinkSays(d), NEW c \in People, NEW u \in Users
  PROVE  Taken(c, u) <=> \E d \in People \ {c} : Owner[d] = Owner[c] /\ contact[d].link = u
BY ContactOwners DEF Taken, Mine, LinkSays

\* A request that is over has nothing in hand.
LEMMA NoAskIdles == NoAsk.op = "idle" /\ ~NoAsk.accept
BY DEF NoAsk

\* At the start there are no contacts, no notices and no requests.
LEMMA ContactsStart == ContactsInit => ContactsInv
<1> SUFFICES ASSUME ContactsInit PROVE ContactsInv
  OBVIOUS
<1>1. NoContact \in ContactRow /\ NoNotice \in NoticeRow /\ NoAsk \in AskRow
  BY DEF NoContact, NoNotice, NoAsk, ContactRow, NoticeRow, AskRow
<1>2. ContactsTyped
  BY <1>1 DEF ContactsInit, ContactsTyped
<1>3. /\ \A n \in Notices : notice[n].st = "none"
      /\ \A q \in LinkAsks : asks[q].op = "idle" /\ ~asks[q].accept
      /\ \A c \in People : contact[c].link = ""
      /\ \A e \in Entries : entry[e] = ""
      /\ linked = {}
  BY DEF ContactsInit, NoContact, NoNotice, NoAsk
<1> QED
  BY <1>2, <1>3 DEF ContactsInv, NoticeSays, AskSays, ReadStands, AloneUnlessRaced, LinkSays, OneContactEach,
                    LinkedStands, EntriesStand

\* A contact is made or changed in what is no link, and an entry taken in.
Reshapes ==
  /\ contact' \in [People -> ContactRow]
  /\ \A c \in People : /\ contact'[c].link = contact[c].link
                       /\ LiveContact(c) => contact'[c].st \in {"active", "archived"}
                       /\ contact[c].st # "none" => contact'[c].st # "none"
  /\ entry' \in [Entries -> People \cup {""}]
  /\ \A e \in Entries : entry'[e] = entry[e] \/ (entry'[e] \in People /\ contact'[entry'[e]].st \in {"active", "archived"})
  /\ UNCHANGED <<notice, asks, agreed, raced, linked>>

\* A link and what is known of it are left as they are.
LEMMA ReshapesKept == ContactsInv /\ Reshapes => ContactsInv'
<1> SUFFICES ASSUME ContactsInv, Reshapes PROVE ContactsInv'
  OBVIOUS
<1> USE DEF ContactsInv, Reshapes
<1>1. ContactsTyped'
  BY DEF ContactsTyped
<1>2. ASSUME NEW n \in Notices PROVE NoticeSays(n)'
  BY DEF NoticeSays
<1>3. ASSUME NEW q \in LinkAsks PROVE AskSays(q)' /\ ReadStands(q)'
  <2>1. AskSays(q) /\ ReadStands(q)
    OBVIOUS
  <2>2. asks[q].op # "idle" => asks[q].c \in People
    BY <2>1 DEF AskSays
  <2>3. AskSays(q)'
    BY <2>1, <2>2 DEF AskSays
  <2> QED
    BY <2>1, <2>2, <2>3 DEF ReadStands
<1>4. AloneUnlessRaced'
  BY DEF AloneUnlessRaced
<1>5. ASSUME NEW c \in People PROVE LinkSays(c)'
  <2>1. LinkSays(c)
    OBVIOUS
  <2> QED
    BY <2>1 DEF LinkSays, LiveContact
<1>6. OneContactEach'
  BY DEF OneContactEach
<1>7. LinkedStands'
  BY DEF LinkedStands, ContactsTyped
<1>8. EntriesStand'
  BY DEF EntriesStand, ContactsTyped, LiveContact
<1> QED
  BY <1>1, <1>2, <1>3, <1>4, <1>5, <1>6, <1>7, <1>8

\* A contact loses its link, or goes.
Unlinks(c) ==
  /\ contact' \in [People -> ContactRow]
  /\ contact'[c].link = "" /\ contact'[c].st # "none"
  /\ \A d \in People \ {c} : contact'[d] = contact[d]
  /\ linked' = {l \in linked : l[1] # c}
  /\ entry' \in [Entries -> People \cup {""}]
  /\ \A e \in Entries : /\ entry'[e] \in {entry[e], ""}
                        /\ entry'[e] = c => contact'[c].st \in {"active", "archived"}
  /\ UNCHANGED <<notice, asks, agreed, raced>>

\* A contact without a link claims nothing, and its entries stay or lose it.
LEMMA UnlinksKept == ASSUME ContactsInv, NEW c \in People, Unlinks(c) PROVE ContactsInv'
<1> USE DEF ContactsInv, Unlinks
<1>1. ContactsTyped'
  BY DEF ContactsTyped
<1>2. ASSUME NEW n \in Notices PROVE NoticeSays(n)'
  BY DEF NoticeSays
<1>3. ASSUME NEW q \in LinkAsks PROVE AskSays(q)' /\ ReadStands(q)'
  <2>1. AskSays(q) /\ ReadStands(q)
    OBVIOUS
  <2>2. AskSays(q)'
    BY <2>1 DEF AskSays
  <2> QED
    BY <2>1, <2>2 DEF ReadStands, AskSays
<1>4. AloneUnlessRaced'
  BY DEF AloneUnlessRaced
<1>5. ASSUME NEW d \in People PROVE LinkSays(d)'
  <2>1. LinkSays(d)
    OBVIOUS
  <2> QED
    BY <2>1 DEF LinkSays, LiveContact
<1>6. OneContactEach'
  BY DEF OneContactEach
<1>7. LinkedStands'
  BY DEF LinkedStands, ContactsTyped
<1>8. EntriesStand'
  BY DEF EntriesStand, ContactsTyped, LiveContact
<1> QED
  BY <1>1, <1>2, <1>3, <1>4, <1>5, <1>6, <1>7, <1>8

\* A request looks, and has its contact in hand.
TakesUp(q) ==
  /\ asks[q].op = "idle" /\ asks'[q].op # "idle"
  /\ asks' \in [LinkAsks -> AskRow]
  /\ \A p \in LinkAsks \ {q} : asks'[p] = asks[p]
  /\ AskSays(q)'
  /\ contact[asks'[q].c].link = "" \/ (asks'[q].op = "existing" /\ contact[asks'[q].c].link = asks'[q].to)
  /\ raced' = NotedRace(asks'[q].c)
  /\ UNCHANGED <<contact, notice, entry, agreed, linked>>

\* A request that has read a contact stands until somebody else has it in hand too.
LEMMA TakesUpKept == ASSUME ContactsInv, NEW q \in LinkAsks, TakesUp(q) PROVE ContactsInv'
<1> USE DEF ContactsInv, TakesUp
<1>1. ContactsTyped'
  BY DEF ContactsTyped
<1>2. ASSUME NEW n \in Notices PROVE NoticeSays(n)'
  BY DEF NoticeSays
<1>3. ASSUME NEW p \in LinkAsks PROVE AskSays(p)' /\ ReadStands(p)'
  <2>1. CASE p = q
    BY <2>1 DEF ReadStands
  <2>2. CASE p # q
    <3>1. AskSays(p) /\ ReadStands(p) /\ raced \subseteq raced'
      BY DEF NotedRace
    <3> QED
      BY <2>2, <3>1 DEF AskSays, ReadStands
  <2> QED
    BY <2>1, <2>2
<1>4. AloneUnlessRaced'
  <2> SUFFICES ASSUME NEW p \in LinkAsks, NEW r \in LinkAsks, p # r,
                      asks'[p].op # "idle", asks'[r].op # "idle", asks'[p].c = asks'[r].c
               PROVE  asks'[r].c \in raced'
    BY DEF AloneUnlessRaced
  <2>1. CASE p # q /\ r # q
    BY <2>1 DEF AloneUnlessRaced, NotedRace
  <2>2. CASE p = q \/ r = q
    BY <2>2 DEF NotedRace, InHand
  <2> QED
    BY <2>1, <2>2
<1>5. ASSUME NEW c \in People PROVE LinkSays(c)'
  BY DEF LinkSays, LiveContact
<1>6. OneContactEach' /\ EntriesStand'
  BY DEF OneContactEach, EntriesStand, LiveContact
<1>7. LinkedStands'
  BY DEF LinkedStands, NotedRace
<1> QED
  BY <1>1, <1>2, <1>3, <1>4, <1>5, <1>6, <1>7

\* Notices: a new one that says what is so, one that moves on, one that is gone.
NoticesMove ==
  /\ notice' \in [Notices -> NoticeRow]
  /\ \A n \in Notices : \/ notice'[n] = notice[n]
                        \/ /\ NoticeSays(n)'
                           /\ \/ \A q \in LinkAsks : asks'[q].op = "accept" => asks'[q].n # n
                              \/ /\ notice'[n].st \in {"open", "actioned"}
                                 /\ notice'[n].contact = notice[n].contact /\ notice'[n].to = notice[n].to

\* A request leaves, and its contact is linked or not.
PutsDown(q) ==
  /\ asks[q].op # "idle" /\ asks' = [asks EXCEPT ![q] = NoAsk]
  /\ NoticesMove
  /\ agreed \subseteq agreed'
  /\ UNCHANGED <<entry, raced>>

LinksUp(c, u) ==
  /\ LiveContact(c) /\ ~Taken(c, u) /\ Linked(c, u)
  /\ u # Owner[c]
  /\ <<Owner[c], u>> \in agreed' \/ <<u, Owner[c]>> \in agreed'

\* The other requests keep what they have read.
LEMMA AskLeft ==
  ASSUME ContactsInv, NEW q \in LinkAsks, asks' = [asks EXCEPT ![q] = NoAsk]
  PROVE  /\ asks' \in [LinkAsks -> AskRow] /\ asks'[q].op = "idle" /\ ~asks'[q].accept
         /\ \A p \in LinkAsks \ {q} : asks'[p] = asks[p]
BY DEF ContactsInv, ContactsTyped, NoAsk, AskRow

\* Notices keep what they say when more has been agreed to.
LEMMA NoticesKept ==
  ASSUME ContactsInv, NoticesMove, agreed \subseteq agreed', NEW n \in Notices
  PROVE  NoticeSays(n)'
<1>1. NoticeSays(n)
  BY DEF ContactsInv
<1> QED
  BY <1>1 DEF NoticesMove, NoticeSays

\* What a request in hand has read still is so, whatever else moves.
LEMMA AsksKept ==
  ASSUME ContactsInv, NoticesMove, agreed \subseteq agreed', NEW q \in LinkAsks, asks'[q] = asks[q],
         \A c \in People : contact[c].st # "none" => contact'[c].st # "none"
  PROVE  AskSays(q)'
<1>1. AskSays(q)
  BY DEF ContactsInv
<1>2. asks[q].op = "accept" =>
        /\ notice'[asks[q].n].st \in {"open", "actioned"}
        /\ notice'[asks[q].n].contact = asks[q].c /\ notice'[asks[q].n].to = asks[q].to
  BY <1>1 DEF NoticesMove, AskSays, Answering
<1> QED
  BY <1>1, <1>2 DEF AskSays

\* A request is over and has linked nothing.
LEMMA PutsDownKept ==
  ASSUME ContactsInv, NEW q \in LinkAsks, PutsDown(q), UNCHANGED <<contact, linked>>
  PROVE  ContactsInv'
<1> USE DEF ContactsInv, PutsDown
<1>0. /\ asks' \in [LinkAsks -> AskRow] /\ asks'[q].op = "idle" /\ ~asks'[q].accept
      /\ \A p \in LinkAsks \ {q} : asks'[p] = asks[p]
  BY AskLeft DEF PutsDown
<1>1. ContactsTyped'
  BY <1>0 DEF ContactsTyped, NoticesMove
<1>2. ASSUME NEW n \in Notices PROVE NoticeSays(n)'
  BY NoticesKept
<1>3. ASSUME NEW p \in LinkAsks PROVE AskSays(p)' /\ ReadStands(p)'
  <2>1. CASE p = q
    BY <1>0, <2>1 DEF AskSays, ReadStands
  <2>2. CASE p # q
    <3>1. AskSays(p)'
      BY <1>0, <2>2, AsksKept
    <3> QED
      BY <1>0, <2>2, <3>1 DEF ReadStands
  <2> QED
    BY <2>1, <2>2
<1>4. AloneUnlessRaced'
  BY <1>0 DEF AloneUnlessRaced
<1>5. ASSUME NEW c \in People PROVE LinkSays(c)'
  BY DEF LinkSays, LiveContact
<1>6. OneContactEach' /\ EntriesStand' /\ LinkedStands'
  BY DEF OneContactEach, EntriesStand, LiveContact, LinkedStands
<1> QED
  BY <1>0, <1>1, <1>2, <1>3, <1>4, <1>5, <1>6

\* A link that is written is what the request has read it to be, or two had the contact in hand.
LEMMA LinksUpKept ==
  ASSUME ContactsInv, NEW q \in LinkAsks, PutsDown(q), LinksUp(asks[q].c, asks[q].to)
  PROVE  ContactsInv'
<1> USE DEF ContactsInv
<1>1. PICK c \in People, u \in Users :
        /\ c = asks[q].c /\ u = asks[q].to /\ u # Owner[c] /\ u # ""
        /\ c \in raced \/ contact[c].link \in {"", u}
  <2>1. AskSays(q) /\ ReadStands(q)
    OBVIOUS
  <2> QED
    BY <2>1, ContactOwners DEF AskSays, ReadStands, PutsDown
<1>2. /\ LiveContact(c) /\ ~Taken(c, u)
      /\ <<Owner[c], u>> \in agreed' \/ <<u, Owner[c]>> \in agreed'
      /\ linked' = linked \cup {<<c, u>>}
  BY <1>1 DEF LinksUp, Linked
<1>3. /\ contact' \in [People -> ContactRow]
      /\ contact'[c].link = u /\ contact'[c].st = contact[c].st
      /\ \A d \in People \ {c} : contact'[d] = contact[d]
  BY <1>1 DEF LinksUp, Linked, ContactsTyped, ContactRow
<1>4. UNCHANGED <<entry, raced>> /\ agreed \subseteq agreed'
  BY DEF PutsDown
<1>5. /\ asks' \in [LinkAsks -> AskRow] /\ asks'[q].op = "idle" /\ ~asks'[q].accept
      /\ \A p \in LinkAsks \ {q} : asks'[p] = asks[p]
  BY AskLeft DEF PutsDown
<1>6. ContactsTyped'
  <2>1. linked' \subseteq People \X Users
    <3>1. <<c, u>> \in People \X Users
      OBVIOUS
    <3> QED
      BY <1>2, <3>1 DEF ContactsTyped
  <2> QED
    BY <1>3, <1>4, <1>5, <2>1 DEF ContactsTyped, PutsDown, NoticesMove
<1>7. ASSUME NEW n \in Notices PROVE NoticeSays(n)'
  BY <1>4, NoticesKept DEF PutsDown
<1>8. ASSUME NEW p \in LinkAsks PROVE AskSays(p)' /\ ReadStands(p)'
  <2>1. CASE p = q
    BY <1>5, <2>1 DEF AskSays, ReadStands
  <2>2. CASE p # q
    <3>1. AskSays(p)'
      BY <1>3, <1>4, <1>5, <2>2, AsksKept DEF PutsDown
    <3>2. asks[p].op # "idle" /\ asks[p].c = c => c \in raced
      BY <1>1, <2>2 DEF AloneUnlessRaced, PutsDown
    <3>3. ReadStands(p) /\ AskSays(p)
      OBVIOUS
    <3> QED
      <4>1. CASE asks[p].c = c
        BY <1>4, <1>5, <2>2, <3>1, <3>2, <4>1 DEF ReadStands
      <4>2. CASE asks[p].c # c
        <5>1. asks[p].op # "idle" => contact'[asks[p].c] = contact[asks[p].c]
          BY <1>3, <3>3, <4>2 DEF AskSays
        <5> QED
          BY <1>4, <1>5, <2>2, <3>1, <3>3, <5>1 DEF ReadStands
      <4> QED
        BY <4>1, <4>2
  <2> QED
    BY <2>1, <2>2
<1>9. AloneUnlessRaced'
  BY <1>4, <1>5 DEF AloneUnlessRaced
<1>10. ASSUME NEW d \in People PROVE LinkSays(d)'
  <2>1. CASE d = c
    BY <1>1, <1>2, <1>3, <2>1 DEF LinkSays, LiveContact
  <2>2. CASE d # c
    BY <1>3, <1>4, <2>2 DEF LinkSays, LiveContact
  <2> QED
    BY <2>1, <2>2
<1>11. OneContactEach'
  <2>1. \A d \in People \ {c} : Owner[d] = Owner[c] => contact[d].link # u
    BY <1>2, TakenMeans
  <2> QED
    BY <1>3, <2>1 DEF OneContactEach
<1>12. LinkedStands'
  <2> SUFFICES ASSUME NEW l \in linked', l[1] \notin raced PROVE contact'[l[1]].link = l[2]
    BY <1>4 DEF LinkedStands
  <2>1. CASE l = <<c, u>>
    BY <1>3, <2>1
  <2>2. CASE l \in linked
    <3>1. l \in People \X Users /\ contact[l[1]].link = l[2] /\ l[2] # ""
      BY <2>2, ContactOwners DEF LinkedStands, ContactsTyped
    <3> QED
      BY <1>1, <1>3, <3>1
  <2> QED
    BY <1>2, <2>1, <2>2
<1>13. EntriesStand'
  BY <1>3, <1>4 DEF EntriesStand, LiveContact, ContactsTyped
<1> QED
  BY <1>6, <1>7, <1>8, <1>9, <1>10, <1>11, <1>12, <1>13

\* Notices move on their own.
LEMMA NoticesMoveKept ==
  ASSUME ContactsInv, NoticesMove, agreed \subseteq agreed', UNCHANGED <<contact, asks, entry, raced, linked>>
  PROVE  ContactsInv'
<1> USE DEF ContactsInv
<1>1. ContactsTyped'
  BY DEF ContactsTyped, NoticesMove
<1>2. ASSUME NEW n \in Notices PROVE NoticeSays(n)'
  BY NoticesKept
<1>3. ASSUME NEW p \in LinkAsks PROVE AskSays(p)' /\ ReadStands(p)'
  BY AsksKept DEF ReadStands
<1>4. AloneUnlessRaced'
  BY DEF AloneUnlessRaced
<1>5. ASSUME NEW c \in People PROVE LinkSays(c)'
  BY DEF LinkSays, LiveContact
<1>6. OneContactEach' /\ EntriesStand' /\ LinkedStands'
  BY DEF OneContactEach, EntriesStand, LiveContact, LinkedStands
<1> QED
  BY <1>1, <1>2, <1>3, <1>4, <1>5, <1>6

\* A contact is made for the user a request came from.
LEMMA CreateLinkedKept ==
  ASSUME ContactsInv, NEW n \in Notices, NEW c \in People, CreateLinked(n, c)
  PROVE  ContactsInv'
<1> USE DEF ContactsInv
<1>1. PICK u \in Users :
        /\ u = notice[n].from /\ u # "" /\ u # Owner[c] /\ ~Taken(c, u)
        /\ <<u, Owner[c]>> \in agreed
        /\ contact[c].st = "none"
        /\ contact' = [contact EXCEPT ![c] = [st |-> "active", email |-> u, link |-> u]]
        /\ linked' = linked \cup {<<c, u>>}
        /\ UNCHANGED <<notice, asks, entry, agreed, raced>>
  <2>1. NoticeSays(n)
    OBVIOUS
  <2> QED
    BY <2>1, ContactOwners DEF NoticeSays, CreateLinked, Verified
<1>2. /\ contact' \in [People -> ContactRow]
      /\ contact'[c].link = u /\ contact'[c].st = "active"
      /\ \A d \in People \ {c} : contact'[d] = contact[d]
  BY <1>1 DEF ContactsTyped, ContactRow
<1>3. ContactsTyped'
  <2>1. linked' \subseteq People \X Users
    <3>1. <<c, u>> \in People \X Users
      OBVIOUS
    <3> QED
      BY <1>1, <3>1 DEF ContactsTyped
  <2> QED
    BY <1>1, <1>2, <2>1 DEF ContactsTyped
<1>4. ASSUME NEW m \in Notices PROVE NoticeSays(m)'
  BY <1>1 DEF NoticeSays
<1>5. ASSUME NEW p \in LinkAsks PROVE AskSays(p)' /\ ReadStands(p)'
  <2>1. AskSays(p) /\ ReadStands(p)
    OBVIOUS
  <2>2. AskSays(p)'
    BY <2>1, <1>1, <1>2 DEF AskSays
  <2> QED
    BY <2>1, <2>2, <1>1, <1>2 DEF ReadStands, AskSays
<1>6. AloneUnlessRaced'
  BY <1>1 DEF AloneUnlessRaced
<1>7. ASSUME NEW d \in People PROVE LinkSays(d)'
  <2>1. CASE d = c
    BY <1>1, <1>2, <2>1 DEF LinkSays, LiveContact
  <2>2. CASE d # c
    BY <1>1, <1>2, <2>2 DEF LinkSays, LiveContact
  <2> QED
    BY <2>1, <2>2
<1>8. OneContactEach'
  <2>1. \A d \in People \ {c} : Owner[d] = Owner[c] => contact[d].link # u
    BY <1>1, TakenMeans
  <2> QED
    BY <1>1, <1>2, <2>1 DEF OneContactEach
<1>9. LinkedStands'
  <2> SUFFICES ASSUME NEW l \in linked', l[1] \notin raced PROVE contact'[l[1]].link = l[2]
    BY <1>1 DEF LinkedStands
  <2>1. CASE l = <<c, u>>
    BY <1>2, <2>1
  <2>2. CASE l \in linked
    <3>1. l \in People \X Users /\ contact[l[1]].link = l[2] /\ l[2] # ""
      BY <2>2, ContactOwners DEF LinkedStands, ContactsTyped
    <3>2. l[1] # c
      BY <1>1, <3>1 DEF LinkSays, LiveContact
    <3> QED
      BY <1>2, <3>1, <3>2
  <2> QED
    BY <1>1, <2>1, <2>2
<1>10. EntriesStand'
  BY <1>1, <1>2 DEF EntriesStand, LiveContact, ContactsTyped
<1> QED
  BY <1>3, <1>4, <1>5, <1>6, <1>7, <1>8, <1>9, <1>10

\* Every step is one of these.
LEMMA ContactSteps ==
  ASSUME ContactsInv, ContactsNext
  PROVE  ContactsInv'
<1> USE DEF ContactsInv
<1>1. ASSUME NEW c \in People, NEW u \in Addresses[c], CreateContact(c, u) PROVE ContactsInv'
  <2>1. u \in Users \cup {""} /\ contact[c].link = ""
    BY <1>1, ContactAddresses DEF CreateContact, LinkSays, LiveContact
  <2>2. Reshapes
    BY <1>1, <2>1 DEF CreateContact, Reshapes, ContactsTyped, ContactRow, LiveContact
  <2> QED
    BY <2>2, ReshapesKept
<1>2. ASSUME NEW c \in People, NEW u \in Addresses[c], UpdateContact(c, u) PROVE ContactsInv'
  <2>1. u \in Users \cup {""}
    BY ContactAddresses
  <2>2. Reshapes
    BY <1>2, <2>1 DEF UpdateContact, Reshapes, ContactsTyped, ContactRow, LiveContact
  <2> QED
    BY <2>2, ReshapesKept
<1>3. ASSUME NEW c \in People, NEW e \in Entries, Absorb(c, e) PROVE ContactsInv'
  <2>1. Reshapes
    BY <1>3 DEF Absorb, Reshapes, ContactsTyped, LiveContact
  <2> QED
    BY <2>1, ReshapesKept
<1>4. ASSUME NEW c \in People, SetContactStatus(c) PROVE ContactsInv'
  <2>1. Reshapes
    BY <1>4 DEF SetContactStatus, Reshapes, ContactsTyped, ContactRow, LiveContact
  <2> QED
    BY <2>1, ReshapesKept
<1>5. ASSUME NEW c \in People, DeleteContact(c) \/ Unlink(c) PROVE ContactsInv'
  <2>1. CASE DeleteContact(c)
    <3>1. PICK gone \in ContactRow : gone.link = "" /\ gone.st = "gone" /\ contact' = [contact EXCEPT ![c] = gone]
      BY <2>1 DEF DeleteContact, NoContact, ContactRow
    <3>2. /\ entry' \in [Entries -> People \cup {""}]
          /\ \A e \in Entries : entry'[e] \in {entry[e], ""} /\ entry'[e] # c
      BY <2>1, ContactOwners DEF DeleteContact, ContactsTyped
    <3>3. Unlinks(c)
      BY <2>1, <3>1, <3>2 DEF DeleteContact, Unlinks, ContactsTyped
    <3> QED
      BY <3>3, UnlinksKept
  <2>2. CASE Unlink(c)
    <3>1. Unlinks(c)
      BY <2>2 DEF Unlink, Unlinks, ContactsTyped, ContactRow, LiveContact
    <3> QED
      BY <3>1, UnlinksKept
  <2> QED
    BY <1>5, <2>1, <2>2
<1>6. ASSUME NEW n \in Notices, Reject(n) \/ MarkActioned(n) \/ RestoreNotice(n) \/ DeleteNotice(n)
      PROVE  ContactsInv'
  <2>0. NoticeSays(n) /\ notice[n] \in NoticeRow
    BY DEF ContactsTyped
  <2>1. agreed \subseteq agreed' /\ UNCHANGED <<contact, asks, entry, raced, linked>>
    BY <1>6 DEF Reject, MarkActioned, RestoreNotice, DeleteNotice
  <2>2. NoticesMove
    <3>1. CASE Reject(n)
      BY <2>0, <3>1 DEF Reject, NoticesMove, NoticeSays, Answering, ContactsTyped, NoticeRow
    <3>2. CASE MarkActioned(n)
      BY <2>0, <3>2 DEF MarkActioned, NoticesMove, NoticeSays, Answering, ContactsTyped, NoticeRow
    <3>3. CASE RestoreNotice(n)
      BY <2>0, <3>3 DEF RestoreNotice, NoticesMove, NoticeSays, Answering, ContactsTyped, NoticeRow
    <3>4. CASE DeleteNotice(n)
      BY <2>0, <3>4 DEF DeleteNotice, NoticesMove, NoticeSays, Answering, ContactsTyped, NoticeRow, NoNotice
    <3> QED
      BY <1>6, <3>1, <3>2, <3>3, <3>4
  <2> QED
    BY <2>1, <2>2, NoticesMoveKept
<1>7. ASSUME NEW q \in LinkAsks, NEW c \in People, Request(q, c) PROVE ContactsInv'
  <2>1. asks[q] = NoAsk
    BY <1>7, FirstIsOne DEF Request
  <2>2. PICK a \in BOOLEAN :
          asks' = [asks EXCEPT ![q] = [op |-> "request", c |-> c, to |-> contact[c].email, n |-> "", accept |-> a]]
    BY <1>7 DEF Request, AcceptRequest, LinkBetween
  <2>3. contact[c].email \in Users \ {Owner[c]} /\ contact[c].st # "none" /\ contact[c].link = ""
    BY <1>7 DEF Request, ContactsTyped, ContactRow, LiveContact
  <2>4. TakesUp(q)
    <3>1. asks' \in [LinkAsks -> AskRow] /\ \A p \in LinkAsks \ {q} : asks'[p] = asks[p]
      BY <1>7, <2>2, <2>3 DEF ContactsTyped, AskRow
    <3>2. asks'[q].op = "request" /\ asks'[q].c = c /\ asks'[q].to = contact[c].email /\ asks'[q].n = ""
      BY <2>2 DEF ContactsTyped
    <3>3. raced' = NotedRace(c) /\ UNCHANGED <<contact, notice, entry, agreed, linked>>
      BY <1>7 DEF Request
    <3>4. AskSays(q)'
      BY <2>3, <3>2, <3>3 DEF AskSays
    <3>5. asks[q].op = "idle"
      BY <2>1, NoAskIdles
    <3> QED
      BY <2>3, <3>1, <3>2, <3>3, <3>4, <3>5 DEF TakesUp
  <2> QED
    BY <2>4, TakesUpKept
<1>8. ASSUME NEW q \in LinkAsks, NEW c \in People, NEW n \in Notices, LinkExisting(q, n, c) PROVE ContactsInv'
  <2>1. asks[q] = NoAsk
    BY <1>8, FirstIsOne DEF LinkExisting
  <2>2. asks' = [asks EXCEPT ![q] = [op |-> "existing", c |-> c, to |-> notice[n].from, n |-> n, accept |-> TRUE]]
    BY <1>8 DEF LinkExisting
  <2>3. /\ notice[n].from \in Users \ {Owner[c]} /\ <<notice[n].from, Owner[c]>> \in agreed
        /\ contact[c].st # "none" /\ contact[c].link \in {"", notice[n].from}
    <3>1. NoticeSays(n)
      OBVIOUS
    <3> QED
      BY <1>8, <3>1, ContactOwners DEF LinkExisting, Verified, NoticeSays, LiveContact
  <2>4. TakesUp(q)
    <3>1. asks' \in [LinkAsks -> AskRow] /\ \A p \in LinkAsks \ {q} : asks'[p] = asks[p]
      BY <1>8, <2>2, <2>3 DEF ContactsTyped, AskRow
    <3>2. asks'[q].op = "existing" /\ asks'[q].c = c /\ asks'[q].to = notice[n].from /\ asks'[q].n = n
      BY <2>2 DEF ContactsTyped
    <3>3. raced' = NotedRace(c) /\ UNCHANGED <<contact, notice, entry, agreed, linked>>
      BY <1>8 DEF LinkExisting
    <3>4. AskSays(q)'
      BY <2>3, <3>2, <3>3 DEF AskSays
    <3>5. asks[q].op = "idle"
      BY <2>1, NoAskIdles
    <3> QED
      BY <2>3, <3>1, <3>2, <3>3, <3>4, <3>5 DEF TakesUp
  <2> QED
    BY <2>4, TakesUpKept
<1>9. ASSUME NEW q \in LinkAsks, NEW n \in Notices, Accept(q, n) PROVE ContactsInv'
  <2>1. asks[q] = NoAsk
    BY <1>9, FirstIsOne DEF Accept
  <2>2. asks' = [asks EXCEPT ![q] = [op |-> "accept", c |-> notice[n].contact, to |-> notice[n].to, n |-> n, accept |-> TRUE]]
    BY <1>9 DEF Accept
  <2>3. /\ notice[n].st \in {"open", "actioned"} /\ notice[n].contact \in People
        /\ notice[n].to \in Users \ {Owner[notice[n].contact]}
        /\ contact[notice[n].contact].st # "none" /\ contact[notice[n].contact].link = ""
    <3>1. NoticeSays(n)
      OBVIOUS
    <3> QED
      BY <1>9, <3>1 DEF Accept, NoticeSays, LiveContact
  <2>4. TakesUp(q)
    <3>1. asks' \in [LinkAsks -> AskRow] /\ \A p \in LinkAsks \ {q} : asks'[p] = asks[p]
      BY <1>9, <2>2, <2>3 DEF ContactsTyped, AskRow
    <3>2. asks'[q].op = "accept" /\ asks'[q].c = notice[n].contact /\ asks'[q].to = notice[n].to /\ asks'[q].n = n
      BY <2>2 DEF ContactsTyped
    <3>3. raced' = NotedRace(notice[n].contact) /\ UNCHANGED <<contact, notice, entry, agreed, linked>>
      BY <1>9 DEF Accept
    <3>4. AskSays(q)'
      BY <2>3, <3>2, <3>3 DEF AskSays
    <3>5. asks[q].op = "idle"
      BY <2>1, NoAskIdles
    <3> QED
      BY <2>3, <3>1, <3>2, <3>3, <3>4, <3>5 DEF TakesUp
  <2> QED
    BY <2>4, TakesUpKept
<1>10. ASSUME NEW q \in LinkAsks, Requested(q) PROVE ContactsInv'
  <2>0. AskSays(q)
    OBVIOUS
  <2>1. asks[q].accept => <<Owner[asks[q].c], asks[q].to>> \in agreed'
    BY <1>10 DEF Requested
  <2>2. agreed \subseteq agreed' /\ asks' = [asks EXCEPT ![q] = NoAsk] /\ Noticed(q) /\ UNCHANGED <<entry, raced>>
    BY <1>10 DEF Requested
  <2>3. NoticesMove
    <3>1. CASE notice' = notice
      BY <3>1 DEF NoticesMove, ContactsTyped
    <3>2. CASE notice' # notice
      <4>1. PICK n \in Notices :
              /\ notice[n].st = "none"
              /\ notice' = [notice EXCEPT ![n] = [st |-> IF asks[q].accept THEN "actioned" ELSE "open", to |-> asks[q].to,
                                                  from |-> Owner[asks[q].c], contact |-> asks[q].c]]
        BY <2>2, <3>2, FirstIsOne DEF Noticed
      <4>2. asks[q].c \in People /\ asks[q].to \in Users /\ Owner[asks[q].c] \in Users /\ asks[q].to # Owner[asks[q].c]
        BY <1>10, <2>0, ContactOwners DEF Requested, AskSays
      <4>3. notice' \in [Notices -> NoticeRow] /\ \A m \in Notices \ {n} : notice'[m] = notice[m]
        BY <4>1, <4>2 DEF ContactsTyped, NoticeRow
      <4>4. NoticeSays(n)'
        BY <2>1, <4>1, <4>2 DEF NoticeSays, ContactsTyped
      <4>5. \A p \in LinkAsks : asks'[p].op = "accept" => asks'[p].n # n
        <5> SUFFICES ASSUME NEW p \in LinkAsks, p # q, asks'[p].op = "accept" PROVE asks'[p].n # n
          BY <2>2, AskLeft
        <5>1. AskSays(p) /\ asks'[p] = asks[p]
          BY <2>2, AskLeft
        <5> QED
          BY <4>1, <5>1 DEF AskSays
      <4> QED
        BY <4>3, <4>4, <4>5, <2>2 DEF NoticesMove
    <3> QED
      BY <3>1, <3>2
  <2>4. PutsDown(q)
    BY <1>10, <2>2, <2>3 DEF PutsDown, Requested
  <2>5. CASE ~asks[q].accept
    BY <1>10, <2>4, <2>5, PutsDownKept DEF Requested
  <2>6. CASE asks[q].accept
    <3>1. LinksUp(asks[q].c, asks[q].to)
      BY <1>10, <2>0, <2>1, <2>6 DEF Requested, LinksUp, AskSays
    <3> QED
      BY <2>4, <3>1, LinksUpKept
  <2> QED
    BY <2>5, <2>6
<1>11. ASSUME NEW q \in LinkAsks, Accepted(q) PROVE ContactsInv'
  <2>1. AskSays(q) /\ asks[q].op = "accept"
    BY <1>11 DEF Accepted
  <2>2. PICK n \in Notices : /\ n = asks[q].n /\ notice[n].st \in {"open", "actioned"}
                             /\ notice[n].contact = asks[q].c /\ notice[n].to = asks[q].to
                             /\ NoticeSays(n)
    BY <2>1 DEF AskSays
  <2>3. <<notice[n].from, notice[n].to>> \in agreed' /\ agreed \subseteq agreed'
    BY <1>11, <2>2 DEF Accepted, NoticeSays
  <2>4. notice' = [notice EXCEPT ![n].st = "actioned"]
    BY <1>11, <2>2 DEF Accepted
  <2>5. NoticesMove
    BY <2>2, <2>3, <2>4 DEF NoticesMove, NoticeSays, ContactsTyped, NoticeRow
  <2>6. PutsDown(q)
    BY <1>11, <2>1, <2>3, <2>5 DEF PutsDown, Accepted
  <2>7. LinksUp(asks[q].c, asks[q].to)
    BY <1>11, <2>1 DEF LinksUp, Accepted, AskSays
  <2> QED
    BY <2>6, <2>7, LinksUpKept
<1>12. ASSUME NEW q \in LinkAsks, LinkedExisting(q) PROVE ContactsInv'
  <2>1. AskSays(q) /\ asks[q].op = "existing"
    BY <1>12 DEF LinkedExisting
  <2>2. PutsDown(q)
    BY <1>12 DEF PutsDown, NoticesMove, LinkedExisting, ContactsTyped
  <2>3. LinksUp(asks[q].c, asks[q].to)
    BY <1>12, <2>1 DEF LinksUp, LinkedExisting, AskSays
  <2> QED
    BY <2>2, <2>3, LinksUpKept
<1>13. ASSUME NEW q \in LinkAsks, AskFails(q) PROVE ContactsInv'
  <2>0. AskSays(q)
    OBVIOUS
  <2>1. PutsDown(q) /\ UNCHANGED <<contact, linked>>
    BY <1>13, <2>0 DEF AskSays, PutsDown, NoticesMove, AskFails, ContactsTyped
  <2> QED
    BY <2>1, PutsDownKept
<1> QED
  BY <1>1, <1>2, <1>3, <1>4, <1>5, <1>6, <1>7, <1>8, <1>9, <1>10, <1>11, <1>12, <1>13, CreateLinkedKept
     DEF ContactsNext, Answers, Requests

\* ... and a step of another part is none of this one.
LEMMA ContactsKept == ContactsInv /\ [ContactsNext]_contactVars => ContactsInv'
<1> SUFFICES ASSUME ContactsInv, [ContactsNext]_contactVars PROVE ContactsInv'
  OBVIOUS
<1>1. CASE UNCHANGED contactVars
  <2>1. ContactsTyped' /\ (\A n \in Notices : NoticeSays(n)') /\ AloneUnlessRaced'
    BY <1>1 DEF contactVars, ContactsInv, ContactsTyped, NoticeSays, AloneUnlessRaced
  <2>2. \A q \in LinkAsks : AskSays(q)' /\ ReadStands(q)'
    BY <1>1 DEF contactVars, ContactsInv, AskSays, ReadStands
  <2>3. (\A c \in People : LinkSays(c)') /\ OneContactEach' /\ LinkedStands' /\ EntriesStand'
    BY <1>1 DEF contactVars, ContactsInv, LinkSays, OneContactEach, LinkedStands, EntriesStand, LiveContact
  <2> QED
    BY <2>1, <2>2, <2>3 DEF ContactsInv
<1> QED
  BY <1>1, ContactSteps

\* The invariant is what the run checks, and more.
LEMMA ContactsSafe == ContactsInv => LinksAreAgreed
<1> SUFFICES ASSUME ContactsInv PROVE LinksAreAgreed
  OBVIOUS
<1> USE DEF ContactsInv
<1>1. ContactsTypeOK
  BY DEF ContactsTyped, ContactsTypeOK, NoticeRow, AskRow
<1>2. ASSUME NEW c \in People, contact[c].link # ""
      PROVE  /\ contact[c].link # Owner[c] /\ ~Taken(c, contact[c].link)
             /\ <<Owner[c], contact[c].link>> \in agreed \/ <<contact[c].link, Owner[c]>> \in agreed
  <2>1. LinkSays(c) /\ contact[c].link \in Users
    BY <1>2 DEF ContactsTyped, ContactRow
  <2>2. ~Taken(c, contact[c].link)
    <3>1. Taken(c, contact[c].link) <=>
            \E d \in People \ {c} : Owner[d] = Owner[c] /\ contact[d].link = contact[c].link
      BY <2>1, TakenMeans
    <3>2. OneContactEach
      OBVIOUS
    <3> HIDE DEF ContactsInv
    <3> QED
      BY <1>2, <3>1, <3>2 DEF OneContactEach
  <2> QED
    BY <1>2, <2>1, <2>2 DEF LinkSays
<1>3. (\A l \in linked : contact[l[1]].link = l[2] \/ l[1] \in raced) /\ EntriesStand
  BY DEF LinkedStands
<1> HIDE DEF ContactsInv
<1> QED
  BY <1>1, <1>2, <1>3 DEF LinksAreAgreed, EntriesStand

\* However requests are sent, answered, marked and restored, a contact stands for a user only with
\* that user's word, for one user of each, and for the one it was linked to unless two requests had
\* it in hand (AcceptLinkRequest, LinkExistingContactFromLinkRequest, idx_contacts_owner_linked_user).
THEOREM LinksKept == Spec => []LinksHold
<1>1. HomeInit => ContactsInv
  BY ContactsStart DEF HomeInit
<1>2. [HomeNext]_homeVars => [ContactsNext]_contactVars
  BY DEF HomeNext, homeVars, contactVars
<1>3. ContactsInv => LinksHold
  BY ContactsSafe DEF LinksHold
<1> QED
  BY <1>1, <1>2, <1>3, ContactsKept, PTL DEF Spec

-----------------------------------------------------------------------------
(* From a message to the ledger.                                           *)

DraftsTyped ==
  /\ card \in CardRow /\ turns \in [Turns -> BOOLEAN]
  /\ taps \in [Taps -> [at : {"idle", "looked", "closed"}, item : DraftSet]]
  /\ rows \in [RowIds -> PendingRow]
  /\ born \in [RowIds -> SUBSET DraftSet]
  /\ submits \in [Submits -> [at : {"idle", "read", "recorded"}, row : RowIds \cup {""}, d : DraftSet]]
  /\ recorded \in [RowIds -> Seq(DraftSet)]
  /\ item \in [RowIds -> {"none", "waiting", "linked"}]
  /\ revived \in BOOLEAN /\ losses \in 0 .. MaxLosses

\* What is in hand of a card, is of one the process remembers, and lacks nothing.
InHandIsReady ==
  /\ \A e \in Turns : turns[e] => card.st \in {"open", "saved", "cancelled"}
  /\ \A t \in Taps : taps[t].at # "idle" => Lacks(taps[t].item) = {}
  /\ \A r \in RowIds : born[r] # {} => rows[r].st # "new" /\ \A d \in born[r] : Lacks(d) = {}

\* A card is saved by one tap, which queues it once.
SavedOnce ==
  ~revived =>
    /\ \A t \in Taps : taps[t].at = "closed" => card.st = "saved" /\ \A r \in RowIds : born[r] = {}
    /\ \A t, u \in Taps : taps[t].at = "closed" /\ taps[u].at = "closed" => t = u
    /\ \A r \in RowIds : born[r] # {} => card.st \in {"saved", "forgotten"}
    /\ \A r, s \in RowIds : born[r] # {} /\ born[s] # {} => r = s
    /\ card.st = "saved" => (\E r \in RowIds : born[r] # {}) \/ (\E t \in Taps : taps[t].at = "closed")

\* What a submit has in hand of a row is the row, unless it went astray.
SubmitsHold ==
  \A s \in Submits : submits[s].at # "idle" =>
    /\ submits[s].row \in RowIds
    /\ submits[s].row \notin astray =>
         /\ rows[submits[s].row].st = "waiting"
         /\ submits[s].at = "read" => submits[s].d = rows[submits[s].row].d /\ recorded[submits[s].row] = <<>>
         /\ submits[s].at = "recorded" => recorded[submits[s].row] = <<rows[submits[s].row].d>>
         /\ \A u \in Submits : submits[u].at # "idle" /\ submits[u].row = submits[s].row => u = s

\* A row that nobody has in hand was recorded if it was submitted.
RowsAreLeft ==
  \A r \in RowIds \ astray :
    /\ rows[r].st = "submitted" => recorded[r] = <<rows[r].d>>
    /\ rows[r].st # "submitted" /\ (\A s \in Submits : ~(submits[s].at = "recorded" /\ submits[s].row = r)) => recorded[r] = <<>>

ItemsFollow ==
  \A r \in RowIds : /\ item[r] = "linked" => recorded[r] # <<>>
                    /\ item[r] = "waiting" => rows[r].st = "waiting"

DraftsInv == DraftsTyped /\ InHandIsReady /\ SavedOnce /\ SubmitsHold /\ RowsAreLeft /\ ItemsFollow

\* Nothing is a draft, too.
LEMMA NoTextIsADraft == NoText \in DraftSet
BY DEF NoText, DraftSet

\* What is there before anything was said.
LEMMA NothingInHand ==
  /\ NoTap \in [at : {"idle", "looked", "closed"}, item : DraftSet] /\ NoTap.at = "idle"
  /\ NoSubmit \in [at : {"idle", "read", "recorded"}, row : RowIds \cup {""}, d : DraftSet] /\ NoSubmit.at = "idle"
  /\ NoRow \in PendingRow /\ NoRow.st = "new"
BY NoTextIsADraft DEF NoTap, NoSubmit, NoRow, PendingRow

\* At the start there is no card, and the page has only what earlier versions left.
LEMMA DraftsStart == DraftsInit => DraftsInv
<1> SUFFICES ASSUME DraftsInit PROVE DraftsInv
  OBVIOUS
<1>1. PICK old \in Legacy, d \in Texts :
        /\ rows = [r \in RowIds |-> IF \E k \in old : k[1] = r
                     THEN [st |-> "waiting", kind |-> (CHOOSE k \in old : k[1] = r)[2], d |-> d] ELSE NoRow]
        /\ item = [r \in RowIds |-> IF \E k \in old : k[1] = r THEN "waiting" ELSE "none"]
  BY DEF DraftsInit
<1>2. \A r \in RowIds : rows[r] \in PendingRow /\ rows[r].st \in {"new", "waiting"} /\ (item[r] = "waiting" => rows[r].st = "waiting")
  <2> TAKE r \in RowIds
  <2>1. CASE \E k \in old : k[1] = r
    <3>1. PICK kind \in {"create", "debt", "saving", "settle_debt", "update_tx"} : kind = (CHOOSE k \in old : k[1] = r)[2]
      BY <2>1, LegacyAreRows
    <3>2. rows[r] = [st |-> "waiting", kind |-> kind, d |-> d] /\ d \in DraftSet
      BY <1>1, <2>1, <3>1, TextsAreDrafts
    <3> QED
      BY <3>2 DEF PendingRow
  <2>2. CASE ~\E k \in old : k[1] = r
    BY <1>1, <2>2, NothingInHand
  <2> QED
    BY <2>1, <2>2
<1>3. rows \in [RowIds -> PendingRow] /\ item \in [RowIds -> {"none", "waiting", "linked"}]
  BY <1>1, <1>2
<1>4. card \in CardRow /\ card.st = "none"
  BY DEF DraftsInit, CardRow
<1>5. /\ \A e \in Turns : ~turns[e]
      /\ \A t \in Taps : taps[t].at = "idle"
      /\ \A r \in RowIds : born[r] = {} /\ recorded[r] = <<>> /\ item[r] # "linked"
      /\ \A s \in Submits : submits[s].at = "idle"
  BY <1>1, NothingInHand DEF DraftsInit
<1>6. DraftsTyped
  <2>1. turns \in [Turns -> BOOLEAN] /\ revived \in BOOLEAN /\ losses \in 0 .. MaxLosses
    <3>1. turns = [e \in Turns |-> FALSE] /\ revived = FALSE /\ losses = 0
      BY DEF DraftsInit
    <3>2. losses \in 0 .. MaxLosses
      BY <3>1, DraftBounds
    <3>3. turns \in [Turns -> BOOLEAN] /\ revived \in BOOLEAN
      BY <3>1
    <3> QED
      BY <3>2, <3>3
  <2>2. taps \in [Taps -> [at : {"idle", "looked", "closed"}, item : DraftSet]]
    BY NothingInHand DEF DraftsInit
  <2>3. submits \in [Submits -> [at : {"idle", "read", "recorded"}, row : RowIds \cup {""}, d : DraftSet]]
    BY NothingInHand DEF DraftsInit
  <2>4. born \in [RowIds -> SUBSET DraftSet] /\ recorded \in [RowIds -> Seq(DraftSet)]
    BY DEF DraftsInit
  <2> QED
    BY <1>3, <1>4, <2>1, <2>2, <2>3, <2>4 DEF DraftsTyped
<1> QED
  BY <1>2, <1>4, <1>5, <1>6 DEF DraftsInv, InHandIsReady, SavedOnce, SubmitsHold, RowsAreLeft, ItemsFollow

\* A new row comes on the page, or none.
Fills(r) ==
  /\ rows[r].st = "new"
  /\ \E row \in PendingRow : row.st = "waiting" /\ rows' = [rows EXCEPT ![r] = row]
  /\ UNCHANGED <<submits, recorded, item, astray>>

\* Nobody had a new row in hand.
LEMMA FillsKept ==
  ASSUME DraftsInv, NEW r \in RowIds, Fills(r)
  PROVE  /\ rows' \in [RowIds -> PendingRow] /\ rows'[r].st = "waiting"
         /\ \A o \in RowIds \ {r} : rows'[o] = rows[o]
         /\ SubmitsHold' /\ RowsAreLeft' /\ ItemsFollow'
<1> USE DEF DraftsInv
<1>1. /\ rows' \in [RowIds -> PendingRow] /\ rows'[r].st = "waiting"
      /\ \A o \in RowIds \ {r} : rows'[o] = rows[o]
  BY DEF Fills, DraftsTyped
<1>2. UNCHANGED <<submits, recorded, item, astray>> /\ rows[r].st = "new"
  BY DEF Fills
<1>3. SubmitsHold'
  BY <1>1, <1>2 DEF SubmitsHold
<1>4. RowsAreLeft'
  <2> SUFFICES ASSUME NEW o \in RowIds \ astray PROVE RowsAreLeft!(o)'
    BY <1>2 DEF RowsAreLeft
  <2>1. RowsAreLeft!(o)
    BY DEF RowsAreLeft
  <2>2. CASE o = r
    BY <1>1, <1>2, <2>1, <2>2 DEF SubmitsHold
  <2>3. CASE o # r
    BY <1>1, <1>2, <2>1, <2>3
  <2> QED
    BY <2>2, <2>3
<1>5. ItemsFollow'
  BY <1>1, <1>2 DEF ItemsFollow
<1> QED
  BY <1>1, <1>3, <1>4, <1>5

\* ... nor is anything else of the page touched by the chat.
LEMMA PageLeft ==
  ASSUME DraftsInv, UNCHANGED <<rows, submits, recorded, item, astray>>
  PROVE  SubmitsHold' /\ RowsAreLeft' /\ ItemsFollow'
BY DEF DraftsInv, SubmitsHold, RowsAreLeft, ItemsFollow

\* A message, a reply to a card, a tap that looks, and a cancellation.
LEMMA CardsKept ==
  ASSUME DraftsInv,
         \/ \E d \in Texts : Text(d)
         \/ \E e \in Turns : Reply(e) \/ EditFails(e) \/ \E d \in Texts : EditCard(e, d)
         \/ \E t \in Taps : Look(t) \/ Confirm(t)
         \/ Cancel
  PROVE  DraftsInv'
<1> USE DEF DraftsInv
<1>1. UNCHANGED <<rows, born, submits, recorded, item, astray, losses>>
  BY DEF Text, Reply, EditFails, EditCard, Look, Confirm, Cancel
<1>2. SubmitsHold' /\ RowsAreLeft' /\ ItemsFollow'
  BY <1>1, PageLeft
<1> DEFINE Cards == /\ card' \in CardRow /\ turns' \in [Turns -> BOOLEAN] /\ revived' \in BOOLEAN
                    /\ taps' \in [Taps -> [at : {"idle", "looked", "closed"}, item : DraftSet]]
           Others == InHandIsReady' /\ SavedOnce'
<1>3. Cards => DraftsTyped'
  BY <1>1 DEF DraftsTyped
<1>4. ASSUME NEW d \in Texts, Text(d) PROVE Cards /\ Others
  <2>1. /\ card.st = "none" /\ card' = [st |-> "open", item |-> d] /\ UNCHANGED <<turns, taps, revived>>
        /\ \A r \in RowIds : born[r] = {}
    BY <1>4 DEF Text, Empty, InHandIsReady
  <2>2. Cards
    BY <2>1, TextsAreDrafts DEF DraftsTyped, CardRow
  <2> QED
    BY <1>1, <2>1, <2>2 DEF InHandIsReady, SavedOnce
<1>5. ASSUME NEW e \in Turns, Reply(e) PROVE Cards /\ Others
  <2>1. /\ card.st = "open" /\ turns' = [turns EXCEPT ![e] = TRUE] /\ UNCHANGED <<card, taps, revived>>
    BY <1>5 DEF Reply
  <2> QED
    BY <1>1, <2>1 DEF DraftsTyped, InHandIsReady, SavedOnce
<1>6. ASSUME NEW e \in Turns, EditFails(e) PROVE Cards /\ Others
  <2>1. turns' = [turns EXCEPT ![e] = FALSE] /\ UNCHANGED <<card, taps, revived>>
    BY <1>6 DEF EditFails
  <2> QED
    BY <1>1, <2>1 DEF DraftsTyped, InHandIsReady, SavedOnce
<1>7. ASSUME NEW e \in Turns, NEW d \in Texts, EditCard(e, d) PROVE Cards /\ Others
  <2>1. /\ turns[e] /\ turns' = [turns EXCEPT ![e] = FALSE] /\ UNCHANGED taps
        /\ card' = [st |-> "open", item |-> d] /\ revived' = (revived \/ card.st = "saved")
    BY <1>7 DEF EditCard
  <2>2. card' \in CardRow /\ card'.st = "open"
    BY <2>1 DEF CardRow
  <2>3. turns' \in [Turns -> BOOLEAN] /\ card.st \in {"open", "saved", "cancelled"}
    BY <2>1 DEF DraftsTyped, InHandIsReady
  <2>4. revived' \in BOOLEAN /\ (~revived' => ~revived /\ card.st # "saved")
    BY <2>1
  <2>5. InHandIsReady'
    BY <1>1, <2>1, <2>2 DEF InHandIsReady
  <2>6. SavedOnce'
    BY <1>1, <2>1, <2>2, <2>3, <2>4 DEF SavedOnce
  <2> QED
    BY <2>1, <2>2, <2>3, <2>4, <2>5, <2>6 DEF DraftsTyped
<1>8. ASSUME NEW t \in Taps, Look(t) PROVE Cards /\ Others
  <2>1. /\ taps' = [taps EXCEPT ![t] = [at |-> "looked", item |-> card.item]]
        /\ Lacks(card.item) = {} /\ UNCHANGED <<card, turns, revived>> /\ taps[t].at = "idle"
    BY <1>8, NothingInHand DEF Look
  <2>2. card.item \in DraftSet
    BY TextsAreDrafts, NoTextIsADraft DEF DraftsTyped, CardRow
  <2>3. /\ taps' \in [Taps -> [at : {"idle", "looked", "closed"}, item : DraftSet]]
        /\ taps'[t].at = "looked" /\ taps'[t].item = card.item
        /\ \A u \in Taps \ {t} : taps'[u] = taps[u]
    BY <2>1, <2>2 DEF DraftsTyped
  <2>4. InHandIsReady'
    BY <1>1, <2>1, <2>3 DEF InHandIsReady
  <2>5. SavedOnce'
    BY <1>1, <2>1, <2>3 DEF SavedOnce
  <2> QED
    BY <2>1, <2>3, <2>4, <2>5 DEF DraftsTyped
<1>9. ASSUME NEW t \in Taps, Confirm(t) PROVE Cards /\ Others
  <2>1. CASE card.st = "open"
    <3>1. /\ taps[t].at = "looked" /\ card' = [card EXCEPT !.st = "saved"]
          /\ taps' = [taps EXCEPT ![t].at = "closed"] /\ UNCHANGED <<turns, revived>>
      BY <1>9, <2>1 DEF Confirm, Closes
    <3>2. card' \in CardRow /\ card'.st = "saved"
      BY <3>1 DEF DraftsTyped, CardRow
    <3>3. /\ taps' \in [Taps -> [at : {"idle", "looked", "closed"}, item : DraftSet]]
          /\ taps'[t].at = "closed" /\ taps'[t].item = taps[t].item
          /\ \A u \in Taps \ {t} : taps'[u] = taps[u]
      BY <3>1 DEF DraftsTyped
    <3>4. InHandIsReady'
      BY <1>1, <3>1, <3>2, <3>3 DEF InHandIsReady
    <3>5. SavedOnce'
      BY <1>1, <2>1, <3>1, <3>2, <3>3 DEF SavedOnce
    <3> QED
      BY <3>1, <3>2, <3>3, <3>4, <3>5 DEF DraftsTyped
  <2>2. CASE card.st # "open"
    <3>1. taps[t].at = "looked" /\ taps' = [taps EXCEPT ![t] = NoTap] /\ UNCHANGED <<card, turns, revived>>
      BY <1>9, <2>2 DEF Confirm, Closes
    <3>2. /\ taps' \in [Taps -> [at : {"idle", "looked", "closed"}, item : DraftSet]]
          /\ taps'[t].at = "idle" /\ \A u \in Taps \ {t} : taps'[u] = taps[u]
      BY <3>1, NothingInHand DEF DraftsTyped
    <3>3. InHandIsReady'
      BY <1>1, <3>1, <3>2 DEF InHandIsReady
    <3>4. SavedOnce'
      BY <1>1, <2>2, <3>1, <3>2 DEF SavedOnce
    <3> QED
      BY <3>1, <3>2, <3>3, <3>4 DEF DraftsTyped
  <2> QED
    BY <2>1, <2>2
<1>10. ASSUME Cancel PROVE Cards /\ Others
  <2>1. card.st = "open" /\ card' = [card EXCEPT !.st = "cancelled"] /\ UNCHANGED <<turns, taps, revived>>
    BY <1>10 DEF Cancel, Closes
  <2>2. card' \in CardRow /\ card'.st = "cancelled"
    BY <2>1 DEF DraftsTyped, CardRow
  <2>3. InHandIsReady' /\ SavedOnce'
    BY <1>1, <2>1, <2>2 DEF InHandIsReady, SavedOnce
  <2> QED
    BY <2>1, <2>2, <2>3 DEF DraftsTyped
<1> HIDE DEF Cards, Others
<1>11. Cards /\ Others
  BY <1>4, <1>5, <1>6, <1>7, <1>8, <1>9, <1>10
<1> QED
  BY <1>2, <1>3, <1>11 DEF Others

\* A tap that has closed its card queues the rows, or opens the card again.
LEMMA QueuesKept ==
  ASSUME DraftsInv, NEW t \in Taps, Queue(t) \/ QueueFails(t) \/ QueueAnswerLost(t)
  PROVE  DraftsInv'
<1> USE DEF DraftsInv
<1>1. /\ taps[t].at = "closed" /\ taps' = [taps EXCEPT ![t] = NoTap]
      /\ UNCHANGED <<turns, submits, recorded, item, astray>>
  BY DEF Queue, QueueFails, QueueAnswerLost
<1>2. /\ taps' \in [Taps -> [at : {"idle", "looked", "closed"}, item : DraftSet]]
      /\ taps'[t].at = "idle" /\ \A u \in Taps \ {t} : taps'[u] = taps[u]
  BY <1>1, NothingInHand DEF DraftsTyped
<1>3. /\ Reopened \in CardRow /\ Reopened.st = IF card.st = "none" THEN "none" ELSE "open"
  BY DEF Reopened, DraftsTyped, CardRow
<1>4. \A e \in Turns : turns[e] => Reopened.st = "open"
  BY <1>3 DEF InHandIsReady
<1>5. taps[t].item \in DraftSet /\ Lacks(taps[t].item) = {}
  BY <1>1 DEF DraftsTyped, InHandIsReady
<1>6. CASE QueueFails(t)
  <2>1. card' = Reopened /\ UNCHANGED <<rows, born, losses>>
    BY <1>6 DEF QueueFails
  <2>2. revived' \in BOOLEAN /\ (~revived' => ~revived /\ \A r \in RowIds : born[r] = {})
    <3>1. revived' = (revived \/ \E r \in RowIds : born[r] # {})
      BY <1>6 DEF QueueFails
    <3> QED
      BY <3>1, Zenon
  <2>3. DraftsTyped'
    BY <1>1, <1>2, <1>3, <2>1, <2>2 DEF DraftsTyped
  <2>4. InHandIsReady'
    BY <1>1, <1>2, <1>4, <2>1 DEF InHandIsReady
  <2>5. SavedOnce'
    BY <1>1, <1>2, <1>3, <2>1, <2>2 DEF SavedOnce
  <2> QED
    BY <1>1, <2>1, <2>3, <2>4, <2>5, PageLeft
<1>7. CASE Queue(t) \/ QueueAnswerLost(t)
  <2>0. Queued(t)
    BY <1>7 DEF Queue, QueueAnswerLost
  <2>1. PICK r \in RowIds :
          /\ rows[r].st = "new"
          /\ rows' = [rows EXCEPT ![r] = [st |-> "waiting", kind |-> KindOf(taps[t].item), d |-> taps[t].item]]
          /\ born' = [born EXCEPT ![r] = {taps[t].item}]
    BY <2>0 DEF Queued
  <2>2. Fills(r)
    <3>1. KindOf(taps[t].item) \in {"create", "saving"}
      BY DEF KindOf
    <3>2. [st |-> "waiting", kind |-> KindOf(taps[t].item), d |-> taps[t].item] \in PendingRow
      BY <1>5, <3>1 DEF PendingRow
    <3> QED
      BY <1>1, <2>1, <3>2 DEF Fills
  <2>3. /\ rows' \in [RowIds -> PendingRow] /\ rows'[r].st = "waiting"
        /\ \A o \in RowIds \ {r} : rows'[o] = rows[o]
        /\ SubmitsHold' /\ RowsAreLeft' /\ ItemsFollow'
    BY <2>2, FillsKept
  <2>4. /\ born' \in [RowIds -> SUBSET DraftSet] /\ born'[r] = {taps[t].item}
        /\ \A o \in RowIds \ {r} : born'[o] = born[o]
    BY <1>5, <2>1 DEF DraftsTyped
  <2>5. /\ card' \in {card, Reopened} /\ revived' \in BOOLEAN /\ losses' \in 0 .. MaxLosses
        /\ ~revived' => ~revived /\ card' = card
    <3>1. CASE Queue(t)
      BY <3>1 DEF Queue, DraftsTyped
    <3>2. CASE QueueAnswerLost(t)
      <4>1. losses' \in 0 .. MaxLosses
        <5>1. losses \in 0 .. MaxLosses /\ losses < MaxLosses /\ losses' = losses + 1
          BY <3>2 DEF QueueAnswerLost, DraftsTyped
        <5> HIDE DEF DraftsInv
        <5> QED
          BY <5>1, DraftBounds
      <4> QED
        BY <3>2, <4>1 DEF QueueAnswerLost
    <3> QED
      BY <1>7, <3>1, <3>2
  <2>6. DraftsTyped'
    BY <1>1, <1>2, <1>3, <2>3, <2>4, <2>5 DEF DraftsTyped
  <2>7. InHandIsReady'
    <3>1. \A e \in Turns : turns'[e] => card'.st \in {"open", "saved", "cancelled"}
      BY <1>1, <1>4, <2>5 DEF InHandIsReady
    <3>2. \A u \in Taps : taps'[u].at # "idle" => Lacks(taps'[u].item) = {}
      BY <1>2 DEF InHandIsReady
    <3>3. \A o \in RowIds : born'[o] # {} => rows'[o].st # "new" /\ \A d \in born'[o] : Lacks(d) = {}
      BY <1>5, <2>3, <2>4 DEF InHandIsReady
    <3> QED
      BY <3>1, <3>2, <3>3 DEF InHandIsReady
  <2>8. SavedOnce'
    <3> SUFFICES ASSUME ~revived' PROVE SavedOnce'
      BY DEF SavedOnce
    <3>1. ~revived /\ card' = card /\ card.st = "saved" /\ \A o \in RowIds : born[o] = {}
      BY <1>1, <2>5 DEF SavedOnce
    <3>2. \A u \in Taps : taps'[u].at # "closed"
      BY <1>1, <1>2, <3>1 DEF SavedOnce
    <3> QED
      BY <2>4, <3>1, <3>2 DEF SavedOnce
  <2> QED
    BY <2>3, <2>6, <2>7, <2>8
<1> QED
  BY <1>6, <1>7

\* The page leaves the chat alone, and no row is new again.
LEMMA ChatLeft ==
  ASSUME DraftsInv, UNCHANGED <<card, turns, taps, born, revived>>,
         \A r \in RowIds : rows[r].st # "new" => rows'[r].st # "new"
  PROVE  InHandIsReady' /\ SavedOnce'
BY DEF DraftsInv, InHandIsReady, SavedOnce

\* A draft is written by hand.
LEMMA RowCreatedKept ==
  ASSUME DraftsInv, NEW r \in RowIds, NEW d \in Texts, CreateRow(r, d)
  PROVE  DraftsInv'
<1> USE DEF DraftsInv
<1>1. Fills(r) /\ UNCHANGED <<card, turns, taps, born, revived, losses>>
  <2>1. [st |-> "waiting", kind |-> "create", d |-> d] \in PendingRow
    BY TextsAreDrafts DEF PendingRow
  <2> QED
    BY <2>1 DEF CreateRow, Fills, Empty
<1>2. /\ rows' \in [RowIds -> PendingRow] /\ rows'[r].st = "waiting"
      /\ \A o \in RowIds \ {r} : rows'[o] = rows[o]
      /\ SubmitsHold' /\ RowsAreLeft' /\ ItemsFollow'
  BY <1>1, FillsKept
<1>3. DraftsTyped'
  BY <1>1, <1>2 DEF DraftsTyped, Fills
<1> QED
  BY <1>1, <1>2, <1>3, ChatLeft

\* A row is edited or discarded: whoever has it in hand has another one.
LEMMA RowTouchedKept ==
  ASSUME DraftsInv, NEW r \in RowIds, DiscardRow(r) \/ \E d \in Texts : UpdateRow(r, d)
  PROVE  DraftsInv'
<1> USE DEF DraftsInv
<1>1. /\ rows[r].st = "waiting" /\ r \notin astray
      /\ astray' = IF HeldBack(r) THEN astray \cup {r} ELSE astray
      /\ UNCHANGED <<card, turns, taps, born, revived, losses, submits, recorded>>
  BY DEF DiscardRow, UpdateRow, Followed, Waiting
<1>2. /\ rows' \in [RowIds -> PendingRow] /\ item' \in [RowIds -> {"none", "waiting", "linked"}]
      /\ rows'[r].st \in {"waiting", "discarded"}
      /\ \A o \in RowIds \ {r} : rows'[o] = rows[o]
      /\ \A o \in RowIds : item'[o] = item[o] \/ (o = r /\ item'[o] = "none")
      /\ item'[r] = "waiting" => rows'[r].st = "waiting"
  <2>1. CASE DiscardRow(r)
    <3>1. /\ rows' = [rows EXCEPT ![r].st = "discarded"]
          /\ item' = [item EXCEPT ![r] = IF @ = "waiting" THEN "none" ELSE @]
      BY <2>1 DEF DiscardRow
    <3>2. rows' \in [RowIds -> PendingRow] /\ rows'[r].st = "discarded" /\ \A o \in RowIds \ {r} : rows'[o] = rows[o]
      <4>1. rows \in [RowIds -> PendingRow]
        BY DEF DraftsTyped
      <4> HIDE DEF DraftsInv
      <4> QED
        BY <3>1, <4>1 DEF PendingRow
    <3>3. /\ item' \in [RowIds -> {"none", "waiting", "linked"}]
          /\ \A o \in RowIds : item'[o] = (IF o = r /\ item[o] = "waiting" THEN "none" ELSE item[o])
      BY <3>1 DEF DraftsTyped
    <3> QED
      BY <3>2, <3>3
  <2>2. CASE \E d \in Texts : UpdateRow(r, d)
    <3>1. PICK d \in DraftSet : rows' = [rows EXCEPT ![r].d = d] /\ UNCHANGED item
      BY <2>2, TextsAreDrafts DEF UpdateRow
    <3> QED
      BY <1>1, <3>1 DEF DraftsTyped, PendingRow
  <2> QED
    BY <2>1, <2>2
<1>3. DraftsTyped'
  BY <1>1, <1>2 DEF DraftsTyped
<1>4. r \notin astray' => \A s \in Submits : submits[s].at # "idle" => submits[s].row # r
  BY <1>1 DEF HeldBack
<1>5. SubmitsHold'
  BY <1>1, <1>2, <1>4 DEF SubmitsHold
<1>6. RowsAreLeft'
  <2> SUFFICES ASSUME NEW o \in RowIds \ astray' PROVE RowsAreLeft!(o)'
    BY DEF RowsAreLeft
  <2>1. RowsAreLeft!(o)
    BY <1>1 DEF RowsAreLeft
  <2> QED
    BY <1>1, <1>2, <1>4, <2>1
<1>7. ItemsFollow'
  BY <1>1, <1>2 DEF ItemsFollow
<1>8. InHandIsReady' /\ SavedOnce'
  <2>1. \A o \in RowIds : rows[o].st # "new" => rows'[o].st # "new"
    BY <1>2
  <2> QED
    BY <1>1, <2>1, ChatLeft
<1> QED
  BY <1>3, <1>5, <1>6, <1>7, <1>8

\* Appending to what is empty, and to anything.
LEMMA FirstRecorded ==
  ASSUME NEW q \in Seq(DraftSet), NEW d \in DraftSet
  PROVE  /\ Append(q, d) \in Seq(DraftSet) /\ Append(q, d) # <<>>
         /\ q = <<>> => Append(q, d) = <<d>>
<1>1. Append(q, d) \in Seq(DraftSet)
  OBVIOUS
<1>2. Len(Append(q, d)) = Len(q) + 1 /\ Len(q) \in Nat
  OBVIOUS
<1>3. Append(q, d) # <<>>
  BY <1>2
<1>4. q = <<>> => Append(q, d) = <<d>>
  OBVIOUS
<1> QED
  BY <1>1, <1>3, <1>4

\* A row that is there no more is not missed.
LEMMA GoneIs ==
  ASSUME DraftsTyped, NEW r \in RowIds
  PROVE  /\ Gone(r) \in [RowIds -> PendingRow]
         /\ Gone(r)[r].st = (IF rows[r].st = "waiting" THEN "submitted" ELSE rows[r].st)
         /\ Gone(r)[r].d = rows[r].d
         /\ \A o \in RowIds \ {r} : Gone(r)[o] = rows[o]
<1>1. rows \in [RowIds -> PendingRow]
  BY DEF DraftsTyped
<1> QED
  BY <1>1 DEF Gone, PendingRow

\* A submit reads a row.
LEMMA SubmitReadKept ==
  ASSUME DraftsInv, NEW s \in Submits, NEW r \in RowIds, SubmitRead(s, r)
  PROVE  DraftsInv'
<1> USE DEF DraftsInv
<1>1. /\ submits[s].at = "idle" /\ rows[r].st = "waiting" /\ r \notin astray
      /\ submits' = [submits EXCEPT ![s] = [at |-> "read", row |-> r, d |-> rows[r].d]]
      /\ astray' = IF HeldBack(r) THEN astray \cup {r} ELSE astray
      /\ UNCHANGED <<card, turns, taps, rows, born, recorded, item, revived, losses>>
  BY NothingInHand DEF SubmitRead, Followed, Waiting
<1>2. rows[r].d \in DraftSet
  BY DEF DraftsTyped, PendingRow
<1>3. /\ submits' \in [Submits -> [at : {"idle", "read", "recorded"}, row : RowIds \cup {""}, d : DraftSet]]
      /\ submits'[s].at = "read" /\ submits'[s].row = r /\ submits'[s].d = rows[r].d
      /\ \A u \in Submits \ {s} : submits'[u] = submits[u]
  BY <1>1, <1>2 DEF DraftsTyped
<1>4. DraftsTyped'
  BY <1>1, <1>3 DEF DraftsTyped
<1>5. r \notin astray' => \A u \in Submits : submits[u].at # "idle" => submits[u].row # r
  BY <1>1 DEF HeldBack
<1>6. r \notin astray' => recorded[r] = <<>>
  BY <1>1, <1>5 DEF RowsAreLeft
<1>7. SubmitsHold'
  <2> SUFFICES ASSUME NEW u \in Submits, submits'[u].at # "idle" PROVE SubmitsHold!(u)!2'
    BY DEF SubmitsHold
  <2>1. CASE u = s
    BY <1>1, <1>3, <1>5, <1>6, <2>1
  <2>2. CASE u # s
    <3>1. submits'[u] = submits[u] /\ SubmitsHold!(u)!2
      BY <1>3, <2>2 DEF SubmitsHold
    <3>2. submits[u].row = r => r \in astray'
      BY <1>5, <2>2, <3>1
    <3> QED
      BY <1>1, <1>3, <3>1, <3>2
  <2> QED
    BY <2>1, <2>2
<1>8. RowsAreLeft'
  BY <1>1, <1>3 DEF RowsAreLeft
<1>9. ItemsFollow' /\ InHandIsReady' /\ SavedOnce'
  BY <1>1, ChatLeft DEF ItemsFollow
<1> QED
  BY <1>4, <1>7, <1>8, <1>9

\* A submit is over that has recorded nothing, or whose row went astray.
LEMMA SubmitGivenUpKept ==
  ASSUME DraftsInv, NEW s \in Submits, SubmitFails(s) \/ DropFails(s)
  PROVE  DraftsInv'
<1> USE DEF DraftsInv
<1>1. /\ submits' = [submits EXCEPT ![s] = NoSubmit]
      /\ UNCHANGED <<card, turns, taps, rows, born, recorded, item, revived>>
      /\ astray \subseteq astray'
      /\ submits[s].at = "recorded" => submits[s].row \in astray'
  BY DEF SubmitFails, DropFails
<1>2. losses' \in 0 .. MaxLosses
  <2>1. losses \in 0 .. MaxLosses /\ (losses' = losses \/ (losses < MaxLosses /\ losses' = losses + 1))
    BY DEF SubmitFails, DropFails, DraftsTyped
  <2> HIDE DEF DraftsInv
  <2> QED
    BY <2>1, DraftBounds
<1>3. /\ submits' \in [Submits -> [at : {"idle", "read", "recorded"}, row : RowIds \cup {""}, d : DraftSet]]
      /\ submits'[s].at = "idle"
      /\ \A u \in Submits \ {s} : submits'[u] = submits[u]
  BY <1>1, NothingInHand DEF DraftsTyped
<1>4. DraftsTyped'
  BY <1>1, <1>2, <1>3 DEF DraftsTyped
<1>5. SubmitsHold'
  <2> SUFFICES ASSUME NEW u \in Submits, submits'[u].at # "idle" PROVE SubmitsHold!(u)!2'
    BY DEF SubmitsHold
  <2>1. submits'[u] = submits[u] /\ SubmitsHold!(u)!2
    BY <1>3 DEF SubmitsHold
  <2>2. \A w \in Submits : submits'[w].at # "idle" => submits'[w] = submits[w]
    BY <1>3
  <2> QED
    BY <1>1, <2>1, <2>2
<1>6. RowsAreLeft'
  <2> SUFFICES ASSUME NEW o \in RowIds \ astray' PROVE RowsAreLeft!(o)'
    BY DEF RowsAreLeft
  <2>1. RowsAreLeft!(o)
    BY <1>1 DEF RowsAreLeft
  <2>2. \A u \in Submits : submits[u].at = "recorded" /\ submits[u].row = o => submits'[u].at = "recorded" /\ submits'[u].row = o
    BY <1>1, <1>3
  <2> QED
    BY <1>1, <2>1, <2>2
<1>7. ItemsFollow' /\ InHandIsReady' /\ SavedOnce'
  BY <1>1, ChatLeft DEF ItemsFollow
<1> QED
  BY <1>4, <1>5, <1>6, <1>7

\* A submit records its row, in one transaction or the book first; or drops the row it has recorded.
LEMMA SubmitStepsKept ==
  ASSUME DraftsInv, NEW s \in Submits, SubmitRecords(s) \/ SubmitBooks(s) \/ SubmitDrops(s)
  PROVE  DraftsInv'
<1> USE DEF DraftsInv
<1>1. PICK r \in RowIds : r = submits[s].row /\ submits[s].at # "idle"
  BY DEF SubmitRecords, SubmitBooks, SubmitDrops, SubmitsHold
<1>2. UNCHANGED <<card, turns, taps, born, astray, revived, losses>>
  BY DEF SubmitRecords, SubmitBooks, SubmitDrops
<1>3. submits[s].d \in DraftSet /\ recorded[r] \in Seq(DraftSet)
  BY DEF DraftsTyped
<1>4. /\ recorded' \in [RowIds -> Seq(DraftSet)]
      /\ \A o \in RowIds \ {r} : recorded'[o] = recorded[o]
      /\ submits[s].at = "read" => recorded'[r] = Append(recorded[r], submits[s].d)
      /\ submits[s].at = "recorded" => recorded'[r] = recorded[r]
      /\ recorded[r] # <<>> => recorded'[r] # <<>>
  <2>1. \/ submits[s].at = "read" /\ recorded' = [recorded EXCEPT ![r] = Append(@, submits[s].d)]
        \/ submits[s].at = "recorded" /\ recorded' = recorded
    BY <1>1 DEF SubmitRecords, SubmitBooks, SubmitDrops
  <2>2. recorded \in [RowIds -> Seq(DraftSet)]
    BY DEF DraftsTyped
  <2>3. Append(recorded[r], submits[s].d) \in Seq(DraftSet) /\ Append(recorded[r], submits[s].d) # <<>>
    BY <1>3, FirstRecorded
  <2> QED
    BY <2>1, <2>2, <2>3
<1>5. /\ submits' \in [Submits -> [at : {"idle", "read", "recorded"}, row : RowIds \cup {""}, d : DraftSet]]
      /\ \A u \in Submits \ {s} : submits'[u] = submits[u]
      /\ \/ submits'[s].at = "idle" /\ rows' = Gone(r)
         \/ /\ submits[s].at = "read" /\ submits'[s].at = "recorded" /\ submits'[s].row = r
            /\ submits'[s].d = submits[s].d /\ rows' = rows
  <2>1. CASE SubmitBooks(s)
    BY <1>1, <2>1 DEF SubmitBooks, DraftsTyped
  <2>2. CASE SubmitRecords(s) \/ SubmitDrops(s)
    <3>1. submits' = [submits EXCEPT ![s] = NoSubmit] /\ rows' = Gone(r)
      BY <1>1, <2>2 DEF SubmitRecords, SubmitDrops
    <3> QED
      BY <3>1, NothingInHand DEF DraftsTyped
  <2> QED
    BY <2>1, <2>2
<1>6. /\ rows' \in [RowIds -> PendingRow] /\ rows'[r].d = rows[r].d
      /\ \A o \in RowIds \ {r} : rows'[o] = rows[o]
      /\ rows'[r].st \in {rows[r].st, "submitted"} /\ (rows'[r].st # rows[r].st => rows[r].st = "waiting")
      /\ submits'[s].at = "idle" /\ rows[r].st = "waiting" => rows'[r].st = "submitted"
      /\ submits'[s].at # "idle" => rows' = rows
  <2>1. CASE submits'[s].at = "recorded" /\ rows' = rows
    BY <1>5, <2>1 DEF DraftsTyped
  <2>2. CASE rows' = Gone(r)
    <3>1. /\ Gone(r) \in [RowIds -> PendingRow]
          /\ Gone(r)[r].st = (IF rows[r].st = "waiting" THEN "submitted" ELSE rows[r].st)
          /\ Gone(r)[r].d = rows[r].d
          /\ \A o \in RowIds \ {r} : Gone(r)[o] = rows[o]
      BY GoneIs
    <3> QED
      BY <1>5, <2>2, <3>1
  <2> QED
    BY <1>5, <2>1, <2>2
<1>7. /\ item' \in [RowIds -> {"none", "waiting", "linked"}]
      /\ \A o \in RowIds : \/ item'[o] = item[o] /\ (o = r /\ item[o] = "waiting" => rows' = rows)
                           \/ o = r /\ item'[o] = "none"
                           \/ o = r /\ item'[o] = "linked" /\ submits[s].at = "read"
  <2>1. CASE SubmitBooks(s)
    BY <2>1 DEF SubmitBooks, DraftsTyped
  <2>2. CASE SubmitRecords(s)
    <3>1. /\ item' = [item EXCEPT ![r] = IF @ # "waiting" THEN @
                                         ELSE IF rows[r].kind = "update_tx" THEN "none" ELSE "linked"]
          /\ submits[s].at = "read"
      BY <1>1, <2>2 DEF SubmitRecords
    <3> QED
      BY <3>1 DEF DraftsTyped
  <2>3. CASE SubmitDrops(s)
    <3>1. item' = [item EXCEPT ![r] = IF @ = "waiting" THEN "none" ELSE @]
      BY <1>1, <2>3 DEF SubmitDrops
    <3> QED
      BY <3>1 DEF DraftsTyped
  <2> QED
    BY <2>1, <2>2, <2>3
<1>8. DraftsTyped'
  BY <1>2, <1>4, <1>5, <1>6, <1>7 DEF DraftsTyped
<1>9. r \notin astray =>
        /\ rows[r].st = "waiting"
        /\ \A u \in Submits \ {s} : submits[u].at # "idle" => submits[u].row # r
        /\ recorded'[r] = <<rows[r].d>>
  <2> SUFFICES ASSUME r \notin astray
               PROVE  /\ rows[r].st = "waiting"
                      /\ \A u \in Submits \ {s} : submits[u].at # "idle" => submits[u].row # r
                      /\ recorded'[r] = <<rows[r].d>>
    OBVIOUS
  <2>1. /\ rows[r].st = "waiting"
        /\ submits[s].at = "read" => submits[s].d = rows[r].d /\ recorded[r] = <<>>
        /\ submits[s].at = "recorded" => recorded[r] = <<rows[r].d>>
        /\ \A u \in Submits : submits[u].at # "idle" /\ submits[u].row = r => u = s
    BY <1>1 DEF SubmitsHold
  <2>2. submits[s].at \in {"read", "recorded"}
    BY <1>1 DEF DraftsTyped
  <2>3. submits[s].at = "read" => recorded'[r] = <<rows[r].d>>
    BY <1>3, <1>4, <2>1, FirstRecorded
  <2> QED
    BY <1>4, <2>1, <2>2, <2>3
<1>10. SubmitsHold'
  <2> SUFFICES ASSUME NEW u \in Submits, submits'[u].at # "idle" PROVE SubmitsHold!(u)!2'
    BY DEF SubmitsHold
  <2>1. CASE u = s
    <3>1. /\ submits'[s].at = "recorded" /\ submits'[s].row = r /\ rows' = rows
      BY <1>5, <1>6, <2>1
    <3>2. \A w \in Submits \ {s} : submits'[w] = submits[w]
      BY <1>5
    <3>3. r \notin astray' =>
            /\ rows'[r].st = "waiting" /\ recorded'[r] = <<rows'[r].d>>
            /\ \A w \in Submits : submits'[w].at # "idle" /\ submits'[w].row = r => w = s
      BY <1>2, <1>9, <3>1, <3>2
    <3> HIDE DEF DraftsInv
    <3> QED
      BY <2>1, <3>1, <3>3
  <2>2. CASE u # s
    <3>1. submits'[u] = submits[u] /\ SubmitsHold!(u)!2
      BY <1>5, <2>2 DEF SubmitsHold
    <3>2. submits[u].row = r => r \in astray
      BY <1>9, <2>2, <3>1
    <3>3. submits[u].row # r => rows'[submits[u].row] = rows[submits[u].row] /\ recorded'[submits[u].row] = recorded[submits[u].row]
      BY <1>4, <1>6, <3>1
    <3>4. \A w \in Submits : submits'[w].at # "idle" => submits[w].at # "idle" /\ submits'[w].row = submits[w].row
      BY <1>1, <1>5
    <3> QED
      BY <1>2, <3>1, <3>2, <3>3, <3>4
  <2> QED
    BY <2>1, <2>2
<1>11. RowsAreLeft'
  <2> SUFFICES ASSUME NEW o \in RowIds \ astray PROVE RowsAreLeft!(o)'
    BY <1>2 DEF RowsAreLeft
  <2>1. RowsAreLeft!(o)
    BY DEF RowsAreLeft
  <2>2. CASE o = r
    BY <1>1, <1>5, <1>6, <1>9, <2>2
  <2>3. CASE o # r
    <3>1. \A u \in Submits : submits[u].at = "recorded" /\ submits[u].row = o => submits'[u].at = "recorded" /\ submits'[u].row = o
      BY <1>1, <1>5, <2>3
    <3> QED
      BY <1>4, <1>6, <2>1, <2>3, <3>1
  <2> QED
    BY <2>2, <2>3
<1>12. ItemsFollow'
  <2>1. submits[s].at = "read" => recorded'[r] # <<>>
    BY <1>3, <1>4, FirstRecorded
  <2> QED
    BY <1>4, <1>6, <1>7, <2>1 DEF ItemsFollow
<1>13. InHandIsReady' /\ SavedOnce'
  <2>1. \A o \in RowIds : rows[o].st # "new" => rows'[o].st # "new"
    BY <1>6
  <2> QED
    BY <1>2, <2>1, ChatLeft
<1> QED
  BY <1>8, <1>10, <1>11, <1>12, <1>13

\* A restart forgets the cards and whoever had a row in hand.
LEMMA RestartKept ==
  ASSUME DraftsInv, Restart
  PROVE  DraftsInv'
<1> USE DEF DraftsInv
<1>1. /\ card' = [st |-> "forgotten", item |-> NoText]
      /\ turns' = [e \in Turns |-> FALSE] /\ taps' = [t \in Taps |-> NoTap]
      /\ submits' = [s \in Submits |-> NoSubmit]
      /\ UNCHANGED <<rows, born, recorded, item, revived>>
      /\ losses < MaxLosses /\ losses' = losses + 1
  BY DEF Restart
<1>2. astray \subseteq astray' /\ \A s \in Submits : submits[s].at = "recorded" => submits[s].row \in astray'
  BY DEF Restart
<1>3. DraftsTyped'
  <2>1. card' \in CardRow
    BY <1>1 DEF CardRow
  <2>2. turns' \in [Turns -> BOOLEAN]
    BY <1>1
  <2>3. /\ taps' \in [Taps -> [at : {"idle", "looked", "closed"}, item : DraftSet]]
        /\ submits' \in [Submits -> [at : {"idle", "read", "recorded"}, row : RowIds \cup {""}, d : DraftSet]]
    BY <1>1, NothingInHand
  <2>4. losses' \in 0 .. MaxLosses
    <3>1. losses \in 0 .. MaxLosses
      BY DEF DraftsTyped
    <3> HIDE DEF DraftsInv
    <3> QED
      BY <1>1, <3>1, DraftBounds
  <2> QED
    BY <1>1, <2>1, <2>2, <2>3, <2>4 DEF DraftsTyped
<1>4. /\ card'.st = "forgotten" /\ \A e \in Turns : ~turns'[e]
      /\ \A t \in Taps : taps'[t].at = "idle"
      /\ \A s \in Submits : submits'[s].at = "idle"
  BY <1>1, NothingInHand
<1>5. InHandIsReady' /\ SubmitsHold' /\ ItemsFollow'
  BY <1>1, <1>4 DEF InHandIsReady, SubmitsHold, ItemsFollow
<1>6. SavedOnce'
  BY <1>1, <1>4 DEF SavedOnce
<1>7. RowsAreLeft'
  <2> SUFFICES ASSUME NEW o \in RowIds \ astray' PROVE RowsAreLeft!(o)'
    BY DEF RowsAreLeft
  <2>1. RowsAreLeft!(o)
    BY <1>2 DEF RowsAreLeft
  <2>2. \A s \in Submits : ~(submits[s].at = "recorded" /\ submits[s].row = o)
    BY <1>2
  <2> QED
    BY <1>1, <2>1, <2>2
<1> QED
  BY <1>3, <1>5, <1>6, <1>7

\* Every step of the part keeps the invariant, and so does a step of another part.
LEMMA DraftsKept == DraftsInv /\ [DraftsNext]_draftVars => DraftsInv'
<1> SUFFICES ASSUME DraftsInv, [DraftsNext]_draftVars PROVE DraftsInv'
  OBVIOUS
<1>1. CASE Chat
  <2>1. CASE \E t \in Taps : Queue(t) \/ QueueFails(t) \/ QueueAnswerLost(t)
    BY <2>1, QueuesKept
  <2> QED
    BY <1>1, <2>1, CardsKept DEF Chat
<1>2. CASE Page
  <2>1. CASE \E r \in RowIds, d \in Texts : CreateRow(r, d)
    BY <2>1, RowCreatedKept
  <2>2. CASE \E r \in RowIds : DiscardRow(r) \/ \E d \in Texts : UpdateRow(r, d)
    BY <2>2, RowTouchedKept
  <2>3. CASE \E s \in Submits, r \in RowIds : SubmitRead(s, r)
    BY <2>3, SubmitReadKept
  <2>4. CASE \E s \in Submits : SubmitRecords(s) \/ SubmitBooks(s) \/ SubmitDrops(s)
    BY <2>4, SubmitStepsKept
  <2>5. CASE \E s \in Submits : SubmitFails(s) \/ DropFails(s)
    BY <2>5, SubmitGivenUpKept
  <2> QED
    BY <1>2, <2>1, <2>2, <2>3, <2>4, <2>5 DEF Page
<1>3. CASE UNCHANGED draftVars
  <2>1. DraftsTyped'
    BY <1>3 DEF draftVars, DraftsInv, DraftsTyped
  <2>2. InHandIsReady' /\ SavedOnce'
    BY <1>3, ChatLeft DEF draftVars
  <2>3. SubmitsHold' /\ RowsAreLeft' /\ ItemsFollow'
    BY <1>3, PageLeft DEF draftVars
  <2> QED
    BY <2>1, <2>2, <2>3 DEF DraftsInv
<1> QED
  BY <1>1, <1>2, <1>3, RestartKept DEF DraftsNext

\* What is refused is what the page had said is missing.
LEMMA RefusedIsSaid ==
  ASSUME NEW kind, NEW d \in DraftSet
  PROVE  Refused(kind, d) \subseteq Hard(kind, d)
BY DEF Refused, Hard

\* The page counts every row as ready or as lacking something.
LEMMA SummaryAddsUp == Summary.ready + Summary.needs = Summary.count
<1> DEFINE on == {r \in RowIds : Waiting(r)}
           ready == {r \in on : Missing(rows[r].kind, rows[r].d) = {}}
<1>1. IsFiniteSet(on) /\ ready \subseteq on
  BY DraftBounds, FS_Subset
<1>2. Summary = [count |-> Cardinality(on), ready |-> Cardinality(ready), needs |-> Cardinality(on \ ready)]
  BY DEF Summary
<1> HIDE DEF on, ready
<1>3. /\ Cardinality(on \ ready) = Cardinality(on) - Cardinality(on \cap ready)
      /\ on \cap ready = ready /\ IsFiniteSet(ready)
  BY <1>1, FS_Difference, FS_Subset
<1>4. Cardinality(on) \in Nat /\ Cardinality(ready) \in Nat
  BY <1>1, <1>3, FS_CardinalityType
<1>5. Cardinality(on \ ready) = Cardinality(on) - Cardinality(ready)
  BY <1>3, Zenon
<1>6. Summary.count = Cardinality(on) /\ Summary.ready = Cardinality(ready) /\ Summary.needs = Cardinality(on \ ready)
  BY <1>2
<1> QED
  BY <1>4, <1>5, <1>6

\* The invariant is what the run checks, and more.
LEMMA DraftsSafe == DraftsInv => BookedOnce
<1> SUFFICES ASSUME DraftsInv PROVE BookedOnce
  OBVIOUS
<1> USE DEF DraftsInv
<1>1. DraftsTypeOK
  BY DEF DraftsTyped, DraftsTypeOK
<1>2. ~revived => QueuedOnce
  <2> SUFFICES ASSUME ~revived PROVE QueuedOnce
    OBVIOUS
  <2> DEFINE queued == {r \in RowIds : born[r] # {}}
  <2>1. \A r, s \in queued : r = s
    BY DEF SavedOnce
  <2>2. Cardinality(queued) <= 1
    <3> HIDE DEF queued
    <3>1. CASE queued = {}
      BY <3>1, FS_EmptySet
    <3>2. CASE queued # {}
      <4>1. PICK r \in queued : queued = {r}
        BY <2>1, <3>2
      <4>2. Cardinality(queued) = 1
        BY <4>1, FS_Singleton, Zenon
      <4> QED
        BY <4>2
    <3> QED
      BY <3>1, <3>2
  <2> QED
    BY <2>2 DEF QueuedOnce, SavedOnce
<1>3. ASSUME NEW r \in RowIds \ astray PROVE RecordedAsLeft(r)
  <2>1. RowsAreLeft!(r)
    BY DEF RowsAreLeft
  <2>2. \A s \in Submits : submits[s].at = "recorded" /\ submits[s].row = r =>
          rows[r].st = "waiting" /\ recorded[r] = <<rows[r].d>>
    BY DEF SubmitsHold
  <2>3. Len(<<>>) = 0 /\ Len(<<rows[r].d>>) = 1 /\ <<rows[r].d>> # <<>>
    OBVIOUS
  <2>4. recorded[r] = <<>> \/ recorded[r] = <<rows[r].d>>
    BY <2>1, <2>2
  <2>5. Len(recorded[r]) <= 1
    <3>1. Len(recorded[r]) = 0 \/ Len(recorded[r]) = 1
      BY <2>3, <2>4, Zenon
    <3>2. \A n : n = 0 \/ n = 1 => n <= 1
      OBVIOUS
    <3> QED
      BY <3>1, <3>2, Zenon
  <2> QED
    BY <2>1, <2>2, <2>3, <2>4, <2>5 DEF RecordedAsLeft
<1>4. \A r \in RowIds : /\ \A d \in born[r] : Lacks(d) = {}
                        /\ item[r] = "linked" => recorded[r] # <<>>
                        /\ item[r] = "waiting" => Waiting(r)
  BY DEF InHandIsReady, ItemsFollow, Waiting
<1>5. \A r \in RowIds : Refused(rows[r].kind, rows[r].d) \subseteq Hard(rows[r].kind, rows[r].d)
  <2> TAKE r \in RowIds
  <2>1. rows[r].d \in DraftSet
    BY DEF DraftsTyped, PendingRow
  <2> QED
    BY <2>1, RefusedIsSaid
<1> HIDE DEF DraftsInv
<1> QED
  BY <1>1, <1>2, <1>3, <1>4, <1>5, SummaryAddsUp DEF BookedOnce

\* A message is recorded at most once on its way from the chat to the ledger, as it was last edited
\* and not after it was discarded, whatever replies, taps, submits, edits and restarts cross, but for
\* the rows and cards that are named (memCards.close, settle, submitOne).
THEOREM MessagesAreBookedOnce == Spec => []DraftsHold
<1>1. HomeInit => DraftsInv
  BY DraftsStart DEF HomeInit
<1>2. [HomeNext]_homeVars => [DraftsNext]_draftVars
  BY DEF HomeNext, homeVars, draftVars
<1>3. DraftsInv => DraftsHold
  BY DraftsSafe DEF DraftsHold
<1> QED
  BY <1>1, <1>2, <1>3, DraftsKept, PTL DEF Spec

-----------------------------------------------------------------------------
(* Sync.                                                                   *)

SyncTyped ==
  /\ now \in 0 .. MaxSaves /\ dayNow \in Nat
  /\ savers \subseteq 1 .. now
  /\ stored \in [Cells -> [at : Nat, says : Nat]]
  /\ stale \subseteq Datasets
  /\ sync = [on |-> sync.on, v |-> sync.v, load |-> sync.load, got |-> sync.got]
  /\ sync.load \subseteq Datasets

\* A row that is there was written by a transaction that is over.
RowsAreWritten ==
  \A c \in Cells : /\ stored[c].at = 0 <=> stored[c].says = 0
                   /\ stored[c].at <= now /\ stored[c].at \notin savers

BodyRow(d) == [rows : [Read(d) -> Nat], day : Nat]

\* What a part of a fingerprint says of the rows it was taken of.  A table with updated_at: the row
\* that had the newest one has been written since, and this time does not come again, or the rows
\* that are no newer are those that were there.
StampSays(t, stamp, says) ==
  IF t \in Timed
  THEN /\ stamp[1] \in 0 .. now /\ stamp[1] \notin savers
       /\ stamp[2] = Cardinality({c \in RowsOf(t) : says[c] # 0})
       /\ \/ stamp[1] > 0 /\ \A c \in RowsOf(t) : stored[c].at # stamp[1]
          \/ \A c \in RowsOf(t) : 0 < stored[c].at /\ stored[c].at <= stamp[1] => stored[c].says = says[c]
  ELSE stamp[2] = {<<c, says[c]>> : c \in {x \in RowsOf(t) : says[x] # 0}}

\* ... and a fingerprint of the body it is kept with.
Fitting(d, v, body) ==
  /\ body \in BodyRow(d)
  /\ \A t \in SourcesOf[d] : StampSays(t, v.stamps[t], body.rows)
  /\ v.day \in 0 .. dayNow /\ (v.day = body.day \/ v.day < dayNow)
  /\ d \notin ByDay => body.day = 0

\* What the app holds fits, unless it is excused.
DeviceFits == \A d \in Datasets \ excused : device[d] = Nothing \/ Fitting(d, device[d].v, device[d].body)

\* What a sync in hand will answer fits, unless it was written to on the way.
SyncFits ==
  sync.on => \A d \in Datasets \ moved :
    /\ Fitting(d, sync.v[d], Body(d))
    /\ d \in DOMAIN sync.got /\ sync.got[d] # <<>> => Fitting(d, sync.v[d], sync.got[d])

SyncInv == SyncTyped /\ RowsAreWritten /\ DeviceFits /\ SyncFits

\* A set of naturals has a least element.
LEMMA NatLeast ==
  ASSUME NEW T, T \subseteq Nat, T # {}
  PROVE  \E x \in T : \A y \in T : x <= y
<1> DEFINE upTo == {0 .. x : x \in T}
<1>1. ASSUME NEW x \in T PROVE 0 .. x \in FiniteSubsetsOf(Nat)
  <2>1. IsFiniteSet(0 .. x)
    <3>1. 0 \in Int /\ x \in Int
      OBVIOUS
    <3> QED BY <3>1, FS_Interval
  <2> QED BY <2>1 DEF FiniteSubsetsOf
<1>2. PICK X \in upTo : \A Y \in upTo : <<Y, X>> \notin StrictSubsetOrdering(Nat)
  <2>1. upTo \subseteq FiniteSubsetsOf(Nat) /\ upTo # {}
    BY <1>1
  <2> HIDE DEF upTo
  <2>2. IsWellFoundedOn(StrictSubsetOrdering(Nat), FiniteSubsetsOf(Nat))
    BY FS_StrictSubsetOrderingWellFounded
  <2> QED BY <2>1, <2>2, WFMin, Zenon
<1>3. PICK x \in T : X = 0 .. x
  OBVIOUS
<1>4. ASSUME NEW y \in T, y < x
      PROVE  <<0 .. y, 0 .. x>> \in StrictSubsetOrdering(Nat)
  <2>1. 0 .. y \in SUBSET Nat /\ 0 .. x \in SUBSET Nat /\ 0 .. y \subseteq 0 .. x
    BY <1>4
  <2>2. 0 .. y # 0 .. x
    BY <1>4
  <2> QED BY <2>1, <2>2 DEF StrictSubsetOrdering
<1>5. ASSUME NEW y \in T PROVE ~ (y < x)
  BY <1>2, <1>3, <1>4, <1>5
<1> QED BY <1>5

\* Newest is the time of a newest row.
LEMMA NewestIs ==
  ASSUME SyncTyped, RowsAreWritten, NEW t
  PROVE  /\ Newest(t) \in 0 .. now
         /\ \A c \in There(t) : stored[c].at <= Newest(t)
         /\ Newest(t) = 0 \/ \E c \in There(t) : stored[c].at = Newest(t)
<1> DEFINE bounds == {n \in 0 .. now : \A c \in There(t) : stored[c].at <= n}
<1>1. now \in Nat /\ \A c \in There(t) : stored[c].at \in Nat /\ stored[c].at <= now
  BY SyncBounds DEF SyncTyped, RowsAreWritten, There, RowsOf
<1>2. bounds \subseteq Nat /\ now \in bounds
  BY <1>1
<1>3. PICK n \in bounds : \A m \in bounds : n <= m
  <2> HIDE DEF bounds
  <2> QED
    BY <1>2, NatLeast
<1>4. n \in 0 .. now /\ \A c \in There(t) : stored[c].at <= n
  OBVIOUS
<1>5. n = 0 \/ \E c \in There(t) : stored[c].at = n
  <2> SUFFICES ASSUME n # 0, \A c \in There(t) : stored[c].at # n PROVE FALSE
    OBVIOUS
  <2>1. n - 1 \in 0 .. now /\ \A c \in There(t) : stored[c].at <= n - 1
    BY <1>1, <1>4
  <2> QED
    BY <1>3, <2>1, <1>4
<1> QED
  BY <1>4, <1>5 DEF Newest

\* At the start nothing is stored, and the app holds nothing.
LEMMA SyncStarts == SyncInit => SyncInv
<1> SUFFICES ASSUME SyncInit PROVE SyncInv
  OBVIOUS
<1>1. NoCell.at = 0 /\ NoCell.says = 0 /\ NoCell \in [at : Nat, says : Nat]
  BY DEF NoCell
<1>2. sync = [on |-> FALSE, v |-> <<>>, load |-> {}, got |-> <<>>]
  BY DEF SyncInit, NoSync
<1>3. SyncTyped
  BY <1>1, <1>2, SyncBounds DEF SyncInit, SyncTyped
<1>4. RowsAreWritten
  BY <1>1 DEF SyncInit, RowsAreWritten
<1>5. DeviceFits
  BY DEF SyncInit, DeviceFits
<1>6. SyncFits
  BY <1>2 DEF SyncFits
<1> QED
  BY <1>3, <1>4, <1>5, <1>6 DEF SyncInv

\* What is read now fits.
LEMMA FreshFits ==
  ASSUME SyncTyped, RowsAreWritten, NEW d \in Datasets
  PROVE  Fitting(d, Fingerprint(d), Body(d))
<1> DEFINE v == Fingerprint(d)
           b == Body(d)
<1>0. /\ b.rows = [c \in Read(d) |-> stored[c].says] /\ b.day = DayOf(d)
      /\ v.stamps = [t \in SourcesOf[d] |-> Stamp(t)] /\ v.day = DayOf(d)
      /\ b = [rows |-> b.rows, day |-> b.day]
  BY DEF Fingerprint, Body
<1> HIDE DEF v, b
<1>1. DayOf(d) \in 0 .. dayNow
  BY DEF DayOf, SyncTyped
<1>2. b.rows \in [Read(d) -> Nat]
  BY <1>0 DEF SyncTyped, Read, RowsOf
<1>3. b \in BodyRow(d)
  BY <1>0, <1>1, <1>2 DEF BodyRow
<1>4. ASSUME NEW t \in SourcesOf[d] PROVE StampSays(t, v.stamps[t], b.rows)
  <2>1. v.stamps[t] = Stamp(t) /\ \A c \in RowsOf(t) : c \in Cells /\ b.rows[c] = stored[c].says
    BY <1>0 DEF Read, RowsOf
  <2>2. There(t) = {c \in RowsOf(t) : b.rows[c] # 0}
    BY <2>1 DEF There, RowsAreWritten, SyncTyped
  <2>3. CASE t \in Timed
    <3>1. v.stamps[t][1] = Newest(t) /\ v.stamps[t][2] = Cardinality(There(t))
      BY <2>1, <2>3 DEF Stamp
    <3>2. Newest(t) \in 0 .. now /\ Newest(t) \notin savers
      BY NewestIs DEF SyncTyped, RowsAreWritten, There, RowsOf
    <3> QED
      BY <2>1, <2>2, <2>3, <3>1, <3>2 DEF StampSays
  <2>4. CASE t \notin Timed
    <3>1. v.stamps[t][2] = {<<c, stored[c].says>> : c \in There(t)}
      BY <2>1, <2>4 DEF Stamp
    <3>2. \A c \in There(t) : stored[c].says = b.rows[c]
      BY <2>1, <2>2
    <3> QED
      BY <2>2, <2>4, <3>1, <3>2 DEF StampSays
  <2> QED
    BY <2>3, <2>4
<1> QED
  BY <1>0, <1>1, <1>3, <1>4 DEF Fitting, DayOf, v, b

\* A body that fits the fingerprint of now is what is read now.
LEMMA FittingMeans ==
  ASSUME SyncTyped, RowsAreWritten, NEW d \in Datasets, NEW v, NEW body, Fitting(d, v, body), v = Fingerprint(d)
  PROVE  body = Body(d)
<1>1. /\ \A t \in SourcesOf[d] : v.stamps[t] = Stamp(t)
      /\ v.day = DayOf(d)
  BY DEF Fingerprint
<1>2. body \in BodyRow(d) /\ body.day = DayOf(d)
  <2>1. v.day = body.day \/ v.day < dayNow
    BY DEF Fitting
  <2>2. CASE d \in ByDay
    BY <1>1, <2>1, <2>2 DEF Fitting, DayOf, SyncTyped
  <2>3. CASE d \notin ByDay
    BY <1>1, <2>1, <2>3 DEF Fitting, DayOf, SyncTyped
  <2> QED
    BY <2>2, <2>3
<1>3. ASSUME NEW t \in SourcesOf[d], NEW c \in RowsOf(t) PROVE body.rows[c] = stored[c].says
  <2> DEFINE were == {x \in RowsOf(t) : body.rows[x] # 0}
  <2>1. StampSays(t, Stamp(t), body.rows)
    BY <1>1 DEF Fitting
  <2>2. were \subseteq RowsOf(t) /\ There(t) \subseteq RowsOf(t) /\ RowsOf(t) \subseteq Cells
    BY DEF There, RowsOf
  <2>3. There(t) = were /\ \A x \in There(t) : stored[x].says = body.rows[x]
    <3>1. CASE t \in Timed
      <4>1. Stamp(t)[1] = Newest(t) /\ Stamp(t)[2] = Cardinality(There(t))
        BY <3>1 DEF Stamp
      <4>2. \A x \in RowsOf(t) : 0 < stored[x].at /\ stored[x].at <= Newest(t) => stored[x].says = body.rows[x]
        <5>1. Newest(t) = 0 \/ \E x \in RowsOf(t) : stored[x].at = Newest(t)
          BY <2>2, NewestIs
        <5> QED
          BY <2>1, <3>1, <4>1, <5>1 DEF StampSays
      <4>3. \A x \in There(t) : stored[x].at <= Newest(t) /\ 0 < stored[x].at
        BY <2>2, NewestIs DEF There, SyncTyped
      <4>4. \A x \in There(t) : stored[x].says = body.rows[x] /\ stored[x].says # 0
        BY <2>2, <4>2, <4>3 DEF RowsAreWritten, SyncTyped
      <4>5. There(t) \subseteq were
        BY <2>2, <4>4
      <4>6. Cardinality(There(t)) = Cardinality(were)
        BY <2>1, <3>1, <4>1 DEF StampSays
      <4>7. IsFiniteSet(were)
        BY <2>2, CellsAreFew, FS_Subset
      <4> HIDE DEF were
      <4> QED
        BY <4>4, <4>5, <4>6, <4>7, FS_Subset
    <3>2. CASE t \notin Timed
      <4>1. {<<x, stored[x].says>> : x \in There(t)} = {<<x, body.rows[x]>> : x \in were}
        BY <2>1, <3>2 DEF StampSays, Stamp
      <4>2. ASSUME NEW x \in There(t) PROVE x \in were /\ stored[x].says = body.rows[x]
        <5>1. <<x, stored[x].says>> \in {<<y, body.rows[y]>> : y \in were}
          BY <4>1
        <5>2. PICK y \in were : <<x, stored[x].says>> = <<y, body.rows[y]>>
          BY <5>1
        <5> QED
          BY <5>2
      <4>3. ASSUME NEW x \in were PROVE x \in There(t)
        <5>1. <<x, body.rows[x]>> \in {<<y, stored[y].says>> : y \in There(t)}
          BY <4>1
        <5>2. PICK y \in There(t) : <<x, body.rows[x]>> = <<y, stored[y].says>>
          BY <5>1
        <5> QED
          BY <5>2
      <4> QED
        BY <4>2, <4>3
    <3> QED
      BY <3>1, <3>2
  <2>4. CASE c \in There(t)
    BY <2>3, <2>4
  <2>5. CASE c \notin There(t)
    <3>1. stored[c].says = 0
      BY <2>2, <2>5 DEF There, RowsAreWritten, SyncTyped
    <3>2. body.rows[c] = 0
      BY <2>3, <2>5
    <3> QED
      BY <3>1, <3>2
  <2> QED
    BY <2>4, <2>5
<1>4. body.rows = [c \in Read(d) |-> stored[c].says]
  <2>1. body.rows \in [Read(d) -> Nat]
    BY <1>2 DEF BodyRow
  <2>2. \A c \in Read(d) : body.rows[c] = stored[c].says
    BY <1>3 DEF Read
  <2> QED
    BY <2>1, <2>2
<1> QED
  BY <1>2, <1>4 DEF Body, BodyRow

\* Time passes, and transactions begin and end.
Passing ==
  /\ now' \in Nat /\ now <= now' /\ dayNow' \in Nat /\ dayNow <= dayNow'
  /\ \A s \in savers' : s \in savers \/ s > now

\* The tables of a set are not written.
Untouched(d) == \A t \in SourcesOf[d] : \A c \in RowsOf(t) : stored'[c] = stored[c]

\* What fits goes on fitting while its tables are not written.
LEMMA FittingStays ==
  ASSUME SyncTyped, NEW d \in Datasets, NEW v, NEW body, Fitting(d, v, body), Passing, Untouched(d)
  PROVE  Fitting(d, v, body)'
<1>1. now \in Nat
  BY SyncBounds DEF SyncTyped
<1>2. ASSUME NEW t \in SourcesOf[d] PROVE StampSays(t, v.stamps[t], body.rows)'
  <2>1. StampSays(t, v.stamps[t], body.rows)
    BY DEF Fitting
  <2> QED
    BY <1>1, <2>1 DEF StampSays, Passing, Untouched, RowsOf
<1>3. v.day \in 0 .. dayNow' /\ (v.day = body.day \/ v.day < dayNow')
  BY DEF Fitting, Passing, SyncTyped
<1> QED
  BY <1>2, <1>3 DEF Fitting, BodyRow, Read, RowsOf

\* A row is written, by a transaction that did not begin before the newest row of its table.
LEMMA FittingTakesWrites ==
  ASSUME SyncTyped, RowsAreWritten, NEW d \in Datasets, NEW v, NEW body, Fitting(d, v, body), Passing,
         NEW began \in savers, NEW c \in Cells, NEW row \in [at : Nat, says : Nat],
         row.at = 0 \/ row.at = began,
         stored' = [stored EXCEPT ![c] = row],
         row.at = began /\ c[1] \in Timed => Newest(c[1]) <= began
  PROVE  Fitting(d, v, body)'
<1>1. now \in Nat /\ began \in Nat \ {0}
  BY SyncBounds DEF SyncTyped
<1>2. ASSUME NEW t \in SourcesOf[d] PROVE StampSays(t, v.stamps[t], body.rows)'
  <2>0. StampSays(t, v.stamps[t], body.rows)
    BY DEF Fitting
  <2>1. CASE t \notin Timed
    BY <2>0, <2>1 DEF StampSays, RowsOf
  <2>2. CASE t \in Timed
    <3>1. PICK n \in 0 .. now : n = v.stamps[t][1] /\ n \notin savers
      BY <2>0, <2>2 DEF StampSays
    <3>2. n \in 0 .. now' /\ n \notin savers'
      BY <1>1, <3>1 DEF Passing
    <3>3. \A x \in RowsOf(t) : x \in Cells /\ stored[x].at \in Nat /\ stored'[x] = IF x = c THEN row ELSE stored[x]
      BY DEF RowsOf, SyncTyped
    <3>4. \/ n > 0 /\ \A x \in RowsOf(t) : stored[x].at # n
          \/ \A x \in RowsOf(t) : 0 < stored[x].at /\ stored[x].at <= n => stored[x].says = body.rows[x]
      BY <2>0, <2>2, <3>1 DEF StampSays
    <3>5. \/ n > 0 /\ \A x \in RowsOf(t) : stored'[x].at # n
          \/ \A x \in RowsOf(t) : 0 < stored'[x].at /\ stored'[x].at <= n => stored'[x].says = body.rows[x]
      <4>1. CASE row.at = 0 \/ c \notin RowsOf(t)
        BY <3>3, <3>4, <4>1
      <4>2. CASE row.at = began /\ c \in RowsOf(t) /\ began > n
        BY <1>1, <3>3, <3>4, <4>2
      <4>3. CASE row.at = began /\ c \in RowsOf(t) /\ began <= n
        <5>1. began < n
          BY <1>1, <3>1, <4>3
        <5>2. Newest(t) <= began
          BY <2>2, <4>3 DEF RowsOf
        <5>3. \A x \in There(t) : stored[x].at <= Newest(t) /\ Newest(t) \in 0 .. now
          BY NewestIs
        <5>4. \A x \in RowsOf(t) : stored[x].at < n
          BY <1>1, <5>1, <5>2, <5>3, <3>3 DEF There
        <5> QED
          BY <1>1, <3>3, <4>3, <5>1, <5>4
      <4> QED
        BY <1>1, <3>1, <4>1, <4>2, <4>3
    <3> QED
      BY <2>0, <2>2, <3>1, <3>2, <3>5 DEF StampSays, RowsOf
  <2> QED
    BY <2>1, <2>2
<1>3. v.day \in 0 .. dayNow' /\ (v.day = body.day \/ v.day < dayNow')
  BY DEF Fitting, Passing, SyncTyped
<1> QED
  BY <1>2, <1>3 DEF Fitting, BodyRow, Read, RowsOf

\* A transaction commits: what it wrote moves the fingerprint, or it is late.
LEMMA SaveKept ==
  ASSUME SyncInv, NEW began \in savers, NEW c \in Cells, NEW says \in Contents[c] \cup {0}, NEW told \in BOOLEAN,
         SaveCommits(began, c, says), Stamped(told)
  PROVE  SyncInv'
<1> USE DEF SyncInv
<1>1. PICK row \in [at : Nat, says : Nat] :
        /\ row = IF says = 0 THEN NoCell ELSE [at |-> began, says |-> says]
        /\ stored' = [stored EXCEPT ![c] = row]
        /\ row.says = says /\ row.at = (IF says = 0 THEN 0 ELSE began)
  <2>1. says \in Nat /\ began \in Nat
    BY CellsAreFew, SyncBounds DEF SyncTyped
  <2> DEFINE row == IF says = 0 THEN NoCell ELSE [at |-> began, says |-> says]
  <2>2. row \in [at : Nat, says : Nat] /\ row.says = says /\ row.at = (IF says = 0 THEN 0 ELSE began)
    BY <2>1 DEF NoCell
  <2> QED
    BY <2>2 DEF SaveCommits
<1>2. /\ UNCHANGED <<now, dayNow, device, sync>> /\ savers' = savers \ {began}
      /\ moved' = IF sync.on THEN moved \cup {d \in Datasets : c[1] \in SourcesOf[d]} ELSE moved
      /\ excused' = IF says # 0 /\ c[1] \in Timed /\ began < Newest(c[1])
                    THEN excused \cup {d \in Datasets : c[1] \in SourcesOf[d]} ELSE excused
  BY DEF SaveCommits
<1>3. now \in Nat /\ dayNow \in Nat /\ began \in 1 .. now
  BY SyncBounds DEF SyncTyped
<1>4. SyncTyped'
  <2>1. stale' \subseteq Datasets
    BY DEF Stamped, SyncTyped
  <2> QED
    BY <1>1, <1>2, <2>1 DEF SyncTyped
<1>5. RowsAreWritten'
  BY <1>1, <1>2, <1>3 DEF RowsAreWritten, SyncTyped
<1>6. Passing
  BY <1>2, <1>3 DEF Passing
<1>7. ASSUME NEW d \in Datasets, c[1] \notin SourcesOf[d] PROVE Untouched(d)
  BY <1>1, <1>7 DEF Untouched, RowsOf, SyncTyped
<1>8. DeviceFits'
  <2> SUFFICES ASSUME NEW d \in Datasets \ excused', Fitting(d, device[d].v, device[d].body)
               PROVE  Fitting(d, device[d].v, device[d].body)'
    BY <1>2 DEF DeviceFits
  <2>1. CASE c[1] \notin SourcesOf[d]
    BY <1>2, <1>6, <1>7, <2>1, FittingStays
  <2>2. CASE c[1] \in SourcesOf[d]
    <3>1. row.at = began /\ c[1] \in Timed => Newest(c[1]) <= began
      <4>1. Newest(c[1]) \in Nat
        BY NewestIs
      <4> QED
        BY <1>1, <1>2, <1>3, <2>2, <4>1
    <3>2. \A v, body : Fitting(d, v, body) => Fitting(d, v, body)'
      BY <1>1, <1>6, <3>1, FittingTakesWrites
    <3> QED
      BY <1>2, <3>2
  <2> QED
    BY <2>1, <2>2
<1>9. SyncFits'
  <2> SUFFICES ASSUME sync.on, NEW d \in Datasets \ moved'
               PROVE  /\ Fitting(d, sync.v[d], Body(d))'
                      /\ d \in DOMAIN sync.got /\ sync.got[d] # <<>> => Fitting(d, sync.v[d], sync.got[d])'
    BY <1>2 DEF SyncFits
  <2>1. Untouched(d) /\ d \notin moved
    BY <1>2, <1>7
  <2>2. Body(d)' = Body(d)
    BY <1>2, <2>1 DEF Body, Read, Untouched, DayOf
  <2>3. \A v, body : Fitting(d, v, body) => Fitting(d, v, body)'
    BY <1>6, <2>1, FittingStays
  <2> QED
    BY <1>2, <2>1, <2>2, <2>3 DEF SyncFits
<1> QED
  BY <1>4, <1>5, <1>8, <1>9

\* A day passes while a set is on its way: its fingerprint is of the day before.
LEMMA BodyAges ==
  ASSUME SyncTyped, NEW d \in Datasets, NEW v, Fitting(d, v, Body(d)), NewDay
  PROVE  Fitting(d, v, Body(d))'
<1>1. PICK b : b = Body(d)
  OBVIOUS
<1>2. UNCHANGED <<stored, now, savers>> /\ dayNow \in Nat /\ dayNow' = dayNow + 1
  BY DEF NewDay, SyncTyped
<1>3. Fitting(d, v, b)'
  <2>1. Passing /\ Untouched(d)
    BY <1>2, SyncBounds DEF Passing, Untouched, SyncTyped
  <2> QED
    BY <1>1, <2>1, FittingStays
<1>4. /\ Body(d)'.rows = b.rows /\ Body(d)'.day = DayOf(d)'
      /\ Body(d)' = [rows |-> b.rows, day |-> DayOf(d)']
  BY <1>1, <1>2 DEF Body, Read
<1>5. Body(d)' \in BodyRow(d)'
  <2>1. b.rows \in [Read(d) -> Nat]
    BY <1>1 DEF Fitting, BodyRow
  <2>2. DayOf(d)' \in Nat /\ Read(d)' = Read(d)
    BY <1>2 DEF DayOf, Read
  <2> QED
    BY <1>4, <2>1, <2>2 DEF BodyRow
<1>6. ASSUME NEW t \in SourcesOf[d] PROVE StampSays(t, v.stamps[t], Body(d).rows)'
  <2>1. StampSays(t, v.stamps[t], b.rows)'
    BY <1>3 DEF Fitting
  <2> QED
    BY <1>4, <2>1
<1>7. v.day \in 0 .. dayNow' /\ v.day < dayNow' /\ (d \notin ByDay => DayOf(d)' = 0)
  BY <1>2 DEF Fitting, DayOf
<1> QED
  BY <1>4, <1>5, <1>6, <1>7 DEF Fitting

\* Nothing is written: transactions begin, days pass.
LEMMA TimeKept ==
  ASSUME SyncInv, SaveBegins \/ NewDay
  PROVE  SyncInv'
<1> USE DEF SyncInv
<1>1. now \in Nat /\ dayNow \in Nat /\ UNCHANGED <<stored, device, stale, sync, moved, excused>>
  BY SyncBounds DEF SyncTyped, SaveBegins, NewDay
<1>2. Passing /\ SyncTyped'
  BY <1>1, SyncBounds DEF Passing, SyncTyped, SaveBegins, NewDay
<1>3. RowsAreWritten'
  BY <1>1 DEF RowsAreWritten, SyncTyped, SaveBegins, NewDay
<1>4. \A d \in Datasets : \A v, body : Fitting(d, v, body) => Fitting(d, v, body)'
  BY <1>1, <1>2, FittingStays DEF Untouched
<1>5. DeviceFits'
  BY <1>1, <1>4 DEF DeviceFits
<1>6. SyncFits'
  <2> SUFFICES ASSUME sync.on, NEW d \in Datasets \ moved
               PROVE  /\ Fitting(d, sync.v[d], Body(d))'
                      /\ d \in DOMAIN sync.got /\ sync.got[d] # <<>> => Fitting(d, sync.v[d], sync.got[d])'
    BY <1>1 DEF SyncFits
  <2>1. Fitting(d, sync.v[d], Body(d))'
    <3>1. PICK v : v = sync.v[d] /\ Fitting(d, v, Body(d))
      BY DEF SyncFits
    <3>2. CASE SaveBegins
      <4>1. Body(d)' = Body(d)
        BY <1>1, <3>2 DEF Body, DayOf, Read, SaveBegins
      <4> QED
        BY <1>1, <1>4, <3>1, <4>1
    <3>3. CASE NewDay
      BY <1>1, <3>1, <3>3, BodyAges
    <3> QED
      BY <3>2, <3>3
  <2>2. d \in DOMAIN sync.got /\ sync.got[d] # <<>> => Fitting(d, sync.v[d], sync.got[d])'
    BY <1>1, <1>4 DEF SyncFits
  <2> QED
    BY <2>1, <2>2
<1> QED
  BY <1>2, <1>3, <1>5, <1>6

\* The app and the server: the tables are as they are.
LEMMA SyncStepsKept ==
  ASSUME SyncInv, SyncAsked \/ SyncAnswers \/ SyncLost \/ \E d \in Datasets : Loaded(d)
  PROVE  SyncInv'
<1> USE DEF SyncInv
<1>1. UNCHANGED <<stored, savers, now, dayNow>>
  BY DEF SyncAsked, SyncAnswers, SyncLost, Loaded
<1>2. Passing /\ RowsAreWritten'
  BY <1>1, SyncBounds DEF Passing, RowsAreWritten, SyncTyped
<1>3. \A d \in Datasets : \A v, body : Fitting(d, v, body) => Fitting(d, v, body)'
  BY <1>1, <1>2, FittingStays DEF Untouched
<1>4. \A d \in Datasets : Body(d)' = Body(d)
  BY <1>1 DEF Body, Read, DayOf
<1>5. CASE SyncAsked
  <2>1. PICK load, v :
          /\ load \subseteq Datasets
          /\ v = [d \in Datasets |-> Fingerprint(d)]
          /\ sync' = [on |-> TRUE, v |-> v, load |-> load, got |-> <<>>]
    <3>1. \A want \in Wanted : want \subseteq Datasets
      BY DEF Wanted, SyncTyped
    <3> QED
      BY <1>5, <3>1 DEF SyncAsked
  <2>2. UNCHANGED <<device, stale, excused>> /\ moved' = {}
    BY <1>5 DEF SyncAsked
  <2>3. SyncTyped'
    BY <1>1, <2>1, <2>2 DEF SyncTyped
  <2>4. DeviceFits'
    BY <1>3, <2>2 DEF DeviceFits
  <2>5. SyncFits'
    <3>1. sync'.v = v /\ DOMAIN sync'.got = {}
      BY <2>1
    <3>2. \A d \in Datasets : Fitting(d, v[d], Body(d))
      BY <2>1, FreshFits
    <3>3. \A d \in Datasets : Fitting(d, sync.v[d], Body(d))'
      BY <1>3, <1>4, <3>1, <3>2
    <3> QED
      BY <3>1, <3>3 DEF SyncFits
  <2> QED
    BY <1>2, <2>3, <2>4, <2>5
<1>6. CASE \E d \in Datasets : Loaded(d)
  <2>1. PICK d, got :
          /\ d \in Datasets /\ d \in sync.load /\ got \in {<<>>, Body(d)}
          /\ sync' = [sync EXCEPT !.load = @ \ {d},
                                  !.got = [e \in DOMAIN @ \cup {d} |-> IF e = d THEN got ELSE @[e]]]
    <3>1. PICK d \in Datasets : Loaded(d)
      BY <1>6
    <3>2. PICK got \in {<<>>, Body(d)} :
            sync' = [sync EXCEPT !.load = @ \ {d},
                                 !.got = [e \in DOMAIN @ \cup {d} |-> IF e = d THEN got ELSE @[e]]]
      BY <3>1 DEF Loaded
    <3>3. d \in sync.load
      BY <3>1 DEF Loaded
    <3> QED
      BY <3>2, <3>3
  <2>2. UNCHANGED <<device, stale, excused, moved>>
    BY <1>6 DEF Loaded
  <2>3. /\ sync' = [on |-> sync'.on, v |-> sync'.v, load |-> sync'.load, got |-> sync'.got]
        /\ sync'.on = sync.on /\ sync'.v = sync.v /\ sync'.load = sync.load \ {d}
        /\ sync'.got = [e \in DOMAIN sync.got \cup {d} |-> IF e = d THEN got ELSE sync.got[e]]
    BY <2>1 DEF SyncTyped
  <2>4. SyncTyped'
    BY <1>1, <2>2, <2>3 DEF SyncTyped
  <2>5. DeviceFits'
    BY <1>3, <2>2 DEF DeviceFits
  <2>6. SyncFits'
    <3> SUFFICES ASSUME sync.on, NEW e \in Datasets \ moved
                 PROVE  /\ Fitting(e, sync.v[e], Body(e))'
                        /\ e \in DOMAIN sync'.got /\ sync'.got[e] # <<>> => Fitting(e, sync.v[e], sync.got[e])'
      BY <2>2, <2>3 DEF SyncFits
    <3>1. Fitting(e, sync.v[e], Body(e)) /\ Fitting(e, sync.v[e], Body(e))'
      BY <1>3, <1>4, <2>3 DEF SyncFits
    <3>2. CASE e = d
      BY <1>3, <2>1, <2>3, <3>1, <3>2
    <3>3. CASE e # d
      <4>1. e \in DOMAIN sync'.got => e \in DOMAIN sync.got /\ sync'.got[e] = sync.got[e]
        BY <2>3, <3>3
      <4>2. e \in DOMAIN sync.got /\ sync.got[e] # <<>> => Fitting(e, sync.v[e], sync.got[e])
        BY DEF SyncFits
      <4> QED
        BY <1>3, <2>3, <3>1, <4>1, <4>2
    <3> QED
      BY <3>2, <3>3
  <2> QED
    BY <1>2, <2>4, <2>5, <2>6
<1>7. CASE SyncAnswers \/ SyncLost
  <2>1. sync' = [on |-> FALSE, v |-> <<>>, load |-> {}, got |-> <<>>]
    BY <1>7 DEF SyncAnswers, SyncLost, NoSync
  <2>2. stale' \subseteq Datasets
    BY <1>7 DEF SyncAnswers, SyncLost, SyncTyped
  <2>3. SyncTyped' /\ SyncFits'
    BY <1>1, <2>1, <2>2 DEF SyncTyped, SyncFits
  <2>4. CASE SyncLost
    BY <1>2, <1>3, <2>3, <2>4 DEF DeviceFits, SyncLost
  <2>5. CASE SyncAnswers
    <3>1. PICK new :
            /\ new = {d \in DOMAIN sync.got : sync.got[d] # <<>>}
            /\ device' = [d \in Datasets |-> IF d \in new THEN [v |-> sync.v[d], body |-> sync.got[d]] ELSE device[d]]
            /\ excused' = (excused \ new) \cup (new \cap moved)
      BY <2>5 DEF SyncAnswers
    <3>2. ASSUME NEW d \in Datasets \ excused'
          PROVE  device'[d] = Nothing \/ Fitting(d, device[d].v, device[d].body)'
      <4>1. CASE d \in new
        <5>1. device'[d].v = sync.v[d] /\ device'[d].body = sync.got[d] /\ d \notin moved
          BY <3>1, <3>2, <4>1
        <5>2. Fitting(d, sync.v[d], sync.got[d])
          BY <2>5, <3>1, <4>1, <5>1 DEF SyncAnswers, SyncFits
        <5> QED
          BY <1>3, <5>1, <5>2
      <4>2. CASE d \notin new
        <5>1. device'[d] = device[d] /\ d \notin excused
          BY <3>1, <3>2, <4>2
        <5> QED
          BY <1>3, <5>1 DEF DeviceFits
      <4> QED
        BY <4>1, <4>2
    <3> QED
      BY <1>2, <2>3, <3>2 DEF DeviceFits
  <2> QED
    BY <1>7, <2>4, <2>5
<1> QED
  BY <1>5, <1>6, <1>7

\* Every step of the part keeps the invariant, and so does a step of another part.
LEMMA SyncKept == SyncInv /\ [SyncNext]_syncVars => SyncInv'
<1> SUFFICES ASSUME SyncInv, [SyncNext]_syncVars PROVE SyncInv'
  OBVIOUS
<1>1. CASE UNCHANGED syncVars
  <2>1. SyncTyped' /\ RowsAreWritten'
    BY <1>1 DEF syncVars, SyncInv, SyncTyped, RowsAreWritten
  <2>2. \A d \in Datasets : Body(d)' = Body(d)
    BY <1>1 DEF syncVars, Body, Read, DayOf
  <2>3. \A d \in Datasets : \A v, body : Fitting(d, v, body) => Fitting(d, v, body)'
    <3>1. Passing /\ \A d \in Datasets : Untouched(d)
      BY <1>1, SyncBounds DEF syncVars, SyncInv, SyncTyped, Passing, Untouched
    <3> QED
      BY <3>1, FittingStays DEF SyncInv
  <2>4. DeviceFits'
    BY <1>1, <2>3 DEF syncVars, SyncInv, DeviceFits
  <2>5. SyncFits'
    BY <1>1, <2>2, <2>3 DEF syncVars, SyncInv, SyncFits
  <2> QED
    BY <2>1, <2>4, <2>5 DEF SyncInv
<1> QED
  BY <1>1, SaveKept, TimeKept, SyncStepsKept DEF SyncNext

\* The invariant is what the run checks, and more.
LEMMA SyncSafe == SyncInv => SameStampSameData
<1> SUFFICES ASSUME SyncInv PROVE SameStampSameData
  OBVIOUS
<1> USE DEF SyncInv
<1>1. SyncTypeOK
  BY DEF SyncTypeOK, SyncTyped, RowsAreWritten
<1>2. ASSUME NEW d \in Datasets \ excused, device[d].v = Fingerprint(d) PROVE device[d].body = Body(d)
  <2>1. device[d] # Nothing
    <3> SUFFICES ASSUME device[d] = Nothing PROVE FALSE
      OBVIOUS
    <3>1. Fingerprint(d).stamps = <<>>
      BY <1>2 DEF Nothing
    <3>2. DOMAIN Fingerprint(d).stamps = SourcesOf[d]
      BY DEF Fingerprint
    <3>3. DOMAIN <<>> = {}
      OBVIOUS
    <3> QED
      BY <3>1, <3>2, <3>3, SetsHaveSources
  <2> QED
    BY <1>2, <2>1, FittingMeans DEF DeviceFits
<1> QED
  BY <1>1, <1>2 DEF SameStampSameData

\* An app whose fingerprint is the server's has the server's data, for any tables, transactions and
\* days, unless a write was late or landed while the set was on its way (Fingerprints, Sync).
THEOREM FingerprintsTell == Spec => []SyncHolds
<1>1. HomeInit => SyncInv
  BY SyncStarts DEF HomeInit
<1>2. [HomeNext]_homeVars => [SyncNext]_syncVars
  BY DEF HomeNext, homeVars, syncVars
<1>3. SyncInv => SyncHolds
  BY SyncSafe DEF SyncHolds
<1> QED
  BY <1>1, <1>2, <1>3, SyncKept, PTL DEF Spec

-----------------------------------------------------------------------------
(* Sums over finite sets.  Where an induction over sets would be used, a   *)
(* smallest set of those that fail leads to a smaller one.                 *)

SumIn(f, S) == MapThenSumSet(LAMBDA x : f[x], S)
OneOf(S) == CHOOSE x \in S : TRUE

\* Of the subsets of a finite set that fail at something, one has no other inside it.
LEMMA SmallestSet ==
  ASSUME NEW S, IsFiniteSet(S), NEW F, F \subseteq SUBSET S, F # {}
  PROVE  \E T \in F : \A U \in F : U \subseteq T => U = T
<1>1. F \subseteq FiniteSubsetsOf(S)
  <2> SUFFICES ASSUME NEW T \in F PROVE T \in FiniteSubsetsOf(S)
    OBVIOUS
  <2>1. T \in SUBSET S
    OBVIOUS
  <2>2. IsFiniteSet(T)
    BY <2>1, FS_Subset
  <2> QED BY <2>1, <2>2 DEF FiniteSubsetsOf
<1>2. IsWellFoundedOn(StrictSubsetOrdering(S), FiniteSubsetsOf(S))
  BY FS_StrictSubsetOrderingWellFounded
<1>3. PICK T \in F : \A U \in F : <<U, T>> \notin StrictSubsetOrdering(S)
  BY <1>1, <1>2, WFMin, Zenon
<1> SUFFICES ASSUME NEW U \in F, U \subseteq T, U # T PROVE FALSE
  BY Zenon
<1>4. <<U, T>> \in StrictSubsetOrdering(S)
  BY DEF StrictSubsetOrdering
<1> QED BY <1>3, <1>4, Zenon

\* A table of the sums over every subset, as the fold makes it.
Runs(g, f, S) ==
  g = [T \in SUBSET S |-> IF T = {} THEN 0 ELSE f[OneOf(T)] + g[T \ {OneOf(T)}]]

\* The sum is the last entry of the table.
LEMMA SumUnfold ==
  ASSUME NEW f, NEW S
  PROVE  SumIn(f, S) = (CHOOSE g : Runs(g, f, S))[S]
BY DEF SumIn, Runs, MapThenSumSet, MapThenFoldSet, OneOf

\* A set that is not empty has the element that is taken.
LEMMA OneOfIn == ASSUME NEW T, T # {} PROVE OneOf(T) \in T /\ T \ {OneOf(T)} \subseteq T
  BY DEF OneOf

\* The table of a set holds that of its subsets.
LEMMA RunsInside ==
  ASSUME NEW S, NEW f, NEW g, Runs(g, f, S), NEW V \in SUBSET S
  PROVE  Runs([T \in SUBSET V |-> g[T]], f, V)
<1> DEFINE h == [T \in SUBSET V |-> g[T]]
           r == [T \in SUBSET V |-> IF T = {} THEN 0 ELSE f[OneOf(T)] + h[T \ {OneOf(T)}]]
<1>1. \A T \in SUBSET V : h[T] = r[T]
  <2> SUFFICES ASSUME NEW T \in SUBSET V PROVE h[T] = r[T]
    OBVIOUS
  <2>1. T \in SUBSET S
    OBVIOUS
  <2>2. g[T] = IF T = {} THEN 0 ELSE f[OneOf(T)] + g[T \ {OneOf(T)}]
    BY <2>1 DEF Runs
  <2>3. T \ {OneOf(T)} \in SUBSET V
    OBVIOUS
  <2> QED BY <2>2, <2>3
<1>2. h = r
  BY <1>1
<1> QED BY <1>2 DEF Runs

\* There is one table at most.
LEMMA RunsOnce ==
  ASSUME NEW S, IsFiniteSet(S), NEW f, NEW g, NEW h, Runs(g, f, S), Runs(h, f, S)
  PROVE  g = h
<1> DEFINE F == {T \in SUBSET S : g[T] # h[T]}
<1>1. F = {}
  <2> SUFFICES ASSUME F # {} PROVE FALSE
    OBVIOUS
  <2>0. F \subseteq SUBSET S
    OBVIOUS
  <2>1. PICK T \in F : \A U \in F : U \subseteq T => U = T
    <3> HIDE DEF F
    <3> QED BY <2>0, SmallestSet
  <2>2. /\ g[T] = IF T = {} THEN 0 ELSE f[OneOf(T)] + g[T \ {OneOf(T)}]
        /\ h[T] = IF T = {} THEN 0 ELSE f[OneOf(T)] + h[T \ {OneOf(T)}]
    BY DEF Runs
  <2>3. T # {} /\ g[T \ {OneOf(T)}] # h[T \ {OneOf(T)}]
    BY <2>2
  <2>4. T \ {OneOf(T)} \in F /\ T \ {OneOf(T)} # T
    BY <2>3, OneOfIn
  <2> QED BY <2>1, <2>4
<1>2. \A T \in SUBSET S : g[T] = h[T]
  BY <1>1
<1>3. /\ g = [T \in SUBSET S |-> g[T]]
      /\ h = [T \in SUBSET S |-> h[T]]
  BY DEF Runs
<1> QED BY <1>2, <1>3

\* What a table says of a subset is that subset's sum.
LEMMA RunsSay ==
  ASSUME NEW S, IsFiniteSet(S), NEW f, NEW g, Runs(g, f, S), NEW V \in SUBSET S
  PROVE  SumIn(f, V) = g[V]
<1>1. IsFiniteSet(V)
  BY FS_Subset
<1> DEFINE h == [T \in SUBSET V |-> g[T]]
<1>2. Runs(h, f, V)
  BY RunsInside
<1>3. h[V] = g[V]
  OBVIOUS
<1> HIDE DEF h
<1>4. PICK k : k = CHOOSE q : Runs(q, f, V)
  OBVIOUS
<1>5. Runs(k, f, V)
  BY <1>2, <1>4, Zenon
<1>6. k = h
  BY <1>1, <1>2, <1>5, RunsOnce
<1> QED BY <1>3, <1>4, <1>6, SumUnfold

\* There is a table for every finite set.
LEMMA RunsThere ==
  ASSUME NEW S, IsFiniteSet(S), NEW f
  PROVE  \E g : Runs(g, f, S)
<1> DEFINE F == {T \in SUBSET S : ~\E g : Runs(g, f, T)}
<1>1. F = {}
  <2> SUFFICES ASSUME F # {} PROVE FALSE
    OBVIOUS
  <2>0. F \subseteq SUBSET S
    OBVIOUS
  <2>1. PICK T \in F : \A U \in F : U \subseteq T => U = T
    <3> HIDE DEF F
    <3> QED BY <2>0, SmallestSet
  <2>2. T \in SUBSET S /\ IsFiniteSet(T)
    BY FS_Subset
  <2> DEFINE g == [U \in SUBSET T |-> IF U = {} THEN 0 ELSE f[OneOf(U)] + SumIn(f, U \ {OneOf(U)})]
             r == [U \in SUBSET T |-> IF U = {} THEN 0 ELSE f[OneOf(U)] + g[U \ {OneOf(U)}]]
  <2>3. \A V \in SUBSET T : V # T => SumIn(f, V) = g[V]
    <3> SUFFICES ASSUME NEW V \in SUBSET T, V # T PROVE SumIn(f, V) = g[V]
      OBVIOUS
    <3>1. IsFiniteSet(V) /\ V \notin F /\ V \in SUBSET S
      BY <2>1, <2>2, FS_Subset
    <3>2. PICK h : Runs(h, f, V)
      BY <3>1
    <3>3. SumIn(f, V) = h[V]
      BY <3>1, <3>2, RunsSay
    <3>4. h[V] = IF V = {} THEN 0 ELSE f[OneOf(V)] + h[V \ {OneOf(V)}]
      BY <3>2 DEF Runs
    <3>5. V # {} => SumIn(f, V \ {OneOf(V)}) = h[V \ {OneOf(V)}]
      BY <3>1, <3>2, RunsSay
    <3> QED BY <3>3, <3>4, <3>5
  <2>4. \A U \in SUBSET T : g[U] = r[U]
    <3> SUFFICES ASSUME NEW U \in SUBSET T, U # {} PROVE g[U] = r[U]
      OBVIOUS
    <3>1. U \ {OneOf(U)} \in SUBSET T /\ U \ {OneOf(U)} # T
      BY OneOfIn
    <3>2. SumIn(f, U \ {OneOf(U)}) = g[U \ {OneOf(U)}]
      BY <2>3, <3>1
    <3> QED BY <3>2
  <2>5. g = r
    BY <2>4
  <2>6. Runs(g, f, T)
    BY <2>5 DEF Runs
  <2> QED BY <2>6
<1> QED BY <1>1

\* The fold takes one element at a time.
LEMMA SumStep ==
  ASSUME NEW S, IsFiniteSet(S), NEW f
  PROVE  SumIn(f, S) = IF S = {} THEN 0 ELSE f[OneOf(S)] + SumIn(f, S \ {OneOf(S)})
<1>1. PICK g : Runs(g, f, S)
  BY RunsThere
<1>2. SumIn(f, S) = g[S] /\ SumIn(f, S \ {OneOf(S)}) = g[S \ {OneOf(S)}]
  BY <1>1, RunsSay
<1>3. g[S] = IF S = {} THEN 0 ELSE f[OneOf(S)] + g[S \ {OneOf(S)}]
  BY <1>1 DEF Runs
<1> QED BY <1>2, <1>3

\* A sum of integers is one.
LEMMA SumType ==
  ASSUME NEW S, IsFiniteSet(S), NEW f, \A x \in S : f[x] \in Int
  PROVE  SumIn(f, S) \in Int
<1> DEFINE F == {T \in SUBSET S : SumIn(f, T) \notin Int}
<1>1. F = {}
  <2> SUFFICES ASSUME F # {} PROVE FALSE
    OBVIOUS
  <2>0. F \subseteq SUBSET S
    OBVIOUS
  <2>1. PICK T \in F : \A U \in F : U \subseteq T => U = T
    <3> HIDE DEF F
    <3> QED BY <2>0, SmallestSet
  <2>2. SumIn(f, T) = IF T = {} THEN 0 ELSE f[OneOf(T)] + SumIn(f, T \ {OneOf(T)})
    BY FS_Subset, SumStep
  <2>3. T # {} /\ SumIn(f, T \ {OneOf(T)}) \notin Int
    BY <2>2, OneOfIn
  <2> QED BY <2>1, <2>3, OneOfIn
<1> QED BY <1>1

\* It may take any of its elements first.
LEMMA SumTakes ==
  ASSUME NEW S, IsFiniteSet(S), NEW f, \A x \in S : f[x] \in Int
  PROVE  \A x \in S : SumIn(f, S) = f[x] + SumIn(f, S \ {x})
<1> DEFINE F == {T \in SUBSET S : \E x \in T : SumIn(f, T) # f[x] + SumIn(f, T \ {x})}
<1>1. F = {}
  <2> SUFFICES ASSUME F # {} PROVE FALSE
    OBVIOUS
  <2>0. F \subseteq SUBSET S
    OBVIOUS
  <2>1. PICK T \in F : \A U \in F : U \subseteq T => U = T
    <3> HIDE DEF F
    <3> QED BY <2>0, SmallestSet
  <2>2. PICK x \in T : SumIn(f, T) # f[x] + SumIn(f, T \ {x})
    OBVIOUS
  <2> DEFINE y == OneOf(T)
  <2>3. SumIn(f, T) = f[y] + SumIn(f, T \ {y}) /\ y \in T /\ x # y
    BY <2>2, FS_Subset, SumStep, OneOfIn
  <2> HIDE DEF y
  <2>4. T \ {x} \notin F /\ T \ {y} \notin F
    BY <2>1, <2>3
  <2>5. SumIn(f, T \ {y}) = f[x] + SumIn(f, (T \ {y}) \ {x})
    BY <2>3, <2>4
  <2>6. SumIn(f, T \ {x}) = f[y] + SumIn(f, (T \ {x}) \ {y})
    BY <2>3, <2>4
  <2>7. (T \ {x}) \ {y} = (T \ {y}) \ {x} /\ IsFiniteSet((T \ {x}) \ {y})
    BY FS_Subset
  <2>8. SumIn(f, (T \ {y}) \ {x}) \in Int /\ f[x] \in Int /\ f[y] \in Int
    BY <2>3, <2>7, SumType
  <2>9. SumIn(f, (T \ {x}) \ {y}) = SumIn(f, (T \ {y}) \ {x})
    BY <2>7
  <2> QED BY <2>2, <2>3, <2>5, <2>6, <2>8, <2>9
<1>2. S \notin F
  BY <1>1
<1> QED BY <1>2

\* Nothing adds up to nothing.
LEMMA SumNone == ASSUME NEW f PROVE SumIn(f, {}) = 0
  BY FS_EmptySet, SumStep

\* A sum of sums is the sum of both.
LEMMA SumPlus ==
  ASSUME NEW S, IsFiniteSet(S), NEW f, NEW g, NEW h,
         \A x \in S : f[x] \in Int /\ g[x] \in Int /\ h[x] = f[x] + g[x]
  PROVE  SumIn(h, S) = SumIn(f, S) + SumIn(g, S)
<1> DEFINE F == {T \in SUBSET S : SumIn(h, T) # SumIn(f, T) + SumIn(g, T)}
<1>1. F = {}
  <2> SUFFICES ASSUME F # {} PROVE FALSE
    OBVIOUS
  <2>0. F \subseteq SUBSET S
    OBVIOUS
  <2>1. PICK T \in F : \A U \in F : U \subseteq T => U = T
    <3> HIDE DEF F
    <3> QED BY <2>0, SmallestSet
  <2>2. IsFiniteSet(T) /\ T \in SUBSET S
    BY FS_Subset
  <2>3. T # {}
    <3> SUFFICES ASSUME T = {} PROVE FALSE
      OBVIOUS
    <3>1. SumIn(f, T) = 0 /\ SumIn(g, T) = 0 /\ SumIn(h, T) = 0
      BY SumNone
    <3> QED BY <3>1
  <2>4. PICK x \in T : TRUE
    BY <2>3
  <2>5. T \ {x} \notin F /\ IsFiniteSet(T \ {x})
    BY <2>1, <2>2, FS_Subset
  <2>6. /\ SumIn(f, T) = f[x] + SumIn(f, T \ {x})
        /\ SumIn(g, T) = g[x] + SumIn(g, T \ {x})
    BY <2>2, SumTakes
  <2>7. \A y \in T : h[y] \in Int
    BY <2>2
  <2>8. SumIn(h, T) = h[x] + SumIn(h, T \ {x})
    BY <2>2, <2>7, SumTakes
  <2>9. SumIn(f, T \ {x}) \in Int /\ SumIn(g, T \ {x}) \in Int
    BY <2>2, <2>5, SumType
  <2>10. SumIn(h, T \ {x}) = SumIn(f, T \ {x}) + SumIn(g, T \ {x})
    BY <2>2, <2>5
  <2> QED BY <2>2, <2>6, <2>8, <2>9, <2>10
<1> QED BY <1>1

\* What is no greater anywhere adds up to no more.
LEMMA SumAtMost ==
  ASSUME NEW S, IsFiniteSet(S), NEW f, NEW g, \A x \in S : f[x] \in Int /\ g[x] \in Int /\ f[x] <= g[x]
  PROVE  SumIn(f, S) <= SumIn(g, S)
<1> DEFINE F == {T \in SUBSET S : ~(SumIn(f, T) <= SumIn(g, T))}
<1>1. F = {}
  <2> SUFFICES ASSUME F # {} PROVE FALSE
    OBVIOUS
  <2>0. F \subseteq SUBSET S
    OBVIOUS
  <2>1. PICK T \in F : \A U \in F : U \subseteq T => U = T
    <3> HIDE DEF F
    <3> QED BY <2>0, SmallestSet
  <2>2. IsFiniteSet(T) /\ T \in SUBSET S
    BY FS_Subset
  <2>3. T # {}
    BY SumNone
  <2>4. PICK x \in T : TRUE
    BY <2>3
  <2>5. T \ {x} \notin F /\ IsFiniteSet(T \ {x})
    BY <2>1, <2>2, FS_Subset
  <2>6. /\ SumIn(f, T) = f[x] + SumIn(f, T \ {x})
        /\ SumIn(g, T) = g[x] + SumIn(g, T \ {x})
    BY <2>2, SumTakes
  <2>9. SumIn(f, T \ {x}) \in Int /\ SumIn(g, T \ {x}) \in Int
    BY <2>2, <2>5, SumType
  <2>10. SumIn(f, T \ {x}) <= SumIn(g, T \ {x})
    BY <2>2, <2>5
  <2> QED BY <2>2, <2>6, <2>9, <2>10
<1> QED BY <1>1

\* The same amounts add up to the same.
LEMMA SumSame ==
  ASSUME NEW S, IsFiniteSet(S), NEW f, NEW g, \A x \in S : f[x] \in Int /\ f[x] = g[x]
  PROVE  SumIn(f, S) = SumIn(g, S)
<1>1. SumIn(f, S) <= SumIn(g, S) /\ SumIn(g, S) <= SumIn(f, S)
  BY SumAtMost
<1>2. SumIn(f, S) \in Int /\ SumIn(g, S) \in Int
  BY SumType
<1> QED BY <1>1, <1>2

\* What is nothing outside a part adds up to the part.
LEMMA SumPart ==
  ASSUME NEW S, IsFiniteSet(S), NEW P \in SUBSET S, NEW f,
         \A x \in S : f[x] \in Int, \A x \in S \ P : f[x] = 0
  PROVE  SumIn(f, S) = SumIn(f, P)
<1> DEFINE F == {T \in SUBSET S : P \subseteq T /\ SumIn(f, T) # SumIn(f, P)}
<1>1. F = {}
  <2> SUFFICES ASSUME F # {} PROVE FALSE
    OBVIOUS
  <2>0. F \subseteq SUBSET S
    OBVIOUS
  <2>1. PICK T \in F : \A U \in F : U \subseteq T => U = T
    <3> HIDE DEF F
    <3> QED BY <2>0, SmallestSet
  <2>2. IsFiniteSet(T) /\ T \in SUBSET S /\ P \subseteq T /\ T # P
    BY FS_Subset
  <2>4. PICK x \in T : x \notin P
    BY <2>2
  <2>5. T \ {x} \notin F /\ P \subseteq T \ {x} /\ IsFiniteSet(T \ {x})
    BY <2>1, <2>2, <2>4, FS_Subset
  <2>6. SumIn(f, T) = f[x] + SumIn(f, T \ {x}) /\ f[x] = 0 /\ SumIn(f, T \ {x}) \in Int
    BY <2>2, <2>4, <2>5, SumTakes, SumType
  <2> QED BY <2>2, <2>5, <2>6
<1> QED BY <1>1

\* Nothing but nothing adds up to nothing.
LEMMA SumZero ==
  ASSUME NEW S, IsFiniteSet(S), NEW f, \A x \in S : f[x] = 0
  PROVE  SumIn(f, S) = 0
BY SumPart, SumNone

\* One amount changes: the sum does by as much.
LEMMA SumChanges ==
  ASSUME NEW S, IsFiniteSet(S), NEW f, NEW g, NEW x \in S,
         \A y \in S : f[y] \in Int /\ g[y] \in Int,
         \A y \in S \ {x} : f[y] = g[y]
  PROVE  SumIn(g, S) = SumIn(f, S) + g[x] - f[x]
<1>1. IsFiniteSet(S \ {x})
  BY FS_Subset
<1>2. SumIn(f, S \ {x}) = SumIn(g, S \ {x}) /\ SumIn(f, S \ {x}) \in Int
  BY <1>1, SumSame, SumType
<1>3. SumIn(f, S) = f[x] + SumIn(f, S \ {x}) /\ SumIn(g, S) = g[x] + SumIn(g, S \ {x})
  BY SumTakes
<1> QED BY <1>2, <1>3

\* Rows first or columns first.
LEMMA SumSwaps ==
  ASSUME NEW A, IsFiniteSet(A), NEW B, IsFiniteSet(B), NEW m \in [A -> [B -> Int]]
  PROVE  SumIn([a \in A |-> SumIn(m[a], B)], A) = SumIn([b \in B |-> SumIn([a \in A |-> m[a][b]], A)], B)
<1> DEFINE Across == [a \in A |-> SumIn(m[a], B)]
           Col(b) == [a \in A |-> m[a][b]]
           Cols(T) == [b \in B |-> SumIn(Col(b), T)]
           F == {T \in SUBSET A : SumIn(Across, T) # SumIn(Cols(T), B)}
<1>0. /\ \A a \in A : Across[a] = SumIn(m[a], B) /\ Across[a] \in Int
      /\ \A a \in A, b \in B : Col(b)[a] = m[a][b] /\ m[a][b] \in Int
  BY SumType
<1>1. F = {}
  <2> SUFFICES ASSUME F # {} PROVE FALSE
    OBVIOUS
  <2>0. F \subseteq SUBSET A
    OBVIOUS
  <2>1. PICK T \in F : \A U \in F : U \subseteq T => U = T
    <3> HIDE DEF F
    <3> QED BY <2>0, SmallestSet
  <2>2. IsFiniteSet(T) /\ T \in SUBSET A
    BY FS_Subset
  <2>3. T # {}
    <3> SUFFICES ASSUME T = {} PROVE FALSE
      OBVIOUS
    <3>1. \A b \in B : Cols(T)[b] = 0
      BY SumNone
    <3>2. SumIn(Cols(T), B) = 0
      BY <3>1, SumZero
    <3> QED BY <3>2, SumNone
  <2>4. PICK x \in T : TRUE
    BY <2>3
  <2>5. T \ {x} \notin F /\ IsFiniteSet(T \ {x}) /\ T \ {x} \in SUBSET A
    BY <2>1, <2>2, FS_Subset
  <2>6. SumIn(Across, T) = Across[x] + SumIn(Across, T \ {x})
    <3> HIDE DEF Across
    <3> QED BY <1>0, <2>2, SumTakes
  <2>7. \A b \in B : SumIn(Col(b), T) = m[x][b] + SumIn(Col(b), T \ {x}) /\ SumIn(Col(b), T \ {x}) \in Int
    <3> SUFFICES ASSUME NEW b \in B
                 PROVE  SumIn(Col(b), T) = m[x][b] + SumIn(Col(b), T \ {x}) /\ SumIn(Col(b), T \ {x}) \in Int
      OBVIOUS
    <3> PICK c : c = Col(b)
      OBVIOUS
    <3>1. \A a \in A : c[a] = m[a][b] /\ c[a] \in Int
      OBVIOUS
    <3>2. SumIn(c, T) = c[x] + SumIn(c, T \ {x}) /\ SumIn(c, T \ {x}) \in Int
      BY <2>2, <2>5, <3>1, SumTakes, SumType
    <3> QED BY <2>2, <3>1, <3>2
  <2>8. SumIn(Cols(T), B) = SumIn(m[x], B) + SumIn(Cols(T \ {x}), B)
    <3>1. \A b \in B : m[x][b] \in Int /\ Cols(T \ {x})[b] \in Int /\ Cols(T)[b] = m[x][b] + Cols(T \ {x})[b]
      BY <1>0, <2>2, <2>7
    <3> HIDE DEF Cols
    <3> QED BY <3>1, SumPlus
  <2>9. SumIn(Across, T \ {x}) = SumIn(Cols(T \ {x}), B)
    BY <2>5
  <2> QED BY <1>0, <2>2, <2>6, <2>8, <2>9
<1>2. SumIn(Across, A) = SumIn(Cols(A), B)
  BY <1>1
<1> QED BY <1>2

-----------------------------------------------------------------------------
(* Saving goals.                                                           *)

\* Sums of the model, as the lemmas speak of them.
LEMMA SummedIs == ASSUME NEW f PROVE Summed(f) = SumIn(f, DOMAIN f)
  BY DEF Summed, SumIn

\* What an entry brings into a set of pots of a wallet, and what the wallet has there.
Flow(es, w, P) ==
  [e \in SavingIds |->
    IF es[e].st = "live" /\ es[e].wallet = w
    THEN (IF es[e].to \in P THEN es[e].amount ELSE 0) - (IF es[e].from \in P THEN es[e].amount ELSE 0)
    ELSE 0]
HeldIn(es, w, P) == SumIn(Flow(es, w, P), SavingIds)

GoneOf(gs)   == {g \in Goals : gs[g].st = "gone"}
PotOf(gs, b) == IF b \in Goals /\ gs[b].st = "gone" THEN GoneOf(gs) ELSE {b}
SavingRows   == [SavingIds -> SavingRow]

\* What is held is a whole amount, in any set of pots.
LEMMA HeldInType ==
  ASSUME NEW es \in SavingRows, NEW w, NEW P
  PROVE  /\ \A e \in SavingIds : Flow(es, w, P)[e] \in Int
         /\ HeldIn(es, w, P) \in Int
<1>1. \A e \in SavingIds : es[e].amount \in Int
  BY DEF SavingRows, SavingRow
<1>2. \A e \in SavingIds : Flow(es, w, P)[e] \in Int
  BY <1>1 DEF Flow
<1>3. IsFiniteSet(SavingIds)
  BY SavingBounds
<1> HIDE DEF Flow
<1> QED BY <1>2, <1>3, SumType DEF HeldIn

\* What came in less what went out, as the two queries sum it.
LEMMA SidesAre ==
  ASSUME NEW es \in SavingRows, NEW w, NEW P
  PROVE  LET into == {e \in SavingIds : es[e].st = "live" /\ es[e].wallet = w /\ es[e].to \in P}
             out == {e \in SavingIds : es[e].st = "live" /\ es[e].wallet = w /\ es[e].from \in P}
         IN Summed([e \in into |-> es[e].amount]) - Summed([e \in out |-> es[e].amount]) = HeldIn(es, w, P)
<1>0. IsFiniteSet(SavingIds) /\ \A e \in SavingIds : es[e].amount \in Int
  BY SavingBounds DEF SavingRows, SavingRow
<1>1. ASSUME NEW T \in SUBSET SavingIds, NEW f, \A e \in SavingIds : f[e] = IF e \in T THEN es[e].amount ELSE 0
      PROVE  Summed([e \in T |-> es[e].amount]) = SumIn(f, SavingIds)
  <2> DEFINE t == [e \in T |-> es[e].amount]
  <2>1. \A e \in T : t[e] \in Int /\ t[e] = f[e]
    BY <1>0, <1>1
  <2>2. Summed(t) = SumIn(t, T)
    BY SummedIs
  <2> HIDE DEF t
  <2>3. IsFiniteSet(T)
    BY <1>0, FS_Subset
  <2>4. SumIn(t, T) = SumIn(f, T)
    BY <2>1, <2>3, SumSame
  <2>5. SumIn(f, SavingIds) = SumIn(f, T)
    BY <1>0, <1>1, SumPart
  <2> QED BY <2>2, <2>4, <2>5 DEF t
<1> DEFINE into == {e \in SavingIds : es[e].st = "live" /\ es[e].wallet = w /\ es[e].to \in P}
           out == {e \in SavingIds : es[e].st = "live" /\ es[e].wallet = w /\ es[e].from \in P}
           f == [e \in SavingIds |-> IF e \in into THEN es[e].amount ELSE 0]
           g == [e \in SavingIds |-> IF e \in out THEN es[e].amount ELSE 0]
           h == Flow(es, w, P)
<1>2. \A e \in SavingIds : f[e] = (IF e \in into THEN es[e].amount ELSE 0) /\ f[e] \in Int
  BY <1>0
<1>3. \A e \in SavingIds : g[e] = (IF e \in out THEN es[e].amount ELSE 0) /\ g[e] \in Int
  BY <1>0
<1>4. \A e \in SavingIds : h[e] \in Int /\ f[e] = h[e] + g[e]
  BY <1>0 DEF Flow
<1>5. into \subseteq SavingIds /\ out \subseteq SavingIds
  OBVIOUS
<1>6. Summed([e \in into |-> es[e].amount]) = SumIn(f, SavingIds)
  <2> HIDE DEF into, f
  <2> QED BY <1>1, <1>2, <1>5
<1>7. Summed([e \in out |-> es[e].amount]) = SumIn(g, SavingIds)
  <2> HIDE DEF out, g
  <2> QED BY <1>1, <1>3, <1>5
<1>8. /\ SumIn(f, SavingIds) = SumIn(h, SavingIds) + SumIn(g, SavingIds)
      /\ SumIn(h, SavingIds) \in Int /\ SumIn(g, SavingIds) \in Int
  <2> HIDE DEF f, g, h
  <2> QED BY <1>0, <1>2, <1>3, <1>4, SumPlus, SumType
<1> QED BY <1>6, <1>7, <1>8 DEF HeldIn

\* What a wallet holds of a pot, in a state and in the next.
LEMMA HeldIs ==
  ASSUME saving \in SavingRows
  PROVE  \A w, b : Held(w, b) = HeldIn(saving, w, PotOf(goal, b))
<1> SUFFICES ASSUME NEW w, NEW b PROVE Held(w, b) = HeldIn(saving, w, PotOf(goal, b))
  OBVIOUS
<1>1. Pot(b) = PotOf(goal, b)
  BY DEF Pot, PotOf, GoneOf
<1>2. PICK P : P = Pot(b)
  OBVIOUS
<1>3. Moved(w, b, "to") - Moved(w, b, "from") = HeldIn(saving, w, P)
  BY <1>2, SidesAre DEF Moved
<1> QED BY <1>1, <1>2, <1>3 DEF Held

\* The same in the next state.
LEMMA HeldNext ==
  ASSUME saving' \in SavingRows
  PROVE  \A w, b : (Held(w, b))' = HeldIn(saving', w, PotOf(goal', b))
<1> SUFFICES ASSUME NEW w, NEW b PROVE (Held(w, b))' = HeldIn(saving', w, PotOf(goal', b))
  OBVIOUS
<1>1. (Pot(b))' = PotOf(goal', b)
  BY DEF Pot, PotOf, GoneOf
<1>2. PICK P : P = (Pot(b))'
  OBVIOUS
<1>3. (Moved(w, b, "to"))' - (Moved(w, b, "from"))' = HeldIn(saving', w, P)
  BY <1>2, SidesAre DEF Moved
<1> QED BY <1>1, <1>2, <1>3 DEF Held

\* Pots that have nothing in common hold together what each holds.
LEMMA HeldApart ==
  ASSUME NEW es \in SavingRows, NEW w, NEW P, NEW Q, P \cap Q = {}
  PROVE  HeldIn(es, w, P \cup Q) = HeldIn(es, w, P) + HeldIn(es, w, Q)
<1>1. \A e \in SavingIds : es[e].amount \in Int
  BY DEF SavingRows, SavingRow
<1>2. \A e \in SavingIds : Flow(es, w, P \cup Q)[e] = Flow(es, w, P)[e] + Flow(es, w, Q)[e]
  BY <1>1 DEF Flow
<1>3. \A e \in SavingIds : Flow(es, w, P)[e] \in Int /\ Flow(es, w, Q)[e] \in Int
  BY HeldInType
<1> QED BY <1>2, <1>3, SumPlus, SavingBounds DEF HeldIn

\* In no pot there is nothing.
LEMMA HeldNowhere ==
  ASSUME NEW es \in SavingRows, NEW w
  PROVE  HeldIn(es, w, {}) = 0
<1>1. \A e \in SavingIds : Flow(es, w, {})[e] = 0
  BY DEF Flow
<1> QED BY <1>1, SumZero, SavingBounds DEF HeldIn

\* One entry changes that brings and takes nothing here, before and after: nothing changes here.
LEMMA HeldElsewhere ==
  ASSUME NEW es \in SavingRows, NEW after \in SavingRows, NEW e \in SavingIds,
         \A x \in SavingIds \ {e} : after[x] = es[x], NEW w, NEW P,
         Flow(es, w, P)[e] = Flow(after, w, P)[e]
  PROVE  HeldIn(after, w, P) = HeldIn(es, w, P)
<1>1. \A x \in SavingIds : Flow(es, w, P)[x] = Flow(after, w, P)[x]
  BY DEF Flow
<1>2. \A x \in SavingIds : Flow(es, w, P)[x] \in Int
  BY HeldInType
<1> QED BY <1>1, <1>2, SumSame, SavingBounds DEF HeldIn

\* A finite set has subsets of every size.
LEMMA SubsetOfSize ==
  ASSUME NEW S, IsFiniteSet(S), NEW n \in Nat, n <= Cardinality(S)
  PROVE  \E T \in SUBSET S : Cardinality(T) = n
<1> DEFINE F == {T \in SUBSET S : Cardinality(T) >= n}
<1>1. F \subseteq SUBSET S /\ S \in F
  BY FS_CardinalityType
<1>2. PICK T \in F : \A U \in F : U \subseteq T => U = T
  <2> HIDE DEF F
  <2> QED BY <1>1, SmallestSet
<1>3. T \in SUBSET S /\ IsFiniteSet(T) /\ Cardinality(T) >= n /\ Cardinality(T) \in Nat
  BY FS_Subset, FS_CardinalityType
<1>4. Cardinality(T) = n
  <2> SUFFICES ASSUME Cardinality(T) > n PROVE FALSE
    BY <1>3
  <2>1. T # {}
    BY FS_EmptySet, <1>3
  <2>2. PICK x \in T : TRUE
    BY <2>1
  <2>3. Cardinality(T \ {x}) = Cardinality(T) - 1
    BY <1>3, FS_RemoveElement
  <2>4. T \ {x} \in F
    BY <1>3, <2>3
  <2> QED BY <1>2, <2>4
<1> QED BY <1>3, <1>4

\* New entries are as many as were asked for, and were not used.
LEMMA NewSavingsAre ==
  ASSUME NEW n \in Nat, NEW ids \in NewSavings(n)
  PROVE  ids \subseteq {e \in SavingIds : saving[e].st = "new"} /\ Cardinality(ids) = n
<1> DEFINE new == {e \in SavingIds : saving[e].st = "new"}
<1>1. IsFiniteSet(new) /\ Cardinality(new) \in Nat
  BY SavingBounds, FS_Subset, FS_CardinalityType
<1>2. Cardinality(new) >= n /\ ids = CHOOSE s \in SUBSET new : Cardinality(s) = n
  BY <1>1 DEF NewSavings
<1>3. \E s \in SUBSET new : Cardinality(s) = n
  BY <1>1, <1>2, SubsetOfSize
<1> QED BY <1>2, <1>3

\* As many entries as there are givers: each giver has one.
OwnersOf(ids, givers) == CHOOSE o \in [ids -> givers] : \A w \in givers : \E e \in ids : o[e] = w
LEMMA OwnersThere ==
  ASSUME NEW ids, NEW givers, IsFiniteSet(ids), IsFiniteSet(givers), Cardinality(ids) = Cardinality(givers),
         NEW owner, owner = OwnersOf(ids, givers)
  PROVE  /\ owner \in [ids -> givers]
         /\ \A w \in givers : \E e \in ids : owner[e] = w
         /\ \A d, e \in ids : owner[d] = owner[e] => d = e
<1>1. PICK o \in Bijection(ids, givers) : TRUE
  BY FS_SameCardinalityBij DEF ExistsBijection
<1>2. o \in [ids -> givers] /\ \A w \in givers : \E e \in ids : o[e] = w
  BY <1>1 DEF Bijection, Injection, Surjection
<1>3. owner \in [ids -> givers] /\ \A w \in givers : \E e \in ids : owner[e] = w
  BY <1>2, Zenon DEF OwnersOf
<1>4. owner \in Surjection(ids, givers)
  BY <1>3 DEF Surjection
<1>5. owner \in Injection(ids, givers)
  BY <1>4, FS_SurjSameCardinalityImpliesInj
<1> QED BY <1>3, <1>5 DEF Injection, IsInjective

\* The entries that a split writes, one for each who gives.
BookedIn(ids, givers, split, from, to) ==
  \E owner \in {OwnersOf(ids, givers)} :
    saving' = [e \in SavingIds |-> IF e \notin ids THEN saving[e] ELSE
      [st |-> "live", wallet |-> owner[e], from |-> from, to |-> to, amount |-> split[owner[e]]]]

\* Booking a split takes from each wallet's one pot and brings to its other what the split says,
\* whatever pots are looked at.
LEMMA BookedMoves ==
  ASSUME saving \in SavingRows, NEW split \in [Pockets -> Nat],
         NEW from \in Pots \cup {Available}, NEW to \in Pots \cup {Available}, Booked(split, from, to)
  PROVE  /\ saving' \in SavingRows
         /\ \A w \in Pockets : \A P :
              HeldIn(saving', w, P) = HeldIn(saving, w, P) + (IF to \in P THEN split[w] ELSE 0)
                                                           - (IF from \in P THEN split[w] ELSE 0)
<1> DEFINE givers == {w \in Pockets : split[w] > 0}
<1>0. IsFiniteSet(Pockets)
  BY SavingBounds, FS_AddElement DEF Pockets
<1>1. IsFiniteSet(givers) /\ Cardinality(givers) \in Nat
  BY <1>0, FS_Subset, FS_CardinalityType
<1>2. PICK ids \in NewSavings(Cardinality(givers)) : BookedIn(ids, givers, split, from, to)
  <2>1. \E gs \in {givers} : \E ids \in NewSavings(Cardinality(gs)) : BookedIn(ids, gs, split, from, to)
    BY Zenon DEF Booked, BookedIn, OwnersOf
  <2> HIDE DEF givers
  <2> QED BY <2>1
<1>3. PICK owner :
        /\ owner = OwnersOf(ids, givers)
        /\ saving' = [e \in SavingIds |-> IF e \notin ids THEN saving[e] ELSE
             [st |-> "live", wallet |-> owner[e], from |-> from, to |-> to, amount |-> split[owner[e]]]]
  BY <1>2 DEF BookedIn
<1>4. ids \subseteq {e \in SavingIds : saving[e].st = "new"} /\ Cardinality(ids) = Cardinality(givers)
  <2> HIDE DEF givers
  <2> QED BY <1>1, <1>2, NewSavingsAre
<1>5. IsFiniteSet(ids)
  BY <1>4, SavingBounds, FS_Subset
<1>6. /\ owner \in [ids -> givers]
      /\ \A w \in givers : \E e \in ids : owner[e] = w
      /\ \A d, e \in ids : owner[d] = owner[e] => d = e
  <2> HIDE DEF givers
  <2> QED BY <1>1, <1>3, <1>4, <1>5, OwnersThere
<1>7. saving' \in SavingRows
  <2>1. \A e \in ids : owner[e] \in Pockets /\ split[owner[e]] \in Nat
    BY <1>6
  <2>2. \A e \in ids : [st |-> "live", wallet |-> owner[e], from |-> from, to |-> to, amount |-> split[owner[e]]] \in SavingRow
    BY <2>1 DEF SavingRow
  <2> HIDE DEF givers
  <2> QED BY <1>3, <2>2 DEF SavingRows
<1>8. ASSUME NEW w \in Pockets, NEW P
      PROVE  HeldIn(saving', w, P) = HeldIn(saving, w, P) + (IF to \in P THEN split[w] ELSE 0)
                                                          - (IF from \in P THEN split[w] ELSE 0)
  <2> DEFINE f == Flow(saving, w, P)
             g == Flow(saving', w, P)
             n == (IF to \in P THEN split[w] ELSE 0) - (IF from \in P THEN split[w] ELSE 0)
  <2>0. /\ \A x \in SavingIds : f[x] \in Int /\ g[x] \in Int
        /\ HeldIn(saving, w, P) = SumIn(f, SavingIds) /\ HeldIn(saving', w, P) = SumIn(g, SavingIds)
        /\ SumIn(f, SavingIds) \in Int /\ n \in Int
    BY <1>7, HeldInType DEF HeldIn
  <2>1. \A e \in SavingIds \ ids : saving'[e] = saving[e]
    BY <1>3
  <2>2. \A e \in ids : /\ e \in SavingIds /\ saving[e].st = "new" /\ saving'[e].st = "live"
                       /\ saving'[e].wallet = owner[e] /\ saving'[e].from = from /\ saving'[e].to = to
                       /\ saving'[e].amount = split[owner[e]]
    BY <1>3, <1>4
  <2>3. \A e \in SavingIds \ ids : g[e] = f[e]
    BY <2>1 DEF Flow
  <2>4. \A e \in ids : f[e] = 0
    BY <2>2 DEF Flow
  <2>5. \A e \in ids : g[e] = IF owner[e] = w THEN n ELSE 0
    BY <2>2 DEF Flow
  <2>6. CASE w \in givers
    <3>1. PICK e \in ids : owner[e] = w
      BY <1>6, <2>6
    <3>2. e \in SavingIds /\ g[e] = n /\ f[e] = 0
      BY <2>2, <2>4, <2>5, <3>1
    <3>3. \A x \in SavingIds \ {e} : f[x] = g[x]
      <4> SUFFICES ASSUME NEW x \in SavingIds \ {e} PROVE f[x] = g[x]
        OBVIOUS
      <4>1. CASE x \in ids
        <5>1. owner[x] # w
          BY <1>6, <3>1, <4>1
        <5> HIDE DEF f, g, n
        <5> QED BY <2>4, <2>5, <4>1, <5>1
      <4>2. CASE x \notin ids
        <5> HIDE DEF f, g
        <5> QED BY <2>3, <4>2
      <4> QED BY <4>1, <4>2
    <3>4. SumIn(g, SavingIds) = SumIn(f, SavingIds) + g[e] - f[e]
      <4> HIDE DEF f, g
      <4> QED BY <2>0, <3>2, <3>3, SumChanges, SavingBounds
    <3> HIDE DEF f, g
    <3> QED BY <2>0, <3>2, <3>4
  <2>7. CASE w \notin givers
    <3>1. split[w] = 0
      BY <2>7
    <3>2. n = 0
      BY <3>1
    <3>3. \A x \in SavingIds : f[x] = g[x]
      <4> HIDE DEF f, g, n
      <4> QED BY <2>3, <2>4, <2>5, <3>2
    <3>4. SumIn(g, SavingIds) = SumIn(f, SavingIds)
      <4> HIDE DEF f, g
      <4> QED BY <2>0, <3>3, SumSame, SavingBounds
    <3> HIDE DEF f, g
    <3> QED BY <2>0, <3>1, <3>4
  <2> QED BY <2>6, <2>7
<1> QED BY <1>7, <1>8

\* Each column of the tables, and what the request between its look and its write holds.  One that
\* moves money has the lock: what its split takes is still there, and its pots are as it found them.
LooksFit ==
  /\ looked.op = "update" =>
       looked.g \in Goals /\ looked.row \in GoalRow /\ looked.row.st \notin {"none", "gone"}
  /\ looked.op = "move" =>
       /\ looked.locked /\ looked.from \in Pots /\ looked.to \in Pots \cup {Available}
       /\ looked.from # looked.to /\ looked.split \in [Pockets -> Nat]
       /\ \A w \in Pockets : looked.split[w] <= HeldIn(saving, w, {looked.from})
       /\ looked.from \in Goals => goal[looked.from].st \notin {"none", "gone"}
       /\ looked.to \in Goals => goal[looked.to].st = "active"
  /\ looked.op = "fill" => looked.g \in Goals /\ looked.amount \in Nat
  /\ looked.op = "plan" => looked.g \in Goals

\* No pot owes, those of deleted goals together.
NoneOwes(gs, es) == \A w \in Pockets, b \in Pots : HeldIn(es, w, PotOf(gs, b)) >= 0

\* A goal that was closed or deleted has nothing, as long as it is not loose.
EndedAreEmpty(gs, es, ls) ==
  /\ \A g \in Goals \ ls : gs[g].st = "completed" => \A w \in Pockets : HeldIn(es, w, {g}) = 0
  /\ GoneOf(gs) \cap ls = {} => \A w \in Pockets : HeldIn(es, w, GoneOf(gs)) = 0

EndedArePaused(gs, ps, ls) ==
  \A g \in Goals \ ls : gs[g].st \in {"completed", "archived"} => ps[g] # "active"

SavingsInv ==
  /\ SavingsTypeOK /\ LooksFit
  /\ NoneOwes(goal, saving) /\ EndedAreEmpty(goal, saving, loose) /\ EndedArePaused(goal, plans, loose \cup hasty)

\* A goal's row, as the writes change it.
LEMMA GoalRows ==
  ASSUME NEW r \in GoalRow
  PROVE  /\ \A st \in {"active", "completed", "archived"} : [r EXCEPT !.st = st] \in GoalRow /\ [r EXCEPT !.st = st].st = st
         /\ \A t \in Nat : [r EXCEPT !.target = t] \in GoalRow /\ [r EXCEPT !.target = t].st = r.st
         /\ \A st \in {"active", "gone"} : \A t \in Nat : [st |-> st, target |-> t] \in GoalRow
         /\ r.st \in {"none", "active", "completed", "archived", "gone"} /\ r.target \in Nat
  BY DEF GoalRow

\* The pots stay as they are while the same goals are gone.
LEMMA PotsStay ==
  ASSUME NEW gs, NEW after, \A g \in Goals : after[g].st = "gone" <=> gs[g].st = "gone"
  PROVE  GoneOf(after) = GoneOf(gs) /\ \A b : PotOf(after, b) = PotOf(gs, b)
  BY DEF PotOf, GoneOf

\* A goal that holds nothing is deleted: nothing changes for those that are left, and those that are
\* gone hold no more and no less.
LEMMA GoneHolds ==
  ASSUME NEW gs, NEW es \in SavingRows, NEW g \in Goals, gs[g].st # "gone", NEW after,
         \A x \in Goals : after[x].st = "gone" <=> x = g \/ gs[x].st = "gone",
         \A w \in Pockets : HeldIn(es, w, {g}) = 0, NoneOwes(gs, es)
  PROVE  NoneOwes(after, es) /\ \A w \in Pockets : HeldIn(es, w, GoneOf(after)) = HeldIn(es, w, GoneOf(gs))
<1>1. GoneOf(after) = GoneOf(gs) \cup {g} /\ GoneOf(gs) \cap {g} = {}
  BY DEF GoneOf
<1>2. \A w \in Pockets : HeldIn(es, w, GoneOf(after)) = HeldIn(es, w, GoneOf(gs))
  <2> SUFFICES ASSUME NEW w \in Pockets PROVE HeldIn(es, w, GoneOf(after)) = HeldIn(es, w, GoneOf(gs))
    OBVIOUS
  <2>1. HeldIn(es, w, GoneOf(after)) = HeldIn(es, w, GoneOf(gs)) + HeldIn(es, w, {g})
    BY <1>1, HeldApart
  <2> QED BY <2>1, HeldInType
<1>3. \A w \in Pockets : HeldIn(es, w, GoneOf(gs)) >= 0
  <2>1. CASE GoneOf(gs) = {}
    BY <2>1, HeldNowhere
  <2>2. CASE GoneOf(gs) # {}
    <3>1. PICK b \in Pots : PotOf(gs, b) = GoneOf(gs)
      BY <2>2 DEF GoneOf, PotOf, Pots
    <3> QED BY <3>1 DEF NoneOwes
  <2> QED BY <2>1, <2>2
<1>4. \A b \in Pots : \/ PotOf(after, b) = GoneOf(after)
                      \/ PotOf(after, b) = PotOf(gs, b)
  BY DEF PotOf
<1> QED BY <1>2, <1>3, <1>4 DEF NoneOwes

\* Money that is booked out of a pot that has it, into one that is no ended goal: still no pot owes,
\* and what ended stays empty.
LEMMA BookedKeeps ==
  ASSUME SavingsTypeOK, NoneOwes(goal, saving), NEW split \in [Pockets -> Nat],
         NEW from \in Pots \cup {Available}, NEW to \in Pots \cup {Available}, Booked(split, from, to),
         from \in Goals => goal[from].st # "gone",
         from # Available => \A w \in Pockets : split[w] <= HeldIn(saving, w, {from}),
         to \in Goals => goal[to].st = "active"
  PROVE  /\ saving' \in SavingRows
         /\ NoneOwes(goal, saving')
         /\ EndedAreEmpty(goal, saving, loose) => EndedAreEmpty(goal, saving', loose)
         /\ from \in Goals => \A w \in Pockets : HeldIn(saving', w, {from}) = HeldIn(saving, w, {from})
                                - split[w] + (IF to = from THEN split[w] ELSE 0)
<1>0. saving \in SavingRows
  BY DEF SavingsTypeOK, SavingRows
<1>1. /\ saving' \in SavingRows
      /\ \A w \in Pockets : \A P :
              HeldIn(saving', w, P) = HeldIn(saving, w, P) + (IF to \in P THEN split[w] ELSE 0)
                                                           - (IF from \in P THEN split[w] ELSE 0)
  BY <1>0, BookedMoves
<1>2. \A w \in Pockets : split[w] \in Nat /\ \A P : HeldIn(saving, w, P) \in Int
  BY <1>0, HeldInType
<1>3. \A b \in Pots : from \in PotOf(goal, b) => b = from /\ PotOf(goal, b) = {from} /\ from # Available
  BY SavingBuckets DEF PotOf, GoneOf, Pots, Available, Spare
<1>4. NoneOwes(goal, saving')
  <2> SUFFICES ASSUME NEW w \in Pockets, NEW b \in Pots PROVE HeldIn(saving', w, PotOf(goal, b)) >= 0
    BY DEF NoneOwes
  <2>1. HeldIn(saving, w, PotOf(goal, b)) >= 0
    BY DEF NoneOwes
  <2>2. CASE from \in PotOf(goal, b)
    <3>1. PotOf(goal, b) = {from} /\ split[w] <= HeldIn(saving, w, {from})
      BY <1>3, <2>2
    <3> QED BY <1>1, <1>2, <3>1
  <2>3. CASE from \notin PotOf(goal, b)
    BY <1>1, <1>2, <2>1, <2>3
  <2> QED BY <2>2, <2>3
<1>5. ASSUME NEW P, to \notin P, from \in P => P = {from} /\ from # Available,
             \A w \in Pockets : HeldIn(saving, w, P) = 0
      PROVE  \A w \in Pockets : HeldIn(saving', w, P) = 0
  <2> SUFFICES ASSUME NEW w \in Pockets PROVE HeldIn(saving', w, P) = 0
    OBVIOUS
  <2>1. from \in P => split[w] = 0
    BY <1>2, <1>5
  <2> QED BY <1>1, <1>2, <1>5, <2>1
<1>6. ASSUME EndedAreEmpty(goal, saving, loose) PROVE EndedAreEmpty(goal, saving', loose)
  <2>1. ASSUME NEW g \in Goals \ loose, goal[g].st = "completed"
        PROVE  \A w \in Pockets : HeldIn(saving', w, {g}) = 0
    <3>1. to \notin {g} /\ (from \in {g} => {g} = {from} /\ from # Available)
      BY <2>1, SavingBuckets
    <3>2. \A w \in Pockets : HeldIn(saving, w, {g}) = 0
      BY <1>6, <2>1 DEF EndedAreEmpty
    <3> QED BY <1>5, <3>1, <3>2
  <2>2. ASSUME GoneOf(goal) \cap loose = {} PROVE \A w \in Pockets : HeldIn(saving', w, GoneOf(goal)) = 0
    <3>1. to \notin GoneOf(goal) /\ from \notin GoneOf(goal)
      BY DEF GoneOf
    <3>2. \A w \in Pockets : HeldIn(saving, w, GoneOf(goal)) = 0
      BY <1>6, <2>2 DEF EndedAreEmpty
    <3> QED BY <1>5, <3>1, <3>2
  <2> QED BY <2>1, <2>2 DEF EndedAreEmpty
<1>7. ASSUME from \in Goals
      PROVE  \A w \in Pockets : HeldIn(saving', w, {from}) = HeldIn(saving, w, {from})
                                  - split[w] + (IF to = from THEN split[w] ELSE 0)
  BY <1>1, <1>2
<1> QED BY <1>1, <1>4, <1>6, <1>7

\* One entry is edited or deleted: only the wallet it is of, and the pots it names, may change.
LEMMA EditedRow ==
  ASSUME saving \in SavingRows, NEW e \in SavingIds, NEW r \in SavingRow,
         saving[e].st = "live", saving' = [saving EXCEPT ![e] = r],
         r.st = "live" => r.wallet = saving[e].wallet /\ r.from = saving[e].from /\ r.to = saving[e].to
  PROVE  /\ saving' \in SavingRows
         /\ \A w, P : w # saving[e].wallet \/ (saving[e].from \notin P /\ saving[e].to \notin P)
              => HeldIn(saving', w, P) = HeldIn(saving, w, P)
<1>1. saving' \in SavingRows
  BY DEF SavingRows
<1>2. saving'[e] = r /\ \A x \in SavingIds \ {e} : saving'[x] = saving[x]
  BY DEF SavingRows
<1>3. ASSUME NEW w, NEW P, w # saving[e].wallet \/ (saving[e].from \notin P /\ saving[e].to \notin P)
      PROVE  HeldIn(saving', w, P) = HeldIn(saving, w, P)
  <2>1. Flow(saving, w, P)[e] = 0 /\ Flow(saving', w, P)[e] = 0
    BY <1>2, <1>3 DEF Flow
  <2>2. PICK after : after = saving'
    OBVIOUS
  <2>3. Flow(saving, w, P)[e] = Flow(after, w, P)[e]
    BY <2>1, <2>2
  <2>4. after \in SavingRows /\ \A x \in SavingIds \ {e} : after[x] = saving[x]
    BY <1>1, <1>2, <2>2
  <2>5. HeldIn(after, w, P) = HeldIn(saving, w, P)
    BY <2>3, <2>4, HeldElsewhere
  <2> QED BY <2>2, <2>5
<1> QED BY <1>1, <1>3

\* What is saved in a pot is whole, and nothing if no wallet holds any of it and none owes.
LEMMA SavedIs ==
  ASSUME saving \in SavingRows, NEW b
  PROVE  /\ Saved(b) = SumIn([w \in Pockets |-> Held(w, b)], Pockets)
         /\ \A w : Held(w, b) \in Int
         /\ Saved(b) \in Int
         /\ (\A w \in Pockets : Held(w, b) = 0) => Saved(b) = 0
         /\ Saved(b) <= 0 /\ (\A w \in Pockets : Held(w, b) >= 0) => \A w \in Pockets : Held(w, b) = 0
<1> DEFINE f == [w \in Pockets |-> Held(w, b)]
<1>1. Saved(b) = SumIn(f, Pockets)
  BY SummedIs DEF Saved
<1>2. \A w : Held(w, b) \in Int
  BY HeldIs, HeldInType
<1>3. IsFiniteSet(Pockets)
  BY SavingBounds, FS_AddElement DEF Pockets
<1>4. \A w \in Pockets : f[w] = Held(w, b) /\ f[w] \in Int
  BY <1>2
<1> HIDE DEF f
<1>5. SumIn(f, Pockets) \in Int
  BY <1>3, <1>4, SumType
<1>6. ASSUME \A w \in Pockets : Held(w, b) = 0 PROVE SumIn(f, Pockets) = 0
  BY <1>3, <1>4, <1>6, SumZero
<1>7. ASSUME SumIn(f, Pockets) <= 0, \A w \in Pockets : Held(w, b) >= 0, NEW w \in Pockets PROVE Held(w, b) = 0
  <2>1. IsFiniteSet(Pockets \ {w})
    BY <1>3, FS_Subset
  <2>2. SumIn(f, Pockets) = f[w] + SumIn(f, Pockets \ {w}) /\ SumIn(f, Pockets \ {w}) \in Int
    BY <1>3, <1>4, <2>1, SumTakes, SumType
  <2> DEFINE z == [v \in Pockets |-> 0]
  <2>3. \A v \in Pockets \ {w} : z[v] \in Int /\ f[v] \in Int /\ z[v] <= f[v] /\ z[v] = 0
    BY <1>4, <1>7
  <2> HIDE DEF z
  <2>4. SumIn(z, Pockets \ {w}) = 0 /\ SumIn(z, Pockets \ {w}) <= SumIn(f, Pockets \ {w})
    BY <2>1, <2>3, SumZero, SumAtMost
  <2> QED BY <1>4, <1>7, <2>2, <2>4
<1> QED BY <1>1, <1>2, <1>5, <1>6, <1>7 DEF f

\* No pot owes, as the model counts it.
LEMMA OwesIs ==
  ASSUME saving \in SavingRows, NoneOwes(goal, saving)
  PROVE  \A w \in Pockets, b \in Pots : Held(w, b) >= 0
  BY HeldIs DEF NoneOwes

\* A split takes whole amounts, and no more of a wallet than it holds in the pot.
LEMMA SplitFits ==
  ASSUME saving \in SavingRows, NoneOwes(goal, saving), NEW b \in Pots, NEW amount \in Nat,
         NEW split \in SplitsFor(b, amount)
  PROVE  split \in [Pockets -> Nat] /\ \A w \in Pockets : split[w] <= Held(w, b)
<1>1. \A w \in Pockets : Held(w, b) \in Int /\ Held(w, b) >= 0
  BY SavedIs, OwesIs
<1>2. CASE split \in AskedSplits(b, amount)
  BY <1>2 DEF AskedSplits
<1>3. CASE split = FullestFirst(b, amount)
  <2>1. DOMAIN split = Pockets /\ split = [w \in Pockets |-> split[w]]
    BY <1>3 DEF FullestFirst
  <2>2. ASSUME NEW w \in Pockets PROVE split[w] \in Nat /\ split[w] <= Held(w, b)
    <3> DEFINE fuller == {p \in Pockets : Before(b, p, w)}
               f == [v \in fuller |-> IF Held(v, b) > 0 THEN Held(v, b) ELSE 0]
    <3>1. IsFiniteSet(fuller)
      BY SavingBounds, FS_AddElement, FS_Subset DEF Pockets
    <3>2. \A v \in fuller : f[v] \in Int
      BY <1>1
    <3>3. Summed(f) = SumIn(f, fuller)
      BY SummedIs
    <3>4. SumIn(f, fuller) \in Int
      <4> HIDE DEF f, fuller
      <4> QED BY <3>1, <3>2, SumType
    <3>5. PICK n : n = Summed(f)
      OBVIOUS
    <3>6. split[w] = LET m == IF Held(w, b) > 0 THEN Held(w, b) ELSE 0
                         l == IF amount - n > 0 THEN amount - n ELSE 0
                     IN IF m < l THEN m ELSE l
      BY <1>3, <3>5 DEF FullestFirst
    <3>7. n \in Int
      BY <3>3, <3>4, <3>5
    <3> QED BY <1>1, <3>6, <3>7
  <2> QED BY <2>1, <2>2
<1> QED BY <1>2, <1>3 DEF SplitsFor

\* A request that waits keeps what it has seen: one that moves money has the lock, and without it
\* nothing is done to its pots.
LEMMA LooksStay ==
  ASSUME LooksFit, looked' = looked,
         \/ Unlocked
         \/ saving' = saving /\ \A g \in Goals : goal[g].st # "none" => goal'[g].st = goal[g].st
  PROVE  LooksFit'
<1>1. CASE Unlocked
  BY <1>1 DEF LooksFit, Unlocked
<1>2. CASE saving' = saving /\ \A g \in Goals : goal[g].st # "none" => goal'[g].st = goal[g].st
  BY <1>2 DEF LooksFit
<1> QED BY <1>1, <1>2

\* Nobody waits after a write, or when the request is given up.
LEMMA NoLookFits == ASSUME looked' = NoLook PROVE LooksFit' /\ looked'.op = "none"
  BY DEF LooksFit, NoLook

\* Goals and their settings change: nobody owes for it, if the same goals are gone, and what has
\* ended is empty and paused, if what has ended now had ended before, is loose, or is hasty.
LEMMA GoalsChange ==
  ASSUME SavingsInv, saving' = saving, goal' \in [Goals -> GoalRow],
         plans' \in [Goals -> {"none", "active", "paused"}], looked'.op \in {"none", "update", "move", "fill", "plan"},
         LooksFit', loose \subseteq loose',
         \A g \in Goals : goal'[g].st = "gone" <=> goal[g].st = "gone",
         \A g \in Goals \ loose' : goal'[g].st = "completed" => goal[g].st = "completed",
         EndedArePaused(goal', plans', loose' \cup hasty')
  PROVE  SavingsInv'
<1>1. SavingsTypeOK'
  BY DEF SavingsInv, SavingsTypeOK
<1>2. GoneOf(goal') = GoneOf(goal) /\ \A b : PotOf(goal', b) = PotOf(goal, b)
  BY PotsStay
<1>3. NoneOwes(goal', saving')
  BY <1>2 DEF SavingsInv, NoneOwes
<1>4. EndedAreEmpty(goal', saving', loose')
  BY <1>2 DEF SavingsInv, EndedAreEmpty
<1> QED BY <1>1, <1>3, <1>4 DEF SavingsInv

\* A new goal.
LEMMA CreateGoalKeeps ==
  ASSUME SavingsInv, NEW g \in Goals, NEW t \in Targets, CreateGoal(g, t)
  PROVE  SavingsInv'
<1> USE DEF SavingsInv
<1> DEFINE r == [st |-> "active", target |-> t]
<1>1. goal[g].st = "none" /\ goal' = [goal EXCEPT ![g] = r] /\ r \in GoalRow /\ r.st = "active"
  BY SavingAmounts DEF CreateGoal, NoGoal, GoalRow
<1>2. UNCHANGED <<saving, plans, looked, loose, hasty>> /\ goal \in [Goals -> GoalRow]
  BY DEF CreateGoal, SavingsTypeOK
<1> HIDE DEF r
<1>3. goal' \in [Goals -> GoalRow] /\ goal'[g].st = "active" /\ \A x \in Goals \ {g} : goal'[x] = goal[x]
  BY <1>1, <1>2
<1>4. LooksFit'
  BY <1>1, <1>2, <1>3, LooksStay
<1>5. EndedArePaused(goal', plans', loose' \cup hasty')
  BY <1>2, <1>3 DEF EndedArePaused
<1>6. plans' \in [Goals -> {"none", "active", "paused"}] /\ looked'.op \in {"none", "update", "move", "fill", "plan"}
  BY <1>2 DEF SavingsTypeOK
<1> QED BY <1>1, <1>2, <1>3, <1>4, <1>5, <1>6, GoalsChange

\* An update writes the row that it read; the goal is loose if its status is another by now.
LEMMA UpdateGoalKeeps ==
  ASSUME SavingsInv, NEW t \in Targets, UpdateGoal(t)
  PROVE  SavingsInv'
<1> USE DEF SavingsInv
<1> DEFINE g == looked.g
           r == [looked.row EXCEPT !.target = t]
<1>1. /\ looked.op = "update" /\ looked' = NoLook /\ saving' = saving /\ plans' = plans /\ hasty' = hasty
      /\ goal' = IF Live(g) THEN [goal EXCEPT ![g] = r] ELSE goal
      /\ loose' = IF Live(g) /\ looked.row.st # goal[g].st THEN loose \cup {g} ELSE loose
  BY DEF UpdateGoal
<1>2. /\ g \in Goals /\ r \in GoalRow /\ r.st = looked.row.st /\ r.st \notin {"none", "gone"}
      /\ goal \in [Goals -> GoalRow]
  <2>1. looked.g \in Goals /\ looked.row \in GoalRow /\ looked.row.st \notin {"none", "gone"} /\ t \in Nat
    BY <1>1, SavingAmounts DEF LooksFit
  <2>2. r \in GoalRow /\ r.st = looked.row.st
    BY <2>1, GoalRows
  <2> QED BY <2>1, <2>2 DEF SavingsTypeOK
<1> HIDE DEF g, r
<1>3. LooksFit' /\ looked'.op \in {"none", "update", "move", "fill", "plan"}
  BY <1>1, NoLookFits
<1>4. plans' \in [Goals -> {"none", "active", "paused"}]
  BY <1>1 DEF SavingsTypeOK
<1>5. CASE Live(g)
  <2>1. goal' \in [Goals -> GoalRow] /\ goal'[g] = r /\ \A x \in Goals \ {g} : goal'[x] = goal[x]
    BY <1>1, <1>2, <1>5
  <2>2. goal[g].st \notin {"none", "gone"} /\ (g \notin loose' => goal'[g].st = goal[g].st)
    BY <1>1, <1>2, <1>5, <2>1 DEF Live
  <2>3. loose \subseteq loose'
    BY <1>1
  <2>4. EndedArePaused(goal', plans', loose' \cup hasty')
    BY <1>1, <1>2, <2>1, <2>2, <2>3 DEF EndedArePaused
  <2>5. \A x \in Goals : goal'[x].st = "gone" <=> goal[x].st = "gone"
    BY <1>2, <2>1, <2>2
  <2>6. \A x \in Goals \ loose' : goal'[x].st = "completed" => goal[x].st = "completed"
    BY <1>2, <2>1, <2>2
  <2> QED BY <1>1, <1>3, <1>4, <2>1, <2>3, <2>4, <2>5, <2>6, GoalsChange
<1>6. CASE ~Live(g)
  <2>1. goal' = goal /\ loose' = loose
    BY <1>1, <1>6
  <2>2. EndedArePaused(goal', plans', loose' \cup hasty')
    BY <1>1, <2>1
  <2> QED BY <1>1, <1>2, <1>3, <1>4, <2>1, <2>2, GoalsChange
<1> QED BY <1>5, <1>6

\* Archiving pauses, and restoring resumes nothing.
LEMMA SetStatusKeeps ==
  ASSUME SavingsInv, NEW g \in Goals, NEW st \in {"active", "archived"}, SetGoalStatus(g, st)
  PROVE  SavingsInv'
<1> USE DEF SavingsInv
<1>1. /\ Unlocked /\ Live(g) /\ goal' = [goal EXCEPT ![g].st = st]
      /\ plans' = IF st = "active" THEN plans ELSE Paused(g)
      /\ hasty' = (IF st = "active" THEN hasty ELSE hasty \ {g})
      /\ UNCHANGED <<saving, looked, loose>>
  BY DEF SetGoalStatus
<1>2. goal \in [Goals -> GoalRow] /\ plans \in [Goals -> {"none", "active", "paused"}]
      /\ looked.op \in {"none", "update", "move", "fill", "plan"}
  BY DEF SavingsTypeOK
<1> DEFINE r == [goal[g] EXCEPT !.st = st]
<1>3. goal' = [goal EXCEPT ![g] = r] /\ r \in GoalRow /\ r.st = st
  <2>1. goal[g] \in GoalRow
    BY <1>2
  <2>2. r \in GoalRow /\ r.st = st
    BY <2>1, GoalRows
  <2>3. goal' = [goal EXCEPT ![g] = r]
    BY <1>1
  <2> QED BY <2>2, <2>3
<1> HIDE DEF r
<1>4. goal' \in [Goals -> GoalRow] /\ goal'[g].st = st /\ \A x \in Goals \ {g} : goal'[x] = goal[x]
  BY <1>2, <1>3
<1>5. /\ plans' \in [Goals -> {"none", "active", "paused"}] /\ \A x \in Goals \ {g} : plans'[x] = plans[x]
      /\ st # "active" => plans'[g] # "active"
  BY <1>1, <1>2 DEF Paused
<1>6. LooksFit'
  BY <1>1, LooksStay
<1>7. EndedArePaused(goal', plans', loose' \cup hasty')
  BY <1>1, <1>4, <1>5 DEF EndedArePaused
<1>8. \A x \in Goals : goal'[x].st = "gone" <=> goal[x].st = "gone"
  BY <1>1, <1>4 DEF Live
<1>9. \A x \in Goals : goal'[x].st = "completed" => goal[x].st = "completed"
  BY <1>4
<1> QED BY <1>1, <1>2, <1>4, <1>5, <1>6, <1>7, <1>8, <1>9, GoalsChange

\* A goal is deleted when nothing is saved in it, and then no wallet has any of it.
LEMMA DeleteGoalKeeps ==
  ASSUME SavingsInv, NEW g \in Goals, DeleteGoal(g)
  PROVE  SavingsInv'
<1> USE DEF SavingsInv
<1> DEFINE r == [st |-> "gone", target |-> 0]
<1>1. /\ Unlocked /\ Live(g) /\ Saved(g) <= 0 /\ goal' = [goal EXCEPT ![g] = r]
      /\ plans' = [plans EXCEPT ![g] = "none"] /\ UNCHANGED <<saving, looked, loose, hasty>>
  BY DEF DeleteGoal
<1>2. /\ goal \in [Goals -> GoalRow] /\ plans \in [Goals -> {"none", "active", "paused"}]
      /\ saving \in SavingRows /\ looked.op \in {"none", "update", "move", "fill", "plan"}
  BY DEF SavingsTypeOK, SavingRows
<1>3. r \in GoalRow /\ r.st = "gone"
  BY DEF GoalRow
<1> HIDE DEF r
<1>4. goal' \in [Goals -> GoalRow] /\ goal'[g].st = "gone" /\ \A x \in Goals \ {g} : goal'[x] = goal[x]
  BY <1>1, <1>2, <1>3
<1>5. goal[g].st # "gone" /\ \A x \in Goals : goal'[x].st = "gone" <=> x = g \/ goal[x].st = "gone"
  BY <1>1, <1>4 DEF Live
<1>6. \A w \in Pockets : HeldIn(saving, w, {g}) = 0
  <2>1. \A w \in Pockets : Held(w, g) = 0
    BY <1>1, <1>2, SavedIs, OwesIs DEF Pots
  <2>2. PotOf(goal, g) = {g}
    BY <1>5 DEF PotOf
  <2> QED BY <1>2, <2>1, <2>2, HeldIs
<1>7. /\ NoneOwes(goal', saving)
      /\ \A w \in Pockets : HeldIn(saving, w, GoneOf(goal')) = HeldIn(saving, w, GoneOf(goal))
  BY <1>2, <1>5, <1>6, GoneHolds
<1>8. EndedAreEmpty(goal', saving', loose')
  <2>1. GoneOf(goal) \subseteq GoneOf(goal')
    BY <1>5 DEF GoneOf
  <2>2. ASSUME NEW x \in Goals \ loose, goal'[x].st = "completed"
        PROVE  \A w \in Pockets : HeldIn(saving, w, {x}) = 0
    BY <1>4, <2>2 DEF EndedAreEmpty
  <2>3. ASSUME GoneOf(goal') \cap loose = {} PROVE \A w \in Pockets : HeldIn(saving, w, GoneOf(goal')) = 0
    BY <1>7, <2>1, <2>3 DEF EndedAreEmpty
  <2> QED BY <1>1, <2>2, <2>3 DEF EndedAreEmpty
<1>9. EndedArePaused(goal', plans', loose' \cup hasty')
  BY <1>1, <1>2, <1>4 DEF EndedArePaused
<1>10. LooksFit'
  BY <1>1, LooksStay
<1>11. SavingsTypeOK'
  BY <1>1, <1>2, <1>4 DEF SavingsTypeOK
<1> QED BY <1>1, <1>7, <1>8, <1>9, <1>10, <1>11

\* A goal is read, or looked at.
LEMMA LookingKeeps ==
  ASSUME SavingsInv,
         \/ \E g \in Goals : ReadGoal(g) \/ LookToPlan(g) \/ \E a \in Sums : LookToFill(g, a)
         \/ \E from \in Pots, to \in Pots \cup {Available}, a \in Sums : LookToMove(from, to, a)
         \/ GiveUp
  PROVE  SavingsInv'
<1> USE DEF SavingsInv
<1>0. /\ goal \in [Goals -> GoalRow] /\ plans \in [Goals -> {"none", "active", "paused"}]
      /\ saving \in SavingRows /\ looked.op \in {"none", "update", "move", "fill", "plan"}
  BY DEF SavingsTypeOK, SavingRows
<1>1. ASSUME UNCHANGED <<goal, saving, plans, loose, hasty>>, LooksFit', looked'.op \in {"none", "update", "move", "fill", "plan"}
      PROVE  SavingsInv'
  <2>1. EndedArePaused(goal', plans', loose' \cup hasty')
    BY <1>1
  <2> QED BY <1>0, <1>1, <2>1, GoalsChange
<1>2. ASSUME NEW g \in Goals, ReadGoal(g) PROVE SavingsInv'
  <2>1. /\ looked' = [op |-> "update", locked |-> FALSE, g |-> g, row |-> goal[g]]
        /\ Live(g) /\ UNCHANGED <<goal, saving, plans, loose, hasty>>
    BY <1>2 DEF ReadGoal
  <2>2. looked'.op = "update" /\ looked'.g = g /\ looked'.row = goal[g]
    BY <2>1
  <2>3. LooksFit'
    BY <1>0, <2>1, <2>2 DEF LooksFit, Live
  <2> QED BY <1>1, <2>1, <2>2, <2>3
<1>3. ASSUME NEW g \in Goals, LookToPlan(g) PROVE SavingsInv'
  <2>1. looked' = [op |-> "plan", locked |-> FALSE, g |-> g] /\ UNCHANGED <<goal, saving, plans, loose, hasty>>
    BY <1>3 DEF LookToPlan
  <2>2. looked'.op = "plan" /\ looked'.g = g
    BY <2>1
  <2>3. LooksFit'
    BY <2>2 DEF LooksFit
  <2> QED BY <1>1, <2>1, <2>2, <2>3
<1>4. ASSUME NEW g \in Goals, NEW a \in Sums, LookToFill(g, a) PROVE SavingsInv'
  <2> DEFINE left == Target(g) - Saved(g)
             n == IF Target(g) > 0 /\ left < a THEN left ELSE a
  <2>1. /\ looked' = [op |-> "fill", locked |-> FALSE, g |-> g, amount |-> n]
        /\ ~Reached(g) /\ UNCHANGED <<goal, saving, plans, loose, hasty>>
    BY <1>4 DEF LookToFill
  <2>2. looked'.op = "fill" /\ looked'.g = g /\ looked'.amount = n
    BY <2>1
  <2>3. Saved(g) \in Int /\ Target(g) \in Nat /\ a \in Nat
    BY <1>0, SavedIs, SavingAmounts DEF Target, GoalRow
  <2>4. n \in Nat
    BY <2>1, <2>3 DEF Reached
  <2>5. LooksFit'
    BY <2>2, <2>4 DEF LooksFit
  <2> QED BY <1>1, <2>1, <2>2, <2>5
<1>5. ASSUME NEW from \in Pots, NEW to \in Pots \cup {Available}, NEW a \in Sums, LookToMove(from, to, a)
      PROVE  SavingsInv'
  <2>1. PICK split \in SplitsFor(from, a) :
          looked' = [op |-> "move", locked |-> TRUE, from |-> from, to |-> to, split |-> split]
    BY <1>5 DEF LookToMove
  <2>2. /\ from # to /\ Into(to) /\ (from \in Goals => Live(from)) /\ UNCHANGED <<goal, saving, plans, loose, hasty>>
    BY <1>5 DEF LookToMove
  <2>3. /\ looked'.op = "move" /\ looked'.locked /\ looked'.from = from /\ looked'.to = to /\ looked'.split = split
    BY <2>1
  <2>4. split \in [Pockets -> Nat] /\ \A w \in Pockets : split[w] <= Held(w, from)
    BY <1>0, SplitFits, SavingAmounts
  <2>5. PotOf(goal, from) = {from}
    BY <2>2 DEF PotOf, Live
  <2>6. \A w \in Pockets : split[w] <= HeldIn(saving, w, {from})
    BY <1>0, <2>4, <2>5, HeldIs
  <2>7. LooksFit'
    BY <2>2, <2>3, <2>4, <2>6 DEF LooksFit, Live, Into
  <2> QED BY <1>1, <2>2, <2>3, <2>7
<1>6. CASE GiveUp
  BY <1>1, <1>6, NoLookFits DEF GiveUp
<1> QED BY <1>2, <1>3, <1>4, <1>5, <1>6

\* Whoever had seen the goal active writes its saving; the goal is hasty if it is not active by now.
LEMMA PlanKeeps ==
  ASSUME SavingsInv, PlanSaving
  PROVE  SavingsInv'
<1> USE DEF SavingsInv
<1> DEFINE g == looked.g
<1>1. /\ looked.op = "plan" /\ looked' = NoLook /\ UNCHANGED <<goal, saving, loose>>
      /\ plans' = [plans EXCEPT ![g] = "active"]
      /\ hasty' = IF goal[g].st = "active" THEN hasty ELSE hasty \cup {g}
  BY DEF PlanSaving
<1>2. goal \in [Goals -> GoalRow] /\ plans \in [Goals -> {"none", "active", "paused"}] /\ g \in Goals
  BY <1>1 DEF SavingsTypeOK, LooksFit
<1> HIDE DEF g
<1>3. LooksFit' /\ looked'.op \in {"none", "update", "move", "fill", "plan"}
  BY <1>1, NoLookFits
<1>4. plans' \in [Goals -> {"none", "active", "paused"}] /\ \A x \in Goals \ {g} : plans'[x] = plans[x]
  BY <1>1, <1>2
<1>5. hasty \subseteq hasty' /\ (goal[g].st # "active" => g \in hasty')
  BY <1>1
<1>6. EndedArePaused(goal', plans', loose' \cup hasty')
  BY <1>1, <1>2, <1>4, <1>5 DEF EndedArePaused
<1> QED BY <1>1, <1>2, <1>3, <1>4, <1>6, GoalsChange

\* A closed goal's money leaves it: it is empty.
LEMMA CloseGoalKeeps ==
  ASSUME SavingsInv, NEW g \in Goals, NEW to \in {Spare, Available}, CloseGoal(g, to)
  PROVE  SavingsInv'
<1> USE DEF SavingsInv
<1> DEFINE r == [goal[g] EXCEPT !.st = "completed"]
<1>1. /\ Unlocked /\ goal[g].st = "active" /\ Booked(Emptied(g), g, to)
      /\ goal' = [goal EXCEPT ![g].st = "completed"] /\ plans' = Paused(g) /\ hasty' = hasty \ {g} /\ UNCHANGED <<looked, loose>>
  BY DEF CloseGoal
<1>2. /\ goal \in [Goals -> GoalRow] /\ plans \in [Goals -> {"none", "active", "paused"}]
      /\ saving \in SavingRows /\ looked.op \in {"none", "update", "move", "fill", "plan"}
  BY DEF SavingsTypeOK, SavingRows
<1>3. r \in GoalRow /\ r.st = "completed" /\ goal' = [goal EXCEPT ![g] = r]
  BY <1>1, <1>2, GoalRows
<1> HIDE DEF r
<1>4. goal' \in [Goals -> GoalRow] /\ goal'[g].st = "completed" /\ \A x \in Goals \ {g} : goal'[x] = goal[x]
  BY <1>2, <1>3
<1>5. /\ plans' \in [Goals -> {"none", "active", "paused"}] /\ \A x \in Goals \ {g} : plans'[x] = plans[x]
      /\ plans'[g] # "active"
  BY <1>1, <1>2 DEF Paused
<1> DEFINE split == Emptied(g)
<1>6. \A w \in Pockets : Held(w, g) = HeldIn(saving, w, {g}) /\ Held(w, g) \in Int /\ Held(w, g) >= 0
  <2>1. PotOf(goal, g) = {g}
    BY <1>1 DEF PotOf
  <2> QED BY <1>2, <2>1, HeldIs, OwesIs, SavedIs DEF Pots
<1>7. split \in [Pockets -> Nat] /\ \A w \in Pockets : split[w] = HeldIn(saving, w, {g})
  BY <1>6 DEF Emptied
<1>8. /\ Booked(split, g, to) /\ g \in Pots \cup {Available} /\ to \in Pots \cup {Available}
      /\ g # to /\ g # Available /\ to \notin Goals /\ goal[g].st # "gone"
  BY <1>1, SavingBuckets DEF Pots
<1> HIDE DEF split
<1>9. /\ saving' \in SavingRows /\ NoneOwes(goal, saving')
      /\ EndedAreEmpty(goal, saving', loose)
      /\ \A w \in Pockets : HeldIn(saving', w, {g}) = HeldIn(saving, w, {g}) - split[w] + (IF to = g THEN split[w] ELSE 0)
  <2>1. \A w \in Pockets : split[w] <= HeldIn(saving, w, {g})
    BY <1>2, <1>7, HeldInType
  <2> QED BY <1>7, <1>8, <2>1, BookedKeeps
<1>10. \A w \in Pockets : HeldIn(saving', w, {g}) = 0
  <2> SUFFICES ASSUME NEW w \in Pockets PROVE HeldIn(saving', w, {g}) = 0
    OBVIOUS
  <2>1. HeldIn(saving', w, {g}) = HeldIn(saving, w, {g}) - split[w] /\ split[w] = HeldIn(saving, w, {g})
    <3>1. HeldIn(saving', w, {g}) = HeldIn(saving, w, {g}) - split[w] + (IF to = g THEN split[w] ELSE 0)
      BY <1>9
    <3>2. (IF to = g THEN split[w] ELSE 0) = 0
      BY <1>8
    <3>3. split[w] = HeldIn(saving, w, {g}) /\ HeldIn(saving, w, {g}) \in Int
      BY <1>2, <1>7, HeldInType
    <3> QED BY <3>1, <3>2, <3>3
  <2> QED BY <1>2, <2>1, HeldInType
<1>11. GoneOf(goal') = GoneOf(goal) /\ \A b : PotOf(goal', b) = PotOf(goal, b)
  <2>1. \A x \in Goals : goal'[x].st = "gone" <=> goal[x].st = "gone"
    BY <1>4, <1>8
  <2> QED BY <2>1, PotsStay
<1>12. NoneOwes(goal', saving')
  BY <1>9, <1>11 DEF NoneOwes
<1>13. EndedAreEmpty(goal', saving', loose')
  BY <1>1, <1>4, <1>9, <1>10, <1>11 DEF EndedAreEmpty
<1>14. EndedArePaused(goal', plans', loose' \cup hasty')
  BY <1>1, <1>4, <1>5 DEF EndedArePaused
<1>15. LooksFit'
  BY <1>1, LooksStay
<1>16. SavingsTypeOK'
  BY <1>1, <1>2, <1>4, <1>5, <1>9 DEF SavingsTypeOK, SavingRows
<1> QED BY <1>12, <1>13, <1>14, <1>15, <1>16

\* Money that is booked and nothing else.
LEMMA OnlyBooked ==
  ASSUME SavingsInv, UNCHANGED <<goal, plans, loose, hasty>>, LooksFit', looked'.op \in {"none", "update", "move", "fill", "plan"},
         NEW split \in [Pockets -> Nat],
         NEW from \in Pots \cup {Available}, NEW to \in Pots \cup {Available}, Booked(split, from, to),
         from \in Goals => goal[from].st # "gone",
         from # Available => \A w \in Pockets : split[w] <= HeldIn(saving, w, {from}),
         to \in Goals => goal[to].st = "active"
  PROVE  SavingsInv'
<1> USE DEF SavingsInv
<1>1. saving' \in SavingRows /\ NoneOwes(goal, saving') /\ EndedAreEmpty(goal, saving', loose)
  BY BookedKeeps
<1>2. SavingsTypeOK'
  BY <1>1 DEF SavingsTypeOK, SavingRows
<1>3. EndedArePaused(goal', plans', loose' \cup hasty')
  OBVIOUS
<1> QED BY <1>1, <1>2, <1>3

\* An entry that saves, with the lock in one step, or by a check that looked before.
LEMMA SaveKeepsAll ==
  ASSUME SavingsInv, NEW w \in Pockets, NEW b \in Pots, NEW amount \in Nat, Save(w, b, amount),
         LooksFit', looked'.op \in {"none", "update", "move", "fill", "plan"}
  PROVE  SavingsInv'
<1> DEFINE split == [p \in Pockets |-> IF p = w THEN amount ELSE 0]
<1>1. Into(b) /\ Booked(split, Available, b) /\ UNCHANGED <<goal, plans, loose, hasty>>
  BY DEF Save
<1>2. split \in [Pockets -> Nat]
  OBVIOUS
<1>3. Available \notin Goals /\ b \in Pots \cup {Available} /\ Available \in Pots \cup {Available}
      /\ (b \in Goals => goal[b].st = "active")
  BY <1>1, SavingBuckets DEF Into
<1> HIDE DEF split
<1> QED BY <1>1, <1>2, <1>3, OnlyBooked

\* Entries that are saved in one step, by a check that looked before, or moved under the lock.
LEMMA SavingKeeps ==
  ASSUME SavingsInv,
         \/ \E w \in Pockets, b \in Pots, a \in Sums : SaveEntry(w, b, a)
         \/ \E w \in Pockets : FillOccurrence(w)
         \/ MoveEntries
  PROVE  SavingsInv'
<1>0. LooksFit /\ looked.op \in {"none", "update", "move", "fill", "plan"}
  BY DEF SavingsInv, SavingsTypeOK
<1>1. ASSUME NEW w \in Pockets, NEW b \in Pots, NEW a \in Sums, SaveEntry(w, b, a) PROVE SavingsInv'
  <2>1. LooksFit'
    BY <1>0, <1>1, LooksStay DEF SaveEntry
  <2> QED BY <1>0, <1>1, <2>1, SaveKeepsAll, SavingAmounts DEF SaveEntry
<1>2. ASSUME NEW w \in Pockets, FillOccurrence(w) PROVE SavingsInv'
  <2>1. looked.op = "fill" /\ looked' = NoLook /\ Save(w, looked.g, looked.amount)
    BY <1>2 DEF FillOccurrence
  <2>2. looked.g \in Pots /\ looked.amount \in Nat
    BY <1>0, <2>1 DEF LooksFit, Pots
  <2> QED BY <2>1, <2>2, NoLookFits, SaveKeepsAll
<1>3. CASE MoveEntries
  <2>1. /\ looked.op = "move" /\ looked' = NoLook /\ Booked(looked.split, looked.from, looked.to)
        /\ UNCHANGED <<goal, plans, loose, hasty>>
    BY <1>3 DEF MoveEntries
  <2>2. /\ looked.from \in Pots /\ looked.to \in Pots \cup {Available}
        /\ looked.split \in [Pockets -> Nat]
        /\ \A w \in Pockets : looked.split[w] <= HeldIn(saving, w, {looked.from})
        /\ looked.from \in Goals => goal[looked.from].st # "gone"
        /\ looked.to \in Goals => goal[looked.to].st = "active"
    BY <1>0, <2>1 DEF LooksFit
  <2> QED BY <2>1, <2>2, NoLookFits, OnlyBooked
<1> QED BY <1>1, <1>2, <1>3

\* An entry is edited or deleted if no pot of its wallet owes afterwards.
LEMMA EditKeeps ==
  ASSUME SavingsInv, NEW e \in SavingIds,
         DeleteEntry(e) \/ \E a \in Sums : UpdateEntry(e, a)
  PROVE  SavingsInv'
<1> USE DEF SavingsInv
<1>0. saving \in SavingRows
  BY DEF SavingsTypeOK, SavingRows
<1>1. PICK r \in SavingRow :
        /\ saving' = [saving EXCEPT ![e] = r]
        /\ r.st = "live" => r.wallet = saving[e].wallet /\ r.from = saving[e].from /\ r.to = saving[e].to
  <2>1. CASE DeleteEntry(e)
    <3> DEFINE r == [NoSaving EXCEPT !.st = "gone"]
    <3>1. r \in SavingRow /\ r.st = "gone"
      BY DEF NoSaving, SavingRow, Pots, Pockets
    <3>2. saving' = [saving EXCEPT ![e] = r]
      BY <2>1 DEF DeleteEntry
    <3> QED BY <3>1, <3>2
  <2>2. ASSUME NEW a \in Sums, UpdateEntry(e, a)
        PROVE  \E r \in SavingRow :
                 /\ saving' = [saving EXCEPT ![e] = r]
                 /\ r.st = "live" => r.wallet = saving[e].wallet /\ r.from = saving[e].from /\ r.to = saving[e].to
    <3> DEFINE r == [saving[e] EXCEPT !.amount = a]
    <3>1. /\ r \in SavingRow
          /\ r.wallet = saving[e].wallet /\ r.from = saving[e].from /\ r.to = saving[e].to
      BY <1>0, SavingAmounts DEF SavingRows, SavingRow
    <3>2. saving' = [saving EXCEPT ![e] = r]
      BY <2>2 DEF UpdateEntry
    <3> QED BY <3>1, <3>2
  <2> QED BY <2>1, <2>2
<1>2. /\ Unlocked /\ saving[e].st = "live" /\ UNCHANGED <<goal, plans, looked, hasty>> /\ Edited(e)
      /\ NoNegative(saving[e].wallet)
  BY DEF DeleteEntry, UpdateEntry
<1>3. /\ saving' \in SavingRows
      /\ \A w, P : w # saving[e].wallet \/ (saving[e].from \notin P /\ saving[e].to \notin P)
              => HeldIn(saving', w, P) = HeldIn(saving, w, P)
  BY <1>0, <1>1, <1>2, EditedRow
<1>4. NoneOwes(goal', saving')
  <2> SUFFICES ASSUME NEW w \in Pockets, NEW b \in Pots PROVE HeldIn(saving', w, PotOf(goal', b)) >= 0
    BY DEF NoneOwes
  <2>1. CASE w = saving[e].wallet
    <3>1. (Held(w, b))' >= 0
      BY <1>2, <2>1 DEF NoNegative
    <3> QED BY <1>3, <3>1, HeldNext
  <2>2. CASE w # saving[e].wallet
    BY <1>2, <1>3, <2>2 DEF NoneOwes
  <2> QED BY <2>1, <2>2
<1>5. /\ loose \subseteq loose'
      /\ \A g \in Goals \ loose' : goal[g].st \in {"completed", "gone"} => g # saving[e].from /\ g # saving[e].to
  BY <1>2 DEF Edited
<1>6. EndedAreEmpty(goal', saving', loose')
  <2>1. ASSUME NEW g \in Goals \ loose', goal[g].st = "completed"
        PROVE  \A w \in Pockets : HeldIn(saving', w, {g}) = 0
    <3>1. saving[e].from \notin {g} /\ saving[e].to \notin {g}
      BY <1>5, <2>1
    <3>2. \A w \in Pockets : HeldIn(saving, w, {g}) = 0
      BY <1>5, <2>1 DEF EndedAreEmpty
    <3> QED BY <1>3, <3>1, <3>2
  <2>2. ASSUME GoneOf(goal) \cap loose' = {} PROVE \A w \in Pockets : HeldIn(saving', w, GoneOf(goal)) = 0
    <3>1. saving[e].from \notin GoneOf(goal) /\ saving[e].to \notin GoneOf(goal)
      BY <1>5, <2>2 DEF GoneOf
    <3>2. \A w \in Pockets : HeldIn(saving, w, GoneOf(goal)) = 0
      BY <1>5, <2>2 DEF EndedAreEmpty
    <3> QED BY <1>3, <3>1, <3>2
  <2> QED BY <1>2, <2>1, <2>2 DEF EndedAreEmpty
<1>7. EndedArePaused(goal', plans', loose' \cup hasty')
  BY <1>2, <1>5 DEF EndedArePaused
<1>8. LooksFit'
  BY <1>2, LooksStay
<1>9. SavingsTypeOK'
  BY <1>2, <1>3 DEF SavingsTypeOK, SavingRows
<1> QED BY <1>4, <1>6, <1>7, <1>8, <1>9

\* Every step of the part keeps the invariant, and so does a step of another part.
LEMMA SavingsKept == SavingsInv /\ [SavingsNext]_savingVars => SavingsInv'
<1> SUFFICES ASSUME SavingsInv, [SavingsNext]_savingVars PROVE SavingsInv'
  OBVIOUS
<1>1. CASE UNCHANGED savingVars
  BY <1>1 DEF savingVars, SavingsInv, SavingsTypeOK, LooksFit
<1> QED
  BY <1>1, CreateGoalKeeps, UpdateGoalKeeps, SetStatusKeeps, DeleteGoalKeeps, LookingKeeps, PlanKeeps, CloseGoalKeeps,
     SavingKeeps, EditKeeps DEF SavingsNext

\* At the start goals are active or none, and what was saved came from outside.
LEMMA SavingsStart == SavingsInit => SavingsInv
<1> SUFFICES ASSUME SavingsInit PROVE SavingsInv
  OBVIOUS
<1>1. PICK t \in Targets, ds \in Deposits :
        /\ goal = [g \in Goals |-> IF \E d \in ds : d.goal = g THEN [st |-> "active", target |-> t] ELSE NoGoal]
        /\ saving = [e \in SavingIds |->
             IF \E d \in ds : d.id = e
             THEN LET d == CHOOSE d \in ds : d.id = e
                  IN [st |-> "live", wallet |-> d.wallet, from |-> Available, to |-> d.goal, amount |-> d.amount]
             ELSE IF \E d \in UNION Deposits : d.id = e THEN [NoSaving EXCEPT !.st = "gone"] ELSE NoSaving]
  BY DEF SavingsInit
<1>2. plans = [g \in Goals |-> "none"] /\ looked = NoLook /\ loose = {} /\ hasty = {}
  BY DEF SavingsInit
<1>3. \A g \in Goals : goal[g] \in GoalRow /\ goal[g].st \in {"none", "active"}
  BY <1>1, SavingAmounts DEF GoalRow, NoGoal
<1>4. \A e \in SavingIds : saving[e] \in SavingRow /\ saving[e].from = Available
  <2> SUFFICES ASSUME NEW e \in SavingIds PROVE saving[e] \in SavingRow /\ saving[e].from = Available
    OBVIOUS
  <2>1. CASE \E d \in ds : d.id = e
    <3>1. PICK d \in ds : saving[e] =
            [st |-> "live", wallet |-> d.wallet, from |-> Available, to |-> d.goal, amount |-> d.amount]
      BY <1>1, <2>1
    <3>2. d \in UNION Deposits
      OBVIOUS
    <3>3. d.wallet \in Pockets /\ d.goal \in Pots /\ d.amount \in Nat
      BY <3>2, DepositsAreSums
    <3> QED BY <3>1, <3>3 DEF SavingRow
  <2>2. CASE ~\E d \in ds : d.id = e
    <3>1. saving[e] = [NoSaving EXCEPT !.st = "gone"] \/ saving[e] = NoSaving
      BY <1>1, <2>2
    <3>2. NoSaving \in SavingRow /\ NoSaving.from = Available
      BY DEF NoSaving, SavingRow, Pots, Pockets
    <3>3. [NoSaving EXCEPT !.st = "gone"] \in SavingRow /\ [NoSaving EXCEPT !.st = "gone"].from = Available
      BY DEF NoSaving, SavingRow, Pots, Pockets
    <3> QED BY <3>1, <3>2, <3>3, Zenon
  <2> QED BY <2>1, <2>2
<1>5. goal \in [Goals -> GoalRow] /\ saving \in SavingRows
  BY <1>1, <1>3, <1>4 DEF SavingRows
<1>6. SavingsTypeOK /\ LooksFit
  BY <1>2, <1>5 DEF SavingsTypeOK, SavingRows, LooksFit, NoLook
<1>7. NoneOwes(goal, saving)
  <2> SUFFICES ASSUME NEW w \in Pockets, NEW b \in Pots PROVE HeldIn(saving, w, PotOf(goal, b)) >= 0
    BY DEF NoneOwes
  <2> DEFINE z == [e \in SavingIds |-> 0]
             f == Flow(saving, w, PotOf(goal, b))
  <2>1. Available \notin PotOf(goal, b)
    BY SavingBuckets DEF PotOf, GoneOf, Pots, Available, Spare
  <2>2. \A e \in SavingIds : saving[e].amount \in Nat
    BY <1>4 DEF SavingRow
  <2>3. \A e \in SavingIds : z[e] \in Int /\ z[e] = 0 /\ f[e] \in Int /\ z[e] <= f[e]
    BY <1>4, <2>1, <2>2 DEF Flow
  <2> HIDE DEF z, f
  <2>4. SumIn(z, SavingIds) = 0 /\ SumIn(z, SavingIds) <= SumIn(f, SavingIds)
    BY <2>3, SumZero, SumAtMost, SavingBounds
  <2> QED BY <2>4, <1>5, HeldInType DEF HeldIn, f
<1>8. GoneOf(goal) = {}
  BY <1>3 DEF GoneOf
<1>9. EndedAreEmpty(goal, saving, loose) /\ EndedArePaused(goal, plans, loose \cup hasty)
  BY <1>2, <1>3, <1>5, <1>8, HeldNowhere DEF EndedAreEmpty, EndedArePaused
<1> QED BY <1>6, <1>7, <1>9 DEF SavingsInv

\* The pots that count are some of the pots, and one of those that are gone stands for them.
LEMMA CountedPotsAre ==
  /\ CountedPots \subseteq Pots /\ IsFiniteSet(CountedPots) /\ Spare \in CountedPots
  /\ CountedGoals("active") \subseteq CountedPots \ {Spare}
  /\ \A b \in CountedPots \ {Spare} : b \in Goals /\ goal[b].st \in {"active", "completed", "gone"}
<1> DEFINE gone == {g \in Goals : goal[g].st = "gone"}
<1>1. gone # {} => (CHOOSE g \in gone : TRUE) \in gone
  OBVIOUS
<1>2. CountedPots \subseteq Pots /\ Spare \in CountedPots
  BY <1>1 DEF CountedPots, Pots
<1>3. IsFiniteSet(Pots)
  BY SavingBounds, FS_AddElement DEF Pots
<1>4. IsFiniteSet(CountedPots)
  BY <1>2, <1>3, FS_Subset
<1>5. CountedGoals("active") \subseteq CountedPots \ {Spare}
  BY SavingBuckets DEF CountedPots, CountedGoals
<1>6. \A b \in CountedPots \ {Spare} : b \in Goals /\ goal[b].st \in {"active", "completed", "gone"}
  BY <1>1 DEF CountedPots
<1> QED BY <1>2, <1>4, <1>5, <1>6

\* No list of goals has more than it aims for, or less than nothing.
LEMMA RingsFit ==
  ASSUME SavingsInv, NEW status
  PROVE  Ring(status).saved \in 0..Ring(status).target
<1> DEFINE listed == {g \in CountedGoals(status) : Target(g) > 0 /\ status = "active"}
           capped == [g \in listed |-> IF Saved(g) < 0 THEN 0 ELSE IF Saved(g) > Target(g) THEN Target(g) ELSE Saved(g)]
           target == [g \in listed |-> Target(g)]
           zero == [g \in listed |-> 0]
<1>1. Ring(status).saved = Summed(capped) /\ Ring(status).target = Summed(target)
  BY DEF Ring
<1>2. Summed(capped) = SumIn(capped, listed) /\ Summed(target) = SumIn(target, listed)
  BY SummedIs
<1>3. saving \in SavingRows /\ goal \in [Goals -> GoalRow]
  BY DEF SavingsInv, SavingsTypeOK, SavingRows
<1>4. \A g \in listed : Target(g) \in Int /\ Target(g) > 0 /\ Saved(g) \in Int
  <2> SUFFICES ASSUME NEW g \in listed PROVE Target(g) \in Int /\ Target(g) > 0 /\ Saved(g) \in Int
    OBVIOUS
  <2>1. g \in Goals /\ Target(g) > 0
    BY DEF CountedGoals
  <2>2. goal[g] \in GoalRow
    BY <1>3, <2>1
  <2>3. goal[g].target \in Nat
    BY <2>2 DEF GoalRow
  <2>4. Saved(g) \in Int
    BY <1>3, SavedIs
  <2>5. Target(g) \in Int
    BY <2>3 DEF Target
  <2> QED BY <2>1, <2>4, <2>5
<1>5. \A g \in listed : /\ zero[g] \in Int /\ zero[g] = 0 /\ capped[g] \in Int /\ target[g] \in Int
                        /\ zero[g] <= capped[g] /\ capped[g] <= target[g]
  BY <1>4
<1>6. IsFiniteSet(listed)
  BY SavingBounds, FS_Subset DEF CountedGoals
<1> HIDE DEF capped, target, zero, listed
<1>7. /\ SumIn(zero, listed) = 0 /\ SumIn(zero, listed) <= SumIn(capped, listed)
      /\ SumIn(capped, listed) <= SumIn(target, listed)
      /\ SumIn(capped, listed) \in Int /\ SumIn(target, listed) \in Int
  BY <1>5, <1>6, SumZero, SumAtMost, SumType
<1> QED BY <1>1, <1>2, <1>7

\* The pages of the wallets and the totals add up the same table, by its rows and by its columns.
LEMMA WalletsAndTotals ==
  ASSUME SavingsInv
  PROVE  Summed([w \in Pockets |-> WalletSaved(w)]) = SavingTotals.saved
<1> DEFINE m == [w \in Pockets |-> [b \in CountedPots |-> Held(w, b)]]
           across == [w \in Pockets |-> SumIn(m[w], CountedPots)]
           down == [b \in CountedPots |-> SumIn([w \in Pockets |-> m[w][b]], Pockets)]
           pages == [w \in Pockets |-> WalletSaved(w)]
           pots == [b \in CountedPots |-> Saved(b)]
<1>0. IsFiniteSet(Pockets) /\ IsFiniteSet(CountedPots) /\ saving \in SavingRows
  BY SavingBounds, FS_AddElement, CountedPotsAre DEF Pockets, SavingsInv, SavingsTypeOK, SavingRows
<1>1. \A w, b : Held(w, b) \in Int
  BY <1>0, SavedIs
<1>2. m \in [Pockets -> [CountedPots -> Int]]
  BY <1>1
<1>3. SumIn(across, Pockets) = SumIn(down, CountedPots)
  <2> HIDE DEF m
  <2> QED BY <1>0, <1>2, SumSwaps
<1>4. pages = across
  <2>1. \A w \in Pockets : WalletSaved(w) = SumIn(m[w], CountedPots)
    <3> SUFFICES ASSUME NEW w \in Pockets PROVE WalletSaved(w) = SumIn(m[w], CountedPots)
      OBVIOUS
    <3>1. WalletSaved(w) = SumIn([b \in CountedPots |-> Held(w, b)], CountedPots)
      BY SummedIs DEF WalletSaved
    <3>2. m[w] = [b \in CountedPots |-> Held(w, b)]
      OBVIOUS
    <3> QED BY <3>1, <3>2
  <2> HIDE DEF m
  <2> QED BY <2>1
<1>5. pots = down
  <2>1. \A b \in CountedPots : Saved(b) = SumIn([w \in Pockets |-> m[w][b]], Pockets)
    <3> SUFFICES ASSUME NEW b \in CountedPots PROVE Saved(b) = SumIn([w \in Pockets |-> m[w][b]], Pockets)
      OBVIOUS
    <3>1. Saved(b) = SumIn([w \in Pockets |-> Held(w, b)], Pockets)
      BY <1>0, SavedIs
    <3>2. [w \in Pockets |-> m[w][b]] = [w \in Pockets |-> Held(w, b)]
      OBVIOUS
    <3> QED BY <3>1, <3>2
  <2> HIDE DEF m
  <2> QED BY <2>1
<1>6. Summed(pages) = SumIn(pages, Pockets) /\ Summed(pots) = SumIn(pots, CountedPots)
  BY SummedIs
<1>7. SavingTotals.saved = Summed(pots)
  BY DEF SavingTotals
<1> HIDE DEF pages, pots, across, down
<1>8. Summed(pages) = SavingTotals.saved
  BY <1>3, <1>4, <1>5, <1>6, <1>7
<1> QED BY <1>8 DEF pages

\* What the goals hold together is what active ones hold: the others are empty.
LEMMA OnlyActiveHold ==
  ASSUME SavingsInv, loose = {}
  PROVE  SavingTotals.inGoals = Summed([g \in CountedGoals("active") |-> Saved(g)])
<1> DEFINE all == CountedPots \ {Spare}
           active == CountedGoals("active")
           f == [b \in all |-> Saved(b)]
           h == [g \in active |-> Saved(g)]
<1>0. saving \in SavingRows
  BY DEF SavingsInv, SavingsTypeOK, SavingRows
<1>1. IsFiniteSet(all) /\ active \in SUBSET all /\ IsFiniteSet(active)
  BY CountedPotsAre, FS_Subset
<1>2. \A b : Saved(b) \in Int
  BY <1>0, SavedIs
<1>3. \A b \in all \ active : Saved(b) = 0
  <2> SUFFICES ASSUME NEW b \in all \ active PROVE Saved(b) = 0
    OBVIOUS
  <2>1. b \in Goals /\ goal[b].st \in {"completed", "gone"}
    BY CountedPotsAre DEF CountedGoals
  <2>2. \A w \in Pockets : HeldIn(saving, w, PotOf(goal, b)) = 0
    BY <2>1 DEF SavingsInv, EndedAreEmpty, PotOf
  <2>3. \A w \in Pockets : Held(w, b) = 0
    BY <1>0, <2>2, HeldIs
  <2> QED BY <1>0, <2>3, SavedIs
<1>4. /\ \A b \in all : f[b] \in Int
      /\ \A b \in all \ active : f[b] = 0
      /\ \A g \in active : f[g] = h[g] /\ f[g] \in Int
  BY <1>1, <1>2, <1>3
<1>5. SavingTotals.inGoals = Summed(f) /\ Summed(f) = SumIn(f, all) /\ Summed(h) = SumIn(h, active)
  BY SummedIs DEF SavingTotals
<1> HIDE DEF f, h, all, active
<1>6. SumIn(f, all) = SumIn(f, active)
  BY <1>1, <1>4, SumPart
<1>7. SumIn(f, active) = SumIn(h, active)
  BY <1>1, <1>4, SumSame
<1>8. SavingTotals.inGoals = Summed(h)
  BY <1>5, <1>6, <1>7
<1> QED BY <1>8 DEF h, active

\* The invariant is what the run checks, and more.
LEMMA SavingsSafe == SavingsInv => NothingOverdrawn /\ ClosedIsOver
<1> SUFFICES ASSUME SavingsInv PROVE NothingOverdrawn /\ ClosedIsOver
  OBVIOUS
<1>1. SavingsTypeOK /\ saving \in SavingRows /\ NoneOwes(goal, saving) /\ EndedArePaused(goal, plans, loose \cup hasty)
  BY DEF SavingsInv, SavingsTypeOK, SavingRows
<1>2. NothingOverdrawn
  BY <1>1, OwesIs, RingsFit, WalletsAndTotals DEF NothingOverdrawn
<1>3. ASSUME NEW g \in Goals \ (loose \cup hasty), Live(g), ~Offers(g).save PROVE plans[g] # "active"
  <2>1. Offers(g).save <=> goal[g].st = "active"
    BY DEF Offers
  <2>2. goal[g].st \in {"completed", "archived"}
    BY <1>1, <1>3, <2>1 DEF SavingsTypeOK, GoalRow, Live
  <2> QED BY <1>1, <2>2 DEF EndedArePaused
<1> QED BY <1>2, <1>3, OnlyActiveHold DEF ClosedIsOver

\* For any goals, wallets and amounts: no wallet is owed money by a pot, pages and totals agree, and a
\* goal that is closed holds nothing more and none of its savings runs, but for what was written
\* over its end or set by one who had seen it active (SavingsHold).
THEOREM NothingIsOverdrawn == Spec => []SavingsHold
<1>1. HomeInit => SavingsInv
  BY SavingsStart DEF HomeInit
<1>2. [HomeNext]_homeVars => [SavingsNext]_savingVars
  BY DEF HomeNext, homeVars, savingVars
<1>3. SavingsInv => SavingsHold
  BY SavingsSafe DEF SavingsHold
<1> QED
  BY <1>1, <1>2, <1>3, SavingsKept, PTL DEF Spec

-----------------------------------------------------------------------------
(* What becomes of the answers of a model: an item that the checks have let *)
(* through is let through again as it is.                                  *)

\* An amount that was rounded is rounded.
LEMMA RoundedTwice ==
  ASSUME NEW a \in Int, Valid(a)
  PROVE  Rounded(a) \in Nat /\ Rounded(Rounded(a)) = Rounded(a)
BY SMT DEF Rounded, Valid

\* Somebody on a bill: a member of its event, a contact, or a name of the user's own.
IsPerson(x, event) ==
  \/ \E m : x = <<"member", m>> /\ event # "" /\ m \in lists.events[event].members
  \/ \E c \in lists.contacts : x = <<"contact", c>>
  \/ \E n : x = <<"name", n>> /\ n # "" /\ n \notin lists.contacts

\* Whoever a person of an answer is taken for.
LEMMA PersonIs ==
  ASSUME NEW p, NEW event, NEW words, PersonOf(p, event, words) # <<>>
  PROVE  IsPerson(PersonOf(p, event, words), event)
BY DEF PersonOf, IsPerson, Verbatim

\* A person of a bill, named to the model and taken from its answer, is the same.
LEMMA PersonTwice ==
  ASSUME Listing(lists), NEW event, event # "" => event \in DOMAIN lists.events,
         NEW more, NEW x, IsPerson(x, event), x[2] \in more
  PROVE  PersonOf(PersonAnswer(x), event, more) = x /\ x # <<>>
<1>1. ASSUME NEW m, x = <<"member", m>>, event # "", m \in lists.events[event].members
      PROVE  PersonOf(PersonAnswer(x), event, more) = x /\ x # <<>>
  <2>0. x = <<"member", m>>
    BY <1>1
  <2>1. x[1] = "member" /\ x[2] = m /\ x # <<>>
    BY <2>0
  <2>2. PersonAnswer(x).member = m
    BY <2>1 DEF PersonAnswer
  <2>3. m # ""
    BY <1>1 DEF Listing
  <2> QED BY <1>1, <2>1, <2>2, <2>3 DEF PersonOf
<1>2. ASSUME NEW c \in lists.contacts, x = <<"contact", c>>
      PROVE  PersonOf(PersonAnswer(x), event, more) = x /\ x # <<>>
  <2>0. x = <<"contact", c>>
    BY <1>2
  <2>1. x[1] = "contact" /\ x[2] = c /\ x # <<>>
    BY <2>0
  <2>2. PersonAnswer(x).member = "" /\ PersonAnswer(x).contact = c
    BY <2>1 DEF PersonAnswer
  <2> QED BY <1>2, <2>1, <2>2 DEF PersonOf
<1>3. ASSUME NEW n, n # "", n \notin lists.contacts, x = <<"name", n>>
      PROVE  PersonOf(PersonAnswer(x), event, more) = x /\ x # <<>>
  <2>0. x = <<"name", n>>
    BY <1>3
  <2>1. x[1] = "name" /\ x[2] = n /\ x # <<>>
    BY <2>0
  <2>2. PersonAnswer(x).member = "" /\ PersonAnswer(x).contact = "" /\ PersonAnswer(x).name = n
    BY <2>1 DEF PersonAnswer
  <2>3. "" \notin lists.contacts
    BY DEF Listing
  <2> QED BY <1>3, <2>1, <2>2, <2>3 DEF PersonOf, Verbatim
<1> QED BY <1>1, <1>2, <1>3 DEF IsPerson

\* A bill as the checks leave it.
IsBill(b) ==
  /\ b.on /\ b = [on |-> TRUE, event |-> b.event, newEvent |-> b.newEvent, people |-> b.people, paidBy |-> b.paidBy]
  /\ b.event # "" => b.event \in DOMAIN lists.events /\ ~lists.events[b.event].done /\ b.newEvent = ""
  /\ b.paidBy # <<>> => b.paidBy \in b.people
  /\ \A x \in b.people : IsPerson(x, b.event)

LEMMA BillIs ==
  ASSUME Listing(lists), NEW p, NEW words, NEW b \in PaperOf(p, words)
  PROVE  b = NoBill \/ IsBill(b)
<1> DEFINE event == On(p.event, DOMAIN lists.events)
           new   == IF p.event = "" THEN Verbatim(p.newEvent, words) ELSE ""
           out   == {<<"member", m>> : m \in p.exclude}
           named == {PersonOf(x, event, words) : x \in p.people} \ ({<<>>} \cup out)
           all   == IF event # "" /\ p.people = {}
                    THEN {<<"member", m>> : m \in lists.events[event].members} \ out ELSE named
           payer == IF p.paidBy = <<>> THEN <<>> ELSE PersonOf(p.paidBy[1], event, words)
           bill  == [on |-> TRUE, event |-> event, newEvent |-> new, people |-> OnTheBill(all, payer), paidBy |-> payer]
<1>1. b = NoBill \/ (b = bill /\ ~(event # "" /\ lists.events[event].done))
  BY DEF PaperOf
<1>2. event # "" => event \in DOMAIN lists.events /\ new = ""
  BY DEF On, Listing
<1>3. ASSUME NEW x \in all PROVE IsPerson(x, event)
  <2>1. CASE event # "" /\ p.people = {}
    BY <2>1 DEF IsPerson
  <2>2. CASE ~(event # "" /\ p.people = {})
    <3>1. PICK y \in p.people : x = PersonOf(y, event, words) /\ x # <<>>
      BY <2>2
    <3> QED BY <3>1, PersonIs
  <2> QED BY <2>1, <2>2
<1>4. payer # <<>> => IsPerson(payer, event)
  BY PersonIs
<1> HIDE DEF event, new, all, payer
<1>5. CASE b = bill /\ ~(event # "" /\ lists.events[event].done)
  <2>1. b.on /\ b.event = event /\ b.newEvent = new /\ b.people = OnTheBill(all, payer) /\ b.paidBy = payer
    BY <1>5
  <2> QED BY <1>2, <1>3, <1>4, <1>5, <2>1 DEF OnTheBill, IsBill
<1> QED BY <1>1, <1>5

\* What is handed to the model of a bill.
BillAnswer(b) ==
  IF ~b.on THEN NoPaper
  ELSE [event |-> On(b.event, DOMAIN lists.events), newEvent |-> b.newEvent, split |-> "equal",
        people |-> {PersonAnswer(x) : x \in b.people}, exclude |-> {},
        paidBy |-> IF b.paidBy = <<>> THEN <<>> ELSE <<PersonAnswer(b.paidBy)>>]

\* A bill comes back as it was, if somebody is on it or it is of no event.
LEMMA BillTwice ==
  ASSUME Listing(lists), NEW b, IsBill(b), ~(b.event # "" /\ b.people = {}), NEW more,
         b.newEvent = "" \/ b.newEvent \in more, \A x \in b.people : x[2] \in more
  PROVE  PaperOf(BillAnswer(b), more) = {b}
<1> DEFINE p     == BillAnswer(b)
           event == On(p.event, DOMAIN lists.events)
           new   == IF p.event = "" THEN Verbatim(p.newEvent, more) ELSE ""
           plain == \/ p = [NoPaper EXCEPT !.exclude = p.exclude]
                    \/ p.event # "" /\ event = "" /\ p.newEvent = ""
                    \/ p.event = "" /\ p.newEvent # "" /\ new = ""
           out   == {<<"member", m>> : m \in p.exclude}
           named == {PersonOf(x, event, more) : x \in p.people} \ ({<<>>} \cup out)
           all   == IF event # "" /\ p.people = {}
                    THEN {<<"member", m>> : m \in lists.events[event].members} \ out ELSE named
           payer == IF p.paidBy = <<>> THEN <<>> ELSE PersonOf(p.paidBy[1], event, more)
           bill  == [on |-> TRUE, event |-> event, newEvent |-> new, people |-> OnTheBill(all, payer), paidBy |-> payer]
<1>1. /\ p.event = b.event /\ p.newEvent = b.newEvent /\ p.split = "equal" /\ p.exclude = {}
      /\ p.people = {PersonAnswer(x) : x \in b.people}
      /\ p.paidBy = IF b.paidBy = <<>> THEN <<>> ELSE <<PersonAnswer(b.paidBy)>>
  <2>1. b.on
    BY DEF IsBill
  <2>2. On(b.event, DOMAIN lists.events) = b.event
    BY DEF IsBill, On
  <2> QED BY <2>1, <2>2 DEF BillAnswer
<1>2. event = b.event /\ new = b.newEvent
  BY <1>1 DEF IsBill, On, Verbatim
<1>3. ~plain
  <2>1. p # [NoPaper EXCEPT !.exclude = p.exclude]
    <3>1. [NoPaper EXCEPT !.exclude = p.exclude].split = ""
      BY DEF NoPaper
    <3> QED BY <1>1, <3>1
  <2> QED BY <1>1, <1>2, <2>1
<1>4. \A x \in b.people : PersonOf(PersonAnswer(x), event, more) = x /\ x # <<>>
  BY <1>2, PersonTwice DEF IsBill
<1>5. all = b.people
  <2>1. out = {} /\ ~(event # "" /\ p.people = {})
    BY <1>1, <1>2
  <2>2. {PersonOf(x, event, more) : x \in p.people} = b.people
    <3> DEFINE back(y) == PersonOf(y, event, more)
    <3>1. \A x \in b.people : back(PersonAnswer(x)) = x
      BY <1>4
    <3>2. p.people = {PersonAnswer(x) : x \in b.people}
      BY <1>1
    <3> HIDE DEF back, p
    <3>3. {back(y) : y \in p.people} = b.people
      <4>1. ASSUME NEW x \in b.people PROVE x \in {back(y) : y \in p.people}
        <5>1. PersonAnswer(x) \in p.people /\ back(PersonAnswer(x)) = x
          BY <3>1, <3>2
        <5> QED BY <5>1
      <4>2. ASSUME NEW y \in p.people PROVE back(y) \in b.people
        <5>1. PICK x \in b.people : y = PersonAnswer(x)
          BY <3>2
        <5> QED BY <3>1, <5>1
      <4> QED BY <4>1, <4>2
    <3> QED BY <3>3 DEF back
  <2>3. <<>> \notin b.people
    BY <1>4
  <2> QED BY <2>1, <2>2, <2>3
<1>6. payer = b.paidBy
  <2>1. CASE b.paidBy = <<>>
    BY <1>1, <2>1
  <2>2. CASE b.paidBy # <<>>
    <3>1. p.paidBy = <<PersonAnswer(b.paidBy)>>
      BY <1>1, <2>2
    <3>2. p.paidBy # <<>> /\ p.paidBy[1] = PersonAnswer(b.paidBy)
      <4>1. ASSUME NEW y, NEW z, z = <<y>> PROVE z # <<>> /\ z[1] = y
        <5>1. <<y>> # <<>>
          OBVIOUS
        <5>2. <<y>>[1] = y
          OBVIOUS
        <5> QED BY <4>1, <5>1, <5>2
      <4> HIDE DEF p
      <4> QED BY <3>1, <4>1
    <3>3. b.paidBy \in b.people
      BY <2>2 DEF IsBill
    <3> QED BY <1>4, <3>2, <3>3
  <2> QED BY <2>1, <2>2
<1>7. ~(event # "" /\ lists.events[event].done)
  BY <1>2 DEF IsBill
<1>8. PaperOf(p, more) = {bill}
  BY <1>3, <1>7 DEF PaperOf
<1>9. bill = b
  <2> HIDE DEF event, new, all, payer
  <2>1. OnTheBill(b.people, b.paidBy) = b.people
    BY DEF IsBill, OnTheBill
  <2>2. b = [on |-> TRUE, event |-> b.event, newEvent |-> b.newEvent, people |-> b.people, paidBy |-> b.paidBy]
    BY DEF IsBill
  <2> QED BY <1>2, <1>5, <1>6, <2>1, <2>2
<1> QED BY <1>8, <1>9

ItemFields == {"kind", "type", "amount", "desc", "date", "cat", "wallet", "to", "goal", "from", "spare", "act",
               "rule", "bill", "debt", "unsure"}

ItemShape(i) == i = [f \in ItemFields |-> i[f]]

\* Two items that say the same are the same.
LEMMA SameItem ==
  ASSUME NEW i, NEW j, ItemShape(i), ItemShape(j),
         i.kind = j.kind, i.type = j.type, i.amount = j.amount, i.desc = j.desc, i.date = j.date, i.cat = j.cat,
         i.wallet = j.wallet, i.to = j.to, i.goal = j.goal, i.from = j.from, i.spare = j.spare, i.act = j.act,
         i.rule = j.rule, i.bill = j.bill, i.debt = j.debt, i.unsure = j.unsure
  PROVE  i = j
<1>1. \A f \in ItemFields : i[f] = j[f]
  BY DEF ItemFields
<1> QED BY <1>1 DEF ItemShape

\* What an item may be unsure of.
Doubts == {"category", "goal", "amount"}

\* What the checks of an answer start from.
Start(a, words) ==
  [NoItem EXCEPT !.unsure = a.unsure \cap Doubts,
     !.desc = Verbatim(a.desc, words), !.date = IF a.date \in {"", "bad"} THEN Today ELSE a.date]

IsStart(it, a, words) ==
  /\ ItemShape(it) /\ it.kind = "create" /\ it.type = "" /\ it.amount = 0 /\ it.cat = "" /\ it.wallet = ""
  /\ it.to = "" /\ it.goal = "" /\ it.from = "" /\ it.spare = FALSE /\ it.act = "" /\ it.rule = ""
  /\ it.bill = NoBill /\ it.debt = NoDebt
  /\ it.date \notin {"", "bad"} /\ (a.date \notin {"", "bad"} => it.date = a.date)
  /\ it.desc = Verbatim(a.desc, words)
  /\ it.unsure \subseteq Doubts /\ (a.unsure \subseteq Doubts => it.unsure = a.unsure)

LEMMA StartIs == ASSUME NEW a, NEW words PROVE IsStart(Start(a, words), a, words)
<1> DEFINE u == a.unsure \cap Doubts
           d == Verbatim(a.desc, words)
           t == IF a.date \in {"", "bad"} THEN Today ELSE a.date
           b == NoItem.bill
           e == NoDebt
           new == [kind |-> "create", type |-> "", amount |-> 0, desc |-> d, date |-> t, cat |-> "",
                  wallet |-> "", to |-> "", goal |-> "", from |-> "", spare |-> FALSE, act |-> "", rule |-> "",
                  bill |-> b, debt |-> e, unsure |-> u]
<1>1. Start(a, words) = new
  <2>1. NoItem = [kind |-> "create", type |-> "", amount |-> 0, desc |-> "", date |-> Today, cat |-> "",
                  wallet |-> "", to |-> "", goal |-> "", from |-> "", spare |-> FALSE, act |-> "", rule |-> "",
                  bill |-> b, debt |-> e, unsure |-> {}]
    <3> DEFINE none == [on |-> FALSE, event |-> "", newEvent |-> "", people |-> {}, paidBy |-> <<>>]
    <3>1. NoItem = [kind |-> "create", type |-> "", amount |-> 0, desc |-> "", date |-> Today, cat |-> "",
                    wallet |-> "", to |-> "", goal |-> "", from |-> "", spare |-> FALSE, act |-> "", rule |-> "",
                    bill |-> none, debt |-> e, unsure |-> {}]
      BY Zenon DEF NoItem
    <3> HIDE DEF none, e
    <3>2. b = none
      BY <3>1
    <3> QED BY <3>1, <3>2, Zenon
  <2>2. Start(a, words) = [NoItem EXCEPT !.unsure = u, !.desc = d, !.date = t]
    BY Zenon DEF Start, Doubts
  <2> HIDE DEF u, d, t, b, e
  <2> QED BY <2>1, <2>2
<1>2. b = NoBill
  BY DEF NoBill
<1> HIDE DEF u, d, t, b, e
<1>3. /\ ItemShape(new) /\ new.unsure = u /\ new.desc = d /\ new.date = t
      /\ new.kind = "create" /\ new.type = "" /\ new.amount = 0 /\ new.cat = "" /\ new.wallet = "" /\ new.to = ""
      /\ new.goal = "" /\ new.from = "" /\ new.spare = FALSE /\ new.act = "" /\ new.rule = ""
      /\ new.bill = b /\ new.debt = e
  BY DEF ItemShape, ItemFields
<1> HIDE DEF new
<1>4. t \notin {"", "bad"} /\ (a.date \notin {"", "bad"} => t = a.date)
  BY DEF t, Today
<1>5. u \subseteq Doubts /\ (a.unsure \subseteq Doubts => u = a.unsure)
  BY DEF u
<1> QED BY <1>1, <1>2, <1>3, <1>4, <1>5, Zenon DEF d, e, IsStart

\* What is handed to the model of an item.
Handed(a, i) ==
  /\ a.kind = i.kind /\ a.type = i.type /\ a.amount = i.amount /\ a.desc = i.desc /\ a.date = i.date
  /\ a.cat = On(i.cat, DOMAIN lists.cats) /\ a.wallet = On(i.wallet, lists.wallets)
  /\ a.to = On(i.to, lists.wallets) /\ a.goal = (IF i.spare THEN SpareTo ELSE On(i.goal, lists.goals))
  /\ a.from = On(i.from, lists.goals) /\ a.act = i.act /\ a.rule = On(i.rule, DOMAIN lists.rules)
  /\ a.unsure = i.unsure /\ a.paper = BillAnswer(i.bill)
  /\ i.kind = "debt" =>
       /\ a.debt.contact = On(i.debt.contact, lists.contacts) /\ a.debt.side = i.debt.side
       /\ a.debt.money = i.debt.money
       /\ a.debt.name = (IF On(i.debt.contact, lists.contacts) = "" THEN i.debt.name ELSE "")

LEMMA ToAnswerIs == ASSUME NEW i PROVE Handed(ToAnswer(i), i)
<1> DEFINE c == On(i.cat, DOMAIN lists.cats)
           w == On(i.wallet, lists.wallets)
           t == On(i.to, lists.wallets)
           g == IF i.spare THEN SpareTo ELSE On(i.goal, lists.goals)
           f == On(i.from, lists.goals)
           r == On(i.rule, DOMAIN lists.rules)
           d == IF i.kind # "debt" THEN NoDebt
                ELSE [contact |-> On(i.debt.contact, lists.contacts), side |-> i.debt.side, money |-> i.debt.money,
                      name |-> IF On(i.debt.contact, lists.contacts) = "" THEN i.debt.name ELSE ""]
           p == BillAnswer(i.bill)
           b == [NoReply EXCEPT !.kind = i.kind, !.type = i.type, !.amount = i.amount, !.desc = i.desc, !.date = i.date,
                   !.cat = c, !.wallet = w, !.to = t, !.goal = g, !.from = f, !.act = i.act, !.rule = r,
                   !.unsure = i.unsure, !.debt = d, !.paper = p]
<1>1. ToAnswer(i) = b
  BY DEF ToAnswer, BillAnswer
<1> HIDE DEF c, w, t, g, f, r, d, p
<1>2. /\ b.kind = i.kind /\ b.type = i.type /\ b.amount = i.amount /\ b.desc = i.desc /\ b.date = i.date
      /\ b.cat = c /\ b.wallet = w /\ b.to = t /\ b.goal = g /\ b.from = f /\ b.act = i.act /\ b.rule = r
      /\ b.unsure = i.unsure /\ b.debt = d /\ b.paper = p
  BY DEF NoReply
<1> HIDE DEF b
<1>3. i.kind = "debt" => /\ d.contact = On(i.debt.contact, lists.contacts) /\ d.side = i.debt.side
                         /\ d.money = i.debt.money
                         /\ d.name = IF On(i.debt.contact, lists.contacts) = "" THEN i.debt.name ELSE ""
  BY DEF d
<1> QED BY <1>1, <1>2, <1>3, Zenon DEF c, w, t, g, f, r, p, Handed

\* The item of a purchase, field by field.
Purchase(it, type, amount, rule, unsure, group, desc, wallet, bill) ==
  [[it EXCEPT !.type = type, !.amount = amount, !.rule = rule, !.unsure = unsure, !.cat = group,
              !.desc = desc, !.wallet = wallet] EXCEPT !.bill = bill]

Put(j, it, type, amount, rule, unsure, group, desc, wallet, bill) ==
  /\ ItemShape(j) /\ j.type = type /\ j.amount = amount /\ j.rule = rule /\ j.unsure = unsure
  /\ j.cat = group /\ j.desc = desc /\ j.wallet = wallet /\ j.bill = bill
  /\ j.kind = it.kind /\ j.date = it.date /\ j.to = it.to /\ j.goal = it.goal /\ j.from = it.from
  /\ j.spare = it.spare /\ j.act = it.act /\ j.debt = it.debt

LEMMA BoughtPut ==
  ASSUME NEW it, ItemShape(it), NEW type, NEW amount, NEW rule, NEW unsure, NEW group, NEW desc, NEW wallet, NEW bill,
         NEW j, j = Purchase(it, type, amount, rule, unsure, group, desc, wallet, bill)
  PROVE  Put(j, it, type, amount, rule, unsure, group, desc, wallet, bill)
<1>1. DOMAIN it = ItemFields
  BY DEF ItemShape
<1>2. ItemShape(j)
  BY <1>1 DEF ItemShape, Purchase
<1>3. /\ j.type = type /\ j.amount = amount /\ j.rule = rule /\ j.unsure = unsure
      /\ j.cat = group /\ j.desc = desc /\ j.wallet = wallet /\ j.bill = bill
      /\ j.kind = it.kind /\ j.date = it.date /\ j.to = it.to /\ j.goal = it.goal /\ j.from = it.from
      /\ j.spare = it.spare /\ j.act = it.act /\ j.debt = it.debt
  BY <1>1 DEF ItemFields, Purchase
<1> QED BY <1>2, <1>3, Zenon DEF Put

\* Every item: what it is unsure of, a day, an amount in whole satangs.
Common(i) ==
  /\ ItemShape(i) /\ i.unsure \subseteq Doubts /\ i.date \notin {"", "bad"}
  /\ i.amount \in Nat /\ Rounded(i.amount) = i.amount

Ruled(i, f) == IF i.rule = "" THEN "" ELSE RuleOf(i.rule)[f]

\* A purchase, as the checks leave it.
IsBought(i) ==
  /\ Common(i) /\ i.kind = "create" /\ i.type \in {"expense", "income"}
  /\ i.to = "" /\ i.goal = "" /\ i.from = "" /\ i.spare = FALSE /\ i.act = "" /\ i.debt = NoDebt
  /\ i.rule # "" => i.rule \in DOMAIN lists.rules /\ RuleOf(i.rule).slot
  /\ Ruled(i, "type") \in {"expense", "income"} => i.type = Ruled(i, "type")
  /\ i.cat \in DOMAIN lists.cats \/ i.cat = Ruled(i, "cat")
  /\ i.cat = "" => Ruled(i, "cat") = ""
  /\ i.rule = "" /\ i.cat # "" => i.cat \in DOMAIN lists.cats /\ lists.cats[i.cat] = i.type
  /\ i.desc = "" => i.rule = ""
  /\ i.wallet \in lists.wallets \/ i.wallet = First("", Ruled(i, "wallet"), lists.main)
  /\ i.bill = NoBill \/ IsBill(i.bill)

LEMMA BoughtIs ==
  ASSUME Listing(lists), NEW a, a.amount \in Int, a.type \in {"expense", "income"}, NEW words,
         NEW i \in CreateOf(Start(a, words), a, words)
  PROVE  IsBought(i)
<1> DEFINE it     == Start(a, words)
           rule   == Tied(a)
           amount == IF Valid(a.amount) THEN Rounded(a.amount) ELSE IF rule # "" THEN RuleOf(rule).amount ELSE 0
           ruled(f) == IF rule = "" THEN "" ELSE RuleOf(rule)[f]
           group    == IF a.cat \in DOMAIN lists.cats /\ lists.cats[a.cat] = a.type THEN a.cat ELSE ""
           type   == IF ruled("type") \in {"expense", "income"} THEN ruled("type") ELSE a.type
           unsure == IF a.cat # "" /\ group = "" THEN it.unsure \cup {"category"} ELSE it.unsure
           cat2   == First(group, ruled("cat"), "")
           desc   == First(it.desc, rule, "")
           wallet == First(On(a.wallet, lists.wallets), ruled("wallet"), lists.main)
           made(b) == [[it EXCEPT !.type = type, !.amount = amount, !.rule = rule, !.unsure = unsure, !.cat = cat2,
                                  !.desc = desc, !.wallet = wallet] EXCEPT !.bill = b]
<1>0. IsStart(it, a, words)
  BY StartIs
<1>1. PICK b \in PaperOf(a.paper, words) : i = made(b)
  <2>1. made(0) = made(0) /\ \A b : made(b) = [[it EXCEPT !.type = type, !.amount = amount, !.rule = rule,
           !.unsure = IF a.cat # "" /\ group = "" THEN @ \cup {"category"} ELSE @, !.cat = cat2,
           !.desc = First(@, rule, ""), !.wallet = wallet] EXCEPT !.bill = b]
    <3> HIDE DEF it, group, rule, wallet, amount, type, cat2
    <3>1. DOMAIN it = ItemFields
      BY <1>0 DEF IsStart, ItemShape
    <3> QED BY <3>1 DEF ItemFields
  <2> QED BY <2>1 DEF CreateOf
<1>2. b = NoBill \/ IsBill(b)
  BY BillIs
<1>3. rule # "" => rule \in DOMAIN lists.rules /\ RuleOf(rule).slot
  BY DEF Tied
<1>4. amount \in Nat /\ Rounded(amount) = amount
  <2>1. CASE Valid(a.amount)
    BY <2>1, RoundedTwice
  <2>2. CASE ~Valid(a.amount) /\ rule # ""
    BY <1>3, <2>2 DEF Listing, RuleOf
  <2>3. Rounded(0) = 0
    BY DEF Rounded
  <2> QED BY <2>1, <2>2, <2>3
<1>5. /\ it.unsure \subseteq Doubts /\ it.date \notin {"", "bad"}
      /\ it.kind = "create" /\ it.to = "" /\ it.goal = "" /\ it.from = "" /\ it.spare = FALSE /\ it.act = ""
      /\ it.debt = NoDebt
  <2> HIDE DEF it
  <2> QED BY <1>0 DEF IsStart
<1>6. unsure \subseteq Doubts
  BY <1>5 DEF Doubts
<1>7. type \in {"expense", "income"} /\ (ruled("type") \in {"expense", "income"} => type = ruled("type"))
  OBVIOUS
<1>8. /\ cat2 \in DOMAIN lists.cats \/ cat2 = ruled("cat")
      /\ cat2 = "" => ruled("cat") = ""
      /\ rule = "" /\ cat2 # "" => cat2 \in DOMAIN lists.cats /\ lists.cats[cat2] = type
  BY DEF First
<1>9. desc = "" => rule = ""
  BY DEF First
<1>10. wallet \in lists.wallets \/ wallet = First("", ruled("wallet"), lists.main)
  BY DEF First, On
<1> HIDE DEF it, rule, amount, group, type, unsure, cat2, desc, wallet
<1>11. /\ ItemShape(i) /\ i.type = type /\ i.amount = amount /\ i.rule = rule /\ i.unsure = unsure
       /\ i.cat = cat2 /\ i.desc = desc /\ i.wallet = wallet /\ i.bill = b
       /\ i.kind = it.kind /\ i.date = it.date /\ i.to = it.to /\ i.goal = it.goal /\ i.from = it.from
       /\ i.spare = it.spare /\ i.act = it.act /\ i.debt = it.debt
  <2>1. i = Purchase(it, type, amount, rule, unsure, cat2, desc, wallet, b)
    BY <1>1 DEF Purchase
  <2>2. ItemShape(it)
    BY <1>0 DEF IsStart
  <2>3. Put(i, it, type, amount, rule, unsure, cat2, desc, wallet, b)
    BY <2>1, <2>2, BoughtPut
  <2> QED BY <2>3 DEF Put
<1>12. \A f : Ruled(i, f) = ruled(f)
  BY <1>11 DEF Ruled
<1> HIDE DEF ruled
<1>13. Common(i)
  BY <1>4, <1>5, <1>6, <1>11, Zenon DEF Common
<1> QED BY <1>2, <1>3, <1>5, <1>7, <1>8, <1>9, <1>10, <1>11, <1>12, <1>13 DEF IsBought

\* The texts of an item are the user's own when it is edited.
LEMMA OwnTexts ==
  ASSUME NEW i
  PROVE  /\ Verbatim(i.desc, OwnWords(i)) = i.desc
         /\ Verbatim(i.debt.name, OwnWords(i)) = i.debt.name
         /\ i.bill.newEvent = "" \/ i.bill.newEvent \in OwnWords(i)
         /\ \A x \in i.bill.people : x[2] # "" => x[2] \in OwnWords(i)
BY DEF OwnWords, Verbatim

\* No bill comes back as no bill.
LEMMA NoBillTwice == ASSUME NEW words PROVE PaperOf(BillAnswer(NoBill), words) = {NoBill}
<1>1. ~NoBill.on
  BY DEF NoBill, NoItem
<1>2. BillAnswer(NoBill) = NoPaper
  BY <1>1 DEF BillAnswer
<1>3. NoPaper = [NoPaper EXCEPT !.exclude = NoPaper.exclude]
  BY DEF NoPaper
<1> QED BY <1>2, <1>3, Zenon DEF PaperOf

\* The bill of an item comes back from the model as it was.
LEMMA ItemBillTwice ==
  ASSUME Listing(lists), NEW i, i.bill = NoBill \/ IsBill(i.bill), ~EmptiedBill(i)
  PROVE  PaperOf(BillAnswer(i.bill), OwnWords(i)) = {i.bill}
<1>1. CASE i.bill = NoBill
  BY <1>1, NoBillTwice, Zenon
<1>2. CASE IsBill(i.bill)
  <2>1. ASSUME NEW x \in i.bill.people PROVE x[2] \in OwnWords(i)
    <3>1. IsPerson(x, i.bill.event)
      BY <1>2 DEF IsBill
    <3>2. x[2] # ""
      <4>1. ASSUME NEW m, x = <<"member", m>>, i.bill.event # "", m \in lists.events[i.bill.event].members
            PROVE  x[2] # ""
        <5>1. i.bill.event \in DOMAIN lists.events
          BY <1>2, <4>1 DEF IsBill
        <5>2. m # ""
          BY <4>1, <5>1 DEF Listing
        <5>3. x = <<"member", m>>
          BY <4>1
        <5>4. x[2] = m
          BY <5>3
        <5> QED BY <5>2, <5>4
      <4>2. ASSUME NEW c \in lists.contacts, x = <<"contact", c>> PROVE x[2] # ""
        <5>1. c # ""
          BY DEF Listing
        <5>3. x = <<"contact", c>>
          BY <4>2
        <5>4. x[2] = c
          BY <5>3
        <5> QED BY <5>1, <5>4
      <4>3. ASSUME NEW n, x = <<"name", n>>, n # "" PROVE x[2] # ""
        <5>3. x = <<"name", n>>
          BY <4>3
        <5>4. x[2] = n
          BY <5>3
        <5> QED BY <4>3, <5>4
      <4> QED BY <3>1, <4>1, <4>2, <4>3 DEF IsPerson
    <3> QED BY <3>2, OwnTexts
  <2>2. i.bill.newEvent = "" \/ i.bill.newEvent \in OwnWords(i)
    BY OwnTexts
  <2>3. ~(i.bill.event # "" /\ i.bill.people = {})
    BY DEF EmptiedBill
  <2> QED BY <1>2, <2>1, <2>2, <2>3, BillTwice
<1> QED BY <1>1, <1>2

\* A purchase comes back as it was.
LEMMA BoughtTwice ==
  ASSUME Listing(lists), NEW i, IsBought(i), ~Lost(i), NEW a, a = ToAnswer(i)
  PROVE  CreateOf(Start(a, OwnWords(i)), a, OwnWords(i)) = {i}
<1> DEFINE more   == OwnWords(i)
           it     == Start(a, more)
           rule   == Tied(a)
           amount == IF Valid(a.amount) THEN Rounded(a.amount) ELSE IF rule # "" THEN RuleOf(rule).amount ELSE 0
           ruled(f) == IF rule = "" THEN "" ELSE RuleOf(rule)[f]
           group    == IF a.cat \in DOMAIN lists.cats /\ lists.cats[a.cat] = a.type THEN a.cat ELSE ""
           type   == IF ruled("type") \in {"expense", "income"} THEN ruled("type") ELSE a.type
           unsure == IF a.cat # "" /\ group = "" THEN it.unsure \cup {"category"} ELSE it.unsure
           cat2   == First(group, ruled("cat"), "")
           desc   == First(it.desc, rule, "")
           wallet == First(On(a.wallet, lists.wallets), ruled("wallet"), lists.main)
           made(b) == Purchase(it, type, amount, rule, unsure, cat2, desc, wallet, b)
<1>1. Handed(a, i) /\ IsStart(it, a, more)
  BY ToAnswerIs, StartIs
<1>2. Valid(a.amount) /\ amount = i.amount
  <2>1. i.amount \in Nat /\ Rounded(i.amount) = i.amount /\ i.amount # 0
    BY DEF IsBought, Common, Lost
  <2>2. a.amount = i.amount
    BY <1>1 DEF Handed
  <2>3. Valid(a.amount)
    BY <2>1, <2>2 DEF Valid
  <2> QED BY <2>1, <2>2, <2>3
<1>3. rule = i.rule
  <2>1. CASE i.rule = ""
    <3>1. a.rule = "" /\ "" \notin DOMAIN lists.rules
      BY <1>1, <2>1 DEF Handed, On, Listing
    <3> QED BY <2>1, <3>1 DEF Tied
  <2>2. CASE i.rule # ""
    <3>1. i.rule \in DOMAIN lists.rules /\ RuleOf(i.rule).slot
      BY <2>2 DEF IsBought
    <3>2. a.rule = i.rule /\ a.type = i.type
      BY <1>1, <3>1 DEF Handed, On
    <3>3. i.type \in {"expense", "income"}
      BY DEF IsBought
    <3> QED BY <3>1, <3>2, <3>3 DEF Tied
  <2> QED BY <2>1, <2>2
<1>4. \A f : ruled(f) = Ruled(i, f)
  BY <1>3 DEF Ruled
<1> HIDE DEF amount, rule, ruled, it
<1>5. a.type = i.type /\ a.cat = On(i.cat, DOMAIN lists.cats)
  BY <1>1 DEF Handed
<1>6. group = a.cat
  BY <1>3, <1>5 DEF IsBought, Lost, Crossed, On
<1>7. cat2 = i.cat
  <2>1. CASE i.cat \in DOMAIN lists.cats
    <3>1. i.cat # ""
      BY <2>1 DEF Listing
    <3> QED BY <1>5, <1>6, <2>1, <3>1 DEF On, First
  <2>2. CASE i.cat \notin DOMAIN lists.cats
    <3>1. group = "" /\ i.cat = ruled("cat")
      BY <1>4, <1>5, <1>6, <2>2 DEF On, IsBought
    <3> HIDE DEF group
    <3> QED BY <3>1 DEF First
  <2> QED BY <2>1, <2>2
<1>8. unsure = i.unsure
  <2>1. i.unsure \subseteq Doubts /\ a.unsure = i.unsure
    BY <1>1 DEF Handed, IsBought, Common
  <2>2. it.unsure = i.unsure
    BY <1>1, <2>1 DEF IsStart
  <2> HIDE DEF group
  <2> QED BY <1>6, <2>2
<1>9. type = i.type
  BY <1>4, <1>5 DEF IsBought
<1>10. desc = i.desc
  <2>1. it.desc = i.desc
    BY <1>1, OwnTexts DEF Handed, IsStart
  <2>2. i.desc = "" => i.rule = ""
    BY DEF IsBought
  <2> QED BY <1>3, <2>1, <2>2 DEF First
<1>11. wallet = i.wallet
  <2>1. a.wallet = On(i.wallet, lists.wallets)
    BY <1>1 DEF Handed
  <2>2. CASE i.wallet \in lists.wallets
    <3>1. i.wallet # ""
      BY <2>2 DEF Listing
    <3> QED BY <2>1, <2>2, <3>1 DEF On, First
  <2>3. CASE i.wallet \notin lists.wallets
    <3>1. On(a.wallet, lists.wallets) = ""
      BY <2>1, <2>3 DEF On
    <3>2. i.wallet = First("", ruled("wallet"), lists.main)
      BY <1>4, <2>3 DEF IsBought
    <3> QED BY <3>1, <3>2
  <2> QED BY <2>2, <2>3
<1>12. a.type \in {"expense", "income"}
  BY <1>5 DEF IsBought
<1>13. PaperOf(a.paper, more) = {i.bill}
  <2>1. a.paper = BillAnswer(i.bill)
    BY <1>1 DEF Handed
  <2>2. (i.bill = NoBill \/ IsBill(i.bill)) /\ ~EmptiedBill(i)
    BY DEF IsBought, Lost
  <2> QED BY <2>1, <2>2, ItemBillTwice
<1>14. CreateOf(it, a, more) = {made(b) : b \in PaperOf(a.paper, more)}
  <2>1. \A b : made(b) = [[it EXCEPT !.type = type, !.amount = amount, !.rule = rule,
           !.unsure = IF a.cat # "" /\ group = "" THEN @ \cup {"category"} ELSE @, !.cat = cat2,
           !.desc = First(@, rule, ""), !.wallet = wallet] EXCEPT !.bill = b]
    <3> HIDE DEF group, wallet, type, cat2
    <3>1. DOMAIN it = ItemFields
      BY <1>1 DEF IsStart, ItemShape
    <3> QED BY <3>1 DEF ItemFields, Purchase
  <2> HIDE DEF made
  <2> QED BY <1>2, <1>12, <2>1 DEF CreateOf, amount, rule, ruled
<1>15. made(i.bill) = i
  <2> DEFINE j == made(i.bill)
  <2>1. ItemShape(it)
    BY <1>1 DEF IsStart
  <2>2. j = Purchase(it, i.type, i.amount, i.rule, i.unsure, i.cat, i.desc, i.wallet, i.bill)
    BY <1>2, <1>3, <1>7, <1>8, <1>9, <1>10, <1>11, Zenon
  <2> HIDE DEF j
  <2>3. Put(j, it, i.type, i.amount, i.rule, i.unsure, i.cat, i.desc, i.wallet, i.bill)
    BY <2>1, <2>2, BoughtPut
  <2>4. /\ it.kind = i.kind /\ it.date = i.date /\ it.to = i.to /\ it.goal = i.goal /\ it.from = i.from
        /\ it.spare = i.spare /\ it.act = i.act /\ it.debt = i.debt
    <3>1. a.date = i.date
      BY <1>1 DEF Handed
    <3> QED BY <1>1, <3>1 DEF IsStart, IsBought, Common
  <2>5. ItemShape(i)
    BY DEF IsBought, Common
  <2>6. j = i
    BY <2>3, <2>4, <2>5, SameItem DEF Put
  <2> QED BY <2>6 DEF j
<1> HIDE DEF made
<1> QED BY <1>13, <1>14, <1>15 DEF it

\* A transfer, as the checks leave it.
IsTransfer(i) ==
  /\ Common(i) /\ i.kind = "create" /\ i.type = "transfer"
  /\ i.wallet \in lists.wallets \cup {""} /\ i.to \in lists.wallets \cup {""} /\ i.wallet # i.to
  /\ i.cat = "" /\ i.goal = "" /\ i.from = "" /\ i.spare = FALSE /\ i.act = "" /\ i.rule = ""
  /\ i.bill = NoBill /\ i.debt = NoDebt

\* The item of a transfer, field by field.
Transfer(it, amount, from, to) == [it EXCEPT !.type = "transfer", !.amount = amount, !.wallet = from, !.to = to]

TransferPut(j, it, amount, from, to) ==
  /\ ItemShape(j) /\ j.type = "transfer" /\ j.amount = amount /\ j.wallet = from /\ j.to = to
  /\ j.kind = it.kind /\ j.date = it.date /\ j.desc = it.desc /\ j.cat = it.cat /\ j.goal = it.goal
  /\ j.from = it.from /\ j.spare = it.spare /\ j.act = it.act /\ j.rule = it.rule /\ j.bill = it.bill
  /\ j.debt = it.debt /\ j.unsure = it.unsure

LEMMA TransferIsPut ==
  ASSUME NEW it, ItemShape(it), NEW amount, NEW from, NEW to
  PROVE  TransferPut(Transfer(it, amount, from, to), it, amount, from, to)
<1> DEFINE j == Transfer(it, amount, from, to)
<1>1. DOMAIN it = ItemFields
  BY DEF ItemShape
<1>2. ItemShape(j)
  BY <1>1 DEF ItemShape, Transfer
<1>3. /\ j.type = "transfer" /\ j.amount = amount /\ j.wallet = from /\ j.to = to
      /\ j.kind = it.kind /\ j.date = it.date /\ j.desc = it.desc /\ j.cat = it.cat /\ j.goal = it.goal
      /\ j.from = it.from /\ j.spare = it.spare /\ j.act = it.act /\ j.rule = it.rule /\ j.bill = it.bill
      /\ j.debt = it.debt /\ j.unsure = it.unsure
  BY <1>1 DEF ItemFields, Transfer
<1> HIDE DEF j
<1>4. TransferPut(j, it, amount, from, to)
  BY <1>2, <1>3, Zenon DEF TransferPut
<1> QED BY <1>4 DEF j

\* What is not a purchase is a transfer, or left out.
LEMMA TransferOf ==
  ASSUME NEW it, NEW a, a.type \notin {"expense", "income"}, NEW words
  PROVE  CreateOf(it, a, words) =
           IF Valid(a.amount) /\ a.type = "transfer" /\ On(a.wallet, lists.wallets) # On(a.to, lists.wallets)
           THEN {Transfer(it, Rounded(a.amount), On(a.wallet, lists.wallets), On(a.to, lists.wallets))} ELSE {}
<1>1. Tied(a) = ""
  BY DEF Tied
<1> QED BY <1>1 DEF CreateOf, Transfer

LEMMA TransferIs ==
  ASSUME Listing(lists), NEW a, a.amount \in Int, a.type \notin {"expense", "income"}, NEW words,
         NEW i \in CreateOf(Start(a, words), a, words)
  PROVE  IsTransfer(i)
<1> DEFINE it == Start(a, words)
           from == On(a.wallet, lists.wallets)
           to == On(a.to, lists.wallets)
<1>1. IsStart(it, a, words)
  BY StartIs
<1>2. Valid(a.amount) /\ from # to /\ i = Transfer(it, Rounded(a.amount), from, to)
  BY TransferOf
<1>3. from \in lists.wallets \cup {""} /\ to \in lists.wallets \cup {""}
  BY DEF On
<1>4. Rounded(a.amount) \in Nat /\ Rounded(Rounded(a.amount)) = Rounded(a.amount)
  BY <1>2, RoundedTwice
<1> HIDE DEF it, from, to
<1>5. TransferPut(i, it, Rounded(a.amount), from, to)
  BY <1>1, <1>2, TransferIsPut DEF IsStart
<1>6. Common(i)
  BY <1>1, <1>4, <1>5 DEF Common, TransferPut, IsStart
<1>7. i.wallet = from /\ i.to = to /\ i.type = "transfer"
  BY <1>5 DEF TransferPut
<1>8. /\ i.kind = "create" /\ i.cat = "" /\ i.goal = "" /\ i.from = "" /\ i.spare = FALSE /\ i.act = ""
      /\ i.rule = "" /\ i.bill = NoBill /\ i.debt = NoDebt
  BY <1>1, <1>5 DEF TransferPut, IsStart
<1> QED BY <1>2, <1>3, <1>6, <1>7, <1>8, Zenon DEF IsTransfer

\* A transfer comes back as it was.
LEMMA TransferTwice ==
  ASSUME Listing(lists), NEW i, IsTransfer(i), ~Lost(i), NEW a, a = ToAnswer(i)
  PROVE  CreateOf(Start(a, OwnWords(i)), a, OwnWords(i)) = {i}
<1> DEFINE it == Start(a, OwnWords(i))
<1>1. Handed(a, i) /\ IsStart(it, a, OwnWords(i))
  BY ToAnswerIs, StartIs
<1> HIDE DEF it
<1>2. /\ a.type = "transfer" /\ a.amount = i.amount /\ a.date = i.date /\ a.desc = i.desc /\ a.unsure = i.unsure
      /\ a.wallet = On(i.wallet, lists.wallets) /\ a.to = On(i.to, lists.wallets)
  BY <1>1 DEF Handed, IsTransfer
<1>3. On(a.wallet, lists.wallets) = i.wallet /\ On(a.to, lists.wallets) = i.to /\ i.wallet # i.to
  BY <1>2 DEF IsTransfer, On
<1>4. i.amount \in Nat /\ Rounded(i.amount) = i.amount /\ i.amount # 0
  BY DEF IsTransfer, Common, Lost
<1>5. Valid(a.amount) /\ Rounded(a.amount) = i.amount
  BY <1>2, <1>4 DEF Valid
<1> DEFINE j == Transfer(it, i.amount, i.wallet, i.to)
<1>6. CreateOf(it, a, OwnWords(i)) = {j}
  BY <1>2, <1>3, <1>5, TransferOf
<1>7. TransferPut(j, it, i.amount, i.wallet, i.to)
  BY <1>1, TransferIsPut DEF IsStart
<1> HIDE DEF j
<1>8. it.unsure = i.unsure /\ it.date = i.date /\ it.desc = i.desc
  BY <1>1, <1>2, OwnTexts DEF IsStart, IsTransfer, Common
<1>9. /\ it.kind = i.kind /\ it.cat = i.cat /\ it.goal = i.goal /\ it.from = i.from
      /\ it.spare = i.spare /\ it.act = i.act /\ it.debt = i.debt /\ it.rule = i.rule /\ it.bill = i.bill
      /\ i.type = "transfer" /\ ItemShape(i)
  BY <1>1 DEF IsStart, IsTransfer, Common
<1>10. j = i
  BY <1>7, <1>8, <1>9, SameItem DEF TransferPut
<1> QED BY <1>6, <1>10 DEF it

\* The wallet of a saving: the one that is named, or the only one there is.
TheWallet == IF Cardinality(lists.wallets) = 1 THEN CHOOSE w \in lists.wallets : TRUE ELSE ""
WalletOf(v) == First(On(v, lists.wallets), TheWallet, "")

\* When an answer is a saving at all, and what each field of the item then is.
SavingTaken(a) ==
  /\ Valid(a.amount)
  /\ \/ a.act \in {"save", "withdraw"}
     \/ a.act = "allocate" /\ GoalOf(a.goal).id # ""
     \/ /\ a.act = "move" /\ GoalOf(a.from).id # "" /\ GoalOf(a.goal).id # GoalOf(a.from).id
        /\ GoalOf(a.goal).id # "" \/ GoalOf(a.goal).spare

SavingPut(j, it, a) ==
  /\ ItemShape(j) /\ j.kind = "saving" /\ j.type = "saving" /\ j.amount = Rounded(a.amount) /\ j.act = a.act
  /\ j.wallet = (IF a.act \in {"save", "withdraw"} THEN WalletOf(a.wallet) ELSE it.wallet)
  /\ j.goal = (IF a.act = "withdraw" THEN it.goal ELSE GoalOf(a.goal).id)
  /\ j.from = (IF a.act \in {"move", "withdraw"} THEN GoalOf(a.from).id ELSE it.from)
  /\ j.spare = (IF a.act = "move" THEN GoalOf(a.goal).spare ELSE it.spare)
  /\ j.unsure = (IF a.act = "save" /\ GoalOf(a.goal).named /\ GoalOf(a.goal).id = "" /\ ~GoalOf(a.goal).spare
                 THEN it.unsure \cup {"goal"} ELSE it.unsure)
  /\ j.date = it.date /\ j.desc = it.desc /\ j.cat = it.cat /\ j.to = it.to /\ j.rule = it.rule
  /\ j.bill = it.bill /\ j.debt = it.debt

LEMMA SavingOfIs ==
  ASSUME NEW it, ItemShape(it), NEW a
  PROVE  IF SavingTaken(a) THEN \E j : SavingOf(it, a) = {j} /\ SavingPut(j, it, a) ELSE SavingOf(it, a) = {}
<1> DEFINE pot == GoalOf(a.goal)
           from == GoalOf(a.from)
           wallet == WalletOf(a.wallet)
           amount == Rounded(a.amount)
           base == [it EXCEPT !.kind = "saving", !.type = "saving", !.amount = amount, !.act = a.act]
           unsure == IF pot.named /\ pot.id = "" /\ ~pot.spare THEN it.unsure \cup {"goal"} ELSE it.unsure
           save == [base EXCEPT !.wallet = wallet, !.goal = pot.id, !.unsure = unsure]
           allocate == [base EXCEPT !.goal = pot.id]
           move == [base EXCEPT !.from = from.id, !.goal = pot.id, !.spare = pot.spare]
           withdraw == [base EXCEPT !.wallet = wallet, !.from = from.id]
<1>1. DOMAIN it = ItemFields
  BY DEF ItemShape
<1> HIDE DEF amount, pot, from, wallet
<1>2. /\ ItemShape(base) /\ base.kind = "saving" /\ base.type = "saving" /\ base.amount = amount /\ base.act = a.act
      /\ base.wallet = it.wallet /\ base.goal = it.goal /\ base.from = it.from /\ base.spare = it.spare
      /\ base.unsure = it.unsure /\ base.date = it.date /\ base.desc = it.desc /\ base.cat = it.cat
      /\ base.to = it.to /\ base.rule = it.rule /\ base.bill = it.bill /\ base.debt = it.debt
  <2>1. ItemShape(base)
    BY <1>1 DEF ItemShape
  <2> QED BY <1>1, <2>1 DEF ItemFields
<1> HIDE DEF base, unsure
<1>3. DOMAIN base = ItemFields
  BY <1>2 DEF ItemShape
<1>4. CASE ~Valid(a.amount)
  <2>1. SavingOf(it, a) = {}
    BY <1>4 DEF SavingOf
  <2> QED BY <1>4, <2>1 DEF SavingTaken
<1>5. CASE Valid(a.amount) /\ a.act = "save"
  <2>1. SavingOf(it, a) = {save}
    <3>1. SavingOf(it, a) = {[base EXCEPT !.wallet = wallet, !.goal = pot.id,
                 !.unsure = IF pot.named /\ pot.id = "" /\ ~pot.spare THEN @ \cup {"goal"} ELSE @]}
      BY <1>5 DEF SavingOf, base, amount, pot, wallet, WalletOf, TheWallet
    <3>2. base.unsure = it.unsure
      BY <1>2
    <3> QED BY <1>3, <3>1, <3>2 DEF unsure, ItemFields
  <2>2. ItemShape(save)
    BY <1>3 DEF ItemShape
  <2>3. /\ save.wallet = wallet /\ save.goal = pot.id /\ save.unsure = unsure
        /\ save.kind = base.kind /\ save.type = base.type /\ save.amount = base.amount /\ save.act = base.act
        /\ save.from = base.from /\ save.spare = base.spare /\ save.date = base.date /\ save.desc = base.desc
        /\ save.cat = base.cat /\ save.to = base.to /\ save.rule = base.rule /\ save.bill = base.bill
        /\ save.debt = base.debt
    BY <1>3 DEF ItemFields
  <2> HIDE DEF save
  <2>4. SavingPut(save, it, a)
    BY <1>2, <1>5, <2>2, <2>3 DEF SavingPut, unsure, amount, pot, from, wallet
  <2>5. SavingTaken(a)
    BY <1>5 DEF SavingTaken
  <2> QED BY <2>1, <2>4, <2>5
<1>6. CASE Valid(a.amount) /\ a.act = "allocate"
  <2>1. SavingOf(it, a) = IF pot.id = "" THEN {} ELSE {allocate}
    BY <1>6 DEF SavingOf, base, amount, pot
  <2>2. ItemShape(allocate)
    BY <1>3 DEF ItemShape
  <2>3. /\ allocate.wallet = base.wallet /\ allocate.goal = pot.id /\ allocate.unsure = base.unsure
        /\ allocate.kind = base.kind /\ allocate.type = base.type /\ allocate.amount = base.amount
        /\ allocate.act = base.act /\ allocate.from = base.from /\ allocate.spare = base.spare
        /\ allocate.date = base.date /\ allocate.desc = base.desc /\ allocate.cat = base.cat
        /\ allocate.to = base.to /\ allocate.rule = base.rule /\ allocate.bill = base.bill /\ allocate.debt = base.debt
    BY <1>3 DEF ItemFields
  <2> HIDE DEF allocate
  <2>4. SavingPut(allocate, it, a)
    BY <1>2, <1>6, <2>2, <2>3 DEF SavingPut, amount, pot
  <2>5. SavingTaken(a) <=> pot.id # ""
    BY <1>6 DEF SavingTaken, pot
  <2> QED BY <2>1, <2>4, <2>5
<1>7. CASE Valid(a.amount) /\ a.act = "move"
  <2>1. SavingOf(it, a) = IF from.id = "" \/ (pot.id = "" /\ ~pot.spare) \/ pot.id = from.id THEN {} ELSE {move}
    BY <1>7 DEF SavingOf, base, amount, pot, from
  <2>2. ItemShape(move)
    BY <1>3 DEF ItemShape
  <2>3. /\ move.wallet = base.wallet /\ move.goal = pot.id /\ move.unsure = base.unsure
        /\ move.kind = base.kind /\ move.type = base.type /\ move.amount = base.amount /\ move.act = base.act
        /\ move.from = from.id /\ move.spare = pot.spare /\ move.date = base.date /\ move.desc = base.desc
        /\ move.cat = base.cat /\ move.to = base.to /\ move.rule = base.rule /\ move.bill = base.bill
        /\ move.debt = base.debt
    BY <1>3 DEF ItemFields
  <2> HIDE DEF move
  <2>4. SavingPut(move, it, a)
    BY <1>2, <1>7, <2>2, <2>3 DEF SavingPut, amount, pot, from
  <2>5. SavingTaken(a) <=> ~(from.id = "" \/ (pot.id = "" /\ ~pot.spare) \/ pot.id = from.id)
    BY <1>7 DEF SavingTaken, pot, from
  <2> QED BY <2>1, <2>4, <2>5
<1>8. CASE Valid(a.amount) /\ a.act = "withdraw"
  <2>1. SavingOf(it, a) = {withdraw}
    BY <1>8 DEF SavingOf, base, amount, from, wallet, WalletOf, TheWallet
  <2>2. ItemShape(withdraw)
    BY <1>3 DEF ItemShape
  <2>3. /\ withdraw.wallet = wallet /\ withdraw.goal = base.goal /\ withdraw.unsure = base.unsure
        /\ withdraw.kind = base.kind /\ withdraw.type = base.type /\ withdraw.amount = base.amount
        /\ withdraw.act = base.act /\ withdraw.from = from.id /\ withdraw.spare = base.spare
        /\ withdraw.date = base.date /\ withdraw.desc = base.desc /\ withdraw.cat = base.cat
        /\ withdraw.to = base.to /\ withdraw.rule = base.rule /\ withdraw.bill = base.bill /\ withdraw.debt = base.debt
    BY <1>3 DEF ItemFields
  <2> HIDE DEF withdraw
  <2>4. SavingPut(withdraw, it, a)
    BY <1>2, <1>8, <2>2, <2>3 DEF SavingPut, amount, from, wallet
  <2>5. SavingTaken(a)
    BY <1>8 DEF SavingTaken
  <2> QED BY <2>1, <2>4, <2>5
<1>9. CASE Valid(a.amount) /\ a.act \notin {"save", "allocate", "move", "withdraw"}
  <2>1. SavingOf(it, a) = {}
    BY <1>9 DEF SavingOf
  <2> QED BY <1>9, <2>1 DEF SavingTaken
<1> QED BY <1>4, <1>5, <1>6, <1>7, <1>8, <1>9

\* A saving, as the checks leave it.
IsSaving(i) ==
  /\ Common(i) /\ i.kind = "saving" /\ i.type = "saving" /\ i.cat = "" /\ i.to = "" /\ i.rule = ""
  /\ i.bill = NoBill /\ i.debt = NoDebt
  /\ i.goal \in lists.goals \cup {""} /\ i.from \in lists.goals \cup {""} /\ i.spare \in BOOLEAN
  /\ \/ i.act = "save" /\ i.wallet = WalletOf(i.wallet) /\ i.from = "" /\ ~i.spare
     \/ i.act = "allocate" /\ i.wallet = "" /\ i.goal # "" /\ i.from = "" /\ ~i.spare
     \/ i.act = "move" /\ i.wallet = "" /\ i.from # "" /\ i.goal # i.from /\ (i.goal = "" <=> i.spare)
     \/ i.act = "withdraw" /\ i.wallet = WalletOf(i.wallet) /\ i.goal = "" /\ ~i.spare

\* What a goal of an answer is.
LEMMA GoalOfIs ==
  ASSUME Listing(lists), NEW v
  PROVE  LET g == GoalOf(v)
         IN /\ g.id \in lists.goals \cup {""} /\ g.spare \in BOOLEAN /\ (g.spare => g.id = "")
            /\ (g.spare <=> v = SpareTo) /\ (g.named <=> v # "") /\ g.id = On(v, lists.goals)
<1>1. GoalOf(v).id = On(v, lists.goals) /\ (GoalOf(v).spare <=> v = SpareTo) /\ (GoalOf(v).named <=> v # "")
  BY DEF GoalOf
<1>2. GoalOf(v).spare \in BOOLEAN
  BY DEF GoalOf
<1>3. On(v, lists.goals) \in lists.goals \cup {""} /\ (v = SpareTo => On(v, lists.goals) = "")
  BY DEF On, Listing
<1> QED BY <1>1, <1>2, <1>3

\* A wallet that was found is found again.
LEMMA WalletTwice ==
  ASSUME Listing(lists), NEW v
  PROVE  WalletOf(WalletOf(v)) = WalletOf(v) /\ WalletOf(On(WalletOf(v), lists.wallets)) = WalletOf(v)
<1>1. "" \notin lists.wallets
  BY DEF Listing
<1> QED BY <1>1 DEF WalletOf, On, First

LEMMA SavingIs ==
  ASSUME Listing(lists), NEW a, a.amount \in Int, NEW words, NEW i \in SavingOf(Start(a, words), a)
  PROVE  IsSaving(i)
<1> DEFINE it == Start(a, words)
           pot == GoalOf(a.goal)
           from == GoalOf(a.from)
<1>1. IsStart(it, a, words)
  BY StartIs
<1> HIDE DEF it
<1>2. SavingTaken(a) /\ SavingPut(i, it, a)
  <2>1. ItemShape(it)
    BY <1>1 DEF IsStart
  <2>2. i \in SavingOf(it, a)
    BY DEF it
  <2> QED BY <2>1, <2>2, SavingOfIs
<1>3. Valid(a.amount)
  BY <1>2 DEF SavingTaken
<1>4. Rounded(a.amount) \in Nat /\ Rounded(Rounded(a.amount)) = Rounded(a.amount)
  BY <1>3, RoundedTwice
<1>5. i.unsure \subseteq Doubts
  BY <1>1, <1>2 DEF IsStart, SavingPut, Doubts
<1>6. Common(i)
  BY <1>1, <1>2, <1>4, <1>5 DEF Common, SavingPut, IsStart
<1>7. /\ i.kind = "saving" /\ i.type = "saving" /\ i.act = a.act /\ i.cat = "" /\ i.to = "" /\ i.rule = ""
      /\ i.bill = NoBill /\ i.debt = NoDebt
  BY <1>1, <1>2 DEF SavingPut, IsStart
<1>8. /\ i.wallet = (IF a.act \in {"save", "withdraw"} THEN WalletOf(a.wallet) ELSE "")
      /\ i.goal = (IF a.act = "withdraw" THEN "" ELSE pot.id)
      /\ i.from = (IF a.act \in {"move", "withdraw"} THEN from.id ELSE "")
  BY <1>1, <1>2 DEF SavingPut, IsStart
<1>9. i.spare = (IF a.act = "move" THEN pot.spare ELSE FALSE)
  BY <1>1, <1>2 DEF SavingPut, IsStart
<1>10. /\ pot.id \in lists.goals \cup {""} /\ pot.spare \in BOOLEAN /\ (pot.spare => pot.id = "")
       /\ from.id \in lists.goals \cup {""}
  BY GoalOfIs
<1>11. /\ i.goal \in lists.goals \cup {""} /\ i.from \in lists.goals \cup {""} /\ i.spare \in BOOLEAN
  BY <1>8, <1>9, <1>10
<1>12. WalletOf(WalletOf(a.wallet)) = WalletOf(a.wallet)
  BY WalletTwice
<1> HIDE DEF pot, from
<1>13. CASE a.act = "save"
  BY <1>6, <1>7, <1>8, <1>9, <1>11, <1>12, <1>13 DEF IsSaving
<1>14. CASE a.act = "withdraw"
  BY <1>6, <1>7, <1>8, <1>9, <1>11, <1>12, <1>14 DEF IsSaving
<1>15. CASE a.act = "allocate"
  <2>1. pot.id # ""
    BY <1>2, <1>15 DEF SavingTaken, pot
  <2> QED BY <1>6, <1>7, <1>8, <1>9, <1>11, <1>15, <2>1 DEF IsSaving
<1>16. CASE a.act = "move"
  <2>1. from.id # "" /\ pot.id # from.id /\ (pot.id # "" \/ pot.spare)
    BY <1>2, <1>16 DEF SavingTaken, pot, from
  <2> QED BY <1>6, <1>7, <1>8, <1>9, <1>10, <1>11, <1>16, <2>1 DEF IsSaving
<1> QED BY <1>2, <1>13, <1>14, <1>15, <1>16 DEF SavingTaken

\* A saving comes back as it was.
LEMMA SavingTwice ==
  ASSUME Listing(lists), NEW i, IsSaving(i), ~Lost(i), NEW a, a = ToAnswer(i)
  PROVE  SavingOf(Start(a, OwnWords(i)), a) = {i}
<1> DEFINE it == Start(a, OwnWords(i))
<1>1. Handed(a, i) /\ IsStart(it, a, OwnWords(i))
  BY ToAnswerIs, StartIs
<1> HIDE DEF it
<1>2. /\ a.amount = i.amount /\ a.date = i.date /\ a.desc = i.desc /\ a.unsure = i.unsure /\ a.act = i.act
      /\ a.wallet = On(i.wallet, lists.wallets) /\ a.goal = (IF i.spare THEN SpareTo ELSE On(i.goal, lists.goals))
      /\ a.from = On(i.from, lists.goals)
  BY <1>1 DEF Handed
<1>3. i.amount \in Nat /\ Rounded(i.amount) = i.amount /\ i.amount # 0
  BY DEF IsSaving, Common, Lost
<1>4. Valid(a.amount) /\ Rounded(a.amount) = i.amount
  BY <1>2, <1>3 DEF Valid
<1>5. SpareTo \notin lists.goals /\ "" \notin lists.goals /\ SpareTo # ""
  BY DEF Listing, SpareTo
<1>6. GoalOf(a.from).id = i.from
  <2>1. On(a.from, lists.goals) = i.from
    BY <1>2, <1>5 DEF IsSaving, On
  <2> QED BY <2>1, GoalOfIs
<1>7. (GoalOf(a.goal).spare <=> i.spare) /\ GoalOf(a.goal).spare \in BOOLEAN
  <2>1. a.goal = SpareTo <=> i.spare
    BY <1>2, <1>5 DEF On
  <2> QED BY <2>1, GoalOfIs
<1>8. GoalOf(a.goal).id = i.goal
  <2>1. i.spare => i.goal = ""
    BY DEF IsSaving
  <2>2. On(a.goal, lists.goals) = i.goal
    BY <1>2, <1>5, <2>1 DEF IsSaving, On
  <2> QED BY <2>2, GoalOfIs
<1>9. GoalOf(a.goal).named => i.goal # "" \/ i.spare
  BY <1>2, <1>5, GoalOfIs DEF On
<1>10. SavingTaken(a)
  BY <1>2, <1>4, <1>6, <1>7, <1>8 DEF SavingTaken, IsSaving
<1>11. PICK j : SavingOf(it, a) = {j} /\ SavingPut(j, it, a)
  <2>1. ItemShape(it)
    BY <1>1 DEF IsStart
  <2> QED BY <1>10, <2>1, SavingOfIs
<1>12. it.unsure = i.unsure /\ it.date = i.date /\ it.desc = i.desc
  BY <1>1, <1>2, OwnTexts DEF IsStart, IsSaving, Common
<1>13. /\ it.cat = i.cat /\ it.to = i.to /\ it.debt = i.debt /\ it.rule = i.rule /\ it.bill = i.bill
       /\ i.type = "saving" /\ i.kind = "saving" /\ ItemShape(i)
       /\ it.wallet = "" /\ it.goal = "" /\ it.from = "" /\ it.spare = FALSE
  BY <1>1 DEF IsStart, IsSaving, Common
<1>14. j.wallet = i.wallet
  <2>1. CASE i.act \in {"save", "withdraw"}
    <3>1. i.wallet = WalletOf(i.wallet)
      BY <2>1 DEF IsSaving
    <3>2. WalletOf(a.wallet) = i.wallet
      BY <1>2, <3>1, WalletTwice
    <3> QED BY <1>2, <1>11, <2>1, <3>2 DEF SavingPut
  <2>2. CASE i.act \notin {"save", "withdraw"}
    <3>1. i.wallet = ""
      BY <2>2 DEF IsSaving
    <3> QED BY <1>2, <1>11, <1>13, <2>2, <3>1 DEF SavingPut
  <2> QED BY <2>1, <2>2
<1>15. j.goal = i.goal /\ j.from = i.from
  BY <1>2, <1>6, <1>8, <1>11, <1>13 DEF SavingPut, IsSaving
<1>16. j.spare = i.spare
  <2>1. CASE i.act = "move"
    BY <1>2, <1>7, <1>11, <2>1 DEF SavingPut, IsSaving
  <2>2. CASE i.act # "move"
    BY <1>2, <1>11, <1>13, <2>2 DEF SavingPut, IsSaving
  <2> QED BY <2>1, <2>2
<1>17. j.unsure = i.unsure
  <2>1. ~(a.act = "save" /\ GoalOf(a.goal).named /\ GoalOf(a.goal).id = "" /\ ~GoalOf(a.goal).spare)
    BY <1>7, <1>8, <1>9
  <2> QED BY <1>11, <1>12, <2>1 DEF SavingPut
<1>18. j = i
  BY <1>2, <1>4, <1>11, <1>12, <1>13, <1>14, <1>15, <1>16, <1>17, SameItem DEF SavingPut
<1> QED BY <1>11, <1>18 DEF it

\* A debt, as the checks leave it.
IsDebt(i) ==
  /\ Common(i) /\ i.kind = "debt" /\ i.type = "" /\ i.desc = "" /\ i.cat = "" /\ i.to = "" /\ i.goal = ""
  /\ i.from = "" /\ i.spare = FALSE /\ i.act = "" /\ i.rule = "" /\ i.bill = NoBill
  /\ i.debt = [contact |-> i.debt.contact, name |-> i.debt.name, money |-> i.debt.money, side |-> i.debt.side]
  /\ i.debt.contact \in lists.contacts \cup {""} /\ i.debt.side \in Sides
  /\ IF i.debt.contact = "" THEN i.debt.name \notin lists.contacts ELSE i.debt.name = i.debt.contact
  /\ i.wallet = IF i.debt.money THEN First(On(i.wallet, lists.wallets), lists.main, "") ELSE ""

\* The item of a debt, field by field.
Debt(it, amount, wallet, debt) ==
  [it EXCEPT !.kind = "debt", !.desc = "", !.amount = amount, !.wallet = wallet, !.debt = debt]

DebtPut(j, it, amount, wallet, debt) ==
  /\ ItemShape(j) /\ j.kind = "debt" /\ j.desc = "" /\ j.amount = amount /\ j.wallet = wallet /\ j.debt = debt
  /\ j.type = it.type /\ j.date = it.date /\ j.cat = it.cat /\ j.to = it.to /\ j.goal = it.goal
  /\ j.from = it.from /\ j.spare = it.spare /\ j.act = it.act /\ j.rule = it.rule /\ j.bill = it.bill
  /\ j.unsure = it.unsure

LEMMA DebtIsPut ==
  ASSUME NEW it, ItemShape(it), NEW amount, NEW wallet, NEW debt
  PROVE  DebtPut(Debt(it, amount, wallet, debt), it, amount, wallet, debt)
<1> DEFINE j == Debt(it, amount, wallet, debt)
<1>1. DOMAIN it = ItemFields
  BY DEF ItemShape
<1>2. ItemShape(j)
  BY <1>1 DEF ItemShape, Debt
<1>3. /\ j.kind = "debt" /\ j.desc = "" /\ j.amount = amount /\ j.wallet = wallet /\ j.debt = debt
      /\ j.type = it.type /\ j.date = it.date /\ j.cat = it.cat /\ j.to = it.to /\ j.goal = it.goal
      /\ j.from = it.from /\ j.spare = it.spare /\ j.act = it.act /\ j.rule = it.rule /\ j.bill = it.bill
      /\ j.unsure = it.unsure
  BY <1>1 DEF ItemFields, Debt
<1> HIDE DEF j
<1>4. DebtPut(j, it, amount, wallet, debt)
  BY <1>2, <1>3, Zenon DEF DebtPut
<1> QED BY <1>4 DEF j

\* Who a debt is with, and with what wallet.
TheContact(a, words) == First(On(a.debt.contact, lists.contacts), On(Verbatim(a.debt.name, words), lists.contacts), "")
TheName(a, words)    == First(TheContact(a, words), Verbatim(a.debt.name, words), "")
TheDebt(a, words, says) ==
  [contact |-> TheContact(a, words), name |-> TheName(a, words), money |-> a.debt.money,
   side |-> BorrowSide(says, TheName(a, words), a.debt.side)]
DebtWallet(a) == IF a.debt.money THEN First(On(a.wallet, lists.wallets), lists.main, "") ELSE ""

LEMMA DebtOfIs ==
  ASSUME NEW it, NEW a, NEW words, NEW says
  PROVE  DebtOf(it, a, words, says) =
           IF Valid(a.amount) /\ a.debt.side \in Sides
           THEN {Debt(it, Rounded(a.amount), DebtWallet(a), TheDebt(a, words, says))} ELSE {}
BY Zenon DEF DebtOf, Debt, DebtWallet, TheDebt, TheContact, TheName

LEMMA DebtIs ==
  ASSUME Listing(lists), NEW a, a.amount \in Int, NEW words, NEW says,
         NEW i \in DebtOf(Start(a, words), a, words, says)
  PROVE  IsDebt(i)
<1> DEFINE it == Start(a, words)
           debt == TheDebt(a, words, says)
           wallet == DebtWallet(a)
<1>1. IsStart(it, a, words)
  BY StartIs
<1>2. Valid(a.amount) /\ a.debt.side \in Sides /\ i = Debt(it, Rounded(a.amount), wallet, debt)
  BY DebtOfIs
<1>3. Rounded(a.amount) \in Nat /\ Rounded(Rounded(a.amount)) = Rounded(a.amount)
  BY <1>2, RoundedTwice
<1>4. /\ debt.contact = TheContact(a, words) /\ debt.name = TheName(a, words) /\ debt.money = a.debt.money
      /\ debt.side = BorrowSide(says, TheName(a, words), a.debt.side)
      /\ debt = [contact |-> debt.contact, name |-> debt.name, money |-> debt.money, side |-> debt.side]
  BY DEF TheDebt
<1>5. debt.contact \in lists.contacts \cup {""}
  BY <1>4 DEF TheContact, First, On
<1>6. IF debt.contact = "" THEN debt.name \notin lists.contacts ELSE debt.name = debt.contact
  <2>1. "" \notin lists.contacts
    BY DEF Listing
  <2>2. CASE debt.contact # ""
    BY <1>4, <2>2 DEF TheName, First
  <2>3. CASE debt.contact = ""
    <3>1. On(Verbatim(a.debt.name, words), lists.contacts) = ""
      BY <1>4, <2>3 DEF TheContact, First
    <3>2. Verbatim(a.debt.name, words) \notin lists.contacts
      BY <2>1, <3>1 DEF On
    <3>3. TheName(a, words) \in {Verbatim(a.debt.name, words), ""}
      BY <1>4, <2>3 DEF TheName, First
    <3> QED BY <1>4, <2>1, <2>3, <3>2, <3>3
  <2> QED BY <2>2, <2>3
<1>7. debt.side \in Sides
  BY <1>2, <1>4 DEF BorrowSide, Sides
<1>8. wallet = IF debt.money THEN First(On(wallet, lists.wallets), lists.main, "") ELSE ""
  <2>1. lists.main \in lists.wallets \cup {""} /\ "" \notin lists.wallets
    BY DEF Listing
  <2> QED BY <1>4, <2>1 DEF DebtWallet, First, On
<1> HIDE DEF it, debt, wallet
<1>9. DebtPut(i, it, Rounded(a.amount), wallet, debt)
  BY <1>1, <1>2, DebtIsPut DEF IsStart
<1>10. Common(i)
  BY <1>1, <1>3, <1>9 DEF Common, DebtPut, IsStart
<1>11. /\ i.kind = "debt" /\ i.type = "" /\ i.desc = "" /\ i.cat = "" /\ i.to = "" /\ i.goal = ""
       /\ i.from = "" /\ i.spare = FALSE /\ i.act = "" /\ i.rule = "" /\ i.bill = NoBill
  BY <1>1, <1>9 DEF DebtPut, IsStart
<1>12. i.debt = debt /\ i.wallet = wallet
  BY <1>9 DEF DebtPut
<1> QED BY <1>4, <1>5, <1>6, <1>7, <1>8, <1>10, <1>11, <1>12, Zenon DEF IsDebt

\* A debt comes back as it was.
LEMMA DebtTwice ==
  ASSUME Listing(lists), NEW i, IsDebt(i), ~Lost(i), NEW a, a = ToAnswer(i)
  PROVE  DebtOf(Start(a, OwnWords(i)), a, OwnWords(i), "") = {i}
<1> DEFINE more == OwnWords(i)
           it == Start(a, more)
<1>1. Handed(a, i) /\ IsStart(it, a, more)
  BY ToAnswerIs, StartIs
<1> HIDE DEF it
<1>2. a.amount = i.amount /\ a.date = i.date /\ a.unsure = i.unsure /\ a.wallet = On(i.wallet, lists.wallets)
  BY <1>1 DEF Handed
<1>3. i.amount \in Nat /\ Rounded(i.amount) = i.amount /\ i.amount # 0
  BY DEF IsDebt, Common, Lost
<1>4. Valid(a.amount) /\ Rounded(a.amount) = i.amount
  BY <1>2, <1>3 DEF Valid
<1>5. "" \notin lists.contacts
  BY DEF Listing
<1>6. a.debt.contact = i.debt.contact
  BY <1>1, <1>5 DEF Handed, IsDebt, On
<1>7. a.debt.side = i.debt.side /\ a.debt.money = i.debt.money
  BY <1>1 DEF Handed, IsDebt
<1>8. a.debt.name = IF i.debt.contact = "" THEN i.debt.name ELSE ""
  BY <1>1, <1>5 DEF Handed, IsDebt, On
<1>9. TheContact(a, more) = i.debt.contact /\ TheName(a, more) = i.debt.name
  <2>1. CASE i.debt.contact = ""
    <3>1. Verbatim(a.debt.name, more) = i.debt.name
      BY <1>8, <2>1, OwnTexts
    <3>2. i.debt.name \notin lists.contacts
      BY <2>1 DEF IsDebt
    <3> QED BY <1>5, <1>6, <2>1, <3>1, <3>2 DEF TheContact, TheName, First, On
  <2>2. CASE i.debt.contact # ""
    <3>1. i.debt.contact \in lists.contacts /\ i.debt.name = i.debt.contact
      BY <2>2 DEF IsDebt
    <3> QED BY <1>6, <2>2, <3>1 DEF TheContact, TheName, First, On
  <2> QED BY <2>1, <2>2
<1>10. TheDebt(a, more, "") = i.debt
  <2>1. BorrowSide("", TheName(a, more), a.debt.side) = i.debt.side
    BY <1>7 DEF BorrowSide
  <2> QED BY <1>7, <1>9, <2>1, Zenon DEF TheDebt, IsDebt
<1>11. DebtWallet(a) = i.wallet
  <2>1. On(a.wallet, lists.wallets) = On(i.wallet, lists.wallets)
    BY <1>2 DEF On
  <2> QED BY <1>7, <2>1, Zenon DEF DebtWallet, IsDebt
<1> DEFINE j == Debt(it, i.amount, i.wallet, i.debt)
<1>12. DebtOf(it, a, more, "") = {j}
  <2>1. a.debt.side \in Sides
    BY <1>7 DEF IsDebt
  <2> QED BY <1>4, <1>10, <1>11, <2>1, DebtOfIs
<1>13. DebtPut(j, it, i.amount, i.wallet, i.debt)
  BY <1>1, DebtIsPut DEF IsStart
<1> HIDE DEF j
<1>14. it.unsure = i.unsure /\ it.date = i.date
  BY <1>1, <1>2 DEF IsStart, IsDebt, Common
<1>15. /\ it.type = i.type /\ it.cat = i.cat /\ it.to = i.to /\ it.goal = i.goal /\ it.from = i.from
       /\ it.spare = i.spare /\ it.act = i.act /\ it.rule = i.rule /\ it.bill = i.bill
       /\ i.kind = "debt" /\ i.desc = "" /\ ItemShape(i)
  BY <1>1 DEF IsStart, IsDebt, Common
<1>16. j = i
  BY <1>13, <1>14, <1>15, SameItem DEF DebtPut
<1> QED BY <1>12, <1>16 DEF it

\* Whatever the checks let through.
IsItem(i) == IsBought(i) \/ IsTransfer(i) \/ IsSaving(i) \/ IsDebt(i)

LEMMA CheckIs ==
  ASSUME Listing(lists), NEW a, a.amount \in Int, NEW words, NEW says, NEW i \in Check(a, words, says)
  PROVE  IsItem(i)
<1> DEFINE it == Start(a, words)
<1>1. \/ i \in SavingOf(it, a) \/ i \in DebtOf(it, a, words, says) \/ i \in CreateOf(it, a, words)
  BY Zenon DEF Check, Start, Doubts
<1> QED BY <1>1, SavingIs, DebtIs, BoughtIs, TransferIs DEF IsItem

\* One item at most.
LEMMA CheckIsOne ==
  ASSUME NEW a, NEW words, NEW says
  PROVE  \E i : Check(a, words, says) \subseteq {i}
<1> DEFINE it == Start(a, words)
<1>1. \E i : SavingOf(it, a) \subseteq {i}
  <2>1. IsStart(it, a, words)
    BY StartIs
  <2>2. ItemShape(it)
    BY <2>1 DEF IsStart
  <2> HIDE DEF it
  <2> QED BY <2>2, SavingOfIs
<1>2. \E i : DebtOf(it, a, words, says) \subseteq {i}
  BY DebtOfIs
<1>3. \E i : CreateOf(it, a, words) \subseteq {i}
  <2>1. CASE a.type \notin {"expense", "income"}
    BY <2>1, TransferOf
  <2>2. CASE a.type \in {"expense", "income"}
    <3>1. PICK b : PaperOf(a.paper, words) \subseteq {b}
      BY Zenon DEF PaperOf
    <3> DEFINE rule == Tied(a)
               amount == IF Valid(a.amount) THEN Rounded(a.amount) ELSE IF rule # "" THEN RuleOf(rule).amount ELSE 0
               ruled(f) == IF rule = "" THEN "" ELSE RuleOf(rule)[f]
               group == IF a.cat \in DOMAIN lists.cats /\ lists.cats[a.cat] = a.type THEN a.cat ELSE ""
               e == [it EXCEPT !.type = IF ruled("type") \in {"expense", "income"} THEN ruled("type") ELSE a.type,
                       !.amount = amount, !.rule = rule,
                       !.unsure = IF a.cat # "" /\ group = "" THEN @ \cup {"category"} ELSE @,
                       !.cat = First(group, ruled("cat"), ""), !.desc = First(@, rule, ""),
                       !.wallet = First(On(a.wallet, lists.wallets), ruled("wallet"), lists.main)]
    <3>2. \/ CreateOf(it, a, words) = {}
          \/ CreateOf(it, a, words) = {[e EXCEPT !.bill = x] : x \in PaperOf(a.paper, words)}
      BY <2>2 DEF CreateOf
    <3> HIDE DEF e, it
    <3>3. {[e EXCEPT !.bill = x] : x \in PaperOf(a.paper, words)} \subseteq {[e EXCEPT !.bill = b]}
      BY <3>1
    <3> QED BY <3>2, <3>3
  <2> QED BY <2>1, <2>2
<1>4. Check(a, words, says) \in {SavingOf(it, a), DebtOf(it, a, words, says), CreateOf(it, a, words), {}}
  BY DEF Check, Start, Doubts
<1> HIDE DEF it
<1> QED BY <1>1, <1>2, <1>3, <1>4

\* Handed to the model and answered unchanged, an item is the item it was.
LEMMA ItemTwice ==
  ASSUME Listing(lists), NEW i, IsItem(i), ~Lost(i)
  PROVE  Check(ToAnswer(i), OwnWords(i), "") = {i}
<1> DEFINE a == ToAnswer(i)
           it == Start(a, OwnWords(i))
<1>1. a.kind = i.kind
  BY ToAnswerIs DEF Handed
<1>2. Check(a, OwnWords(i), "") =
        CASE a.kind = "saving" -> SavingOf(it, a)
          [] a.kind \in {"debt", "settle_debt"} -> DebtOf(it, a, OwnWords(i), "")
          [] a.kind \in {"create", ""} -> CreateOf(it, a, OwnWords(i))
          [] OTHER -> {}
  BY Zenon DEF Check, Start, Doubts
<1>3. CASE IsBought(i) \/ IsTransfer(i)
  <2>1. CreateOf(it, a, OwnWords(i)) = {i}
    BY <1>3, BoughtTwice, TransferTwice
  <2>2. a.kind = "create"
    BY <1>1, <1>3 DEF IsBought, IsTransfer
  <2> HIDE DEF it, a
  <2>3. Check(a, OwnWords(i), "") = {i}
    BY <1>2, <2>1, <2>2
  <2> QED BY <2>3 DEF a
<1>4. CASE IsSaving(i)
  <2>1. SavingOf(it, a) = {i}
    BY <1>4, SavingTwice
  <2>2. a.kind = "saving"
    BY <1>1, <1>4 DEF IsSaving
  <2> HIDE DEF it, a
  <2>3. Check(a, OwnWords(i), "") = {i}
    BY <1>2, <2>1, <2>2
  <2> QED BY <2>3 DEF a
<1>5. CASE IsDebt(i)
  <2>1. DebtOf(it, a, OwnWords(i), "") = {i}
    BY <1>5, DebtTwice
  <2>2. a.kind = "debt"
    BY <1>1, <1>5 DEF IsDebt
  <2> HIDE DEF it, a
  <2>3. Check(a, OwnWords(i), "") = {i}
    BY <1>2, <2>1, <2>2
  <2> QED BY <2>3 DEF a
<1> QED BY <1>3, <1>4, <1>5 DEF IsItem

\* An item holds what is the user's.
LEMMA ItemIsSound ==
  ASSUME Listing(lists), NEW i, IsItem(i), ~Lost(i)
  PROVE  Sound(i)
<1>1. i.kind = "create" /\ i.cat \in DOMAIN lists.cats => lists.cats[i.cat] = i.type
  <2>1. "" \notin DOMAIN lists.cats
    BY DEF Listing
  <2>2. CASE IsBought(i)
    BY <2>1, <2>2 DEF IsBought, Lost, Crossed
  <2>3. CASE ~IsBought(i)
    BY <2>1, <2>3 DEF IsItem, IsTransfer, IsSaving, IsDebt
  <2> QED BY <2>2, <2>3
<1>2. i.type = "transfer" => i.wallet # i.to
  BY DEF IsItem, IsBought, IsTransfer, IsSaving, IsDebt
<1>3. i.act = "move" => i.from \in lists.goals /\ (i.goal # i.from) /\ (i.goal = "" <=> i.spare)
  BY DEF IsItem, IsBought, IsTransfer, IsSaving, IsDebt
<1>4. i.bill = NoBill \/ IsBill(i.bill)
  BY DEF IsItem, IsBought, IsTransfer, IsSaving, IsDebt
<1>5. i.bill.on => /\ i.bill.paidBy # <<>> => i.bill.paidBy \in i.bill.people
                   /\ i.bill.event # "" => ~lists.events[i.bill.event].done
  <2>1. ~NoBill.on
    BY DEF NoBill, NoItem
  <2> QED BY <1>4, <2>1 DEF IsBill
<1>6. ASSUME NEW x \in i.bill.people, x[1] = "member"
      PROVE  i.bill.event # "" /\ x[2] \in lists.events[i.bill.event].members
  <2>1. NoBill.people = {}
    BY DEF NoBill, NoItem
  <2>2. IsPerson(x, i.bill.event)
    BY <1>4, <2>1 DEF IsBill
  <2>3. ASSUME NEW m, x = <<"member", m>>, i.bill.event # "", m \in lists.events[i.bill.event].members
        PROVE  i.bill.event # "" /\ x[2] \in lists.events[i.bill.event].members
    <3>1. x = <<"member", m>>
      BY <2>3
    <3>2. x[2] = m
      BY <3>1
    <3> QED BY <2>3, <3>2
  <2>4. ASSUME NEW c, x = <<"contact", c>> PROVE FALSE
    <3>1. x = <<"contact", c>>
      BY <2>4
    <3>2. x[1] = "contact"
      BY <3>1
    <3> QED BY <1>6, <3>2
  <2>5. ASSUME NEW n, x = <<"name", n>> PROVE FALSE
    <3>1. x = <<"name", n>>
      BY <2>5
    <3>2. x[1] = "name"
      BY <3>1
    <3> QED BY <1>6, <3>2
  <2> QED BY <2>2, <2>3, <2>4, <2>5 DEF IsPerson
<1> QED BY <1>1, <1>2, <1>3, <1>5, <1>6 DEF Sound

\* The card holds one item at most, as the checks leave it.
AnswersInv ==
  /\ Listing(lists) /\ heard.edit \in BOOLEAN
  /\ \E i : held \subseteq {i}
  /\ \A i \in held : IsItem(i)

LEMMA AnswersSafe == AnswersInv => EchoKeepsTheItem
<1> SUFFICES ASSUME AnswersInv PROVE EchoKeepsTheItem
  OBVIOUS
<1>1. Cardinality(held) <= 1
  <2>1. PICK i : held \subseteq {i}
    BY DEF AnswersInv
  <2>2. held = {} \/ held = {i}
    BY <2>1
  <2>3. Cardinality({}) = 0 /\ Cardinality({i}) = 1
    BY FS_EmptySet, FS_Singleton
  <2> QED BY <2>2, <2>3
<1>2. AnswersTypeOK
  BY <1>1 DEF AnswersInv, AnswersTypeOK
<1>3. \A i \in held : ~Lost(i) => Sound(i) /\ Check(ToAnswer(i), OwnWords(i), "") = {i}
  BY ItemIsSound, ItemTwice DEF AnswersInv
<1> QED BY <1>2, <1>3 DEF EchoKeepsTheItem

LEMMA AnswersStart == AnswersInit => AnswersInv
BY AnswerLists DEF AnswersInit, AnswersInv

\* What an item is speaks of the lists alone.
LEMMA ItemsStay == ASSUME UNCHANGED lists, NEW i, IsItem(i) PROVE IsItem(i)'
BY DEF IsItem, IsBought, IsTransfer, IsSaving, IsDebt, Ruled, RuleOf, IsBill, IsPerson, WalletOf, TheWallet

LEMMA AnswersKept == AnswersInv /\ [AnswersNext]_answerVars => AnswersInv'
<1> SUFFICES ASSUME AnswersInv, [AnswersNext]_answerVars PROVE AnswersInv'
  OBVIOUS
<1>1. CASE UNCHANGED answerVars
  <2>1. UNCHANGED lists /\ held' = held /\ heard' = heard
    BY <1>1 DEF answerVars
  <2> QED BY <2>1, ItemsStay DEF AnswersInv, Listing
<1>2. ASSUME NEW a, a.amount \in Int, NEW words, NEW says, held' = Check(a, words, says), heard'.edit \in BOOLEAN,
             UNCHANGED lists
      PROVE  AnswersInv'
  <2>1. \E i : held' \subseteq {i}
    BY <1>2, CheckIsOne
  <2>2. Listing(lists) /\ \A i \in held' : IsItem(i)
    BY <1>2, CheckIs DEF AnswersInv
  <2>3. \A i \in held' : IsItem(i)'
    BY <1>2, <2>2, ItemsStay
  <2>4. Listing(lists)'
    BY <1>2, <2>2 DEF Listing
  <2> QED BY <1>2, <2>1, <2>3, <2>4 DEF AnswersInv
<1>3. CASE Answer
  <2>1. PICK r \in Replies : heard' = [a |-> r.a, edit |-> FALSE] /\ held' = Check(r.a, r.words, r.says)
    BY <1>3 DEF Answer
  <2>2. UNCHANGED lists
    BY <1>3 DEF Answer
  <2>3. heard'.edit \in BOOLEAN
    BY <2>1
  <2> QED BY <1>2, <2>1, <2>2, <2>3, AnswerAmounts
<1>4. CASE EchoedEdit
  <2>1. PICK i \in held : heard' = [a |-> ToAnswer(i), edit |-> TRUE] /\ held' = Check(ToAnswer(i), OwnWords(i), "")
    BY <1>4 DEF EchoedEdit
  <2>2. UNCHANGED lists
    BY <1>4 DEF EchoedEdit
  <2>3. heard'.edit \in BOOLEAN
    BY <2>1
  <2>4. ToAnswer(i).amount = i.amount
    BY ToAnswerIs DEF Handed
  <2>5. i.amount \in Int
    <3>1. IsItem(i)
      BY DEF AnswersInv
    <3>2. Common(i)
      BY <3>1 DEF IsItem, IsBought, IsTransfer, IsSaving, IsDebt
    <3>3. i.amount \in Nat
      BY <3>2, Zenon DEF Common
    <3> QED BY <3>3
  <2> QED BY <1>2, <2>1, <2>2, <2>3, <2>4, <2>5
<1> QED BY <1>1, <1>3, <1>4 DEF AnswersNext

\* A card handed to the model and answered unchanged stays the card it was, for any lists and answers.
THEOREM CardsStay == Spec => []AnswersHold
<1>1. HomeInit => AnswersInv
  BY AnswersStart DEF HomeInit
<1>2. [HomeNext]_homeVars => [AnswersNext]_answerVars
  BY DEF HomeNext, homeVars, answerVars
<1>3. AnswersInv => AnswersHold
  BY AnswersSafe DEF AnswersHold
<1> QED
  BY <1>1, <1>2, <1>3, AnswersKept, PTL DEF Spec

-----------------------------------------------------------------------------
(* The tree of the categories: what is above each of them.                 *)

\* What is above a root.
Top == ""

Trees == [CatIds -> CatIds \cup {Top}]

\* Above a category is its parent, and nothing is above nothing.
LEMMA AboveDef ==
  ASSUME NEW up, NEW c
  PROVE  Above(up, c) = IF c = Top THEN Top ELSE up[c]
BY DEF Above, Top

\* The recursive definition, as the choice it stands for.
LEMMA ChainUnfold ==
  ASSUME NEW up, NEW c
  PROVE  Chain(up, c) = CHOOSE at : at = [n \in 0..8 |-> IF n = 0 THEN c ELSE Above(up, at[n - 1])]
BY DEF Chain, MaxHops

\* The walk up exists, as far as it goes.
LEMMA ChainIs ==
  ASSUME NEW up, NEW c
  PROVE  /\ Chain(up, c)[0] = c
         /\ \A n \in 1..8 : Chain(up, c)[n] = Above(up, Chain(up, c)[n - 1])
<1> DEFINE a1 == Above(up, c)
           a2 == Above(up, a1)
           a3 == Above(up, a2)
           a4 == Above(up, a3)
           a5 == Above(up, a4)
           a6 == Above(up, a5)
           a7 == Above(up, a6)
           a8 == Above(up, a7)
           g == [n \in 0..8 |-> IF n = 0 THEN c ELSE IF n = 1 THEN a1 ELSE IF n = 2 THEN a2 ELSE IF n = 3 THEN a3
                                ELSE IF n = 4 THEN a4 ELSE IF n = 5 THEN a5 ELSE IF n = 6 THEN a6 ELSE IF n = 7 THEN a7 ELSE a8]
           walk(at) == at = [n \in 0..8 |-> IF n = 0 THEN c ELSE Above(up, at[n - 1])]
<1>1. /\ a1 = Above(up, c)  /\ a2 = Above(up, a1) /\ a3 = Above(up, a2) /\ a4 = Above(up, a3) /\ a5 = Above(up, a4)
      /\ a6 = Above(up, a5) /\ a7 = Above(up, a6) /\ a8 = Above(up, a7)
  OBVIOUS
<1> HIDE DEF a1, a2, a3, a4, a5, a6, a7, a8
<1>2. \A n \in 0..8 : g[n] = IF n = 0 THEN c ELSE Above(up, g[n - 1])
  <2> TAKE n \in 0..8
  <2>1. CASE n = 0
    BY <2>1
  <2>2. CASE n \in 1..4
    BY <1>1, <2>2
  <2>3. CASE n \in 5..8
    BY <1>1, <2>3
  <2> QED BY <2>1, <2>2, <2>3
<1>3. walk(g)
  BY <1>2
<1>4. Chain(up, c) = CHOOSE at : walk(at)
  BY ChainUnfold
<1> HIDE DEF walk
<1>5. walk(Chain(up, c))
  BY <1>3, <1>4
<1>6. \A n \in 0..8 : Chain(up, c)[n] = IF n = 0 THEN c ELSE Above(up, Chain(up, c)[n - 1])
  BY <1>5 DEF walk
<1> QED BY <1>6

\* What is above one is one of them, or nothing.
LEMMA AboveIs ==
  ASSUME NEW up \in Trees, NEW c \in CatIds \cup {Top}
  PROVE  Above(up, c) \in CatIds \cup {Top}
BY AboveDef DEF Trees

\* The first steps of the walk.
LEMMA ChainStarts ==
  ASSUME NEW up, NEW c
  PROVE  /\ Chain(up, c)[0] = c
         /\ Chain(up, c)[1] = Above(up, c)
         /\ Chain(up, c)[2] = Above(up, Above(up, c))
         /\ Chain(up, c)[3] = Above(up, Above(up, Above(up, c)))
BY ChainIs

\* A walk that has ended stays there.
LEMMA ChainEnds ==
  ASSUME NEW up, NEW c, NEW m \in 0..8, Chain(up, c)[m] = Top, NEW n \in m..8
  PROVE  Chain(up, c)[n] = Top
<1> DEFINE T == {k \in m..8 : Chain(up, c)[k] # Top}
<1>1. T = {}
  <2> SUFFICES ASSUME T # {} PROVE FALSE
    OBVIOUS
  <2>1. PICK x \in T : \A y \in T : x <= y
    <3>1. T \subseteq Nat
      OBVIOUS
    <3> HIDE DEF T
    <3> QED BY <3>1, NatLeast
  <2>2. x # m /\ x \in m..8
    OBVIOUS
  <2>3. x - 1 \in m..8 /\ x - 1 \notin T /\ x \in 1..8
    BY <2>1, <2>2
  <2>4. Chain(up, c)[x - 1] = Top
    BY <2>3
  <2>5. Chain(up, c)[x] = Top
    BY <2>3, <2>4, ChainIs, AboveDef
  <2> QED BY <2>5
<1> QED BY <1>1

\* A walk stays among the categories.
LEMMA ChainStays ==
  ASSUME NEW up \in Trees, NEW c \in CatIds \cup {Top}, NEW n \in 0..8
  PROVE  Chain(up, c)[n] \in CatIds \cup {Top}
<1> DEFINE T == {k \in 0..8 : Chain(up, c)[k] \notin CatIds \cup {Top}}
<1>1. T = {}
  <2> SUFFICES ASSUME T # {} PROVE FALSE
    OBVIOUS
  <2>1. PICK x \in T : \A y \in T : x <= y
    <3>1. T \subseteq Nat
      OBVIOUS
    <3> HIDE DEF T
    <3> QED BY <3>1, NatLeast
  <2>2. x # 0 /\ x \in 0..8
    BY ChainIs
  <2>3. x - 1 \in 0..8 /\ x - 1 \notin T /\ x \in 1..8
    BY <2>1, <2>2
  <2>4. Chain(up, c)[x - 1] \in CatIds \cup {Top}
    BY <2>3
  <2>5. Chain(up, c)[x] \in CatIds \cup {Top}
    BY <2>3, <2>4, ChainIs, AboveIs
  <2> QED BY <2>5
<1> QED BY <1>1

\* The levels down to a category, by where the walk ends.
LEMMA LevelIs ==
  ASSUME NEW up, NEW c
  PROVE  /\ Level(up, c) = 0 <=> c = Top
         /\ Level(up, c) <= 1 <=> Above(up, c) = Top
         /\ Level(up, c) <= 2 <=> Above(up, Above(up, c)) = Top
         /\ Level(up, c) <= 3 <=> Above(up, Above(up, Above(up, c))) = Top
         /\ Level(up, c) \in Nat
<1> DEFINE S == {n \in 0..3 : Chain(up, c)[n] # Top}
           k == IF c = Top THEN 0 ELSE IF Above(up, c) = Top THEN 1 ELSE IF Above(up, Above(up, c)) = Top THEN 2
                ELSE IF Above(up, Above(up, Above(up, c))) = Top THEN 3 ELSE 4
<1>1. Level(up, c) = Cardinality(S)
  BY DEF Level, maxDepth, Top
<1>2. S = 0..(k - 1)
  <2>1. /\ c = Top => Above(up, c) = Top
        /\ Above(up, c) = Top => Above(up, Above(up, c)) = Top
        /\ Above(up, Above(up, c)) = Top => Above(up, Above(up, Above(up, c))) = Top
    BY AboveDef
  <2>2. \A n \in 0..3 : Chain(up, c)[n] # Top <=> n < k
    <3> TAKE n \in 0..3
    <3>1. CASE n = 0
      BY <3>1, <2>1, ChainStarts
    <3>2. CASE n = 1
      BY <3>2, <2>1, ChainStarts
    <3>3. CASE n = 2
      BY <3>3, <2>1, ChainStarts
    <3>4. CASE n = 3
      BY <3>4, <2>1, ChainStarts
    <3> QED BY <3>1, <3>2, <3>3, <3>4
  <2>3. k \in 0..4
    OBVIOUS
  <2> HIDE DEF k
  <2> QED BY <2>2, <2>3
<1>3. Cardinality(S) = k
  <2>1. k \in 0..4 /\ 0 \in Int /\ k - 1 \in Int
    OBVIOUS
  <2>2. Cardinality(0..(k - 1)) = IF 0 > k - 1 THEN 0 ELSE (k - 1) - 0 + 1
    <3> HIDE DEF k
    <3> QED BY <2>1, FS_Interval
  <2> HIDE DEF k
  <2>3. (IF 0 > k - 1 THEN 0 ELSE (k - 1) - 0 + 1) = k
    BY <2>1
  <2> HIDE DEF S
  <2> QED BY <1>2, <2>2, <2>3
<1>4. Level(up, c) = k
  BY <1>1, <1>3
<1>5. /\ c = Top => Above(up, c) = Top
      /\ Above(up, c) = Top => Above(up, Above(up, c)) = Top
      /\ Above(up, Above(up, c)) = Top => Above(up, Above(up, Above(up, c))) = Top
  BY AboveDef
<1> HIDE DEF S
<1> QED BY <1>4, <1>5

-----------------------------------------------------------------------------
(* Trees of three levels.                                                  *)

ThreeLevels(up) == \A c \in CatIds : Above(up, Above(up, Above(up, c))) = Top

\* A category that goes to where one above it is, or to the top, takes nobody deeper.
LEMMA Shortcut ==
  ASSUME Top \notin CatIds, NEW u \in Trees, ThreeLevels(u), NEW v \in Trees,
         \A x \in CatIds : v[x] \in {u[x], Above(u, u[x]), Top}
  PROVE  ThreeLevels(v)
<1> SUFFICES ASSUME NEW c \in CatIds PROVE Above(v, Above(v, Above(v, c))) = Top
  BY DEF ThreeLevels
<1> DEFINE a1 == Above(u, c)
           a2 == Above(u, a1)
           b1 == Above(v, c)
           b2 == Above(v, b1)
           b3 == Above(v, b2)
<1>0. /\ \A x : Above(u, x) = IF x = Top THEN Top ELSE u[x]
      /\ \A x : Above(v, x) = IF x = Top THEN Top ELSE v[x]
  BY AboveDef
<1>1. Above(u, a2) = Top /\ Above(u, Top) = Top /\ Above(v, Top) = Top
  BY <1>0 DEF ThreeLevels
<1>2. \A x \in CatIds : Above(v, x) \in {Above(u, x), Above(u, Above(u, x)), Top}
  BY <1>0
<1>3. a1 \in CatIds \cup {Top} /\ a2 \in CatIds \cup {Top}
  BY AboveIs
<1>4. b1 \in {a1, a2, Top}
  BY <1>2
<1> HIDE DEF a2
<1>5. b2 \in {a2, Top}
  <2>1. CASE b1 = Top
    BY <2>1, <1>1
  <2>2. CASE b1 = a1 /\ a1 # Top
    <3>1. a1 \in CatIds
      BY <2>2, <1>3
    <3>2. Above(u, a1) = a2
      BY DEF a2
    <3>3. Above(v, a1) \in {a2, Above(u, a2), Top}
      BY <3>1, <3>2, <1>2
    <3> QED BY <3>3, <1>1, <2>2
  <2>3. CASE b1 = a2 /\ a2 # Top
    <3>1. a2 \in CatIds
      BY <2>3, <1>3
    <3>2. Above(v, a2) \in {Top, Above(u, Top)}
      BY <3>1, <1>1, <1>2
    <3> QED BY <3>2, <1>1, <2>3
  <2> QED BY <2>1, <2>2, <2>3, <1>4
<1>6. b3 = Top
  <2>1. CASE b2 = Top
    BY <2>1, <1>1
  <2>2. CASE b2 = a2 /\ a2 # Top
    <3>1. a2 \in CatIds
      BY <2>2, <1>3
    <3>2. Above(v, a2) \in {Top, Above(u, Top)}
      BY <3>1, <1>1, <1>2
    <3> QED BY <3>2, <1>1, <2>2
  <2> QED BY <2>1, <2>2, <1>5
<1> QED BY <1>6

\* In a tree nobody is above themselves.
LEMMA NoCycle ==
  ASSUME Top \notin CatIds, NEW u \in Trees, ThreeLevels(u), NEW c \in CatIds
  PROVE  u[c] # c /\ Above(u, u[c]) # c
<1>1. Above(u, c) = u[c]
  BY AboveDef
<1>2. Above(u, Above(u, Above(u, c))) = Top /\ c # Top
  BY DEF ThreeLevels
<1>3. Above(u, Top) = Top
  BY AboveDef
<1>4. CASE u[c] = c
  BY <1>1, <1>2, <1>4
<1>5. CASE Above(u, u[c]) = c
  BY <1>1, <1>2, <1>3, <1>5
<1> QED BY <1>4, <1>5

\* Two new leaves, each put where three levels are kept, keep them together.
LEMMA TwoLeaves ==
  ASSUME Top \notin CatIds, NEW u \in Trees, NEW c \in CatIds, NEW d \in CatIds, c # d,
         NEW x \in CatIds \cup {Top}, NEW y \in CatIds \cup {Top}, x # c, x # d, y # c, y # d,
         \A z \in CatIds : u[z] # c /\ u[z] # d,
         ThreeLevels([u EXCEPT ![c] = x]), ThreeLevels([u EXCEPT ![d] = y])
  PROVE  ThreeLevels([u EXCEPT ![c] = x, ![d] = y])
<1> DEFINE v == [u EXCEPT ![c] = x]
           w == [u EXCEPT ![d] = y]
           b == [u EXCEPT ![c] = x, ![d] = y]
<1>1. v \in Trees /\ w \in Trees /\ b \in Trees
  BY DEF Trees
<1>2. /\ \A z \in CatIds \ {c} : v[z] = u[z]
      /\ \A z \in CatIds \ {d} : w[z] = u[z]
      /\ \A z \in CatIds \ {c, d} : b[z] = u[z]
      /\ v[c] = x /\ w[d] = y /\ b[c] = x /\ b[d] = y
  BY DEF Trees
<1>3. ThreeLevels(v) /\ ThreeLevels(w)
  OBVIOUS
<1> HIDE DEF v, w, b
<1>4. /\ \A z : Above(v, z) = IF z = Top THEN Top ELSE v[z]
      /\ \A z : Above(w, z) = IF z = Top THEN Top ELSE w[z]
      /\ \A z : Above(b, z) = IF z = Top THEN Top ELSE b[z]
  BY AboveDef
<1> DEFINE Old == (CatIds \cup {Top}) \ {c, d}
<1>5. ASSUME NEW z \in Old PROVE Above(v, z) \in Old /\ Above(w, z) = Above(v, z) /\ Above(b, z) = Above(v, z)
  BY <1>1, <1>2, <1>4 DEF Trees
<1>6. ASSUME NEW z \in CatIds PROVE Above(b, z) \in Old /\ (z # d => Above(b, z) = Above(v, z)) /\ (z = d => Above(b, z) = Above(w, z))
  <2>1. CASE z = c
    BY <2>1, <1>2, <1>4
  <2>2. CASE z = d
    BY <2>2, <1>2, <1>4
  <2>3. CASE z # c /\ z # d
    BY <2>3, <1>5
  <2> QED BY <2>1, <2>2, <2>3
<1>7. ASSUME NEW z \in CatIds PROVE Above(b, Above(b, Above(b, z))) = Top
  <2> DEFINE z1 == Above(b, z)
  <2>1. z1 \in Old
    BY <1>6
  <2>2. Above(b, z1) = Above(v, z1) /\ Above(b, z1) = Above(w, z1) /\ Above(b, z1) \in Old
    BY <2>1, <1>5
  <2>3. Above(b, Above(b, z1)) = Above(v, Above(v, z1)) /\ Above(b, Above(b, z1)) = Above(w, Above(w, z1))
    BY <2>2, <1>5
  <2>4. CASE z # d
    BY <2>3, <2>4, <1>6, <1>3 DEF ThreeLevels
  <2>5. CASE z = d
    BY <2>3, <2>5, <1>6, <1>3 DEF ThreeLevels
  <2> QED BY <2>4, <2>5
<1>8. ThreeLevels(b)
  BY <1>7 DEF ThreeLevels
<1> QED BY <1>8 DEF b

\* The tree with a category moved.
MovedTo(u, c, x) == [u EXCEPT ![c] = x]

\* One that is about to be moved loses its children: it and they are where three levels are kept.
LEMMA MovedAlone ==
  ASSUME Top \notin CatIds, NEW u \in Trees, ThreeLevels(u), NEW c \in CatIds, NEW x \in CatIds,
         ThreeLevels(MovedTo(u, c, x)), NEW v \in Trees, NEW w \in Trees,
         \A z \in CatIds : v[z] = IF u[z] = c THEN u[c] ELSE u[z],
         w = MovedTo(v, c, x)
  PROVE  ThreeLevels(w)
<1> DEFINE m == MovedTo(u, c, x)
<1>1. m \in Trees /\ m[c] = x /\ \A z \in CatIds \ {c} : m[z] = u[z]
  BY DEF Trees, MovedTo
<1>2. ThreeLevels(m)
  OBVIOUS
<1> HIDE DEF m
<1>3. w[c] = x /\ \A z \in CatIds \ {c} : w[z] = v[z]
  BY DEF Trees, MovedTo
<1>4. /\ \A z : Above(u, z) = IF z = Top THEN Top ELSE u[z]
      /\ \A z : Above(m, z) = IF z = Top THEN Top ELSE m[z]
      /\ \A z : Above(v, z) = IF z = Top THEN Top ELSE v[z]
      /\ \A z : Above(w, z) = IF z = Top THEN Top ELSE w[z]
  BY AboveDef
<1>5. u[c] # c /\ x # c /\ m[x] # c
  <2>1. u[c] # c
    BY NoCycle
  <2>2. m[c] # c /\ Above(m, m[c]) # c
    BY <1>1, <1>2, NoCycle
  <2>3. Above(m, x) = m[x]
    BY <1>4
  <2> QED BY <2>1, <2>2, <2>3, <1>1
<1>6. ThreeLevels(v)
  <2>1. \A z \in CatIds : v[z] \in {u[z], Above(u, u[z]), Top}
    BY <1>4
  <2> QED BY <2>1, Shortcut
<1>7. \A z \in CatIds : v[z] # c /\ v[z] \in CatIds \cup {Top}
  BY <1>5 DEF Trees
<1>8. ASSUME NEW z \in (CatIds \cup {Top}) \ {c}
      PROVE  Above(w, z) = Above(v, z) /\ Above(v, z) \in (CatIds \cup {Top}) \ {c}
  <2>1. Top # c
    OBVIOUS
  <2>2. CASE z = Top
    BY <2>1, <2>2, <1>4
  <2>3. CASE z # Top
    <3>1. z \in CatIds \ {c}
      BY <2>3
    <3>2. Above(w, z) = w[z] /\ Above(v, z) = v[z] /\ w[z] = v[z]
      BY <2>3, <3>1, <1>3, <1>4
    <3> QED BY <3>1, <3>2, <1>7
  <2> QED BY <2>2, <2>3
<1>9. ASSUME NEW z \in CatIds, z # c PROVE Above(w, Above(w, Above(w, z))) = Top
  <2>1. Above(w, z) = Above(v, z) /\ Above(v, z) \in (CatIds \cup {Top}) \ {c}
    BY <1>8, <1>9
  <2>2. Above(w, Above(v, z)) = Above(v, Above(v, z)) /\ Above(v, Above(v, z)) \in (CatIds \cup {Top}) \ {c}
    BY <1>8, <2>1
  <2>3. Above(w, Above(v, Above(v, z))) = Above(v, Above(v, Above(v, z)))
    BY <1>8, <2>2
  <2> QED BY <2>1, <2>2, <2>3, <1>6 DEF ThreeLevels
<1>10. Above(w, Above(w, Above(w, c))) = Top
  <2>1. Above(w, c) = x /\ x \in (CatIds \cup {Top}) \ {c}
    BY <1>3, <1>4, <1>5
  <2>2. Above(w, x) = u[x] /\ u[x] # c
    BY <1>1, <1>3, <1>4, <1>5, <2>1
  <2>3. Above(m, Above(m, x)) = Top
    BY <1>1, <1>2, <1>4 DEF ThreeLevels
  <2>4. Above(m, x) = u[x]
    BY <1>1, <1>4, <2>1
  <2>5. u[x] = Top \/ u[u[x]] = Top
    BY <2>2, <2>3, <2>4, <1>1, <1>4 DEF Trees
  <2>6. Above(v, u[x]) = Top
    BY <2>2, <2>5, <1>4, <1>5 DEF Trees
  <2>7. Above(w, u[x]) = Above(v, u[x])
    BY <2>2, <1>8 DEF Trees
  <2> QED BY <2>1, <2>2, <2>6, <2>7
<1> QED BY <1>9, <1>10 DEF ThreeLevels

-----------------------------------------------------------------------------
(* What the database keeps of the tree, whoever writes.                    *)

Kinds    == {"expense", "income"}
AllNames == CatNames \cup {s.name : s \in Seeded} \cup {Top}
CatRows  == [st : {"none", "live", "gone"}, name : AllNames, type : Kinds, system : BOOLEAN, up : CatIds \cup {Top}]
UpsOf(t) == [c \in CatIds |-> t[c].up]

\* Rows that stand in a tree: parents are there, of the same type and no system category, which is
\* a root; siblings have different names.
IsTree(t) ==
  /\ t \in [CatIds -> CatRows]
  /\ \A c \in CatIds : t[c].st # "live" => t[c].up = Top
  /\ \A c \in CatIds : t[c].st = "live" /\ t[c].up # Top =>
       ~t[c].system /\ t[t[c].up].st = "live" /\ t[t[c].up].type = t[c].type /\ ~t[t[c].up].system
  /\ \A c, d \in CatIds : t[c].st = "live" /\ t[d].st = "live" /\ c # d /\ t[c].type = t[d].type /\ t[c].up = t[d].up
                          => t[c].name # t[d].name

\* A parent of the type, if it is there still.
MayHold(t, up, type) ==
  up # Top => t[up].st # "none" /\ (t[up].st = "live" => t[up].type = type /\ ~t[up].system)

\* The tree with one row changed.
RowAs(t, c, name, up) == [t EXCEPT ![c].name = name, ![c].up = up]

\* A category there is gets another name or place.
LEMMA RowMoves ==
  ASSUME Top \notin CatIds, NEW t, IsTree(t), NEW c \in CatIds, NEW name \in AllNames, NEW up \in CatIds \cup {Top},
         t[c].st = "live", Fits(t, c, name, up), MayHold(t, up, t[c].type), up # Top => ~t[c].system,
         NEW u, u = RowAs(t, c, name, up)
  PROVE  IsTree(u) /\ UpsOf(u) = [UpsOf(t) EXCEPT ![c] = up]
<1>1. /\ t \in [CatIds -> CatRows]
      /\ \A d \in CatIds \ {c} : u[d] = t[d]
      /\ u[c] = [t[c] EXCEPT !.name = name, !.up = up] /\ DOMAIN u = CatIds /\ u = [d \in CatIds |-> u[d]]
  BY DEF IsTree, RowAs
<1>2. /\ u[c].name = name /\ u[c].up = up
      /\ u[c].st = "live" /\ u[c].type = t[c].type /\ u[c].system = t[c].system
  <2>1. t[c] \in CatRows
    BY <1>1
  <2> QED BY <2>1, <1>1 DEF CatRows
<1>3. u[c] \in CatRows
  BY <1>1, <1>2 DEF CatRows
<1>4. u \in [CatIds -> CatRows]
  <2>1. \A d \in CatIds : u[d] \in CatRows
    BY <1>1, <1>3
  <2> QED BY <2>1, <1>1
<1>5. UpsOf(u) = [UpsOf(t) EXCEPT ![c] = up]
  BY <1>1, <1>2 DEF UpsOf
<1>6. \A d \in CatIds : u[d].st = t[d].st /\ u[d].type = t[d].type /\ u[d].system = t[d].system
  BY <1>1, <1>2
<1>7. ASSUME NEW d \in CatIds, u[d].st # "live" PROVE u[d].up = Top
  <2>1. d # c
    BY <1>2, <1>7
  <2> QED BY <2>1, <1>1, <1>7 DEF IsTree
<1>8. ASSUME NEW d \in CatIds, u[d].st = "live", u[d].up # Top
      PROVE  ~u[d].system /\ u[u[d].up].st = "live" /\ u[u[d].up].type = u[d].type /\ ~u[u[d].up].system
  <2>0. u[d].up \in CatIds
    BY <1>4, <1>8 DEF CatRows
  <2>1. CASE d = c
    BY <2>0, <2>1, <1>2, <1>6, <1>8 DEF Fits, Top, MayHold
  <2>2. CASE d # c
    <3>1. u[d] = t[d]
      BY <2>2, <1>1
    <3>2. ~t[d].system /\ t[t[d].up].st = "live" /\ t[t[d].up].type = t[d].type /\ ~t[t[d].up].system
      BY <3>1, <1>8 DEF IsTree
    <3> QED BY <3>1, <3>2, <2>0, <1>6
  <2> QED BY <2>1, <2>2
<1>9. ASSUME NEW d \in CatIds, NEW e \in CatIds, u[d].st = "live", u[e].st = "live", d # e, u[d].type = u[e].type, u[d].up = u[e].up
      PROVE  u[d].name # u[e].name
  <2>0. \A z \in CatIds \ {c} : ~(t[z].st = "live" /\ t[z].type = t[c].type /\ t[z].up = up /\ t[z].name = name)
    BY DEF Fits, Top
  <2>1. CASE d = c
    <3>1. e \in CatIds \ {c} /\ u[e] = t[e]
      BY <2>1, <1>1, <1>9
    <3>2. t[e].st = "live" /\ t[e].type = t[c].type /\ t[e].up = up
      BY <2>1, <3>1, <1>2, <1>9
    <3> QED BY <2>0, <2>1, <3>1, <3>2, <1>2
  <2>2. CASE e = c
    <3>1. d \in CatIds \ {c} /\ u[d] = t[d]
      BY <2>2, <1>1, <1>9
    <3>2. t[d].st = "live" /\ t[d].type = t[c].type /\ t[d].up = up
      BY <2>2, <3>1, <1>2, <1>9
    <3> QED BY <2>0, <2>2, <3>1, <3>2, <1>2
  <2>3. CASE d # c /\ e # c
    <3>1. u[d] = t[d] /\ u[e] = t[e]
      BY <2>3, <1>1
    <3>2. t[d].st = "live" /\ t[e].st = "live" /\ t[d].type = t[e].type /\ t[d].up = t[e].up
      BY <3>1, <1>9
    <3>3. t[d].name # t[e].name
      BY <3>2, <1>9 DEF IsTree
    <3> QED BY <3>1, <3>3
  <2> QED BY <2>1, <2>2, <2>3
<1>10. IsTree(u)
  BY <1>4, <1>7, <1>8, <1>9 DEF IsTree
<1> QED BY <1>5, <1>10

\* The tree with a row in place of another.
RowIn(t, c, row) == [t EXCEPT ![c] = row]

\* A new category; nobody is below it.
LEMMA RowComes ==
  ASSUME Top \notin CatIds, NEW t, IsTree(t), NEW c \in CatIds, t[c].st = "none",
         NEW row \in CatRows, row.st = "live", ~row.system, NEW u, u = RowIn(t, c, row),
         Fits(u, c, row.name, row.up), MayHold(t, row.up, row.type)
  PROVE  IsTree(u) /\ UpsOf(u) = [UpsOf(t) EXCEPT ![c] = row.up]
<1>1. /\ t \in [CatIds -> CatRows] /\ u \in [CatIds -> CatRows]
      /\ \A d \in CatIds \ {c} : u[d] = t[d]
      /\ u[c] = row
  BY DEF IsTree, RowIn
<1>2. UpsOf(u) = [UpsOf(t) EXCEPT ![c] = row.up]
  BY <1>1 DEF UpsOf
<1>3. \A d \in CatIds : u[d].st # "live" => u[d].up = Top
  BY <1>1 DEF IsTree
<1>4. ASSUME NEW d \in CatIds, u[d].st = "live", u[d].up # Top
      PROVE  ~u[d].system /\ u[u[d].up].st = "live" /\ u[u[d].up].type = u[d].type /\ ~u[u[d].up].system
  <2>0. u[d].up \in CatIds
    BY <1>1, <1>4 DEF CatRows
  <2>1. CASE d = c
    <3>1. row.up # c /\ row.up \in CatIds /\ u[row.up].st = "live"
      BY <2>0, <2>1, <1>1, <1>4 DEF Fits, Top
    <3>2. u[row.up] = t[row.up]
      BY <3>1, <1>1
    <3> QED BY <3>1, <3>2, <2>1, <1>1, <1>4 DEF MayHold
  <2>2. CASE d # c
    <3>1. u[d] = t[d]
      BY <2>2, <1>1
    <3>2. ~t[d].system /\ t[t[d].up].st = "live" /\ t[t[d].up].type = t[d].type /\ ~t[t[d].up].system
      BY <3>1, <1>4 DEF IsTree
    <3>3. t[d].up # c
      BY <3>2
    <3> QED BY <3>1, <3>2, <3>3, <2>0, <1>1
  <2> QED BY <2>1, <2>2
<1>5. ASSUME NEW d \in CatIds, NEW e \in CatIds, u[d].st = "live", u[e].st = "live", d # e, u[d].type = u[e].type, u[d].up = u[e].up
      PROVE  u[d].name # u[e].name
  <2>1. CASE d = c
    BY <2>1, <1>1, <1>5 DEF Fits, Top
  <2>2. CASE e = c
    BY <2>2, <1>1, <1>5 DEF Fits, Top
  <2>3. CASE d # c /\ e # c
    BY <2>3, <1>1, <1>5 DEF IsTree
  <2> QED BY <2>1, <2>2, <2>3
<1> QED BY <1>1, <1>2, <1>3, <1>4, <1>5 DEF IsTree

\* A category that nobody is below goes.
LEMMA RowGoes ==
  ASSUME Top \notin CatIds, NEW t, IsTree(t), NEW c \in CatIds, \A d \in CatIds : t[d].st = "live" => t[d].up # c,
         NEW u, u = [t EXCEPT ![c] = [NoCat EXCEPT !.st = "gone"]]
  PROVE  IsTree(u) /\ UpsOf(u) = [UpsOf(t) EXCEPT ![c] = Top]
<1> DEFINE row == [NoCat EXCEPT !.st = "gone"]
<1>0. row \in CatRows /\ row.st = "gone" /\ row.up = Top
  BY DEF CatRows, NoCat, Top, AllNames, Kinds
<1> HIDE DEF row
<1>1. /\ t \in [CatIds -> CatRows] /\ u \in [CatIds -> CatRows]
      /\ \A d \in CatIds \ {c} : u[d] = t[d]
      /\ u[c] = row
  BY <1>0 DEF IsTree, row
<1>2. UpsOf(u) = [UpsOf(t) EXCEPT ![c] = Top]
  <2>1. \A d \in CatIds : u[d].up = IF d = c THEN Top ELSE t[d].up
    <3>1. u[c].up = Top
      BY <1>0, <1>1, Zenon
    <3>2. \A d \in CatIds \ {c} : u[d].up = t[d].up
      BY <1>1, Zenon
    <3> QED BY <3>1, <3>2
  <2> QED BY <2>1 DEF UpsOf
<1>3. \A d \in CatIds : u[d].st # "live" => u[d].up = Top
  BY <1>0, <1>1 DEF IsTree
<1>4. ASSUME NEW d \in CatIds, u[d].st = "live", u[d].up # Top
      PROVE  ~u[d].system /\ u[u[d].up].st = "live" /\ u[u[d].up].type = u[d].type /\ ~u[u[d].up].system
  <2>1. d # c
    BY <1>0, <1>1, <1>4
  <2>2. u[d] = t[d]
    BY <2>1, <1>1
  <2>3. ~t[d].system /\ t[t[d].up].st = "live" /\ t[t[d].up].type = t[d].type /\ ~t[t[d].up].system
    BY <2>2, <1>4 DEF IsTree
  <2>4. t[d].up # c /\ t[d].up \in CatIds
    BY <2>2, <1>1, <1>4 DEF CatRows
  <2> QED BY <2>2, <2>3, <2>4, <1>1
<1>5. ASSUME NEW d \in CatIds, NEW e \in CatIds, u[d].st = "live", u[e].st = "live", d # e, u[d].type = u[e].type, u[d].up = u[e].up
      PROVE  u[d].name # u[e].name
  BY <1>0, <1>1, <1>5 DEF IsTree
<1> QED BY <1>1, <1>2, <1>3, <1>4, <1>5 DEF IsTree

\* The same rows, but for names and places.
SameRows(t, u) == \A c \in CatIds : u[c].st = t[c].st /\ u[c].type = t[c].type /\ u[c].system = t[c].system

\* The tree with what is below a category put above it.
Risen(t, c) == [d \in CatIds |-> IF t[d].st = "live" /\ t[d].up = c THEN [t[d] EXCEPT !.up = t[c].up] ELSE t[d]]

\* The children of a category go a level up.
LEMMA ChildrenRise ==
  ASSUME Top \notin CatIds, NEW t, IsTree(t), NEW c \in CatIds, t[c].st = "live",
         NEW u, u = Risen(t, c),
         \A d \in CatIds : t[d].st = "live" /\ t[d].up = c => Fits(u, d, u[d].name, u[d].up)
  PROVE  /\ IsTree(u) /\ SameRows(t, u)
         /\ \A d \in CatIds : UpsOf(u)[d] = IF UpsOf(t)[d] = c THEN UpsOf(t)[c] ELSE UpsOf(t)[d]
<1>1. t \in [CatIds -> CatRows] /\ DOMAIN u = CatIds
  BY DEF IsTree, Risen
<1>2. /\ \A d \in CatIds : u[d].st = t[d].st /\ u[d].type = t[d].type /\ u[d].system = t[d].system /\ u[d].name = t[d].name
      /\ \A d \in CatIds : u[d].up = IF t[d].st = "live" /\ t[d].up = c THEN t[c].up ELSE t[d].up
      /\ \A d \in CatIds : u[d] \in CatRows
  <2> SUFFICES ASSUME NEW d \in CatIds
               PROVE  /\ u[d].st = t[d].st /\ u[d].type = t[d].type /\ u[d].system = t[d].system /\ u[d].name = t[d].name
                      /\ u[d].up = IF t[d].st = "live" /\ t[d].up = c THEN t[c].up ELSE t[d].up
                      /\ u[d] \in CatRows
    OBVIOUS
  <2>1. t[d] \in CatRows /\ t[c] \in CatRows
    BY <1>1
  <2>2. CASE t[d].st = "live" /\ t[d].up = c
    <3>1. u[d] = [t[d] EXCEPT !.up = t[c].up]
      BY <2>2 DEF Risen
    <3> QED BY <2>1, <2>2, <3>1 DEF CatRows
  <2>3. CASE ~(t[d].st = "live" /\ t[d].up = c)
    <3>1. u[d] = t[d]
      BY <2>3 DEF Risen
    <3> QED BY <2>1, <2>3, <3>1
  <2> QED BY <2>2, <2>3
<1>3. u \in [CatIds -> CatRows]
  <2>1. u = [d \in CatIds |-> u[d]]
    BY <1>1 DEF Risen
  <2> HIDE DEF CatRows
  <2> QED BY <2>1, <1>2
<1>4. \A d \in CatIds : t[d].st # "live" => t[d].up = Top
  BY DEF IsTree
<1>5. \A d \in CatIds : t[d].st = "live" /\ t[d].up # Top =>
        ~t[d].system /\ t[t[d].up].st = "live" /\ t[t[d].up].type = t[d].type /\ ~t[t[d].up].system
  BY DEF IsTree
<1>6. \A d \in CatIds : UpsOf(u)[d] = IF UpsOf(t)[d] = c THEN UpsOf(t)[c] ELSE UpsOf(t)[d]
  BY <1>2, <1>4 DEF UpsOf
<1>7. \A d \in CatIds : u[d].st # "live" => u[d].up = Top
  BY <1>2, <1>4
<1>8. ASSUME NEW d \in CatIds, u[d].st = "live", u[d].up # Top
      PROVE  ~u[d].system /\ u[u[d].up].st = "live" /\ u[u[d].up].type = u[d].type /\ ~u[u[d].up].system
  <2>0. t[d].st = "live" /\ t[d].up \in CatIds \cup {Top} /\ t[c].up \in CatIds \cup {Top}
    BY <1>1, <1>2, <1>8 DEF CatRows
  <2>3. \A z \in CatIds : u[z].st = t[z].st /\ u[z].type = t[z].type /\ u[z].system = t[z].system
    BY <1>2
  <2>1. CASE t[d].up = c
    <3>1. u[d].up = t[c].up /\ t[c].up \in CatIds
      BY <2>0, <2>1, <1>2, <1>8
    <3>2. ~t[d].system /\ t[c].type = t[d].type
      BY <2>0, <2>1, <1>5
    <3>3. t[t[c].up].st = "live" /\ t[t[c].up].type = t[c].type /\ ~t[t[c].up].system
      BY <3>1, <1>5, <1>8
    <3> QED BY <3>1, <3>2, <3>3, <2>3
  <2>2. CASE t[d].up # c
    <3>1. u[d].up = t[d].up /\ t[d].up \in CatIds
      BY <2>0, <2>2, <1>2, <1>8
    <3>2. ~t[d].system /\ t[t[d].up].st = "live" /\ t[t[d].up].type = t[d].type /\ ~t[t[d].up].system
      BY <3>1, <2>0, <1>5, <1>8
    <3> QED BY <3>1, <3>2, <2>3
  <2> QED BY <2>1, <2>2
<1>9. ASSUME NEW d \in CatIds, NEW e \in CatIds, u[d].st = "live", u[e].st = "live", d # e, u[d].type = u[e].type, u[d].up = u[e].up
      PROVE  u[d].name # u[e].name
  <2>1. CASE t[d].up = c
    <3>1. Fits(u, d, u[d].name, u[d].up)
      BY <2>1, <1>2, <1>9
    <3> QED BY <3>1, <1>9 DEF Fits, Top
  <2>2. CASE t[e].up = c
    <3>1. Fits(u, e, u[e].name, u[e].up)
      BY <2>2, <1>2, <1>9
    <3> QED BY <3>1, <1>9 DEF Fits, Top
  <2>3. CASE t[d].up # c /\ t[e].up # c
    BY <2>3, <1>2, <1>9 DEF IsTree
  <2> QED BY <2>1, <2>2, <2>3
<1>10. SameRows(t, u)
  BY <1>2 DEF SameRows
<1> QED BY <1>3, <1>6, <1>7, <1>8, <1>9, <1>10 DEF IsTree

-----------------------------------------------------------------------------
(* A new order, and what its statements leave.                             *)

PutSet == [id : CatIds, up : CatIds \cup {Top}]

\* Where a category is put last.
LEMMA LastPut ==
  ASSUME NEW puts \in Seq(PutSet), NEW c, NEW i \in DOMAIN puts, puts[i].id = c
  PROVE  \E n \in DOMAIN puts : puts[n].id = c /\ \A m \in DOMAIN puts : puts[m].id = c => m <= n
<1> DEFINE N == {n \in DOMAIN puts : puts[n].id = c}
           T == {Len(puts) - n : n \in N}
<1>1. DOMAIN puts = 1..Len(puts) /\ Len(puts) \in Nat
  OBVIOUS
<1>2. N \subseteq 1..Len(puts) /\ N # {}
  BY <1>1
<1> HIDE DEF N
<1>3. T \subseteq Nat /\ T # {}
  <2>1. PICK m \in N : TRUE
    BY <1>2
  <2>2. Len(puts) - m \in T
    BY <2>1
  <2>3. T \subseteq Nat
    BY <1>1, <1>2
  <2> QED BY <2>2, <2>3
<1>4. PICK x \in T : \A y \in T : x <= y
  <2> HIDE DEF T
  <2> QED BY <1>3, NatLeast
<1>5. PICK n \in N : x = Len(puts) - n
  BY <1>4
<1>6. ASSUME NEW m \in N PROVE m <= n
  <2>1. Len(puts) - m \in T
    OBVIOUS
  <2>2. x <= Len(puts) - m
    BY <1>4, <2>1
  <2>3. m \in Nat /\ n \in Nat
    BY <1>2
  <2> QED BY <1>1, <1>5, <2>2, <2>3
<1> QED BY <1>5, <1>6 DEF N

\* An order changes the places of those that are in it.
LEMMA PlacedIs ==
  ASSUME NEW up \in Trees, NEW puts \in Seq(PutSet)
  PROVE  /\ Placed(up, puts) \in Trees
         /\ \A c \in CatIds : (\A n \in DOMAIN puts : puts[n].id # c) => Placed(up, puts)[c] = up[c]
         /\ \A c \in CatIds : (\E n \in DOMAIN puts : puts[n].id = c) =>
              /\ \E n \in DOMAIN puts : /\ puts[n].id = c /\ Placed(up, puts)[c] = puts[n].up
                                        /\ \A m \in DOMAIN puts : puts[m].id = c => m <= n
              /\ \A v \in Trees : Placed(v, puts)[c] = Placed(up, puts)[c]
<1>1. ASSUME NEW c \in CatIds, \A n \in DOMAIN puts : puts[n].id # c
      PROVE  Placed(up, puts)[c] = up[c]
  BY <1>1 DEF Placed
<1>2. ASSUME NEW c \in CatIds, NEW i \in DOMAIN puts, puts[i].id = c
      PROVE  /\ \E n \in DOMAIN puts : /\ puts[n].id = c /\ Placed(up, puts)[c] = puts[n].up
                                       /\ \A m \in DOMAIN puts : puts[m].id = c => m <= n
             /\ \A v \in Trees : Placed(v, puts)[c] = Placed(up, puts)[c]
  <2> DEFINE last(n) == n \in DOMAIN puts /\ puts[n].id = c /\ \A m \in DOMAIN puts : puts[m].id = c => m <= n
             k == CHOOSE n \in DOMAIN puts : puts[n].id = c /\ \A m \in DOMAIN puts : puts[m].id = c => m <= n
  <2>1. \E n : last(n)
    BY <1>2, LastPut
  <2>2. last(k)
    BY <2>1
  <2>3. ASSUME NEW v PROVE Placed(v, puts)[c] = puts[k].up
    BY <1>2 DEF Placed
  <2> HIDE DEF k
  <2> QED BY <2>2, <2>3
<1>3. ASSUME NEW c \in CatIds PROVE Placed(up, puts)[c] \in CatIds \cup {Top}
  <2>1. CASE \A n \in DOMAIN puts : puts[n].id # c
    BY <1>1, <2>1 DEF Trees
  <2>2. CASE \E n \in DOMAIN puts : puts[n].id = c
    <3>1. PICK n \in DOMAIN puts : Placed(up, puts)[c] = puts[n].up
      BY <1>2, <2>2
    <3>2. puts[n] \in PutSet
      OBVIOUS
    <3> QED BY <3>1, <3>2 DEF PutSet, Top
  <2> QED BY <2>1, <2>2
<1>4. Placed(up, puts) \in Trees
  <2>1. Placed(up, puts) = [c \in CatIds |-> Placed(up, puts)[c]]
    BY DEF Placed
  <2> QED BY <1>3, <2>1 DEF Trees
<1> QED BY <1>1, <1>2, <1>4

\* One statement of a new order.
PutAt(t, p) ==
  IF t # NoTree /\ t[p.id].st = "live" /\ Fits(t, p.id, t[p.id].name, p.up) THEN [t EXCEPT ![p.id].up = p.up] ELSE NoTree

IsRun(g, puts, n) == DOMAIN g = 0..n /\ g[0] = cat /\ \A k \in 1..n : g[k] = PutAt(g[k - 1], puts[k])

\* The recursive definition, as the choice it stands for.
LEMMA OrderedUnfold ==
  ASSUME NEW puts
  PROVE  Ordered(puts) = (CHOOSE a : a = [n \in 0..Len(puts) |-> IF n = 0 THEN cat ELSE PutAt(a[n - 1], puts[n])])[Len(puts)]
BY DEF Ordered, PutAt

\* The statements of an order, one after the other.
LEMMA OrderedIs ==
  ASSUME NEW puts \in Seq(PutSet)
  PROVE  \E a : IsRun(a, puts, Len(puts)) /\ Ordered(puts) = a[Len(puts)]
<1>0. Len(puts) \in Nat
  OBVIOUS
<1> DEFINE Bad == {n \in 0..Len(puts) : ~\E g : IsRun(g, puts, n)}
           runs(a) == a = [n \in 0..Len(puts) |-> IF n = 0 THEN cat ELSE PutAt(a[n - 1], puts[n])]
<1>1. Bad = {}
  <2> SUFFICES ASSUME Bad # {} PROVE FALSE
    OBVIOUS
  <2>1. PICK m \in Bad : \A n \in Bad : m <= n
    <3>1. Bad \subseteq Nat
      BY <1>0
    <3> HIDE DEF Bad
    <3> QED BY <3>1, NatLeast
  <2>2. CASE m = 0
    <3>1. IsRun([k \in 0..0 |-> cat], puts, 0)
      BY DEF IsRun
    <3> QED BY <3>1, <2>1, <2>2
  <2>3. CASE m # 0
    <3>1. m - 1 \in 0..Len(puts) /\ m - 1 \notin Bad /\ m \in Nat
      BY <1>0, <2>1, <2>3
    <3>2. PICK g : IsRun(g, puts, m - 1)
      BY <3>1
    <3> DEFINE h == [k \in 0..m |-> IF k = m THEN PutAt(g[m - 1], puts[m]) ELSE g[k]]
    <3>3. \A k \in 1..m : h[k] = PutAt(h[k - 1], puts[k])
      <4> TAKE k \in 1..m
      <4>1. CASE k = m
        BY <3>1, <4>1, <2>3
      <4>2. CASE k # m
        <5>1. k \in 1..(m - 1) /\ k - 1 \in 0..m /\ k \in 0..m /\ k - 1 # m
          BY <3>1, <4>2
        <5>2. g[k] = PutAt(g[k - 1], puts[k])
          BY <3>2, <5>1 DEF IsRun
        <5> QED BY <4>2, <5>1, <5>2
      <4> QED BY <4>1, <4>2
    <3>4. h[0] = cat /\ DOMAIN h = 0..m
      BY <3>1, <3>2, <2>3 DEF IsRun
    <3>5. IsRun(h, puts, m)
      BY <3>3, <3>4 DEF IsRun
    <3> QED BY <3>5, <2>1
  <2> QED BY <2>2, <2>3
<1>2. PICK g : IsRun(g, puts, Len(puts))
  <2>1. Len(puts) \in 0..Len(puts)
    BY <1>0
  <2> QED BY <1>1, <2>1
<1>3. runs([n \in 0..Len(puts) |-> g[n]])
  <2>1. \A n \in 0..Len(puts) : g[n] = IF n = 0 THEN cat ELSE PutAt(g[n - 1], puts[n])
    BY <1>0, <1>2 DEF IsRun
  <2>2. \A n \in 0..Len(puts) : n # 0 => n - 1 \in 0..Len(puts)
    BY <1>0
  <2> QED BY <2>1, <2>2
<1> DEFINE a == CHOOSE x : runs(x)
<1>4. Ordered(puts) = a[Len(puts)]
  BY OrderedUnfold
<1>5. runs(a)
  <2> HIDE DEF runs
  <2> QED BY <1>3
<1> HIDE DEF a
<1>6. \A n \in 0..Len(puts) : a[n] = IF n = 0 THEN cat ELSE PutAt(a[n - 1], puts[n])
  BY <1>5
<1>7. DOMAIN a = 0..Len(puts)
  BY <1>5
<1>8. IsRun(a, puts, Len(puts))
  BY <1>0, <1>6, <1>7 DEF IsRun
<1> QED BY <1>4, <1>8

\* A place that was found fit: of those who are there still, a parent is of the type and neither is
\* a system category.
PutFits(t, p) ==
  /\ t[p.id].st # "none" /\ (p.up # Top => t[p.up].st # "none")
  /\ t[p.id].st = "live" /\ p.up # Top => ~t[p.id].system /\ MayHold(t, p.up, t[p.id].type)

\* One statement keeps the tree.
LEMMA PutKeeps ==
  ASSUME Top \notin CatIds, NEW t, IsTree(t), NEW p \in PutSet, PutFits(t, p), PutAt(t, p) # NoTree
  PROVE  /\ IsTree(PutAt(t, p)) /\ SameRows(t, PutAt(t, p))
         /\ UpsOf(PutAt(t, p)) = [UpsOf(t) EXCEPT ![p.id] = p.up]
<1>1. /\ p.id \in CatIds /\ p.up \in CatIds \cup {Top}
      /\ t[p.id].st = "live" /\ Fits(t, p.id, t[p.id].name, p.up)
      /\ PutAt(t, p) = [t EXCEPT ![p.id].up = p.up]
  BY DEF PutSet, PutAt
<1>2. t \in [CatIds -> CatRows] /\ t[p.id].name \in AllNames
  BY <1>1 DEF IsTree, CatRows
<1>3. [t EXCEPT ![p.id].up = p.up] = [t EXCEPT ![p.id].name = t[p.id].name, ![p.id].up = p.up]
  BY <1>1, <1>2 DEF CatRows
<1>4. p.up # Top => ~t[p.id].system
  BY <1>1 DEF PutFits
<1>5. MayHold(t, p.up, t[p.id].type)
  BY <1>1 DEF PutFits, MayHold
<1>6. SameRows(t, PutAt(t, p))
  <2> SUFFICES ASSUME NEW c \in CatIds
               PROVE  PutAt(t, p)[c].st = t[c].st /\ PutAt(t, p)[c].type = t[c].type /\ PutAt(t, p)[c].system = t[c].system
    BY DEF SameRows
  <2>1. t[c] \in CatRows
    BY <1>2
  <2>2. CASE c = p.id
    <3>1. PutAt(t, p)[c] = [t[c] EXCEPT !.up = p.up]
      BY <2>2, <1>1, <1>2
    <3> QED BY <2>1, <3>1 DEF CatRows
  <2>3. CASE c # p.id
    BY <2>3, <1>1, <1>2
  <2> QED BY <2>2, <2>3
<1>8. IsTree(PutAt(t, p)) /\ UpsOf(PutAt(t, p)) = [UpsOf(t) EXCEPT ![p.id] = p.up]
  <2> DEFINE c == p.id
             name == t[p.id].name
             up == p.up
             u == PutAt(t, p)
  <2>1. /\ c \in CatIds /\ up \in CatIds \cup {Top} /\ name \in AllNames /\ t[c].st = "live"
        /\ Fits(t, c, name, up) /\ MayHold(t, up, t[c].type) /\ (up # Top => ~t[c].system)
    BY <1>1, <1>2, <1>4, <1>5
  <2>2. u = RowAs(t, c, name, up)
    BY <1>1, <1>3 DEF RowAs
  <2> HIDE DEF c, name, up, u
  <2>3. IsTree(u) /\ UpsOf(u) = [UpsOf(t) EXCEPT ![c] = up]
    BY <2>1, <2>2, RowMoves
  <2> QED BY <2>3 DEF c, up, u
<1> QED BY <1>6, <1>8

\* A new order leaves a tree, in which each is where it was put last.
LEMMA OrderedKeeps ==
  ASSUME Top \notin CatIds, IsTree(cat), NEW puts \in Seq(PutSet), \A n \in DOMAIN puts : PutFits(cat, puts[n]),
         Ordered(puts) # NoTree
  PROVE  /\ IsTree(Ordered(puts)) /\ SameRows(cat, Ordered(puts))
         /\ UpsOf(Ordered(puts)) = Placed(Ups, puts)
<1> DEFINE L == Len(puts)
<1>0. L \in Nat /\ DOMAIN puts = 1..L
  OBVIOUS
<1>1. PICK a : IsRun(a, puts, L) /\ Ordered(puts) = a[L]
  BY OrderedIs
<1> DEFINE Asked1(n, c) == (\A m \in 1..n : puts[m].id # c) => a[n][c].up = cat[c].up
           Asked2(n, c) == \A m \in 1..n : puts[m].id = c /\ (\A k \in 1..n : puts[k].id = c => k <= m) => a[n][c].up = puts[m].up
           Good(n) == a[n] # NoTree => IsTree(a[n]) /\ SameRows(cat, a[n]) /\ \A c \in CatIds : Asked1(n, c) /\ Asked2(n, c)
           Bad == {n \in 0..L : ~Good(n)}
<1> HIDE DEF L
<1>2. ASSUME NEW m \in 1..L, Good(m - 1) PROVE Good(m)
  <2> SUFFICES ASSUME a[m] # NoTree PROVE IsTree(a[m]) /\ SameRows(cat, a[m]) /\ \A c \in CatIds : Asked1(m, c) /\ Asked2(m, c)
    OBVIOUS
  <2> HIDE DEF Asked1, Asked2
  <2>1. a[m] = PutAt(a[m - 1], puts[m]) /\ puts[m] \in PutSet
    BY <1>0, <1>1 DEF IsRun
  <2>2. a[m - 1] # NoTree
    BY <2>1 DEF PutAt
  <2>3. IsTree(a[m - 1]) /\ SameRows(cat, a[m - 1]) /\ \A c \in CatIds : Asked1(m - 1, c) /\ Asked2(m - 1, c)
    BY <1>2, <2>2
  <2>4. PutFits(a[m - 1], puts[m])
    <3>1. PutFits(cat, puts[m])
      BY <1>0
    <3>2. puts[m].id \in CatIds /\ puts[m].up \in CatIds \cup {Top}
      BY <2>1 DEF PutSet
    <3> QED BY <3>1, <3>2, <2>3 DEF PutFits, MayHold, SameRows
  <2>5. /\ IsTree(a[m]) /\ SameRows(a[m - 1], a[m])
        /\ UpsOf(a[m]) = [UpsOf(a[m - 1]) EXCEPT ![puts[m].id] = puts[m].up]
    BY <2>1, <2>3, <2>4, PutKeeps
  <2>6. SameRows(cat, a[m])
    BY <2>3, <2>5 DEF SameRows
  <2>7. ASSUME NEW c \in CatIds PROVE a[m][c].up = IF c = puts[m].id THEN puts[m].up ELSE a[m - 1][c].up
    <3>1. UpsOf(a[m])[c] = IF c = puts[m].id THEN puts[m].up ELSE UpsOf(a[m - 1])[c]
      BY <2>5 DEF UpsOf
    <3> QED BY <3>1 DEF UpsOf
  <2>8. ASSUME NEW c \in CatIds PROVE Asked1(m, c)
    <3> SUFFICES ASSUME \A k \in 1..m : puts[k].id # c PROVE a[m][c].up = cat[c].up
      BY DEF Asked1
    <3>1. puts[m].id # c /\ \A k \in 1..(m - 1) : puts[k].id # c
      BY <1>0
    <3> QED BY <3>1, <2>3, <2>7 DEF Asked1
  <2>9. ASSUME NEW c \in CatIds PROVE Asked2(m, c)
    <3> SUFFICES ASSUME NEW i \in 1..m, puts[i].id = c, \A k \in 1..m : puts[k].id = c => k <= i PROVE a[m][c].up = puts[i].up
      BY DEF Asked2
    <3>1. CASE i = m
      BY <3>1, <2>7
    <3>2. CASE i # m
      <4>1. i \in 1..(m - 1) /\ puts[m].id # c /\ \A k \in 1..(m - 1) : puts[k].id = c => k <= i
        BY <1>0, <3>2
      <4> QED BY <4>1, <2>3, <2>7 DEF Asked2
    <3> QED BY <3>1, <3>2
  <2> QED BY <2>5, <2>6, <2>8, <2>9
<1>3. Good(0)
  <2>1. a[0] = cat
    BY <1>1 DEF IsRun
  <2>2. SameRows(cat, cat)
    BY DEF SameRows
  <2> QED BY <2>1, <2>2
<1> HIDE DEF Good
<1>4. Bad = {}
  <2> SUFFICES ASSUME Bad # {} PROVE FALSE
    OBVIOUS
  <2>1. PICK m \in Bad : \A n \in Bad : m <= n
    <3>1. Bad \subseteq Nat
      BY <1>0
    <3> HIDE DEF Bad
    <3> QED BY <3>1, NatLeast
  <2>2. m # 0 /\ m \in 0..L
    BY <1>3, <2>1
  <2>3. m - 1 \in 0..L /\ m - 1 \notin Bad /\ m \in 1..L
    BY <1>0, <2>1, <2>2
  <2> QED BY <1>2, <2>1, <2>3
<1>5. Good(L)
  <2>1. L \in 0..L
    BY <1>0
  <2> QED BY <1>4, <2>1
<1>6. a[L] # NoTree
  BY <1>1
<1>7. IsTree(a[L]) /\ SameRows(cat, a[L]) /\ \A c \in CatIds : Asked1(L, c) /\ Asked2(L, c)
  BY <1>5, <1>6 DEF Good
<1> HIDE DEF Asked1, Asked2
<1>8. Ups \in Trees
  BY DEF Ups, Trees, IsTree, CatRows, Top
<1>9. ASSUME NEW c \in CatIds PROVE a[L][c].up = Placed(Ups, puts)[c]
  <2>1. CASE \A n \in DOMAIN puts : puts[n].id # c
    <3>1. Placed(Ups, puts)[c] = Ups[c]
      BY <1>8, <2>1, PlacedIs
    <3>2. a[L][c].up = cat[c].up
      BY <1>0, <1>7, <2>1 DEF Asked1
    <3> QED BY <3>1, <3>2 DEF Ups
  <2>2. CASE \E n \in DOMAIN puts : puts[n].id = c
    <3>1. PICK n \in DOMAIN puts : /\ puts[n].id = c /\ Placed(Ups, puts)[c] = puts[n].up
                                   /\ \A m \in DOMAIN puts : puts[m].id = c => m <= n
      BY <1>8, <2>2, PlacedIs
    <3>2. a[L][c].up = puts[n].up
      BY <1>0, <1>7, <3>1 DEF Asked2
    <3> QED BY <3>1, <3>2
  <2> QED BY <2>1, <2>2
<1>10. UpsOf(a[L]) = Placed(Ups, puts)
  <2>1. Placed(Ups, puts) = [c \in CatIds |-> Placed(Ups, puts)[c]]
    BY DEF Placed
  <2>2. UpsOf(a[L]) = [c \in CatIds |-> a[L][c].up]
    BY DEF UpsOf
  <2> QED BY <1>9, <2>1, <2>2
<1> QED BY <1>1, <1>7, <1>10

-----------------------------------------------------------------------------
(* The requests in hand, and what holds of the tree whoever writes next.   *)

CallSet == [op : {"idle", "create", "update", "delete", "reorder", "walking"}, id : CatIds \cup {Top}, type : Kinds,
            name : CatNames \cup {Top}, puts : Seq(PutSet)]

\* What a request was checked for is still so, of those who are there still.
CallFits(t, k) ==
  /\ k.op \in {"idle", "delete", "walking"} => k.puts = <<>>
  /\ k.op \in {"create", "update", "delete"} => k.id \in CatIds
  /\ k.op = "create" => /\ t[k.id].st = "none"
                        /\ \E up \in CatIds \cup {Top} : k.puts = <<[id |-> k.id, up |-> up]>> /\ MayHold(t, up, k.type)
  /\ k.op = "update" => /\ t[k.id].st # "none" /\ (t[k.id].st = "live" => ~t[k.id].system)
                        /\ k.puts = <<>> \/ \E up \in CatIds \cup {Top} : k.puts = <<[id |-> k.id, up |-> up]>>
  /\ k.op \in {"update", "reorder"} => \A n \in DOMAIN k.puts : PutFits(t, k.puts[n])

CallsFit == calls \in [CatCalls -> CallSet] /\ \A q \in CatCalls : CallFits(cat, calls[q])

NewAreApart == \A p, q \in CatCalls : p # q /\ calls[p].op = "create" /\ calls[q].op = "create" => calls[p].id # calls[q].id

FiledFit ==
  /\ filed \in [{r.id : r \in FiledRows} -> CatIds \cup {Top}]
  /\ \A i \in DOMAIN filed : filed[i] # Top => cat[filed[i]].st = "live"

\* The tree has its three levels, and will have them whichever request writes next.
LevelsKept ==
  ~overtaken =>
    /\ ThreeLevels(Ups)
    /\ \A q \in CatCalls : calls[q].op # "walking" /\ ThreeLevels(Placed(Ups, calls[q].puts))

CategoriesInv == IsTree(cat) /\ CallsFit /\ NewAreApart /\ FiledFit /\ overtaken \in BOOLEAN /\ LevelsKept

\* One that an order does not move stays.
LEMMA PlacedElse ==
  ASSUME NEW up \in Trees, NEW puts \in Seq(PutSet), NEW c \in CatIds, \A n \in DOMAIN puts : puts[n].id # c
  PROVE  Placed(up, puts)[c] = up[c]
BY PlacedIs

\* An order of one, and of none.
LEMMA PlacedOne ==
  ASSUME NEW up \in Trees, NEW c \in CatIds, NEW x \in CatIds \cup {Top}
  PROVE  Placed(up, <<[id |-> c, up |-> x]>>) = [up EXCEPT ![c] = x]
<1> DEFINE puts == <<[id |-> c, up |-> x]>>
           p == [id |-> c, up |-> x]
<1>1. p \in PutSet
  BY DEF PutSet
<1>2. puts = <<p>> /\ p.id = c /\ p.up = x
  OBVIOUS
<1> HIDE DEF p
<1>3. puts \in Seq(PutSet) /\ DOMAIN puts = {1} /\ puts[1] = p
  BY <1>1, <1>2
<1> HIDE DEF puts
<1>4. \A d \in CatIds : Placed(up, puts)[d] = IF d = c THEN x ELSE up[d]
  <2> TAKE d \in CatIds
  <2>1. CASE d = c
    <3>1. \E n \in DOMAIN puts : puts[n].id = d
      BY <2>1, <1>2, <1>3
    <3>2. PICK n \in DOMAIN puts : Placed(up, puts)[d] = puts[n].up
      BY <1>3, <3>1, PlacedIs
    <3> QED BY <3>2, <2>1, <1>2, <1>3
  <2>2. CASE d # c
    <3>1. \A n \in DOMAIN puts : puts[n].id # d
      BY <2>2, <1>2, <1>3
    <3>2. Placed(up, puts)[d] = up[d]
      BY <1>3, <3>1, PlacedIs
    <3> QED BY <3>2, <2>2
  <2> QED BY <2>1, <2>2
<1>5. Placed(up, puts) \in Trees
  BY <1>3, PlacedIs
<1>6. Placed(up, puts) = [up EXCEPT ![c] = x]
  BY <1>4, <1>5 DEF Trees
<1> QED BY <1>6 DEF puts

\* An order of none leaves everyone where they are.
LEMMA PlacedNone ==
  ASSUME NEW up \in Trees
  PROVE  Placed(up, <<>>) = up
<1>1. <<>> \in Seq(PutSet) /\ DOMAIN <<>> = {}
  OBVIOUS
<1>2. Placed(up, <<>>) \in Trees /\ \A c \in CatIds : Placed(up, <<>>)[c] = up[c]
  BY <1>1, PlacedIs
<1> QED BY <1>2 DEF Trees

\* An order of roots takes nobody deeper.
LEMMA PlacedRoots ==
  ASSUME NEW up \in Trees, NEW puts \in Seq(PutSet), \A n \in DOMAIN puts : puts[n].up = Top, NEW c \in CatIds
  PROVE  Placed(up, puts)[c] \in {up[c], Top}
<1>1. CASE \A n \in DOMAIN puts : puts[n].id # c
  BY <1>1, PlacedIs
<1>2. CASE \E n \in DOMAIN puts : puts[n].id = c
  <2>1. PICK n \in DOMAIN puts : Placed(up, puts)[c] = puts[n].up
    BY <1>2, PlacedIs
  <2> QED BY <2>1
<1> QED BY <1>1, <1>2

\* From one tree to a later one: nobody comes back, nobody changes type, and only those of New are new.
Aged(t, u, New) ==
  \A c \in CatIds :
    /\ t[c].st # "none" => u[c].st # "none"
    /\ t[c].st # "none" /\ u[c].st = "live" => t[c].st = "live" /\ u[c].type = t[c].type /\ u[c].system = t[c].system
    /\ t[c].st = "none" /\ u[c].st # "none" => c \in New

\* What was fit stays fit.
LEMMA HoldsOn ==
  ASSUME NEW t, NEW u, NEW New, Aged(t, u, New), NEW up \in CatIds \cup {Top}, NEW type, MayHold(t, up, type)
  PROVE  MayHold(u, up, type)
BY DEF MayHold, Aged

\* What a request was checked for is still so in a tree that has aged.
LEMMA CallFitsOn ==
  ASSUME NEW t, NEW u, NEW New, Aged(t, u, New), NEW k \in CallSet, CallFits(t, k),
         k.op = "create" => k.id \notin New
  PROVE  CallFits(u, k)
<1>1. k.op = "create" => /\ u[k.id].st = "none"
                         /\ \E up \in CatIds \cup {Top} : k.puts = <<[id |-> k.id, up |-> up]>> /\ MayHold(u, up, k.type)
  <2> SUFFICES ASSUME k.op = "create"
               PROVE  u[k.id].st = "none" /\ \E up \in CatIds \cup {Top} : k.puts = <<[id |-> k.id, up |-> up]>> /\ MayHold(u, up, k.type)
    OBVIOUS
  <2>1. k.id \in CatIds /\ t[k.id].st = "none"
    BY DEF CallFits
  <2>2. PICK up \in CatIds \cup {Top} : k.puts = <<[id |-> k.id, up |-> up]>> /\ MayHold(t, up, k.type)
    BY DEF CallFits
  <2>3. MayHold(u, up, k.type)
    BY <2>2, HoldsOn
  <2>4. u[k.id].st = "none"
    BY <2>1 DEF Aged
  <2> QED BY <2>2, <2>3, <2>4
<1>2. k.op = "update" => /\ u[k.id].st # "none" /\ (u[k.id].st = "live" => ~u[k.id].system)
                         /\ k.puts = <<>> \/ \E up \in CatIds \cup {Top} : k.puts = <<[id |-> k.id, up |-> up]>>
  <2> SUFFICES ASSUME k.op = "update"
               PROVE  /\ u[k.id].st # "none" /\ (u[k.id].st = "live" => ~u[k.id].system)
                      /\ k.puts = <<>> \/ \E up \in CatIds \cup {Top} : k.puts = <<[id |-> k.id, up |-> up]>>
    OBVIOUS
  <2>1. k.id \in CatIds /\ t[k.id].st # "none" /\ (t[k.id].st = "live" => ~t[k.id].system)
    BY DEF CallFits
  <2>2. u[k.id].st # "none" /\ (u[k.id].st = "live" => ~u[k.id].system)
    BY <2>1 DEF Aged
  <2>3. k.puts = <<>> \/ \E up \in CatIds \cup {Top} : k.puts = <<[id |-> k.id, up |-> up]>>
    BY DEF CallFits
  <2> QED BY <2>2, <2>3
<1>3. ASSUME k.op \in {"update", "reorder"}, NEW n \in DOMAIN k.puts PROVE PutFits(u, k.puts[n])
  <2> DEFINE p == k.puts[n]
  <2>1. PutFits(t, p)
    BY <1>3 DEF CallFits
  <2>2. p.id \in CatIds /\ p.up \in CatIds \cup {Top}
    <3>1. k.puts \in Seq(PutSet)
      BY DEF CallSet
    <3>2. p \in PutSet
      BY <3>1, <1>3
    <3> QED BY <3>2 DEF PutSet
  <2> HIDE DEF p
  <2>3. u[p.id].st # "none" /\ (p.up # Top => u[p.up].st # "none")
    BY <2>1, <2>2 DEF PutFits, Aged
  <2>4. ASSUME u[p.id].st = "live", p.up # Top PROVE ~u[p.id].system /\ MayHold(u, p.up, u[p.id].type)
    <3>1. t[p.id].st = "live" /\ u[p.id].type = t[p.id].type /\ u[p.id].system = t[p.id].system
      BY <2>1, <2>2, <2>4 DEF Aged, PutFits
    <3>2. ~t[p.id].system /\ MayHold(t, p.up, t[p.id].type)
      BY <3>1, <2>1, <2>4 DEF PutFits
    <3>3. MayHold(u, p.up, t[p.id].type)
      BY <2>2, <3>2, HoldsOn
    <3> QED BY <3>1, <3>2, <3>3
  <2>5. PutFits(u, p)
    BY <2>3, <2>4 DEF PutFits
  <2> QED BY <2>5 DEF p
<1>4. k.op \in {"idle", "delete", "walking"} => k.puts = <<>>
  BY DEF CallFits
<1>5. k.op \in {"create", "update", "delete"} => k.id \in CatIds
  BY DEF CallFits
<1> QED BY <1>1, <1>2, <1>3, <1>4, <1>5 DEF CallFits

\* Whatever a request writes: a tree again, each in its place, and what others were checked for
\* still so.
LEMMA WriteIs ==
  ASSUME Top \notin CatIds, CategoriesInv, NEW q \in CatCalls, NEW tree, tree = Result(q), tree # NoTree
  PROVE  /\ IsTree(tree) /\ Aged(cat, tree, IF calls[q].op = "create" THEN {calls[q].id} ELSE {})
         /\ UpsOf(tree) = IF calls[q].op = "delete" THEN [Ups EXCEPT ![calls[q].id] = Top] ELSE Placed(Ups, calls[q].puts)
<1> DEFINE k == calls[q]
<1>1. k \in CallSet /\ CallFits(cat, k) /\ IsTree(cat)
  BY DEF CategoriesInv, CallsFit
<1>2. Ups \in Trees /\ Ups = UpsOf(cat)
  BY <1>1 DEF Ups, UpsOf, Trees, IsTree, CatRows
<1>3. cat \in [CatIds -> CatRows]
  BY <1>1 DEF IsTree
<1>4. CASE k.op = "create"
  <2>0. tree = WithNew(q)
    BY <1>4 DEF Result
  <2>1. k.id \in CatIds /\ cat[k.id].st = "none"
    BY <1>1, <1>4 DEF CallFits
  <2>2. PICK up \in CatIds \cup {Top} : k.puts = <<[id |-> k.id, up |-> up]>> /\ MayHold(cat, up, k.type)
    BY <1>1, <1>4 DEF CallFits
  <2> DEFINE row == [st |-> "live", name |-> k.name, type |-> k.type, system |-> FALSE, up |-> k.puts[1].up]
  <2>3. k.puts[1].up = up
    BY <2>2
  <2>4. row \in CatRows /\ row.st = "live" /\ ~row.system /\ row.up = up /\ row.type = k.type
    <3>1. k.name \in AllNames /\ k.type \in Kinds
      BY <1>1 DEF CallSet, AllNames
    <3> QED BY <2>3, <3>1 DEF CatRows
  <2>5. tree = RowIn(cat, k.id, row) /\ Fits(tree, k.id, row.name, row.up)
    BY <2>0 DEF WithNew, RowIn
  <2> HIDE DEF row
  <2>6. MayHold(cat, row.up, row.type)
    BY <2>2, <2>4
  <2>7. IsTree(tree) /\ UpsOf(tree) = [UpsOf(cat) EXCEPT ![k.id] = row.up]
    BY <1>1, <2>1, <2>4, <2>5, <2>6, RowComes
  <2>8. Placed(Ups, k.puts) = [Ups EXCEPT ![k.id] = up]
    BY <1>2, <2>1, <2>2, PlacedOne
  <2>9. Aged(cat, tree, {k.id})
    <3>1. \A c \in CatIds \ {k.id} : tree[c] = cat[c]
      BY <1>3, <2>5 DEF RowIn
    <3> QED BY <2>1, <3>1 DEF Aged
  <2> QED BY <1>2, <1>4, <2>4, <2>7, <2>8, <2>9
<1>5. CASE k.op = "update"
  <2>0. tree = WithFields(q)
    BY <1>5 DEF Result
  <2>1. k.id \in CatIds /\ (cat[k.id].st = "live" => ~cat[k.id].system)
    BY <1>1, <1>5 DEF CallFits
  <2> DEFINE up == IF k.puts = <<>> THEN cat[k.id].up ELSE k.puts[1].up
             name == IF k.name = Top THEN cat[k.id].name ELSE k.name
  <2>2. /\ cat[k.id].st = "live" /\ Fits(cat, k.id, name, up)
        /\ tree = RowAs(cat, k.id, name, up)
    BY <2>0 DEF WithFields, LiveCat, RowAs, Top
  <2>3. name \in AllNames
    BY <1>1, <1>3, <2>1 DEF CallSet, AllNames, CatRows
  <2>4. /\ up \in CatIds \cup {Top} /\ MayHold(cat, up, cat[k.id].type)
        /\ Placed(Ups, k.puts) = [Ups EXCEPT ![k.id] = up]
    <3>1. CASE k.puts = <<>>
      <4>1. up = cat[k.id].up
        BY <3>1
      <4>2. cat[k.id].up \in CatIds \cup {Top}
        BY <1>3, <2>1 DEF CatRows
      <4>3. MayHold(cat, cat[k.id].up, cat[k.id].type)
        BY <1>1, <2>1, <2>2 DEF IsTree, MayHold, Top
      <4>4. Placed(Ups, k.puts) = Ups
        BY <1>2, <3>1, PlacedNone
      <4>5. [Ups EXCEPT ![k.id] = cat[k.id].up] = Ups
        BY <2>1 DEF Ups
      <4> QED BY <4>1, <4>2, <4>3, <4>4, <4>5
    <3>2. CASE k.puts # <<>>
      <4>1. PICK x \in CatIds \cup {Top} : k.puts = <<[id |-> k.id, up |-> x]>>
        BY <1>1, <1>5, <3>2 DEF CallFits
      <4>2. up = x /\ 1 \in DOMAIN k.puts /\ k.puts[1].id = k.id /\ k.puts[1].up = x
        BY <3>2, <4>1
      <4>3. PutFits(cat, k.puts[1])
        BY <1>1, <1>5, <4>2 DEF CallFits
      <4>4. MayHold(cat, x, cat[k.id].type)
        BY <2>2, <4>2, <4>3 DEF PutFits, MayHold, Top
      <4>5. Placed(Ups, k.puts) = [Ups EXCEPT ![k.id] = x]
        BY <1>2, <2>1, <4>1, PlacedOne
      <4> QED BY <4>2, <4>4, <4>5
    <3> QED BY <3>1, <3>2
  <2> HIDE DEF up, name
  <2>5. IsTree(tree) /\ UpsOf(tree) = [UpsOf(cat) EXCEPT ![k.id] = up]
    BY <1>1, <2>1, <2>2, <2>3, <2>4, RowMoves
  <2>6. Aged(cat, tree, {})
    <3>1. \A c \in CatIds : tree[c].st = cat[c].st /\ tree[c].type = cat[c].type /\ tree[c].system = cat[c].system
      <4> TAKE c \in CatIds
      <4>1. cat[c] \in CatRows
        BY <1>3
      <4>2. CASE c = k.id
        <5>1. tree[c] = [cat[c] EXCEPT !.name = name, !.up = up]
          BY <1>3, <2>2, <4>2 DEF RowAs
        <5> QED BY <4>1, <5>1 DEF CatRows
      <4>3. CASE c # k.id
        BY <1>3, <2>2, <4>3 DEF RowAs
      <4> QED BY <4>2, <4>3
    <3> QED BY <3>1 DEF Aged
  <2> QED BY <1>2, <1>5, <2>4, <2>5, <2>6
<1>6. CASE k.op = "delete"
  <2>0. tree = Without(q)
    BY <1>6 DEF Result
  <2>1. k.id \in CatIds
    BY <1>1, <1>6 DEF CallFits
  <2>2. cat[k.id].st = "live" /\ Under(k.id) = {} /\ tree = [cat EXCEPT ![k.id] = [NoCat EXCEPT !.st = "gone"]]
    BY <2>0 DEF Without, LiveCat
  <2>3. \A d \in CatIds : cat[d].st = "live" => cat[d].up # k.id
    BY <2>2 DEF Under, LiveCat
  <2>4. IsTree(tree) /\ UpsOf(tree) = [UpsOf(cat) EXCEPT ![k.id] = Top]
    BY <1>1, <2>1, <2>2, <2>3, RowGoes
  <2>5. Aged(cat, tree, {})
    <3>1. \A c \in CatIds \ {k.id} : tree[c] = cat[c]
      BY <1>3, <2>2
    <3>2. tree[k.id].st = "gone"
      BY <1>3, <2>1, <2>2 DEF NoCat
    <3> QED BY <2>2, <3>1, <3>2 DEF Aged
  <2> QED BY <1>2, <1>6, <2>4, <2>5
<1>7. CASE k.op = "reorder"
  <2>0. tree = Ordered(k.puts)
    BY <1>7 DEF Result
  <2>1. k.puts \in Seq(PutSet) /\ \A n \in DOMAIN k.puts : PutFits(cat, k.puts[n])
    BY <1>1, <1>7 DEF CallSet, CallFits
  <2>2. IsTree(tree) /\ SameRows(cat, tree) /\ UpsOf(tree) = Placed(Ups, k.puts)
    BY <1>1, <2>0, <2>1, OrderedKeeps
  <2>3. Aged(cat, tree, {})
    BY <2>2 DEF Aged, SameRows
  <2> QED BY <1>7, <2>2, <2>3
<1>8. k.op \in {"create", "update", "delete", "reorder"}
  BY DEF Result
<1> QED BY <1>4, <1>5, <1>6, <1>7, <1>8

\* What a write leaves of the levels, unless another placing was in hand.
LEMMA WriteLevels ==
  ASSUME Top \notin CatIds, CategoriesInv, ~overtaken, NEW q \in CatCalls, NEW v \in Trees,
         v = IF calls[q].op = "delete" THEN [Ups EXCEPT ![calls[q].id] = Top] ELSE Placed(Ups, calls[q].puts),
         ~\E p \in CatCalls \ {q} : Places(p) /\ Places(q) /\ (Moves(p) \/ Moves(q))
  PROVE  /\ ThreeLevels(v)
         /\ \A p \in CatCalls \ {q} : ThreeLevels(Placed(v, calls[p].puts))
<1>1. /\ ThreeLevels(Ups) /\ \A p \in CatCalls : ThreeLevels(Placed(Ups, calls[p].puts))
      /\ \A p \in CatCalls : calls[p] \in CallSet /\ CallFits(cat, calls[p])
  BY DEF CategoriesInv, LevelsKept, CallsFit
<1>2. Ups \in Trees
  BY DEF CategoriesInv, Ups, Trees, IsTree, CatRows
<1>3. \A p \in CatCalls : calls[p].puts \in Seq(PutSet)
  BY <1>1 DEF CallSet
<1>4. ASSUME NEW p \in CatCalls, ~Places(p) PROVE \A n \in DOMAIN calls[p].puts : calls[p].puts[n].up = Top
  BY <1>4 DEF Places, Top
<1>5. ThreeLevels(v)
  <2>1. CASE calls[q].op = "delete"
    <3>1. calls[q].id \in CatIds
      BY <1>1, <2>1 DEF CallFits
    <3>2. \A x \in CatIds : v[x] \in {Ups[x], Above(Ups, Ups[x]), Top}
      BY <1>2, <2>1, <3>1 DEF Trees
    <3> QED BY <1>1, <1>2, <3>2, Shortcut
  <2>2. CASE calls[q].op # "delete"
    BY <1>1, <2>2
  <2> QED BY <2>1, <2>2
<1>6. ASSUME NEW p \in CatCalls \ {q} PROVE ThreeLevels(Placed(v, calls[p].puts))
  <2> DEFINE w == Placed(Ups, calls[p].puts)
             u == Placed(v, calls[p].puts)
  <2>1. w \in Trees /\ u \in Trees /\ ThreeLevels(w)
    BY <1>1, <1>2, <1>3, PlacedIs
  <2>2. CASE ~Places(p)
    <3>1. \A x \in CatIds : u[x] \in {v[x], Above(v, v[x]), Top}
      BY <1>3, <1>4, <2>2, PlacedRoots
    <3> HIDE DEF u, w
    <3>2. ThreeLevels(u)
      BY <1>5, <2>1, <3>1, Shortcut
    <3> QED BY <3>2 DEF u
  <2>3. CASE ~Places(q)
    <3>1. \A x \in CatIds : v[x] \in {Ups[x], Top}
      <4> TAKE x \in CatIds
      <4>1. CASE calls[q].op = "delete"
        <5>1. calls[q].id \in CatIds
          BY <1>1, <4>1 DEF CallFits
        <5> QED BY <1>2, <4>1, <5>1 DEF Trees
      <4>2. CASE calls[q].op # "delete"
        <5>1. v = Placed(Ups, calls[q].puts) /\ calls[q].puts \in Seq(PutSet)
          BY <1>3, <4>2
        <5>2. \A n \in DOMAIN calls[q].puts : calls[q].puts[n].up = Top
          BY <1>4, <2>3
        <5> QED BY <1>2, <5>1, <5>2, PlacedRoots
      <4> QED BY <4>1, <4>2
    <3>2. \A x \in CatIds : u[x] \in {w[x], Above(w, w[x]), Top}
      <4> TAKE x \in CatIds
      <4>1. CASE \E n \in DOMAIN calls[p].puts : calls[p].puts[n].id = x
        BY <1>2, <1>3, <4>1, PlacedIs
      <4>2. CASE \A n \in DOMAIN calls[p].puts : calls[p].puts[n].id # x
        <5>1. u[x] = v[x] /\ w[x] = Ups[x]
          BY <1>2, <1>3, <4>2, PlacedElse
        <5> QED BY <3>1, <5>1
      <4> QED BY <4>1, <4>2
    <3> HIDE DEF u, w
    <3>3. ThreeLevels(u)
      BY <2>1, <3>2, Shortcut
    <3> QED BY <3>3 DEF u
  <2>4. CASE Places(p) /\ Places(q)
    <3>1. calls[p].op = "create" /\ calls[q].op = "create"
      BY <2>4 DEF Moves
    <3> DEFINE c == calls[q].id
               d == calls[p].id
    <3>2. c \in CatIds /\ d \in CatIds /\ cat[c].st = "none" /\ cat[d].st = "none"
      BY <1>1, <3>1 DEF CallFits
    <3>3. c # d
      BY <3>1 DEF CategoriesInv, NewAreApart
    <3>4. PICK x \in CatIds \cup {Top} : calls[q].puts = <<[id |-> c, up |-> x]>> /\ MayHold(cat, x, calls[q].type)
      BY <1>1, <3>1 DEF CallFits
    <3>5. PICK y \in CatIds \cup {Top} : calls[p].puts = <<[id |-> d, up |-> y]>> /\ MayHold(cat, y, calls[p].type)
      BY <1>1, <3>1 DEF CallFits
    <3>6. x # c /\ x # d /\ y # c /\ y # d
      BY <3>2, <3>4, <3>5 DEF MayHold
    <3>7. \A z \in CatIds : Ups[z] # c /\ Ups[z] # d
      <4> SUFFICES ASSUME NEW z \in CatIds PROVE Ups[z] # c /\ Ups[z] # d
        OBVIOUS
      <4>1. Ups[z] = cat[z].up
        BY DEF Ups
      <4>2. cat[z].up # Top => cat[cat[z].up].st = "live"
        BY DEF CategoriesInv, IsTree
      <4> QED BY <3>2, <4>1, <4>2
    <3> HIDE DEF c, d
    <3>8. v = [Ups EXCEPT ![c] = x] /\ w = [Ups EXCEPT ![d] = y] /\ u = [v EXCEPT ![d] = y]
      <4>1. Placed(Ups, calls[q].puts) = [Ups EXCEPT ![c] = x] /\ Placed(Ups, calls[p].puts) = [Ups EXCEPT ![d] = y]
        <5>1. Placed(Ups, calls[q].puts) = [Ups EXCEPT ![c] = x]
          <6>1. Placed(Ups, <<[id |-> c, up |-> x]>>) = [Ups EXCEPT ![c] = x]
            BY <1>2, <3>2, PlacedOne
          <6>2. calls[q].puts = <<[id |-> c, up |-> x]>>
            BY <3>4
          <6> QED BY <6>1, <6>2, Zenon
        <5>2. Placed(Ups, calls[p].puts) = [Ups EXCEPT ![d] = y]
          <6>1. Placed(Ups, <<[id |-> d, up |-> y]>>) = [Ups EXCEPT ![d] = y]
            BY <1>2, <3>2, PlacedOne
          <6>2. calls[p].puts = <<[id |-> d, up |-> y]>>
            BY <3>5
          <6> QED BY <6>1, <6>2, Zenon
        <5> QED BY <5>1, <5>2
      <4>2. Placed(v, calls[p].puts) = [v EXCEPT ![d] = y]
        BY <3>2, <3>5, PlacedOne
      <4>3. v = Placed(Ups, calls[q].puts)
        BY <3>1
      <4> QED BY <4>1, <4>2, <4>3
    <3>9. u = [Ups EXCEPT ![c] = x, ![d] = y]
      BY <3>8
    <3>10. ThreeLevels([Ups EXCEPT ![c] = x]) /\ ThreeLevels([Ups EXCEPT ![d] = y])
      BY <1>5, <2>1, <3>8
    <3>11. ThreeLevels([Ups EXCEPT ![c] = x, ![d] = y])
      BY <1>2, <3>2, <3>3, <3>6, <3>7, <3>10, TwoLeaves
    <3> QED BY <3>9, <3>11
  <2> QED BY <2>2, <2>3, <2>4
<1> QED BY <1>5, <1>6

-----------------------------------------------------------------------------
(* The requests' steps.                                                    *)

\* Somebody that nobody is below goes below a root or a child of a root.
LEMMA NewLeaf ==
  ASSUME Top \notin CatIds, NEW u \in Trees, ThreeLevels(u), NEW c \in CatIds, \A z \in CatIds : u[z] # c,
         NEW x \in CatIds \cup {Top}, x # c, Above(u, Above(u, x)) = Top
  PROVE  ThreeLevels([u EXCEPT ![c] = x])
<1> DEFINE v == [u EXCEPT ![c] = x]
           Old == (CatIds \cup {Top}) \ {c}
<1>1. v \in Trees /\ v[c] = x /\ \A z \in CatIds \ {c} : v[z] = u[z]
  BY DEF Trees
<1> HIDE DEF v
<1>2. /\ \A z : Above(v, z) = IF z = Top THEN Top ELSE v[z]
      /\ \A z : Above(u, z) = IF z = Top THEN Top ELSE u[z]
  BY AboveDef
<1>3. ASSUME NEW z \in Old PROVE Above(v, z) = Above(u, z) /\ Above(u, z) \in Old
  <2>1. CASE z = Top
    BY <2>1, <1>2
  <2>2. CASE z # Top
    BY <2>2, <1>1, <1>2 DEF Trees
  <2> QED BY <2>1, <2>2
<1>4. ASSUME NEW z \in CatIds PROVE Above(v, Above(v, Above(v, z))) = Top
  <2>1. CASE z = c
    <3>1. Above(v, z) = x /\ x \in Old
      BY <2>1, <1>1, <1>2
    <3>2. Above(v, x) = Above(u, x) /\ Above(u, x) \in Old
      BY <3>1, <1>3
    <3>3. Above(v, Above(u, x)) = Above(u, Above(u, x))
      BY <3>2, <1>3
    <3> QED BY <3>1, <3>2, <3>3
  <2>2. CASE z # c
    <3>1. Above(v, z) = Above(u, z) /\ Above(u, z) \in Old
      BY <2>2, <1>3
    <3>2. Above(v, Above(u, z)) = Above(u, Above(u, z)) /\ Above(u, Above(u, z)) \in Old
      BY <3>1, <1>3
    <3>3. Above(v, Above(u, Above(u, z))) = Above(u, Above(u, Above(u, z)))
      BY <3>2, <1>3
    <3> QED BY <3>1, <3>2, <3>3 DEF ThreeLevels
  <2> QED BY <2>1, <2>2
<1>5. ThreeLevels(v)
  BY <1>4 DEF ThreeLevels
<1> QED BY <1>5 DEF v

\* The tree and its rows, as the invariant has them.
LEMMA TreeOf ==
  ASSUME IsTree(cat)
  PROVE  /\ cat \in [CatIds -> CatRows] /\ Ups \in Trees /\ Ups = UpsOf(cat)
         /\ \A c \in CatIds : Ups[c] = cat[c].up
         /\ \A c \in CatIds : Ups[c] # Top => cat[c].st = "live" /\ Ups[c] \in CatIds /\ cat[Ups[c]].st = "live"
<1>1. cat \in [CatIds -> CatRows]
  BY DEF IsTree
<1>2. Ups \in Trees /\ Ups = UpsOf(cat) /\ \A c \in CatIds : Ups[c] = cat[c].up
  BY <1>1 DEF Ups, UpsOf, Trees, CatRows
<1>3. ASSUME NEW c \in CatIds, Ups[c] # Top PROVE cat[c].st = "live" /\ Ups[c] \in CatIds /\ cat[Ups[c]].st = "live"
  <2>1. cat[c].st = "live" /\ cat[cat[c].up].st = "live"
    BY <1>2, <1>3 DEF IsTree
  <2>2. Ups[c] \in CatIds
    BY <1>2, <1>3 DEF Trees
  <2> QED BY <1>2, <2>1, <2>2
<1> QED BY <1>1, <1>2, <1>3

\* No request is one, and fits.
LEMMA NoCallFits == NoCall \in CallSet /\ NoCall.op = "idle" /\ NoCall.puts = <<>> /\ \A t : CallFits(t, NoCall)
<1>1. <<>> \in Seq(PutSet)
  OBVIOUS
<1>2. NoCall \in CallSet
  BY <1>1 DEF NoCall, CallSet, Kinds, Top
<1>3. NoCall.op = "idle" /\ NoCall.puts = <<>>
  BY DEF NoCall
<1> QED BY <1>2, <1>3 DEF CallFits

\* A request that was checked is in hand; nothing is written yet.
LEMMA AskKeeps ==
  ASSUME CategoriesInv, NEW q \in CatCalls, NEW call \in CallSet, CallFits(cat, call),
         call.op = "create" => \A p \in CatCalls : calls[p].id # call.id,
         ~overtaken => call.op # "walking" /\ ThreeLevels(Placed(Ups, call.puts)),
         calls' = [calls EXCEPT ![q] = call], UNCHANGED <<cat, filed, overtaken>>
  PROVE  CategoriesInv'
<1>1. /\ calls \in [CatCalls -> CallSet] /\ calls' \in [CatCalls -> CallSet]
      /\ calls'[q] = call /\ \A p \in CatCalls \ {q} : calls'[p] = calls[p]
  BY DEF CategoriesInv, CallsFit
<1>2. cat' = cat /\ filed' = filed /\ overtaken' = overtaken /\ Ups' = Ups
  BY DEF Ups
<1>3. CallsFit'
  BY <1>1, <1>2 DEF CategoriesInv, CallsFit
<1>4. NewAreApart'
  <2> SUFFICES ASSUME NEW p \in CatCalls, NEW r \in CatCalls, p # r, calls'[p].op = "create", calls'[r].op = "create"
               PROVE  calls'[p].id # calls'[r].id
    BY DEF NewAreApart
  <2>1. CASE p = q
    BY <1>1, <2>1
  <2>2. CASE r = q
    BY <1>1, <2>2
  <2>3. CASE p # q /\ r # q
    BY <1>1, <2>3 DEF CategoriesInv, NewAreApart
  <2> QED BY <2>1, <2>2, <2>3
<1>5. FiledFit' /\ IsTree(cat') /\ overtaken' \in BOOLEAN
  BY <1>2 DEF CategoriesInv, FiledFit
<1>6. LevelsKept'
  <2> SUFFICES ASSUME ~overtaken, NEW p \in CatCalls
               PROVE  ThreeLevels(Ups) /\ calls'[p].op # "walking" /\ ThreeLevels(Placed(Ups, calls'[p].puts))
    BY <1>2 DEF LevelsKept
  <2>1. CASE p = q
    BY <1>1, <2>1 DEF CategoriesInv, LevelsKept
  <2>2. CASE p # q
    BY <1>1, <2>2 DEF CategoriesInv, LevelsKept
  <2> QED BY <2>1, <2>2
<1> QED BY <1>3, <1>4, <1>5, <1>6 DEF CategoriesInv

\* A category is checked, and is a new leaf to whoever has one in hand as well.
LEMMA CreateKeeps ==
  ASSUME Top \notin CatIds, CategoriesInv, NEW q \in CatCalls, NEW c \in CatIds, NEW type \in Kinds, NEW name \in CatNames,
         NEW up \in CatIds \cup {Top}, CreateCategory(q, c, type, name, up)
  PROVE  CategoriesInv'
<1> DEFINE put  == [id |-> c, up |-> up]
           call == [op |-> "create", id |-> c, type |-> type, name |-> name, puts |-> <<put>>]
<1>0. IsTree(cat)
  BY DEF CategoriesInv
<1>1. <<put>> \in Seq(PutSet)
  <2>1. put \in PutSet
    BY DEF PutSet
  <2> HIDE DEF put
  <2> QED BY <2>1
<1>2. call \in CallSet /\ call.op = "create" /\ call.id = c /\ call.puts = <<put>> /\ call.type = type
  <2> HIDE DEF put
  <2> QED BY <1>1 DEF CallSet
<1>3. /\ cat[c].st = "none" /\ (\A p \in CatCalls : calls[p].id # c) /\ validParent(up, type)
      /\ DepthFromParent(up) <= maxDepth /\ calls' = [calls EXCEPT ![q] = call] /\ UNCHANGED <<cat, filed, overtaken>>
  BY DEF CreateCategory, Asked
<1>4. MayHold(cat, up, type) /\ up # c
  <2>1. up # Top => cat[up].st = "live" /\ cat[up].type = type /\ ~cat[up].system
    BY <1>3 DEF validParent, LiveCat, Top
  <2> QED BY <1>3, <2>1 DEF MayHold
<1>5. Above(Ups, Above(Ups, up)) = Top
  <2>1. 1 + Level(Ups, up) <= 3
    BY <1>3 DEF DepthFromParent, maxDepth
  <2>2. Level(Ups, up) \in Nat
    BY LevelIs
  <2>3. Level(Ups, up) <= 2
    BY <2>1, <2>2
  <2> QED BY <2>3, LevelIs
<1>6. \A z \in CatIds : Ups[z] # c
  BY <1>0, <1>3, TreeOf
<1>7. ~overtaken => ThreeLevels(Placed(Ups, <<put>>))
  <2> SUFFICES ASSUME ~overtaken PROVE ThreeLevels(Placed(Ups, <<put>>))
    OBVIOUS
  <2>1. ThreeLevels(Ups)
    BY DEF CategoriesInv, LevelsKept
  <2>2. ThreeLevels([Ups EXCEPT ![c] = up])
    BY <1>0, <1>4, <1>5, <1>6, <2>1, NewLeaf, TreeOf
  <2>3. Placed(Ups, <<put>>) = [Ups EXCEPT ![c] = up]
    BY <1>0, PlacedOne, TreeOf
  <2> QED BY <2>2, <2>3
<1>8. CallFits(cat, call)
  <2>1. \E x \in CatIds \cup {Top} : <<put>> = <<[id |-> c, up |-> x]>> /\ MayHold(cat, x, type)
    BY <1>4
  <2> HIDE DEF call
  <2> QED BY <1>2, <1>3, <2>1 DEF CallFits
<1> HIDE DEF call, put
<1> QED BY <1>2, <1>3, <1>7, <1>8, AskKeeps

\* A name or a place is checked: where it is put, three levels are kept.
LEMMA UpdateKeeps ==
  ASSUME Top \notin CatIds, CategoriesInv, NEW q \in CatCalls, NEW c \in CatIds, NEW name \in CatNames \cup {Top},
         NEW puts \in Seq(PutSet), puts = <<>> \/ \E x \in CatIds \cup {Top} : puts = <<[id |-> c, up |-> x]>>,
         UpdateCategory(q, c, name, puts)
  PROVE  CategoriesInv'
<1> DEFINE call == [op |-> "update", id |-> c, type |-> cat[c].type, name |-> name, puts |-> puts]
<1>0. IsTree(cat) /\ cat[c] \in CatRows
  BY TreeOf DEF CategoriesInv
<1>1. /\ cat[c].st = "live" /\ ~cat[c].system
      /\ \A n \in DOMAIN puts : MayMove(c, puts[n].up)
      /\ calls' = [calls EXCEPT ![q] = call] /\ UNCHANGED <<cat, filed, overtaken>>
  BY DEF UpdateCategory, Asked, LiveCat
<1>2. call \in CallSet /\ call.op = "update" /\ call.id = c /\ call.puts = puts
  BY <1>0 DEF CallSet, CatRows
<1>3. ASSUME NEW x \in CatIds, puts = <<[id |-> c, up |-> x]>>
      PROVE  /\ PutFits(cat, puts[1])
             /\ ~overtaken => ThreeLevels([Ups EXCEPT ![c] = x])
  <2>1. puts[1].id = c /\ puts[1].up = x /\ 1 \in DOMAIN puts
    BY <1>3
  <2>2. MayMove(c, x) /\ x # Top
    BY <1>1, <2>1
  <2>3. /\ cat[x].st = "live" /\ cat[x].type = cat[c].type /\ ~cat[x].system
        /\ ~IsDescendant(c, x) /\ DepthFromParent(x) + subtreeDepth(c) <= maxDepth
    BY <2>2 DEF MayMove, validParent, LiveCat, Top
  <2>4. PutFits(cat, puts[1])
    BY <1>1, <2>1, <2>3 DEF PutFits, MayHold
  <2>5. x # c
    <3>1. Chain(Ups, x)[0] = x
      BY ChainStarts
    <3>2. \A n \in 0..8 : Chain(Ups, x)[n] # c
      BY <2>3 DEF IsDescendant, MaxHops
    <3> QED BY <3>1, <3>2
  <2>6. Level(Ups, x) <= 1 /\ subtreeDepth(c) = 1
    <3>1. subtreeDepth(c) \in {1, 2, 3}
      BY DEF subtreeDepth
    <3>2. Level(Ups, x) \in Nat /\ Level(Ups, x) # 0
      BY <2>2, LevelIs
    <3>3. 1 + Level(Ups, x) + subtreeDepth(c) <= 3
      BY <2>3 DEF DepthFromParent, maxDepth
    <3> QED BY <3>1, <3>2, <3>3
  <2>7. Under(c) = {}
    BY <2>6 DEF subtreeDepth
  <2>8. \A z \in CatIds : Ups[z] # c
    <3> SUFFICES ASSUME NEW z \in CatIds, Ups[z] = c PROVE FALSE
      OBVIOUS
    <3>1. cat[z].st = "live" /\ cat[z].up = c
      BY <1>0, TreeOf
    <3> QED BY <2>7, <3>1 DEF Under, LiveCat
  <2>9. Above(Ups, Above(Ups, x)) = Top
    <3>1. Above(Ups, x) = Top
      BY <2>6, LevelIs
    <3> QED BY <3>1, AboveDef
  <2>10. ASSUME ~overtaken PROVE ThreeLevels([Ups EXCEPT ![c] = x])
    <3>1. ThreeLevels(Ups)
      BY <2>10 DEF CategoriesInv, LevelsKept
    <3> QED BY <1>0, <2>5, <2>8, <2>9, <3>1, NewLeaf, TreeOf
  <2> QED BY <2>4, <2>10
<1>4. ASSUME puts = <<[id |-> c, up |-> Top]>>
      PROVE  PutFits(cat, puts[1])
  <2>1. puts[1].id = c /\ puts[1].up = Top
    BY <1>4
  <2> QED BY <1>1, <2>1 DEF PutFits
<1>5. \A n \in DOMAIN puts : PutFits(cat, puts[n])
  <2>1. CASE puts = <<>>
    BY <2>1
  <2>2. ASSUME NEW x \in CatIds \cup {Top}, puts = <<[id |-> c, up |-> x]>>
        PROVE  \A n \in DOMAIN puts : PutFits(cat, puts[n])
    <3>1. DOMAIN puts = {1}
      BY <2>2
    <3>2. PutFits(cat, puts[1])
      BY <2>2, <1>3, <1>4
    <3> QED BY <3>1, <3>2
  <2> QED BY <2>1, <2>2
<1>6. ~overtaken => ThreeLevels(Placed(Ups, puts))
  <2> SUFFICES ASSUME ~overtaken PROVE ThreeLevels(Placed(Ups, puts))
    OBVIOUS
  <2>1. ThreeLevels(Ups) /\ Ups \in Trees
    BY <1>0, TreeOf DEF CategoriesInv, LevelsKept
  <2>2. CASE puts = <<>>
    BY <2>1, <2>2, PlacedNone
  <2>3. ASSUME NEW x \in CatIds, puts = <<[id |-> c, up |-> x]>> PROVE ThreeLevels(Placed(Ups, puts))
    <3>1. ThreeLevels([Ups EXCEPT ![c] = x])
      BY <1>3, <2>3
    <3>2. Placed(Ups, puts) = [Ups EXCEPT ![c] = x]
      BY <2>1, <2>3, PlacedOne
    <3> QED BY <3>1, <3>2
  <2>4. CASE puts = <<[id |-> c, up |-> Top]>>
    <3>1. \A n \in DOMAIN puts : puts[n].up = Top
      BY <2>4
    <3>2. \A z \in CatIds : Placed(Ups, puts)[z] \in {Ups[z], Above(Ups, Ups[z]), Top}
      BY <2>1, <3>1, PlacedRoots
    <3>3. Placed(Ups, puts) \in Trees
      BY <2>1, PlacedIs
    <3> QED BY <2>1, <3>2, <3>3, Shortcut
  <2> QED BY <2>2, <2>3, <2>4
<1>7. CallFits(cat, call)
  <2>1. puts = <<>> \/ \E x \in CatIds \cup {Top} : puts = <<[id |-> c, up |-> x]>>
    OBVIOUS
  <2> HIDE DEF call
  <2> QED BY <1>1, <1>2, <1>5, <2>1 DEF CallFits
<1> HIDE DEF call
<1> QED BY <1>1, <1>2, <1>6, <1>7, AskKeeps

\* A walk does not come back to where it began: in a tree nobody is above themselves.
LEMMA WalkKeeps ==
  ASSUME Top \notin CatIds, CategoriesInv, NEW q \in CatCalls, NEW c \in CatIds, NEW up \in CatIds, UpdateNeverEnds(q, c, up)
  PROVE  CategoriesInv'
<1> DEFINE call == [NoCall EXCEPT !.op = "walking", !.id = c]
<1>0. IsTree(cat)
  BY DEF CategoriesInv
<1>1. NeverEnds(c, up) /\ calls' = [calls EXCEPT ![q] = call] /\ UNCHANGED <<cat, filed, overtaken>>
  BY DEF UpdateNeverEnds, Asked
<1>2. call \in CallSet /\ call.op = "walking" /\ call.puts = <<>>
  BY NoCallFits DEF CallSet
<1>3. overtaken
  <2> SUFFICES ASSUME ~overtaken PROVE FALSE
    BY DEF CategoriesInv
  <2>1. ThreeLevels(Ups) /\ Ups \in Trees
    BY <1>0, TreeOf DEF CategoriesInv, LevelsKept
  <2>2. PICK n \in 1..8 : Chain(Ups, c)[n] = c
    BY <1>1 DEF NeverEnds, MaxHops
  <2>3. Chain(Ups, c)[3] = Top /\ c # Top
    BY <2>1, ChainStarts DEF ThreeLevels
  <2>4. n \notin 3..8
    <3> SUFFICES ASSUME n \in 3..8 PROVE FALSE
      OBVIOUS
    <3>1. Chain(Ups, c)[n] = Top
      BY <2>3, ChainEnds
    <3> QED BY <2>2, <2>3, <3>1
  <2>5. n = 1 \/ n = 2
    BY <2>4
  <2>6. Above(Ups, c) = Ups[c]
    BY <2>3, AboveDef
  <2>7. Ups[c] # c /\ Above(Ups, Ups[c]) # c
    BY <2>1, NoCycle
  <2> QED BY <2>2, <2>5, <2>6, <2>7, ChainStarts
<1>4. CallFits(cat, call)
  <2> HIDE DEF call
  <2> QED BY <1>2 DEF CallFits
<1> HIDE DEF call
<1> QED BY <1>1, <1>2, <1>3, <1>4, AskKeeps

\* A new order is checked as a whole.
LEMMA ReorderKeeps ==
  ASSUME Top \notin CatIds, CategoriesInv, NEW q \in CatCalls, NEW puts \in Seq(PutSet), ReorderCategories(q, puts)
  PROVE  CategoriesInv'
<1> DEFINE call == [NoCall EXCEPT !.op = "reorder", !.puts = puts]
<1>0. IsTree(cat)
  BY DEF CategoriesInv
<1>1. /\ \A n \in DOMAIN puts : /\ cat[puts[n].id].st = "live" /\ (cat[puts[n].id].system => puts[n].up = Top)
                                /\ validParent(puts[n].up, cat[puts[n].id].type)
      /\ \A c \in CatIds : cat[c].st = "live" => Level(Placed(Ups, puts), c) <= 3
      /\ calls' = [calls EXCEPT ![q] = call] /\ UNCHANGED <<cat, filed, overtaken>>
  BY DEF ReorderCategories, Asked, LiveCat, maxDepth, Top
<1>2. call \in CallSet /\ call.op = "reorder" /\ call.puts = puts
  BY NoCallFits DEF CallSet
<1>3. ASSUME NEW n \in DOMAIN puts PROVE PutFits(cat, puts[n]) /\ puts[n].id \in CatIds
  <2> DEFINE p == puts[n]
  <2>1. p \in PutSet
    OBVIOUS
  <2>2. cat[p.id].st = "live" /\ (cat[p.id].system => p.up = Top) /\ validParent(p.up, cat[p.id].type)
    BY <1>1
  <2> HIDE DEF p
  <2>3. p.up # Top => cat[p.up].st = "live" /\ cat[p.up].type = cat[p.id].type /\ ~cat[p.up].system
    BY <2>2 DEF validParent, LiveCat, Top
  <2>4. PutFits(cat, p) /\ p.id \in CatIds
    BY <2>1, <2>2, <2>3 DEF PutFits, MayHold, PutSet
  <2> QED BY <2>4 DEF p
<1>4. ThreeLevels(Placed(Ups, puts))
  <2> SUFFICES ASSUME NEW c \in CatIds
               PROVE  Above(Placed(Ups, puts), Above(Placed(Ups, puts), Above(Placed(Ups, puts), c))) = Top
    BY DEF ThreeLevels
  <2>1. CASE cat[c].st = "live"
    BY <1>1, <2>1, LevelIs
  <2>2. CASE cat[c].st # "live"
    <3>1. \A n \in DOMAIN puts : puts[n].id # c
      BY <1>1, <2>2
    <3>2. Placed(Ups, puts)[c] = Ups[c] /\ Ups[c] = Top
      BY <1>0, <2>2, <3>1, PlacedElse, TreeOf
    <3> QED BY <3>2, AboveDef
  <2> QED BY <2>1, <2>2
<1>5. CallFits(cat, call)
  <2> HIDE DEF call
  <2> QED BY <1>2, <1>3 DEF CallFits
<1> HIDE DEF call
<1> QED BY <1>1, <1>2, <1>4, <1>5, AskKeeps

\* A new order moves a category, and others below others.
LEMMA RearrangesIs ==
  ASSUME NEW p, NEW c
  PROVE  Rearranges(p, c) <=> /\ calls[p].op = "reorder"
                              /\ \E n \in DOMAIN calls[p].puts : calls[p].puts[n].up # Top
                              /\ \E n \in DOMAIN calls[p].puts : calls[p].puts[n].id = c
BY DEF Rearranges, Places, Top

\* What a delete writes first.
LEMMA DeleteIs ==
  ASSUME NEW q \in CatCalls, NEW c \in CatIds, DeleteCategory(q, c)
  PROVE  /\ cat[c].st = "live" /\ cat' = Risen(cat, c)
         /\ \A d \in CatIds : cat[d].st = "live" /\ cat[d].up = c => Fits(Risen(cat, c), d, Risen(cat, c)[d].name, Risen(cat, c)[d].up)
         /\ calls' = [calls EXCEPT ![q] = [NoCall EXCEPT !.op = "delete", !.id = c]] /\ filed' = filed
         /\ overtaken' = (overtaken \/ \E p \in CatCalls : Rearranges(p, c))
<1>1. /\ LiveCat(c)
      /\ \E tree \in {Risen(cat, c)} : /\ \A d \in Under(c) : Fits(tree, d, tree[d].name, tree[d].up)
                                      /\ cat' = tree
      /\ calls' = [calls EXCEPT ![q] = [NoCall EXCEPT !.op = "delete", !.id = c]]
      /\ overtaken' = (overtaken \/ \E p \in CatCalls : Rearranges(p, c)) /\ filed' = filed
  BY Zenon DEF DeleteCategory, Asked, LiveCat, Risen
<1>2. cat' = Risen(cat, c) /\ \A d \in Under(c) : Fits(Risen(cat, c), d, Risen(cat, c)[d].name, Risen(cat, c)[d].up)
  BY <1>1, Zenon
<1>3. cat[c].st = "live" /\ \A d \in CatIds : cat[d].st = "live" /\ cat[d].up = c => d \in Under(c)
  BY <1>1 DEF LiveCat, Under
<1> QED BY <1>1, <1>2, <1>3, Zenon

\* The children of a category that is deleted go a level up.
LEMMA DeleteKeeps ==
  ASSUME Top \notin CatIds, CategoriesInv, NEW q \in CatCalls, calls[q] = NoCall, NEW c \in CatIds, DeleteCategory(q, c)
  PROVE  CategoriesInv'
<1> DEFINE call == [NoCall EXCEPT !.op = "delete", !.id = c]
           u == Risen(cat, c)
           v == UpsOf(u)
<1>0. IsTree(cat)
  BY DEF CategoriesInv
<1>1. /\ cat[c].st = "live" /\ cat' = u
      /\ calls' = [calls EXCEPT ![q] = call] /\ filed' = filed
      /\ overtaken' = (overtaken \/ \E p \in CatCalls : Rearranges(p, c))
  BY DeleteIs, Zenon
<1>2. call \in CallSet /\ call.op = "delete" /\ call.puts = <<>> /\ call.id = c
  BY NoCallFits DEF CallSet
<1>3. \A d \in CatIds : cat[d].st = "live" /\ cat[d].up = c => Fits(u, d, u[d].name, u[d].up)
  BY DeleteIs, Zenon
<1>4. /\ IsTree(u) /\ SameRows(cat, u)
      /\ \A d \in CatIds : v[d] = IF UpsOf(cat)[d] = c THEN UpsOf(cat)[c] ELSE UpsOf(cat)[d]
  BY <1>0, <1>1, <1>3, ChildrenRise
<1> HIDE DEF u
<1>5. /\ IsTree(cat') /\ Ups' = v /\ v \in Trees /\ Ups \in Trees
      /\ \A d \in CatIds : v[d] = IF Ups[d] = c THEN Ups[c] ELSE Ups[d]
  <2>1. Ups' = v
    BY <1>1 DEF Ups, UpsOf
  <2>2. v \in Trees
    BY <1>4 DEF UpsOf, Trees, IsTree, CatRows
  <2> QED BY <1>0, <1>1, <1>4, <2>1, <2>2, TreeOf
<1>6. Aged(cat, cat', {})
  BY <1>1, <1>4 DEF Aged, SameRows
<1>7. /\ calls \in [CatCalls -> CallSet] /\ calls' \in [CatCalls -> CallSet]
      /\ calls'[q] = call /\ \A p \in CatCalls \ {q} : calls'[p] = calls[p]
  BY <1>1, <1>2 DEF CategoriesInv, CallsFit
<1> HIDE DEF call, v
<1>8. CallsFit'
  <2>1. CallFits(cat', call)
    BY <1>2 DEF CallFits
  <2>2. ASSUME NEW p \in CatCalls PROVE CallFits(cat', calls[p])
    BY <1>6, <1>7, CallFitsOn DEF CategoriesInv, CallsFit
  <2>3. \A p \in CatCalls : CallFits(cat', calls'[p])
    BY <1>7, <2>1, <2>2
  <2> QED BY <1>7, <2>3 DEF CallsFit
<1>9. NewAreApart'
  <2>1. \A p \in CatCalls : calls'[p].op = "create" => p # q /\ calls'[p] = calls[p]
    BY <1>2, <1>7
  <2> QED BY <2>1 DEF CategoriesInv, NewAreApart
<1>10. FiledFit'
  <2>1. \A i \in DOMAIN filed : filed[i] # Top => filed[i] \in CatIds /\ cat[filed[i]].st = "live"
    BY DEF CategoriesInv, FiledFit
  <2>2. \A i \in DOMAIN filed : filed[i] # Top => cat'[filed[i]].st = "live"
    BY <1>1, <1>4, <2>1 DEF SameRows
  <2> QED BY <1>1, <2>2 DEF CategoriesInv, FiledFit
<1>11. LevelsKept'
  <2> SUFFICES ASSUME ~overtaken'
               PROVE  ThreeLevels(v) /\ \A p \in CatCalls : calls'[p].op # "walking" /\ ThreeLevels(Placed(v, calls'[p].puts))
    BY <1>5 DEF LevelsKept
  <2>1. ~overtaken /\ \A p \in CatCalls : ~Rearranges(p, c)
    BY <1>1
  <2>2. ThreeLevels(Ups) /\ \A p \in CatCalls : calls[p].op # "walking" /\ ThreeLevels(Placed(Ups, calls[p].puts))
    BY <2>1 DEF CategoriesInv, LevelsKept
  <2>3. \A d \in CatIds : v[d] \in {Ups[d], Above(Ups, Ups[d]), Top}
    BY <1>5, AboveDef
  <2>4. ThreeLevels(v)
    BY <1>5, <2>2, <2>3, Shortcut
  <2>5. ASSUME NEW p \in CatCalls, p # q PROVE ThreeLevels(Placed(v, calls[p].puts))
    <3> DEFINE puts == calls[p].puts
               w == Placed(Ups, puts)
               x == Placed(v, puts)
    <3>1. puts \in Seq(PutSet) /\ CallFits(cat, calls[p])
      BY <1>7 DEF CallSet, CategoriesInv, CallsFit
    <3> HIDE DEF puts
    <3>2. w \in Trees /\ x \in Trees
      BY <1>5, <3>1, PlacedIs
    <3>3. ThreeLevels(w)
      BY <2>2 DEF puts
    <3> HIDE DEF w, x
    <3>4. CASE \A n \in DOMAIN puts : puts[n].id # c
      <4>1. ASSUME NEW z \in CatIds PROVE x[z] \in {w[z], Above(w, w[z]), Top}
        <5>1. CASE \E n \in DOMAIN puts : puts[n].id = z
          BY <1>5, <3>1, <5>1, PlacedIs DEF w, x
        <5>2. CASE \A n \in DOMAIN puts : puts[n].id # z
          <6>1. x[z] = v[z] /\ w[z] = Ups[z] /\ w[c] = Ups[c]
            BY <1>5, <3>1, <3>4, <5>2, PlacedElse DEF w, x
          <6>2. Above(w, c) = w[c]
            BY AboveDef
          <6> QED BY <1>5, <6>1, <6>2
        <5> QED BY <5>1, <5>2
      <4>2. ThreeLevels(x)
        BY <3>2, <3>3, <4>1, Shortcut
      <4> QED BY <4>2 DEF x, puts
    <3>5. CASE \A n \in DOMAIN puts : puts[n].up = Top
      <4>1. \A z \in CatIds : x[z] \in {v[z], Above(v, v[z]), Top}
        BY <1>5, <3>1, <3>5, PlacedRoots DEF x
      <4>2. ThreeLevels(x)
        BY <1>5, <2>4, <3>2, <4>1, Shortcut
      <4> QED BY <4>2 DEF x, puts
    <3>6. CASE (\E n \in DOMAIN puts : puts[n].id = c) /\ \E n \in DOMAIN puts : puts[n].up # Top
      <4>1. puts # <<>>
        BY <3>6
      <4>2. calls[p].op = "update"
        <5>1. calls[p].op \notin {"idle", "delete", "walking"}
          BY <3>1, <4>1 DEF CallFits, puts
        <5>2. calls[p].op # "reorder"
          BY <2>1, <3>6, RearrangesIs DEF puts
        <5>3. calls[p].op # "create"
          <6> SUFFICES ASSUME calls[p].op = "create" PROVE FALSE
            OBVIOUS
          <6>1. cat[calls[p].id].st = "none" /\ \E y \in CatIds \cup {Top} : puts = <<[id |-> calls[p].id, up |-> y]>>
            BY <3>1 DEF CallFits, puts
          <6>2. calls[p].id = c
            BY <3>6, <6>1
          <6> QED BY <1>1, <6>1, <6>2
        <5>4. calls[p] \in CallSet
          BY <1>7
        <5> QED BY <5>1, <5>2, <5>3, <5>4 DEF CallSet
      <4>3. PICK y \in CatIds \cup {Top} : puts = <<[id |-> calls[p].id, up |-> y]>>
        BY <3>1, <4>1, <4>2 DEF CallFits, puts
      <4>4. calls[p].id = c /\ y # Top
        BY <3>6, <4>3
      <4>5. puts = <<[id |-> c, up |-> y]>> /\ y \in CatIds
        BY <4>3, <4>4
      <4>6. w = MovedTo(Ups, c, y)
        BY <1>5, <4>5, PlacedOne DEF w, MovedTo
      <4>7. x = MovedTo(v, c, y)
        BY <1>5, <4>5, PlacedOne DEF x, MovedTo
      <4>8. ThreeLevels(MovedTo(Ups, c, y))
        BY <3>3, <4>6
      <4>9. ThreeLevels(x)
        BY <1>5, <2>2, <3>2, <4>5, <4>7, <4>8, MovedAlone
      <4> QED BY <4>9 DEF x, puts
    <3> QED BY <3>4, <3>5, <3>6
  <2>6. ThreeLevels(Placed(v, call.puts)) /\ call.op # "walking"
    BY <1>2, <1>5, <2>4, PlacedNone
  <2>7. ASSUME NEW p \in CatCalls PROVE calls'[p].op # "walking" /\ ThreeLevels(Placed(v, calls'[p].puts))
    <3>1. CASE p = q
      BY <1>7, <2>6, <3>1
    <3>2. CASE p # q
      BY <1>7, <2>2, <2>5, <3>2
    <3> QED BY <3>1, <3>2
  <2> QED BY <2>4, <2>7
<1>12. overtaken' \in BOOLEAN
  BY <1>1 DEF CategoriesInv
<1> QED BY <1>5, <1>8, <1>9, <1>10, <1>11, <1>12 DEF CategoriesInv

\* What a request was checked for is written.
LEMMA WriteKeeps ==
  ASSUME Top \notin CatIds, CategoriesInv, NEW q \in CatCalls, Writes(q)
  PROVE  CategoriesInv'
<1> DEFINE tree == Result(q)
           New  == IF calls[q].op = "create" THEN {calls[q].id} ELSE {}
           v    == UpsOf(tree)
<1>1. /\ tree # NoTree /\ cat' = tree /\ calls' = [calls EXCEPT ![q] = NoCall]
      /\ filed' = [r \in DOMAIN filed |-> IF filed[r] # Top /\ tree[filed[r]].st = "gone" THEN Top ELSE filed[r]]
      /\ overtaken' = (overtaken \/ \E p \in CatCalls \ {q} : Places(p) /\ Places(q) /\ (Moves(p) \/ Moves(q)))
  BY DEF Writes, Answered, Noted, Top
<1> HIDE DEF tree
<1>2. /\ IsTree(tree) /\ Aged(cat, tree, New)
      /\ v = IF calls[q].op = "delete" THEN [Ups EXCEPT ![calls[q].id] = Top] ELSE Placed(Ups, calls[q].puts)
  BY <1>1, WriteIs DEF tree
<1>3. v \in Trees /\ Ups' = v
  BY <1>1, <1>2 DEF UpsOf, Ups, Trees, IsTree, CatRows
<1>4. /\ calls \in [CatCalls -> CallSet] /\ calls' \in [CatCalls -> CallSet]
      /\ calls'[q] = NoCall /\ \A p \in CatCalls \ {q} : calls'[p] = calls[p]
  BY <1>1, NoCallFits DEF CategoriesInv, CallsFit
<1>5. CallsFit'
  <2>1. ASSUME NEW p \in CatCalls, p # q PROVE CallFits(tree, calls[p])
    <3>1. calls[p] \in CallSet /\ CallFits(cat, calls[p])
      BY <1>4 DEF CategoriesInv, CallsFit
    <3>2. calls[p].op = "create" => calls[p].id \notin New
      BY <2>1 DEF CategoriesInv, NewAreApart
    <3> QED BY <1>2, <3>1, <3>2, CallFitsOn
  <2>2. \A p \in CatCalls : CallFits(cat', calls'[p])
    BY <1>1, <1>4, <2>1, NoCallFits
  <2> QED BY <1>4, <2>2 DEF CallsFit
<1>6. NewAreApart'
  <2>1. \A p \in CatCalls : calls'[p].op = "create" => p # q /\ calls'[p] = calls[p]
    BY <1>4, NoCallFits
  <2> QED BY <2>1 DEF CategoriesInv, NewAreApart
<1>7. FiledFit'
  <2>1. filed \in [{r.id : r \in FiledRows} -> CatIds \cup {Top}]
    BY DEF CategoriesInv, FiledFit
  <2>2. filed' \in [{r.id : r \in FiledRows} -> CatIds \cup {Top}]
    BY <1>1, <2>1
  <2>3. ASSUME NEW i \in DOMAIN filed', filed'[i] # Top PROVE cat'[filed'[i]].st = "live"
    <3>1. i \in DOMAIN filed /\ filed'[i] = filed[i] /\ tree[filed[i]].st # "gone" /\ filed[i] # Top
      BY <1>1, <2>3
    <3>2. filed[i] \in CatIds /\ cat[filed[i]].st = "live"
      BY <2>1, <3>1 DEF CategoriesInv, FiledFit
    <3>3. tree[filed[i]].st # "none" /\ tree[filed[i]] \in CatRows
      BY <1>2, <3>2 DEF Aged, IsTree
    <3> QED BY <1>1, <3>1, <3>3 DEF CatRows
  <2> QED BY <2>2, <2>3 DEF FiledFit
<1>8. LevelsKept'
  <2> SUFFICES ASSUME ~overtaken'
               PROVE  ThreeLevels(v) /\ \A p \in CatCalls : calls'[p].op # "walking" /\ ThreeLevels(Placed(v, calls'[p].puts))
    BY <1>3 DEF LevelsKept
  <2>1. ~overtaken /\ ~\E p \in CatCalls \ {q} : Places(p) /\ Places(q) /\ (Moves(p) \/ Moves(q))
    BY <1>1
  <2> HIDE DEF v
  <2>2. ThreeLevels(v) /\ \A p \in CatCalls \ {q} : ThreeLevels(Placed(v, calls[p].puts))
    BY <1>2, <1>3, <2>1, WriteLevels
  <2>3. ASSUME NEW p \in CatCalls PROVE calls'[p].op # "walking" /\ ThreeLevels(Placed(v, calls'[p].puts))
    <3>1. CASE p = q
      BY <1>3, <1>4, <2>2, <3>1, NoCallFits, PlacedNone
    <3>2. CASE p # q
      BY <1>4, <2>1, <2>2, <3>2 DEF CategoriesInv, LevelsKept
    <3> QED BY <3>1, <3>2
  <2> QED BY <2>2, <2>3
<1>9. IsTree(cat') /\ overtaken' \in BOOLEAN
  BY <1>1, <1>2 DEF CategoriesInv
<1> QED BY <1>5, <1>6, <1>7, <1>8, <1>9 DEF CategoriesInv

\* A request that ends without a write changes nothing.
LEMMA FailKeeps ==
  ASSUME Top \notin CatIds, CategoriesInv, NEW q \in CatCalls, CallFails(q)
  PROVE  CategoriesInv'
<1>1. calls' = [calls EXCEPT ![q] = NoCall] /\ UNCHANGED <<cat, filed, overtaken>>
  BY DEF CallFails, Answered
<1>2. ~overtaken => NoCall.op # "walking" /\ ThreeLevels(Placed(Ups, NoCall.puts))
  BY NoCallFits, PlacedNone, TreeOf DEF CategoriesInv, LevelsKept
<1> QED BY <1>1, <1>2, NoCallFits, AskKeeps

\* Whatever a request does, the invariant stays.
LEMMA CategoriesKept ==
  ASSUME CategoriesInv, [CategoriesNext]_catVars
  PROVE  CategoriesInv'
<1>1. Top \notin CatIds
  BY SeedsAreATree DEF Top
<1>2. CASE UNCHANGED catVars
  <2>1. cat' = cat /\ filed' = filed /\ calls' = calls /\ overtaken' = overtaken
    BY <1>2 DEF catVars
  <2> QED BY <2>1 DEF CategoriesInv, CallsFit, NewAreApart, FiledFit, LevelsKept, Ups
<1>3. ASSUME NEW q \in CatCalls, CategoryAsks(q) PROVE CategoriesInv'
  <2>0. calls[q] = NoCall
    BY <1>3 DEF CategoryAsks, FreeCall
  <2>1. ASSUME NEW c \in CatIds, NEW type \in Kinds, NEW name \in CatNames, NEW up \in CatIds \cup {Top}, CreateCategory(q, c, type, name, up)
        PROVE  CategoriesInv'
    BY <1>1, <2>1, CreateKeeps
  <2>2. ASSUME NEW c \in CatIds, NEW name \in CatNames, UpdateCategory(q, c, name, <<>>) PROVE CategoriesInv'
    <3>1. <<>> \in Seq(PutSet) /\ name \in CatNames \cup {Top}
      OBVIOUS
    <3> QED BY <1>1, <2>2, <3>1, UpdateKeeps
  <2>3. ASSUME NEW c \in CatIds, NEW up \in CatIds \cup {Top}, UpdateCategory(q, c, Top, <<[id |-> c, up |-> up]>>) PROVE CategoriesInv'
    <3>1. <<[id |-> c, up |-> up]>> \in Seq(PutSet)
      <4> DEFINE put == [id |-> c, up |-> up]
      <4>1. put \in PutSet
        BY DEF PutSet
      <4> HIDE DEF put
      <4>2. <<put>> \in Seq(PutSet)
        BY <4>1
      <4> QED BY <4>2 DEF put
    <3> QED BY <1>1, <2>3, <3>1, UpdateKeeps
  <2>4. ASSUME NEW c \in CatIds, NEW up \in CatIds, UpdateNeverEnds(q, c, up) PROVE CategoriesInv'
    BY <1>1, <2>4, WalkKeeps
  <2>5. ASSUME NEW c \in CatIds, DeleteCategory(q, c) PROVE CategoriesInv'
    BY <1>1, <2>0, <2>5, DeleteKeeps
  <2>6. ASSUME NEW puts \in Orders, ReorderCategories(q, puts) PROVE CategoriesInv'
    <3>1. puts \in Seq(PutSet)
      BY OrdersAreLists DEF PutSet, Top
    <3> QED BY <1>1, <2>6, <3>1, ReorderKeeps
  <2> QED BY <1>3, <2>1, <2>2, <2>3, <2>4, <2>5, <2>6 DEF CategoryAsks, Kinds, Top
<1>4. ASSUME NEW q \in CatCalls, Writes(q) PROVE CategoriesInv'
  BY <1>1, <1>4, WriteKeeps
<1>5. ASSUME NEW q \in CatCalls, CallFails(q) PROVE CategoriesInv'
  BY <1>1, <1>5, FailKeeps
<1> QED BY <1>2, <1>3, <1>4, <1>5 DEF CategoriesNext

-----------------------------------------------------------------------------
(* Where a user begins.                                                    *)

\* The seeds, and what is above each of them.
LEMMA SeedsAre ==
  /\ Top \notin CatIds
  /\ \A s \in Seeded : s.id \in CatIds /\ s.type \in Kinds /\ s.system \in BOOLEAN
  /\ \A s \in Seeded : s.up # Top => ~s.system /\ \E t \in Seeded : /\ t.id = s.up /\ t.type = s.type /\ ~t.system
                                                                    /\ t.up # Top => \E r \in Seeded : r.id = t.up /\ r.up = Top
  /\ \A s, t \in Seeded : s # t => s.id # t.id /\ (s.type = t.type /\ s.up = t.up => s.name # t.name)
BY SeedsAreATree DEF Top, Kinds

RowOf(s) == [st |-> "live", name |-> s.name, type |-> s.type, system |-> s.system, up |-> s.up]

\* Every seed has its row, and there are no others.
LEMMA SeedRows ==
  ASSUME CategoriesInit
  PROVE  /\ DOMAIN cat = CatIds /\ cat = [c \in CatIds |-> cat[c]]
         /\ \A s \in Seeded : cat[s.id] = RowOf(s)
         /\ \A c \in CatIds : cat[c] = NoCat \/ \E s \in Seeded : s.id = c
<1>1. cat = [c \in CatIds |-> IF \E s \in Seeded : s.id = c THEN RowOf(CHOOSE s \in Seeded : s.id = c) ELSE NoCat]
  BY DEF CategoriesInit, RowOf
<1>2. ASSUME NEW s \in Seeded PROVE cat[s.id] = RowOf(s)
  <2>1. s.id \in CatIds
    BY SeedsAre
  <2>2. (CHOOSE t \in Seeded : t.id = s.id) = s
    BY SeedsAre
  <2> HIDE DEF RowOf
  <2> QED BY <1>1, <2>1, <2>2
<1>3. \A c \in CatIds : cat[c] = NoCat \/ \E s \in Seeded : s.id = c
  BY <1>1
<1> HIDE DEF RowOf
<1>4. DOMAIN cat = CatIds /\ cat = [c \in CatIds |-> cat[c]]
  BY <1>1
<1> QED BY <1>2, <1>3, <1>4

\* A user begins with a tree of three levels, and with no request in hand.
LEMMA CategoriesStart ==
  ASSUME CategoriesInit
  PROVE  CategoriesInv
<1>1. /\ DOMAIN cat = CatIds /\ cat = [c \in CatIds |-> cat[c]]
      /\ \A s \in Seeded : cat[s.id] = RowOf(s)
      /\ \A c \in CatIds : cat[c] = NoCat \/ \E s \in Seeded : s.id = c
  BY SeedRows
<1>2. NoCat \in CatRows /\ NoCat.st = "none" /\ NoCat.up = Top
  BY DEF NoCat, CatRows, AllNames, Kinds, Top
<1>3. ASSUME NEW s \in Seeded
      PROVE  /\ RowOf(s) \in CatRows /\ RowOf(s).st = "live" /\ RowOf(s).name = s.name /\ RowOf(s).type = s.type
             /\ RowOf(s).system = s.system /\ RowOf(s).up = s.up
  <2>1. s.up \in CatIds \cup {Top}
    BY SeedsAre
  <2>2. s.name \in AllNames /\ s.type \in Kinds /\ s.system \in BOOLEAN
    BY SeedsAre DEF AllNames
  <2> QED BY <2>1, <2>2 DEF RowOf, CatRows
<1>4. \A c \in CatIds : (cat[c] = NoCat) \/ \E s \in Seeded : s.id = c /\ cat[c] = RowOf(s)
  BY <1>1
<1>5. cat \in [CatIds -> CatRows]
  <2>1. \A c \in CatIds : cat[c] \in CatRows
    BY <1>2, <1>3, <1>4
  <2> HIDE DEF CatRows
  <2> QED BY <1>1, <2>1
<1>6. \A c \in CatIds : cat[c].st = "live" => \E s \in Seeded : s.id = c /\ cat[c] = RowOf(s)
  BY <1>2, <1>4
<1>7. \A c \in CatIds : cat[c].st # "live" => cat[c].up = Top
  BY <1>2, <1>3, <1>4
<1>8. ASSUME NEW c \in CatIds, cat[c].st = "live", cat[c].up # Top
      PROVE  /\ ~cat[c].system /\ cat[cat[c].up].st = "live" /\ cat[cat[c].up].type = cat[c].type /\ ~cat[cat[c].up].system
             /\ cat[c].up \in CatIds
             /\ cat[cat[c].up].up # Top => cat[cat[cat[c].up].up].up = Top
  <2>1. PICK s \in Seeded : s.id = c /\ cat[c] = RowOf(s)
    BY <1>6, <1>8
  <2>2. s.up # Top /\ cat[c].up = s.up /\ cat[c].type = s.type /\ cat[c].system = s.system
    BY <1>3, <1>8, <2>1
  <2>3. PICK t \in Seeded : /\ t.id = s.up /\ t.type = s.type /\ ~t.system
                            /\ t.up # Top => \E r \in Seeded : r.id = t.up /\ r.up = Top
    BY <2>2, SeedsAre
  <2>4. ~s.system /\ s.up \in CatIds
    BY <2>2, <2>3, SeedsAre
  <2>5. cat[s.up] = RowOf(t)
    BY <1>1, <2>3
  <2>6. cat[s.up].st = "live" /\ cat[s.up].type = t.type /\ cat[s.up].system = t.system /\ cat[s.up].up = t.up
    BY <1>3, <2>5
  <2>7. t.up # Top => cat[t.up].up = Top
    <3> SUFFICES ASSUME t.up # Top PROVE cat[t.up].up = Top
      OBVIOUS
    <3>1. PICK r \in Seeded : r.id = t.up /\ r.up = Top
      BY <2>3
    <3>2. cat[t.up] = RowOf(r)
      BY <1>1, <3>1
    <3> QED BY <1>3, <3>1, <3>2
  <2> QED BY <2>2, <2>3, <2>4, <2>6, <2>7
<1>9. ASSUME NEW c \in CatIds, NEW d \in CatIds, cat[c].st = "live", cat[d].st = "live", c # d,
             cat[c].type = cat[d].type, cat[c].up = cat[d].up
      PROVE  cat[c].name # cat[d].name
  <2>1. PICK s \in Seeded : s.id = c /\ cat[c] = RowOf(s)
    BY <1>6, <1>9
  <2>2. PICK t \in Seeded : t.id = d /\ cat[d] = RowOf(t)
    BY <1>6, <1>9
  <2>3. s # t /\ s.type = t.type /\ s.up = t.up
    BY <1>3, <1>9, <2>1, <2>2
  <2>4. s.name # t.name
    BY <2>3, SeedsAre
  <2> QED BY <1>3, <2>1, <2>2, <2>4
<1>10. IsTree(cat)
  BY <1>5, <1>7, <1>8, <1>9 DEF IsTree
<1>11. Ups \in Trees /\ \A c \in CatIds : Ups[c] = cat[c].up
  BY <1>10, TreeOf
<1>12. ThreeLevels(Ups)
  <2> SUFFICES ASSUME NEW c \in CatIds PROVE Above(Ups, Above(Ups, Above(Ups, c))) = Top
    BY DEF ThreeLevels
  <2>1. \A x : Above(Ups, x) = IF x = Top THEN Top ELSE Ups[x]
    BY AboveDef
  <2>2. CASE cat[c].up = Top
    BY <2>1, <2>2, <1>11
  <2>3. CASE cat[c].up # Top
    <3>1. cat[c].st = "live"
      BY <1>7, <2>3
    <3>2. cat[c].up \in CatIds /\ (cat[cat[c].up].up # Top => cat[cat[cat[c].up].up].up = Top)
      BY <1>8, <2>3, <3>1
    <3>3. c # Top
      BY SeedsAre
    <3>4. Above(Ups, c) = cat[c].up /\ Above(Ups, cat[c].up) = cat[cat[c].up].up
      BY <1>11, <2>1, <2>3, <3>2, <3>3
    <3>5. CASE cat[cat[c].up].up = Top
      BY <2>1, <3>4, <3>5
    <3>6. CASE cat[cat[c].up].up # Top
      <4>1. cat[cat[c].up].up \in CatIds
        BY <1>5, <3>2, <3>6 DEF CatRows
      <4>2. Above(Ups, cat[cat[c].up].up) = cat[cat[cat[c].up].up].up
        BY <1>11, <2>1, <3>6, <4>1
      <4> QED BY <3>2, <3>4, <3>6, <4>2
    <3> QED BY <3>5, <3>6
  <2> QED BY <2>2, <2>3
<1>13. /\ calls = [q \in CatCalls |-> NoCall] /\ overtaken = FALSE
       /\ filed = [i \in {r.id : r \in FiledRows} |-> (CHOOSE r \in FiledRows : r.id = i).cat]
  BY DEF CategoriesInit
<1>14. CallsFit /\ NewAreApart
  <2>1. \A q \in CatCalls : calls[q] = NoCall
    BY <1>13
  <2>2. calls \in [CatCalls -> CallSet]
    BY <1>13, NoCallFits
  <2> QED BY <2>1, <2>2, NoCallFits DEF CallsFit, NewAreApart
<1>15. FiledFit
  <2>1. ASSUME NEW r \in FiledRows PROVE filed[r.id] = r.cat
    <3>1. (CHOOSE s \in FiledRows : s.id = r.id) = r
      BY RowsAreFiled
    <3> QED BY <1>13, <3>1
  <2>2. ASSUME NEW r \in FiledRows PROVE r.cat # Top => r.cat \in CatIds /\ cat[r.cat].st = "live"
    <3> SUFFICES ASSUME r.cat # Top PROVE r.cat \in CatIds /\ cat[r.cat].st = "live"
      OBVIOUS
    <3>1. PICK s \in Seeded : r.cat = s.id
      BY RowsAreFiled DEF Top
    <3> QED BY <1>1, <1>3, <3>1, SeedsAre
  <2>3. DOMAIN filed = {r.id : r \in FiledRows} /\ filed = [i \in {r.id : r \in FiledRows} |-> filed[i]]
    BY <1>13
  <2>4. \A i \in DOMAIN filed : filed[i] # Top => filed[i] \in CatIds /\ cat[filed[i]].st = "live"
    BY <2>1, <2>2, <2>3
  <2>5. filed \in [{r.id : r \in FiledRows} -> CatIds \cup {Top}]
    BY <2>3, <2>4
  <2> QED BY <2>4, <2>5 DEF FiledFit
<1>16. LevelsKept
  <2>1. \A q \in CatCalls : calls[q] = NoCall
    BY <1>13
  <2> QED BY <1>11, <1>12, <2>1, NoCallFits, PlacedNone DEF LevelsKept
<1> QED BY <1>10, <1>13, <1>14, <1>15, <1>16 DEF CategoriesInv

-----------------------------------------------------------------------------
(* The month's rows, each of them counted once.                            *)

\* The root a category is below.
RootOf(up, c) ==
  IF c = Top THEN Top
  ELSE IF Above(up, c) = Top THEN c
  ELSE IF Above(up, Above(up, c)) = Top THEN Above(up, c)
  ELSE Above(up, Above(up, c))

\* The root of a category is one, and the walk up meets no other, nor it twice.
LEMMA RootIs ==
  ASSUME Top \notin CatIds, NEW up \in Trees, ThreeLevels(up), NEW c \in CatIds \cup {Top}
  PROVE  /\ RootOf(up, c) \in CatIds \cup {Top} /\ (RootOf(up, c) = Top <=> c = Top)
         /\ RootOf(up, c) # Top => up[RootOf(up, c)] = Top
         /\ \A d \in CatIds : up[d] = Top =>
              /\ RootOf(up, c) = d <=> \E n \in 0..7 : Chain(up, c)[n] = d
              /\ \A n, m \in 0..7 : Chain(up, c)[n] = d /\ Chain(up, c)[m] = d => n = m
<1> DEFINE a1 == Above(up, c)
           a2 == Above(up, a1)
<1>0. \A x : Above(up, x) = IF x = Top THEN Top ELSE up[x]
  BY AboveDef
<1>1. a1 \in CatIds \cup {Top} /\ a2 \in CatIds \cup {Top} /\ Above(up, a2) = Top
  <2>1. a1 \in CatIds \cup {Top}
    BY AboveIs
  <2>2. a2 \in CatIds \cup {Top}
    BY <2>1, AboveIs
  <2>3. Above(up, a2) = Top
    BY <1>0 DEF ThreeLevels
  <2> QED BY <2>1, <2>2, <2>3
<1>2. /\ Chain(up, c)[0] = c /\ Chain(up, c)[1] = a1 /\ Chain(up, c)[2] = a2 /\ Chain(up, c)[3] = Top
  BY <1>1, ChainStarts
<1>3. RootOf(up, c) = IF c = Top THEN Top ELSE IF a1 = Top THEN c ELSE IF a2 = Top THEN a1 ELSE a2
  BY DEF RootOf
<1>4. Above(up, c) = a1 /\ Above(up, a1) = a2
  OBVIOUS
<1> HIDE DEF a1, a2
<1>5. /\ RootOf(up, c) \in CatIds \cup {Top} /\ (RootOf(up, c) = Top <=> c = Top)
      /\ RootOf(up, c) # Top => up[RootOf(up, c)] = Top
  BY <1>0, <1>1, <1>3, <1>4
<1>6. ASSUME NEW d \in CatIds, up[d] = Top
      PROVE  RootOf(up, c) = d <=> \E n \in 0..7 : Chain(up, c)[n] = d
  <2>0. d # Top /\ Above(up, d) = Top
    BY <1>0, <1>6
  <2>1. ASSUME RootOf(up, c) = d PROVE \E n \in 0..7 : Chain(up, c)[n] = d
    <3>1. d = c \/ d = a1 \/ d = a2
      BY <1>3, <2>0, <2>1
    <3>2. 0 \in 0..7 /\ 1 \in 0..7 /\ 2 \in 0..7
      OBVIOUS
    <3> QED BY <1>2, <3>1, <3>2
  <2>2. ASSUME NEW n \in 0..7, Chain(up, c)[n] = d PROVE RootOf(up, c) = d
    <3>1. n < 3
      <4> SUFFICES ASSUME n >= 3 PROVE FALSE
        OBVIOUS
      <4>1. 3 \in 0..8 /\ n \in 3..8
        OBVIOUS
      <4>2. Chain(up, c)[n] = Top
        BY <1>2, <4>1, ChainEnds
      <4> QED BY <2>0, <2>2, <4>2
    <3>2. n = 0 \/ n = 1 \/ n = 2
      BY <3>1
    <3>3. d = c \/ d = a1 \/ d = a2
      BY <1>2, <2>2, <3>2
    <3>4. CASE d = c
      BY <1>3, <1>4, <2>0, <3>4
    <3>5. CASE d = a1
      <4>1. c # Top /\ a2 = Top
        BY <1>0, <1>4, <2>0, <3>5
      <4> QED BY <1>3, <2>0, <3>5, <4>1
    <3>6. CASE d = a2
      <4>1. a1 # Top /\ c # Top
        BY <1>0, <1>4, <2>0, <3>6
      <4> QED BY <1>3, <2>0, <3>6, <4>1
    <3> QED BY <3>3, <3>4, <3>5, <3>6
  <2> QED BY <2>1, <2>2
<1>7. ASSUME NEW d \in CatIds, up[d] = Top, NEW n \in 0..7, NEW m \in 0..7,
             Chain(up, c)[n] = d, Chain(up, c)[m] = d, n < m
      PROVE  FALSE
  <2>1. n + 1 \in 1..8 /\ (n + 1) - 1 = n /\ m \in (n + 1)..8 /\ n + 1 \in 0..8
    BY <1>7
  <2>2. Chain(up, c)[n + 1] = Above(up, Chain(up, c)[n])
    BY <2>1, ChainIs
  <2>3. Chain(up, c)[n + 1] = Top
    BY <2>2, <1>0, <1>7
  <2>4. Chain(up, c)[m] = Top
    BY <2>1, <2>3, ChainEnds
  <2> QED BY <2>4, <1>7
<1>8. ASSUME NEW d \in CatIds, up[d] = Top, NEW n \in 0..7, NEW m \in 0..7, Chain(up, c)[n] = d, Chain(up, c)[m] = d
      PROVE  n = m
  <2>1. ~(n < m) /\ ~(m < n)
    BY <1>7, <1>8
  <2> QED BY <2>1
<1> QED BY <1>5, <1>6, <1>8

\* The things of a place, and the numbers that those of every place get.
Of(S, root, c) == {r \in S : root[r] = c}
Numbered(S, C, k) == {p \in C \X (1..Cardinality(S)) : p[2] <= k[p[1]]}

\* Things that each have one place or none: those of the places and those without add up to all.
LEMMA CountedOnce ==
  ASSUME NEW S, IsFiniteSet(S), NEW C, Top \notin C, NEW root \in [S -> C \cup {Top}],
         NEW k, \A c \in C : k[c] = Cardinality(Of(S, root, c))
  PROVE  Cardinality(Numbered(S, C, k)) + Cardinality(Of(S, root, Top)) = Cardinality(S)
<1> DEFINE tops == {p \in C \X (1..Cardinality(S)) : p[2] <= k[p[1]]}
           R == {r \in S : root[r] # Top}
           T == {r \in S : root[r] = Top}
           g == [c \in C |-> CHOOSE f : f \in Bijection(1..k[c], Of(S, root, c))]
           h == [p \in tops |-> g[p[1]][p[2]]]
<1>1. Cardinality(S) \in Nat /\ IsFiniteSet(R) /\ IsFiniteSet(T)
  <2>1. R \in SUBSET S /\ T \in SUBSET S
    OBVIOUS
  <2> QED BY <2>1, FS_Subset, FS_CardinalityType
<1>2. ASSUME NEW c \in C PROVE k[c] \in Nat /\ k[c] <= Cardinality(S) /\ g[c] \in Bijection(1..k[c], Of(S, root, c))
  <2>1. Of(S, root, c) \in SUBSET S
    BY DEF Of
  <2>2. IsFiniteSet(Of(S, root, c)) /\ Cardinality(Of(S, root, c)) <= Cardinality(S)
    BY <2>1, FS_Subset
  <2>3. k[c] = Cardinality(Of(S, root, c))
    OBVIOUS
  <2>4. k[c] \in Nat /\ ExistsBijection(1..k[c], Of(S, root, c))
    BY <2>2, <2>3, FS_CardinalityType
  <2>5. \E f : f \in Bijection(1..k[c], Of(S, root, c))
    BY <2>4 DEF ExistsBijection
  <2>6. g[c] \in Bijection(1..k[c], Of(S, root, c))
    BY <2>5
  <2> QED BY <2>2, <2>3, <2>4, <2>6
<1> HIDE DEF g
<1>3. ASSUME NEW c \in C
      PROVE  /\ \A n \in 1..k[c] : g[c][n] \in S /\ root[g[c][n]] = c
             /\ \A n, m \in 1..k[c] : g[c][n] = g[c][m] => n = m
             /\ \A r \in S : root[r] = c => \E n \in 1..k[c] : g[c][n] = r
  BY <1>2 DEF Bijection, Injection, Surjection, IsInjective, Of
<1>4. \A p \in tops : p[1] \in C /\ p[2] \in 1..k[p[1]] /\ p = <<p[1], p[2]>>
  <2> SUFFICES ASSUME NEW p \in tops PROVE p[1] \in C /\ p[2] \in 1..k[p[1]] /\ p = <<p[1], p[2]>>
    OBVIOUS
  <2>1. p \in C \X (1..Cardinality(S)) /\ p[2] <= k[p[1]]
    OBVIOUS
  <2>2. p[1] \in C /\ p[2] \in 1..Cardinality(S) /\ p = <<p[1], p[2]>>
    BY <2>1
  <2>3. k[p[1]] \in Nat
    BY <1>2, <2>2
  <2> QED BY <1>1, <2>1, <2>2, <2>3
<1>5. \A c \in C : \A n \in 1..k[c] : <<c, n>> \in tops
  <2> SUFFICES ASSUME NEW c \in C, NEW n \in 1..k[c] PROVE <<c, n>> \in tops
    OBVIOUS
  <2>0. k[c] \in Nat /\ k[c] <= Cardinality(S)
    BY <1>2
  <2> HIDE DEF tops
  <2>1. n \in 1..Cardinality(S) /\ n <= k[c]
    BY <1>1, <2>0
  <2> USE DEF tops
  <2> QED BY <2>1
<1> HIDE DEF tops
<1>6. h \in [tops -> R]
  <2>1. \A p \in tops : g[p[1]][p[2]] \in R
    BY <1>3, <1>4
  <2> HIDE DEF R
  <2> QED BY <2>1
<1>7. \A p \in tops : h[p] = g[p[1]][p[2]]
  OBVIOUS
<1> HIDE DEF h
<1>8. h \in Injection(tops, R)
  <2>1. ASSUME NEW p \in tops, NEW q \in tops, h[p] = h[q] PROVE p = q
    <3>1. p[1] = q[1]
      BY <1>3, <1>4, <1>7, <2>1
    <3>2. p[2] = q[2]
      BY <1>3, <1>4, <1>7, <2>1, <3>1
    <3> QED BY <1>4, <3>1, <3>2
  <2> HIDE DEF R
  <2> QED BY <1>6, <2>1 DEF Injection, IsInjective
<1>9. h \in Surjection(tops, R)
  <2>1. ASSUME NEW r \in R PROVE \E p \in tops : h[p] = r
    <3>1. root[r] \in C /\ r \in S
      OBVIOUS
    <3>2. PICK n \in 1..k[root[r]] : g[root[r]][n] = r
      BY <1>3, <3>1
    <3>3. <<root[r], n>> \in tops
      BY <1>5, <3>1, <3>2
    <3>4. h[<<root[r], n>>] = r
      BY <1>7, <3>2, <3>3
    <3> QED BY <3>3, <3>4
  <2> HIDE DEF R
  <2> QED BY <1>6, <2>1 DEF Surjection
<1>10. Cardinality(tops) = Cardinality(R)
  <2> HIDE DEF R
  <2> QED BY <1>1, <1>8, <1>9, FS_Injection
<1>11. S = R \cup T /\ R \cap T = {}
  OBVIOUS
<1> HIDE DEF R, T
<1>12. Cardinality(S) = Cardinality(R) + Cardinality(T)
  <2>1. Cardinality(R \cap T) = 0
    BY <1>11, FS_EmptySet
  <2>2. Cardinality(R \cup T) = Cardinality(R) + Cardinality(T) - Cardinality(R \cap T)
    BY <1>1, FS_Union
  <2>3. Cardinality(R) \in Nat /\ Cardinality(T) \in Nat
    BY <1>1, FS_CardinalityType
  <2> QED BY <1>11, <2>1, <2>2, <2>3
<1>13. Cardinality(tops) + Cardinality(T) = Cardinality(S)
  BY <1>10, <1>12
<1> QED BY <1>13 DEF tops, T, Of, Numbered

\* A row filed below a root is counted there, once, and nowhere else.
LEMMA MonthIsOf ==
  ASSUME Top \notin CatIds, Ups \in Trees, ThreeLevels(Ups), FiledFit, NEW c \in CatIds, Ups[c] = Top
  PROVE  MonthRows(c) = Cardinality({r \in FiledRows : RootOf(Ups, filed[r.id]) = c})
<1> DEFINE at == [r \in FiledRows |-> Chain(Ups, filed[r.id])]
           P == {p \in FiledRows \X (0..7) : at[p[1]][p[2]] = c}
           Here == {r \in FiledRows : RootOf(Ups, filed[r.id]) = c}
           h == [p \in P |-> p[1]]
<1>1. MonthRows(c) = Cardinality(P)
  <2>1. MaxHops - 1 = 7
    BY DEF MaxHops
  <2> QED BY <2>1 DEF MonthRows
<1>2. ASSUME NEW r \in FiledRows
      PROVE  /\ RootOf(Ups, filed[r.id]) = c <=> \E n \in 0..7 : Chain(Ups, filed[r.id])[n] = c
             /\ \A n, m \in 0..7 : Chain(Ups, filed[r.id])[n] = c /\ Chain(Ups, filed[r.id])[m] = c => n = m
  <2>1. filed[r.id] \in CatIds \cup {Top}
    BY DEF FiledFit
  <2> QED BY <2>1, RootIs
<1>3. ASSUME NEW p \in P
      PROVE  /\ p[1] \in FiledRows /\ p[2] \in 0..7 /\ p = <<p[1], p[2]>>
             /\ Chain(Ups, filed[p[1].id])[p[2]] = c
  <2>1. p \in FiledRows \X (0..7) /\ at[p[1]][p[2]] = c
    OBVIOUS
  <2>2. p[1] \in FiledRows /\ p[2] \in 0..7 /\ p = <<p[1], p[2]>>
    BY <2>1
  <2>3. at[p[1]] = Chain(Ups, filed[p[1].id])
    BY <2>2
  <2> QED BY <2>1, <2>2, <2>3
<1>4. ASSUME NEW r \in FiledRows, NEW n \in 0..7, Chain(Ups, filed[r.id])[n] = c PROVE <<r, n>> \in P
  <2>1. at[r][n] = c
    BY <1>4
  <2> HIDE DEF at
  <2> QED BY <2>1
<1>5. \A p \in P : h[p] = p[1]
  OBVIOUS
<1>6. DOMAIN h = P /\ h = [p \in P |-> h[p]]
  OBVIOUS
<1> HIDE DEF P, h, at
<1>7. \A p \in P : h[p] \in Here
  BY <1>2, <1>3, <1>5
<1>8. h \in Injection(P, Here)
  <2>1. ASSUME NEW p \in P, NEW q \in P, h[p] = h[q] PROVE p = q
    <3>1. p[1] = q[1]
      BY <1>5, <2>1
    <3>2. p[2] = q[2]
      BY <1>2, <1>3, <3>1
    <3> QED BY <1>3, <3>1, <3>2
  <2> HIDE DEF Here
  <2>2. h \in [P -> Here]
    BY <1>6, <1>7
  <2> QED BY <2>1, <2>2 DEF Injection, IsInjective
<1>9. h \in Surjection(P, Here)
  <2>1. ASSUME NEW r \in Here PROVE \E p \in P : h[p] = r
    <3>1. r \in FiledRows
      OBVIOUS
    <3>2. PICK n \in 0..7 : Chain(Ups, filed[r.id])[n] = c
      BY <1>2, <3>1
    <3>3. <<r, n>> \in P
      BY <1>4, <3>1, <3>2
    <3>4. h[<<r, n>>] = r
      BY <1>5, <3>3
    <3> QED BY <3>3, <3>4
  <2> HIDE DEF Here
  <2>2. h \in [P -> Here]
    BY <1>6, <1>7
  <2> QED BY <2>1, <2>2 DEF Surjection
<1>10. IsFiniteSet(Here)
  <2>1. Here \in SUBSET FiledRows
    OBVIOUS
  <2> HIDE DEF Here
  <2> QED BY <2>1, FS_Subset, RowsAreFiled
<1>11. Cardinality(P) = Cardinality(Here)
  <2> HIDE DEF Here
  <2> QED BY <1>8, <1>9, <1>10, FS_Injection
<1> QED BY <1>1, <1>11

\* The rows without a category, by their keys.
LEMMA Unfiled ==
  ASSUME Top \notin CatIds, Ups \in Trees, ThreeLevels(Ups), FiledFit
  PROVE  Cardinality({i \in DOMAIN filed : filed[i] = Top}) = Cardinality({r \in FiledRows : RootOf(Ups, filed[r.id]) = Top})
<1> DEFINE I == {i \in DOMAIN filed : filed[i] = Top}
           U == {r \in FiledRows : RootOf(Ups, filed[r.id]) = Top}
           h == [r \in U |-> r.id]
<1>1. DOMAIN filed = {r.id : r \in FiledRows}
  BY DEF FiledFit
<1>2. \A r \in FiledRows : RootOf(Ups, filed[r.id]) = Top <=> filed[r.id] = Top
  <2> TAKE r \in FiledRows
  <2>1. filed[r.id] \in CatIds \cup {Top}
    BY DEF FiledFit
  <2> QED BY <2>1, RootIs
<1>3. IsFiniteSet(U)
  <2>1. U \in SUBSET FiledRows
    OBVIOUS
  <2> HIDE DEF U
  <2> QED BY <2>1, FS_Subset, RowsAreFiled
<1>4. \A r \in U : r \in FiledRows /\ r.id \in I
  BY <1>1, <1>2
<1>5. \A i \in I : \E r \in U : r.id = i
  BY <1>1, <1>2
<1> HIDE DEF U, I
<1>6. h \in [U -> I] /\ \A r \in U : h[r] = r.id
  BY <1>4
<1> HIDE DEF h
<1>7. h \in Bijection(U, I)
  <2>1. \A r, s \in U : h[r] = h[s] => r = s
    BY <1>4, <1>6, RowsAreFiled
  <2>2. \A i \in I : \E r \in U : h[r] = i
    BY <1>5, <1>6
  <2> QED BY <1>6, <2>1, <2>2 DEF Bijection, Injection, Surjection, IsInjective
<1>8. Cardinality(I) = Cardinality(U)
  BY <1>3, <1>7, FS_Bijection DEF ExistsBijection
<1> QED BY <1>8 DEF I, U

\* In a tree of three levels what the month counts of its roots, and of the rows without a
\* category, is every row once.
LEMMA MonthAddsUp ==
  ASSUME Top \notin CatIds, Ups \in Trees, ThreeLevels(Ups), FiledFit,
         NEW counted, counted = [c \in CatIds |-> IF Ups[c] = Top THEN MonthRows(c) ELSE 0]
  PROVE  Cardinality({p \in CatIds \X (1..Cardinality(FiledRows)) : p[2] <= counted[p[1]]})
           + Cardinality({r \in DOMAIN filed : filed[r] = Top}) = Cardinality(FiledRows)
<1> DEFINE root == [r \in FiledRows |-> RootOf(Ups, filed[r.id])]
<1>1. \A r \in FiledRows : filed[r.id] \in CatIds \cup {Top}
  BY DEF FiledFit
<1>2. \A r \in FiledRows : root[r] = RootOf(Ups, filed[r.id])
  OBVIOUS
<1>3. root \in [FiledRows -> CatIds \cup {Top}]
  <2>1. \A r \in FiledRows : RootOf(Ups, filed[r.id]) \in CatIds \cup {Top}
    BY <1>1, RootIs
  <2> QED BY <2>1
<1> HIDE DEF root
<1>4. ASSUME NEW c PROVE Of(FiledRows, root, c) = {r \in FiledRows : RootOf(Ups, filed[r.id]) = c}
  BY <1>2 DEF Of
<1>5. ASSUME NEW c \in CatIds PROVE counted[c] = Cardinality(Of(FiledRows, root, c))
  <2>1. CASE Ups[c] = Top
    <3>1. counted[c] = MonthRows(c)
      BY <2>1
    <3> QED BY <2>1, <3>1, <1>4, MonthIsOf
  <2>2. CASE Ups[c] # Top
    <3>1. counted[c] = 0
      BY <2>2
    <3>2. \A r \in FiledRows : root[r] # c
      <4> TAKE r \in FiledRows
      <4>1. root[r] # Top => Ups[root[r]] = Top
        BY <1>1, <1>2, RootIs
      <4> QED BY <2>2, <4>1
    <3>3. Of(FiledRows, root, c) = {}
      BY <3>2 DEF Of
    <3> QED BY <3>1, <3>3, FS_EmptySet
  <2> QED BY <2>1, <2>2
<1>6. Cardinality({r \in DOMAIN filed : filed[r] = Top}) = Cardinality(Of(FiledRows, root, Top))
  BY <1>4, Unfiled
<1>7. Cardinality(Numbered(FiledRows, CatIds, counted)) + Cardinality(Of(FiledRows, root, Top)) = Cardinality(FiledRows)
  <2>1. IsFiniteSet(FiledRows)
    BY RowsAreFiled
  <2>2. \A c \in CatIds : counted[c] = Cardinality(Of(FiledRows, root, c))
    BY <1>5
  <2> QED BY <1>3, <2>1, <2>2, CountedOnce
<1> QED BY <1>6, <1>7 DEF Numbered

-----------------------------------------------------------------------------
(* What the invariant says of the tree.                                    *)

\* The tree is sound, and so is what is counted of it.
LEMMA CategoriesSafe ==
  ASSUME CategoriesInv
  PROVE  TreeIsSound
<1> DEFINE counted == [c \in CatIds |-> IF Ups[c] = Top THEN MonthRows(c) ELSE 0]
           tops == {p \in CatIds \X (1..Cardinality(FiledRows)) : p[2] <= counted[p[1]]}
<1>0. Top \notin CatIds
  BY SeedsAre
<1>1. /\ IsTree(cat) /\ CallsFit /\ FiledFit /\ LevelsKept
      /\ cat \in [CatIds -> CatRows] /\ Ups \in Trees
  BY TreeOf DEF CategoriesInv
<1>2. CategoriesTypeOK
  <2>1. \A c \in CatIds : cat[c].st \in {"none", "live", "gone"} /\ cat[c].up \in CatIds \cup {Top}
    BY <1>1 DEF CatRows
  <2>2. \A q \in CatCalls : calls[q].op \in {"idle", "create", "update", "delete", "reorder", "walking"}
    BY <1>1 DEF CallsFit, CallSet
  <2> QED BY <2>1, <2>2 DEF CategoriesTypeOK, Top
<1>3. \A c, d \in CatIds : LiveCat(c) /\ LiveCat(d) /\ c # d /\ cat[c].type = cat[d].type /\ cat[c].up = cat[d].up
                           => cat[c].name # cat[d].name
  BY <1>1 DEF IsTree, LiveCat
<1>4. \A c \in CatIds : LiveCat(c) => validParent(cat[c].up, cat[c].type) /\ (cat[c].system => cat[c].up = Top)
  <2>1. \A c \in CatIds : cat[c].st = "live" /\ cat[c].up # Top =>
          ~cat[c].system /\ cat[cat[c].up].st = "live" /\ cat[cat[c].up].type = cat[c].type /\ ~cat[cat[c].up].system
    BY <1>1 DEF IsTree
  <2> QED BY <2>1 DEF validParent, LiveCat, Top
<1>5. ASSUME ~overtaken
      PROVE  /\ \A c \in CatIds : LiveCat(c) => Level(Ups, c) <= maxDepth
             /\ \A q \in CatCalls : calls[q].op # "walking"
             /\ Cardinality(tops) + Cardinality({r \in DOMAIN filed : filed[r] = Top}) = Cardinality(FiledRows)
  <2>1. ThreeLevels(Ups) /\ \A q \in CatCalls : calls[q].op # "walking"
    BY <1>1, <1>5 DEF LevelsKept
  <2>2. \A c \in CatIds : Level(Ups, c) <= maxDepth
    BY <2>1, LevelIs DEF ThreeLevels, maxDepth
  <2>3. Cardinality(tops) + Cardinality({r \in DOMAIN filed : filed[r] = Top}) = Cardinality(FiledRows)
    BY <1>0, <1>1, <2>1, MonthAddsUp
  <2> QED BY <2>1, <2>2, <2>3
<1> QED BY <1>2, <1>3, <1>4, <1>5 DEF TreeIsSound, Top

\* Siblings have different names, parents are there and of the same type, the tree has its three
\* levels and the month counts every row once, whatever requests are in hand, until a move is
\* written over another placing in hand, or a delete takes the children of what a new order moves.
THEOREM TheTreeStands == Spec => []TreeHolds
<1>1. HomeInit => CategoriesInv
  BY CategoriesStart DEF HomeInit
<1>2. [HomeNext]_homeVars => [CategoriesNext]_catVars
  BY DEF HomeNext, homeVars, catVars
<1>3. CategoriesInv => TreeHolds
  BY CategoriesSafe DEF TreeHolds
<1> QED
  BY <1>1, <1>2, <1>3, CategoriesKept, PTL DEF Spec

=============================================================================
