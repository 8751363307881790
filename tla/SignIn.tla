------------------------------- MODULE SignIn -------------------------------
(***************************************************************************)
(* Who can sign in, and whose a Telegram chat is (auth, connections,       *)
(* telegram, users).  A person signs in with a password or with the chat   *)
(* that is linked to them; an account made through Telegram has no         *)
(* password until one is set.  Whether a link may go is read first, and    *)
(* the link is taken away by a later statement that names the chat, not    *)
(* the person.  A message of a chat is handled once: by a set in memory,   *)
(* which a restart empties, and by the key of the table it is kept in.     *)
(***************************************************************************)
EXTENDS Integers, FiniteSets

CONSTANTS
  Persons,      \* bound: the accounts there may be
  Chats,        \* bound: the Telegram accounts
  Updates,      \* bound: messages, each of its chat
  ChatOf,
  Logins,       \* bound: requests in hand
  Registration, \* bound: whether the server takes new accounts, a set of Booleans
  MaxSteps      \* bound: requests there are

ASSUME NobodyIsNoPerson == "" \notin Persons

VARIABLES
  person,       \* users: [st, password]
  link,         \* user_connections, of each chat [to, on]: the person, and whether it may chat
  login,        \* [op, who, chat, owner]: what a request has read
  open,         \* REGISTRATION_OPEN
  seen,         \* the updates the process remembers
  kept,         \* telegram_messages: the updates that are stored
  handed,       \* history: of each update its turns of the chatbot
  lost,         \* history: updates whose text could not be stored
  stolen,       \* history: a link was taken from another person than the one that was asked about
  steps         \* bound: requests so far

signInVars == <<person, link, login, open, seen, kept, handed, lost, stolen, steps>>

PersonRow == [st : {"none", "active", "inactive"}, password : BOOLEAN]
NoPerson == [st |-> "none", password |-> FALSE]
NoLink   == [to |-> "", on |-> FALSE]
NoLogin  == [op |-> "idle", who |-> "", chat |-> "", owner |-> ""]

LinksOf(u)   == {c \in Chats : link[c].to = u}
NewPerson    == {u \in Persons : person[u].st = "none"}
FirstNew(u)  == u \in NewPerson /\ u = CHOOSE v \in NewPerson : TRUE
ActiveUser(u) == person[u].st = "active"
Counts       == steps < MaxSteps /\ steps' = steps + 1
Takes(q, l)  == login[q] = NoLogin /\ login' = [login EXCEPT ![q] = l]
Frees(q)     == login' = [login EXCEPT ![q] = NoLogin]
ChatVars     == <<seen, kept, handed, lost>>

\* Mutant: with no link at all.
LastWay_None(u) == ~person[u].password /\ LinksOf(u) = {}

\* lastLoginMethod: no password, and no other app.
LastWay(u) == ~person[u].password /\ Cardinality(LinksOf(u)) <= 1

-----------------------------------------------------------------------------
(* Accounts.                                                               *)

\* Register: the username, the preferences and the hooks' rows in one transaction; while the server
\* takes nobody the answer looks the same and nothing is stored.
Register(u) ==
  /\ Counts /\ open /\ FirstNew(u)
  /\ person' = [person EXCEPT ![u] = [st |-> "active", password |-> TRUE]]
  /\ UNCHANGED <<link, login, open, stolen, ChatVars>>

\* ChangePassword: a first one needs none before; there is no way to none.
ChangePassword(u) ==
  /\ Counts /\ ActiveUser(u)
  /\ person' = [person EXCEPT ![u].password = TRUE]
  /\ UNCHANGED <<link, login, open, stolen, ChatVars>>

Deactivate(u) ==
  /\ Counts /\ ActiveUser(u)
  /\ person' = [person EXCEPT ![u].st = "inactive"]
  /\ UNCHANGED <<link, login, open, stolen, ChatVars>>

\* All an inactive account may ask for.
Reactivate(u) ==
  /\ Counts /\ person[u].st = "inactive"
  /\ person' = [person EXCEPT ![u].st = "active"]
  /\ UNCHANGED <<link, login, open, stolen, ChatVars>>

-----------------------------------------------------------------------------
(* Telegram.                                                               *)

\* TelegramTokenLogin: a chat that is nobody's signs up.
TokenLogin(q, c) ==
  /\ Counts /\ link[c].to = "" /\ open
  /\ Takes(q, [NoLogin EXCEPT !.op = "signup", !.chat = c])
  /\ UNCHANGED <<person, link, open, stolen, ChatVars>>

\* createTelegramUser; a chat that was linked meanwhile signs in instead.
SignedUp(q, u) ==
  /\ login[q].op = "signup" /\ Frees(q)
  /\ \E c \in {login[q].chat} :
       IF link[c].to # "" THEN UNCHANGED <<person, link>>
       ELSE /\ FirstNew(u)
            /\ person' = [person EXCEPT ![u] = [st |-> "active", password |-> FALSE]]
            /\ link' = [link EXCEPT ![c] = [to |-> u, on |-> TRUE]]
  /\ UNCHANGED <<open, stolen, steps, ChatVars>>

\* linkTx, what it reads: the chat may be another's, who must have another way in.
LinkTelegram(q, u, c) ==
  /\ Counts /\ ActiveUser(u) /\ link[c].to # u
  /\ link[c].to # "" => ~LastWay(link[c].to)
  /\ Takes(q, [op |-> "link", who |-> u, chat |-> c, owner |-> link[c].to])
  /\ UNCHANGED <<person, link, open, stolen, ChatVars>>

\* Who lost the link is not who was asked about.
Stolen(q, c) == stolen' = (stolen \/ link[c].to \notin {"", login[q].who, login[q].owner})

\* The chat leaves whoever has it, and the person's old chat is replaced.
LinkedTelegram(q) ==
  /\ login[q].op = "link" /\ Frees(q)
  /\ \E u \in {login[q].who}, c \in {login[q].chat} :
       /\ link' = [d \in Chats |-> IF d = c THEN [to |-> u, on |-> TRUE] ELSE IF link[d].to = u THEN NoLink ELSE link[d]]
       /\ Stolen(q, c)
  /\ UNCHANGED <<person, open, steps, ChatVars>>

\* unlink, from the app.
UnlinkApp(q, u) ==
  /\ Counts /\ ActiveUser(u) /\ LinksOf(u) # {} /\ ~LastWay(u)
  /\ Takes(q, [NoLogin EXCEPT !.op = "unlink", !.who = u])
  /\ UNCHANGED <<person, link, open, stolen, ChatVars>>
UnlinkedApp(q) ==
  /\ login[q].op = "unlink" /\ Frees(q)
  /\ link' = [d \in Chats |-> IF link[d].to = login[q].who THEN NoLink ELSE link[d]]
  /\ UNCHANGED <<person, open, stolen, steps, ChatVars>>

\* unlinkExternal, from the chat.
UnlinkChat(q, c) ==
  /\ Counts /\ link[c].to # "" /\ ~LastWay(link[c].to)
  /\ Takes(q, [op |-> "unlinkchat", who |-> "", chat |-> c, owner |-> link[c].to])
  /\ UNCHANGED <<person, link, open, stolen, ChatVars>>
UnlinkedChat(q) ==
  /\ login[q].op = "unlinkchat" /\ Frees(q)
  /\ link' = [link EXCEPT ![login[q].chat] = NoLink]
  /\ Stolen(q, login[q].chat)
  /\ UNCHANGED <<person, open, steps, ChatVars>>

\* UpdatePermissions.
SetChat(u, c) ==
  /\ Counts /\ ActiveUser(u) /\ link[c].to = u
  /\ link' = [link EXCEPT ![c].on = ~@]
  /\ UNCHANGED <<person, login, open, stolen, ChatVars>>

-----------------------------------------------------------------------------
(* The messages of a chat.                                                 *)

\* The updates of the last hours, by their number; and the row that is there already.
Unseen(m) == m \notin seen
Stored(m) == m \in kept

\* HandleUpdate: Telegram may send an update again.  A text is kept and goes to the chatbot when
\* the chat is linked and may chat; that it cannot be kept does not stop it.
HandleUpdate(m, stores) ==
  /\ Unseen(m) /\ seen' = seen \cup {m}
  /\ \E chats \in {link[ChatOf[m]].to # "" /\ link[ChatOf[m]].on} :
       IF ~chats \/ (stores /\ Stored(m)) THEN UNCHANGED <<kept, handed, lost>>
       ELSE /\ handed' = [handed EXCEPT ![m] = @ + 1]
            /\ kept' = IF stores THEN kept \cup {m} ELSE kept
            /\ lost' = IF stores THEN lost ELSE lost \cup {m}
  /\ UNCHANGED <<person, link, login, open, stolen, steps>>

\* The process starts again: what was in its hands is gone with its memory.
ServerRestarts ==
  /\ Counts
  /\ seen' = {} /\ login' = [q \in Logins |-> NoLogin]
  /\ UNCHANGED <<person, link, open, kept, handed, lost, stolen>>

-----------------------------------------------------------------------------
SignInInit ==
  /\ person = [u \in Persons |-> NoPerson] /\ link = [c \in Chats |-> NoLink]
  /\ login = [q \in Logins |-> NoLogin] /\ open \in Registration
  /\ seen = {} /\ kept = {} /\ handed = [m \in Updates |-> 0] /\ lost = {}
  /\ stolen = FALSE /\ steps = 0

SignInNext ==
  \/ \E u \in Persons : Register(u) \/ ChangePassword(u) \/ Deactivate(u) \/ Reactivate(u)
                        \/ \E c \in Chats : SetChat(u, c)
  \/ \E q \in Logins : \/ LinkedTelegram(q) \/ UnlinkedApp(q) \/ UnlinkedChat(q)
                       \/ \E c \in Chats : TokenLogin(q, c) \/ UnlinkChat(q, c)
                       \/ \E u \in Persons : SignedUp(q, u) \/ UnlinkApp(q, u) \/ \E c \in Chats : LinkTelegram(q, u, c)
  \/ \E m \in Updates, stores \in BOOLEAN : HandleUpdate(m, stores)
  \/ ServerRestarts

-----------------------------------------------------------------------------
SignInTypeOK ==
  /\ person \in [Persons -> PersonRow]
  /\ \A c \in Chats : link[c].to \in Persons \cup {""}
  /\ \A q \in Logins : login[q].op \in {"idle", "signup", "link", "unlink", "unlinkchat"}
  /\ kept \subseteq Updates /\ seen \subseteq Updates

\* Nobody is locked out: whoever has an account has a password or a chat, unless a link went from
\* another person than the one who was asked about (login.go, "removing it would lock them out").
\* A person has one chat; a chat is of somebody who is there.  A message has one turn of the
\* chatbot, unless its text could not be kept.
NobodyLockedOut ==
  /\ SignInTypeOK
  /\ \A u \in Persons : person[u].st # "none" => person[u].password \/ LinksOf(u) # {} \/ stolen
  /\ \A u \in Persons : Cardinality(LinksOf(u)) <= 1
  /\ \A c \in Chats : link[c].to # "" => person[link[c].to].st # "none"
  /\ \A m \in Updates : handed[m] <= 1 \/ m \in lost
=============================================================================
