------------------------------- MODULE Answers -------------------------------
(***************************************************************************)
(* What the chatbot makes of a model's answer (chatbot/parse.go).  Nothing *)
(* in it is trusted: a reference has to be on the user's lists, a text has *)
(* to be the user's own.  An edit hands the card back to the model in the  *)
(* model's own shape, and takes what comes back for the new card.          *)
(* A text is a value, "" for none; a reference is an id or a text that is  *)
(* on no list.                                                             *)
(***************************************************************************)
EXTENDS Integers, FiniteSets

CONSTANTS
  ListSets,     \* bound: the user's lists [wallets, main, cats, goals, contacts, events, rules]
  Replies       \* bound: the items a model may answer

VARIABLES
  lists,
  heard,        \* the model's item, and whether it was an edit's
  held          \* the items of the card: one, or none
answerVars == <<lists, heard, held>>

Today   == "today"
SpareTo == "spare"
NoPaper == [event |-> "", newEvent |-> "", split |-> "", people |-> {}, paidBy |-> <<>>, exclude |-> {}]
NoDebt  == [contact |-> "", name |-> "", side |-> "", money |-> FALSE]
NoReply == [kind |-> "", type |-> "", amount |-> 0, desc |-> "", date |-> "", cat |-> "", wallet |-> "",
            to |-> "", goal |-> "", from |-> "", act |-> "", rule |-> "", paper |-> NoPaper,
            debt |-> NoDebt, unsure |-> {}]

\* An item of a card, and the same of what the checks start from.
NoItem == [kind |-> "create", type |-> "", amount |-> 0, desc |-> "", date |-> Today, cat |-> "",
           wallet |-> "", to |-> "", goal |-> "", from |-> "", spare |-> FALSE, act |-> "", rule |-> "",
           bill |-> [on |-> FALSE, event |-> "", newEvent |-> "", people |-> {}, paidBy |-> <<>>],
           debt |-> NoDebt, unsure |-> {}]

-----------------------------------------------------------------------------
(* verbatim, the lookups.                                                  *)

Verbatim(t, words) == IF t \in words THEN t ELSE ""
On(id, list)       == IF id \in list THEN id ELSE ""
\* Amounts in tenths of a satang.  validAmount, and the rounding.
Valid(a)   == a > 0
Rounded(a) == ((a + 5) \div 10) * 10

\* The user's lists: one main wallet or none, a category is of one type, a member of one event; ids
\* are never empty nor the word for spare money, and a rule's amount is of whole satangs.
Listing(l) ==
  /\ l.main \in l.wallets \cup {""}
  /\ \A c \in DOMAIN l.cats : l.cats[c] \in {"expense", "income"}
  /\ \A e, f \in DOMAIN l.events : l.events[e].members \cap l.events[f].members = {} \/ e = f
  /\ "" \notin UNION {l.wallets, DOMAIN l.cats, l.goals, l.contacts, DOMAIN l.events, DOMAIN l.rules}
  /\ "" \notin UNION {l.events[e].members : e \in DOMAIN l.events}
  /\ SpareTo \notin l.goals
  /\ \A r \in DOMAIN l.rules : l.rules[r].amount \in Nat /\ Rounded(l.rules[r].amount) = l.rules[r].amount

ASSUME AnswerLists   == \A l \in ListSets : Listing(l)
ASSUME AnswerAmounts == \A r \in Replies : r.a.amount \in Int

RuleOf(r) == lists.rules[r]
\* A rule that has no slot to take is not tied.
Tied(a) == IF a.type \in {"expense", "income"} /\ a.rule \in DOMAIN lists.rules /\ RuleOf(a.rule).slot
           THEN a.rule ELSE ""

\* personOf: a member of the bill's event, a contact, or a name of the user's; <<>> for nobody.
PersonOf(p, event, words) ==
  IF p.member # "" /\ event # "" /\ p.member \in lists.events[event].members THEN <<"member", p.member>>
  ELSE IF p.contact \in lists.contacts THEN <<"contact", p.contact>>
  ELSE IF Verbatim(p.name, words) = "" THEN <<>>
  ELSE IF p.name \in lists.contacts THEN <<"contact", p.name>> ELSE <<"name", p.name>>

\* goalOf: [id, spare, named].
GoalOf(v) == [id |-> On(v, lists.goals), spare |-> v = SpareTo, named |-> v # ""]

-----------------------------------------------------------------------------
(* The checks: a set with the item, or {} for one that is left out.        *)

\* Mutant: the payer is not among the people of the bill.
OnTheBill_NoPayer(people, payer) == people

OnTheBill(people, payer) == IF payer = <<>> THEN people ELSE people \cup {payer}

\* checkPaper.
NoBill == NoItem.bill
PaperOf(p, words) ==
  LET event   == On(p.event, DOMAIN lists.events)
      new     == IF p.event = "" THEN Verbatim(p.newEvent, words) ELSE ""
      plain   == \/ p = [NoPaper EXCEPT !.exclude = p.exclude]
                 \/ p.event # "" /\ event = "" /\ p.newEvent = ""
                 \/ p.event = "" /\ p.newEvent # "" /\ new = ""
      out     == {<<"member", m>> : m \in p.exclude}
      named   == {PersonOf(x, event, words) : x \in p.people} \ ({<<>>} \cup out)
      all     == IF event # "" /\ p.people = {}
                 THEN {<<"member", m>> : m \in lists.events[event].members} \ out ELSE named
      payer   == IF p.paidBy = <<>> THEN <<>> ELSE PersonOf(p.paidBy[1], event, words)
  IN IF plain THEN {NoBill}
     ELSE IF event # "" /\ lists.events[event].done THEN {}
     ELSE {[on |-> TRUE, event |-> event, newEvent |-> new, people |-> OnTheBill(all, payer), paidBy |-> payer]}

First(x, y, z) == IF x # "" THEN x ELSE IF y # "" THEN y ELSE z

\* checkCreate.
CreateOf(it, a, words) ==
  LET rule == Tied(a)
      amount == IF Valid(a.amount) THEN Rounded(a.amount) ELSE IF rule # "" THEN RuleOf(rule).amount ELSE 0
      ruled(f) == IF rule = "" THEN "" ELSE RuleOf(rule)[f]
      cat  == IF a.cat \in DOMAIN lists.cats /\ lists.cats[a.cat] = a.type THEN a.cat ELSE ""
      bought == [it EXCEPT !.type = IF ruled("type") \in {"expense", "income"} THEN ruled("type") ELSE a.type,
                           !.amount = amount, !.rule = rule,
                           !.unsure = IF a.cat # "" /\ cat = "" THEN @ \cup {"category"} ELSE @,
                           !.cat = First(cat, ruled("cat"), ""), !.desc = First(@, rule, ""),
                           !.wallet = First(On(a.wallet, lists.wallets), ruled("wallet"), lists.main)]
      from == On(a.wallet, lists.wallets)
      to   == On(a.to, lists.wallets)
  IN IF ~Valid(a.amount) /\ amount = 0 THEN {}
     ELSE IF a.type \in {"expense", "income"} THEN {[bought EXCEPT !.bill = b] : b \in PaperOf(a.paper, words)}
     ELSE IF a.type = "transfer" /\ from # to THEN {[it EXCEPT !.type = "transfer", !.amount = amount, !.wallet = from, !.to = to]}
     ELSE {}

\* checkSaving.
SavingOf(it, a) ==
  LET goal == GoalOf(a.goal)
      from == GoalOf(a.from)
      only == IF Cardinality(lists.wallets) = 1 THEN CHOOSE w \in lists.wallets : TRUE ELSE ""
      wallet == First(On(a.wallet, lists.wallets), only, "")
      base == [it EXCEPT !.kind = "saving", !.type = "saving", !.amount = Rounded(a.amount), !.act = a.act]
  IN IF ~Valid(a.amount) THEN {}
     ELSE CASE a.act = "save" -> {[base EXCEPT !.wallet = wallet, !.goal = goal.id,
                 !.unsure = IF goal.named /\ goal.id = "" /\ ~goal.spare THEN @ \cup {"goal"} ELSE @]}
            [] a.act = "allocate" -> IF goal.id = "" THEN {} ELSE {[base EXCEPT !.goal = goal.id]}
            [] a.act = "move" ->
                 IF from.id = "" \/ (goal.id = "" /\ ~goal.spare) \/ goal.id = from.id THEN {}
                 ELSE {[base EXCEPT !.from = from.id, !.goal = goal.id, !.spare = goal.spare]}
            [] a.act = "withdraw" -> {[base EXCEPT !.wallet = wallet, !.from = from.id]}
            [] OTHER -> {}

Sides == {"they_owe_me", "i_owe_them", "they_repay", "i_repay"}

\* borrowSide: the user's own words decide who borrows, when they say so.
BorrowSide(says, name, side) ==
  IF name = "" \/ side \notin {"they_owe_me", "i_owe_them"} \/ says = "" THEN side
  ELSE IF says = "borrows" THEN "i_owe_them" ELSE "they_owe_me"

\* checkDebt.
DebtOf(it, a, words, says) ==
  LET contact == First(On(a.debt.contact, lists.contacts), On(Verbatim(a.debt.name, words), lists.contacts), "")
      name == First(contact, Verbatim(a.debt.name, words), "")
      wallet == IF a.debt.money THEN First(On(a.wallet, lists.wallets), lists.main, "") ELSE ""
  IN IF ~Valid(a.amount) \/ a.debt.side \notin Sides THEN {}
     ELSE {[it EXCEPT !.kind = "debt", !.desc = "", !.amount = Rounded(a.amount), !.wallet = wallet,
              !.debt = [contact |-> contact, name |-> name, money |-> a.debt.money,
                        side |-> BorrowSide(says, name, a.debt.side)]]}

\* check.
Check(a, words, says) ==
  LET it == [NoItem EXCEPT !.unsure = a.unsure \cap {"category", "goal", "amount"},
               !.desc = Verbatim(a.desc, words), !.date = IF a.date \in {"", "bad"} THEN Today ELSE a.date]
  IN CASE a.kind = "saving" -> SavingOf(it, a)
       [] a.kind \in {"debt", "settle_debt"} -> DebtOf(it, a, words, says)
       [] a.kind \in {"create", ""} -> CreateOf(it, a, words)
       [] OTHER -> {}

-----------------------------------------------------------------------------
(* The card, handed back: toAnswer, personAnswer.                          *)

PersonAnswer(x) ==
  [member |-> IF x[1] = "member" THEN x[2] ELSE "", contact |-> IF x[1] = "contact" THEN x[2] ELSE "",
   name |-> IF x[1] = "name" THEN x[2] ELSE ""]

ToAnswer(i) ==
  [NoReply EXCEPT !.kind = i.kind, !.type = i.type, !.amount = i.amount, !.desc = i.desc, !.date = i.date,
     !.cat = On(i.cat, DOMAIN lists.cats), !.wallet = On(i.wallet, lists.wallets), !.to = On(i.to, lists.wallets),
     !.goal = IF i.spare THEN SpareTo ELSE On(i.goal, lists.goals), !.from = On(i.from, lists.goals),
     !.act = i.act, !.rule = On(i.rule, DOMAIN lists.rules), !.unsure = i.unsure,
     !.debt = IF i.kind # "debt" THEN NoDebt
              ELSE [contact |-> On(i.debt.contact, lists.contacts), side |-> i.debt.side, money |-> i.debt.money,
                    name |-> IF On(i.debt.contact, lists.contacts) = "" THEN i.debt.name ELSE ""],
     !.paper = IF ~i.bill.on THEN NoPaper
               ELSE [event |-> On(i.bill.event, DOMAIN lists.events), newEvent |-> i.bill.newEvent, split |-> "equal",
                     people |-> {PersonAnswer(x) : x \in i.bill.people}, exclude |-> {},
                     paidBy |-> IF i.bill.paidBy = <<>> THEN <<>> ELSE <<PersonAnswer(i.bill.paidBy)>>]]

\* Parse: what counts as the user's own in an edit, on top of the message.
OwnWords(i) == ({i.desc, i.debt.name, i.bill.newEvent} \cup {x[2] : x \in i.bill.people}) \ {""}

-----------------------------------------------------------------------------
AnswersInit ==
  /\ lists \in ListSets
  /\ heard = [a |-> NoReply, edit |-> FALSE] /\ held = {}

\* A message: the words in it that the answer may use, and what they say of who borrows.
Answer ==
  /\ heard.a = NoReply
  /\ \E r \in Replies : heard' = [a |-> r.a, edit |-> FALSE] /\ held' = Check(r.a, r.words, r.says)
  /\ UNCHANGED lists

\* An edit that the model answers with the card as it was handed back.
EchoedEdit ==
  /\ ~heard.edit
  /\ \E i \in held : /\ heard' = [a |-> ToAnswer(i), edit |-> TRUE]
                     /\ held' = Check(ToAnswer(i), OwnWords(i), "")
  /\ UNCHANGED lists

AnswersNext == Answer \/ EchoedEdit

-----------------------------------------------------------------------------
AnswersTypeOK == Cardinality(held) <= 1 /\ heard.edit \in BOOLEAN /\ Listing(lists)

\* What an edit loses: a rule of the other type took the item with it, but not its category; an
\* amount that rounds to nothing; a bill of an event on which nobody is left is everybody's again.
Crossed(i) == i.rule # "" /\ i.cat \in DOMAIN lists.cats /\ lists.cats[i.cat] # i.type
EmptiedBill(i) == i.bill.event # "" /\ i.bill.people = {}
Lost(i) == Crossed(i) \/ i.amount = 0 \/ EmptiedBill(i)

\* An item holds what is the user's: a category of its type, wallets and goals that differ, a bill
\* with its payer on it, of an event that goes on.
Sound(i) ==
  /\ i.kind = "create" /\ i.cat \in DOMAIN lists.cats => lists.cats[i.cat] = i.type
  /\ i.type = "transfer" => i.wallet # i.to
  /\ i.act = "move" => i.from \in lists.goals /\ (i.goal # i.from) /\ (i.goal = "" <=> i.spare)
  /\ i.bill.on => /\ i.bill.paidBy # <<>> => i.bill.paidBy \in i.bill.people
                  /\ i.bill.event # "" => ~lists.events[i.bill.event].done
  /\ \A x \in i.bill.people : x[1] = "member" => i.bill.event # "" /\ x[2] \in lists.events[i.bill.event].members

\* A card survives an edit: handed to the model and answered unchanged, every item is the item it
\* was, through the defaults, the lists and the texts the checks let through a second time.
EchoKeepsTheItem ==
  /\ AnswersTypeOK
  /\ \A i \in held :
       /\ ~Lost(i) => Sound(i)
       /\ ~heard.edit /\ ~Lost(i) => Check(ToAnswer(i), OwnWords(i), "") = {i}
=============================================================================
