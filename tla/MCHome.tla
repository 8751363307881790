------------------------------- MODULE MCHome -------------------------------
EXTENDS Home, TLC

\* Savings: from nothing, and with a goal that holds money of the wallet and of none.
Deposit(id, wallet) == [id |-> id, wallet |-> wallet, goal |-> "car", amount |-> 1]
cDeposits == {{}, {Deposit("e1", "cash"), Deposit("e2", "")}}

\* Budgets: weeks and months from days near the end of a month, three expenses.
cRules == {<<"weekly", 1>>, <<"monthly", 1>>}
cStarts == {30, 44}
cEndings == {Open, [kind |-> "date", date |-> 44, count |-> 0], [kind |-> "count", date |-> 0, count |-> 2]}
cAmounts == {1, 2}
cAsks == {{"amount"}, {"start"}, {"recurring","rule"}, {"rule","end"}}
cDays == {30, 60}
cScopes == {[all |-> TRUE, cats |-> {}, kids |-> {}, tags |-> {}, wallets |-> {}],
            [all |-> FALSE, cats |-> {"food"}, kids |-> {"food"}, tags |-> {"trip"}, wallets |-> {}]}
cRows == {[id |-> 1, day |-> 36, cat |-> "food", tags |-> {"trip"}, wallet |-> "cash", sum |-> 1],
          [id |-> 2, day |-> 44, cat |-> "sushi", tags |-> {"trip"}, wallet |-> "cash", sum |-> 2],
          [id |-> 3, day |-> 57, cat |-> "rent", tags |-> {}, wallet |-> "cash", sum |-> 1]}
cParent == [food |-> "food", sushi |-> "food", rent |-> "rent"]

\* Calendar: every kind of rule, with and without a pause, from the last days of months, and
\* windows that begin before the rule, end in the pause or lie a year ahead.
PlainRule == [freq |-> "daily", interval |-> 1, weekdays |-> {}, dom |-> 0, nth |-> 0, weekday |-> 1, dates |-> {}, start |-> 0, endKind |-> "none", endDate |-> 0, endCount |-> 0, gaps |-> {}, until |-> 0]
FirstDays == {Day(2024,1,31), Day(2024,2,29), Day(2023, 8, 30)}
SomeRules == LET g == {{}, {[from |-> Day(2024,3,1), to |-> Day(2024,4,5)]}} IN
  {[PlainRule EXCEPT !.freq="daily", !.interval=i, !.start=s, !.gaps=x] : i \in {1,2,3}, s \in FirstDays, x \in g}
  \cup {[PlainRule EXCEPT !.freq="weekly", !.interval=i, !.start=s, !.gaps=x, !.weekdays=w] : i \in {1,2}, s \in FirstDays, x \in g, w \in {{},{1,3},{7}}}
  \cup {[PlainRule EXCEPT !.freq="monthly", !.interval=i, !.start=s, !.gaps=x, !.dom=w] : i \in {1,2}, s \in FirstDays, x \in g, w \in {0,31,15}}
  \cup {[PlainRule EXCEPT !.freq="monthly", !.interval=i, !.start=s, !.gaps=x, !.nth=w, !.weekday=3] : i \in {1,2}, s \in FirstDays, x \in g, w \in {-1,5,2}}
  \cup {[PlainRule EXCEPT !.freq="yearly", !.interval=i, !.start=s] : i \in {1,2}, s \in FirstDays}
  \cup {[PlainRule EXCEPT !.freq="dates", !.dates={s+3,s+10,s+100}, !.start=s] : s \in FirstDays}
cDateRules == SomeRules \cup {[r EXCEPT !.endKind = "count", !.endCount=3] : r \in SomeRules} \cup {[r EXCEPT !.endKind = "date", !.endDate=r.start+70] : r \in SomeRules}
cWindows == {[today |-> Day(2024,3,10), from |-> w[1], to |-> w[2]] :
  w \in {<<Day(2024,2,25), Day(2024,5,1)>>, <<Day(2024,4,30), Day(2024,6,30)>>, <<Day(2025,1,31), Day(2025,3,1)>>}}
cPeriodDays == {Day(2024,1,30), Day(2024,2,28), Day(2024,2,29), Day(2024,3,1), Day(2025,2,28), Day(2024,12,31)}

\* Drafts: a saving, a debt entry with no ledger row, an expense on a bill with nobody.
FullText == [NoText EXCEPT !.type = "expense", !.amount = TRUE, !.date = TRUE, !.wallet = TRUE, !.category = TRUE]
cTexts == {[FullText EXCEPT !.type = "saving", !.category = FALSE], [NoText EXCEPT !.amount = TRUE, !.date = TRUE, !.debt = "person"],
           [FullText EXCEPT !.bill = "alone"]}
cLegacy == {{}, {<<"r1", "settle_debt">>}, {<<"r1", "saving">>}, {<<"r1", "update_tx">>}}

\* Answers: a user with everything and one with a single wallet; what a model may say of them.
UserRule(t, am, w, c, s) == [type |-> t, amount |-> am, wallet |-> w, cat |-> c, slot |-> s]
UserEvent(ms, d) == [members |-> ms, done |-> d]
UserLists == [wallets |-> {"cash", "bank"}, main |-> "cash", cats |-> [x \in {"food", "pay"} |-> IF x = "food" THEN "expense" ELSE "income"],
       goals |-> {"car", "home"}, contacts |-> {"fon"},
       events |-> [x \in {"trip", "past"} |-> UserEvent(IF x = "trip" THEN {"m1", "m2"} ELSE {"m3"}, x = "past")],
       rules |-> [x \in {"rent", "wage", "full"} |-> IF x = "rent" THEN UserRule("expense", 5000, "bank", "food", TRUE)
                  ELSE IF x = "wage" THEN UserRule("income", 0, "", "", TRUE) ELSE UserRule("expense", 10, "", "food", FALSE)]]
cLists == {UserLists, [UserLists EXCEPT !.wallets = {"bank"}, !.main = "", !.cats = [x \in {"pay"} |-> "income"]]}
Person(m, c, n) == [member |-> m, contact |-> c, name |-> n]
PaperAnswers == {NoPaper} \cup
  {[NoPaper EXCEPT !.event = e, !.newEvent = n, !.people = ps, !.paidBy = by, !.exclude = ex, !.split = "equal"] :
     e \in {"", "trip", "past", "?"}, n \in {"", "newtrip"},
     ps \in {{}, {Person("m1", "", "")}, {Person("", "fon", ""), Person("", "", "ann")}, {Person("m3", "", "bob")}},
     by \in {<<>>, <<Person("m2", "", "")>>, <<Person("", "", "ann")>>}, ex \in {{}, {"m1", "m2"}}}
CreateAnswers == {[NoReply EXCEPT !.kind = "create", !.type = t, !.amount = am, !.desc = d, !.cat = c, !.wallet = w, !.to = o, !.rule = r] :
   t \in {"expense", "income", "transfer"}, am \in {0, 4, 1234}, d \in {"", "lunch"}, c \in {"", "food", "pay", "?"},
   w \in {"", "bank", "?"}, o \in {"", "bank"}, r \in {"", "rent", "wage", "full"}}
BillAnswers == {[NoReply EXCEPT !.kind = "create", !.type = "expense", !.amount = 1234, !.paper = p, !.date = "bad"] : p \in PaperAnswers}
SavingAnswers == {[NoReply EXCEPT !.kind = "saving", !.amount = am, !.act = x, !.goal = g, !.from = f, !.wallet = w] :
   am \in {0, 1234}, x \in {"save", "allocate", "move", "withdraw", "?"}, g \in {"", "car", "spare", "?"}, f \in {"", "car", "home"}, w \in {"", "bank"}}
DebtAnswers == {[NoReply EXCEPT !.kind = k, !.amount = 1234, !.wallet = w, !.debt = [contact |-> c, name |-> n, side |-> s, money |-> m]] :
   k \in {"debt", "settle_debt"}, w \in {"", "bank"}, c \in {"", "fon", "?"}, n \in {"", "ann", "bob"}, s \in {"they_owe_me", "i_repay", "?"}, m \in BOOLEAN}
cReplies == [a : CreateAnswers \cup SavingAnswers, words : {{"lunch"}}, says : {""}] \cup [a : BillAnswers, words : {{"ann"}, {"newtrip"}}, says : {""}]
            \cup [a : DebtAnswers, words : {{"ann"}}, says : {"", "borrows"}]

\* Contacts: one user has two contacts, of which one has no address.
cOwner == ("ca" :> "ann" @@ "cb" :> "bob" @@ "cb2" :> "bob")
cEntryOwner == ("d1" :> "bob")
cAddresses == ("ca" :> {"bob"} @@ "cb" :> {"ann","cat"} @@ "cb2" :> {""})
cSwitches == {<<{},{}>>, <<{"ann","cat"},{"cat"}>>}

\* Categories: a system root and two roots with a child; an order that has a cycle when the tree is
\* that of the start, one that turns parent and child around, and one that takes a root two levels
\* down and its child up: a category below that child comes to a fourth level when the child is
\* deleted meanwhile.
Seed(id, type, sys, up) == [id |-> id, name |-> id, type |-> type, system |-> sys, up |-> up]
cSeeded == {Seed("debt", "expense", TRUE, ""), Seed("food", "expense", FALSE, ""), Seed("sushi", "expense", FALSE, "food"), Seed("rent", "expense", FALSE, ""),
            Seed("flat", "expense", FALSE, "rent")}
cFiledRows == {[id |-> "t1", cat |-> "food"], [id |-> "t2", cat |-> "sushi"], [id |-> "t3", cat |-> ""]}
Put(c, up) == [id |-> c, up |-> up]
cOrders == {<<Put("rent", "sushi")>>, <<Put("food", "rent")>>, <<Put("sushi", ""), Put("food", "sushi")>>,
            <<Put("food", "flat"), Put("sushi", "")>>}

\* Sign-in: two people and two chats, of which one writes.
cChatOf == ("m1" :> "x")

\* Sync: a dataset read from a table with updated_at, of which two rows are followed, and from
\* preferences.
cSources  == ("recurring" :> {"rows", "prefs"})
cContents == (<<"rows", "a">> :> {1, 2} @@ <<"rows", "b">> :> {1} @@ <<"prefs", "p">> :> {1})
cCells    == DOMAIN cContents
=============================================================================
