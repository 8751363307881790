----------------------------- MODULE PapersProofs -----------------------------
(***************************************************************************)
(* What a paper promises of the books that follow it, for any users, forms *)
(* and switches: who holds a book is on the paper and in its event,        *)
(* whoever holds a book that missed a change has been told, and what       *)
(* followed the last change says what the paper says, which is even.       *)
(*                                                                         *)
(* PInv is what the first two need; SInv adds the amounts, and rests on    *)
(* sums over the paper's people.                                           *)
(***************************************************************************)
EXTENDS Papers, FiniteSetTheorems, WellFoundedInduction, TLAPS

PaperRow == [there: BOOLEAN, ended: BOOLEAN, event: BOOLEAN, done: BOOLEAN, owner: Users,
             type: PaperTypes, mode: {"equal", "custom"}, amount: Nat]
\* A transaction has these columns; its amount is a sum, of which nothing is said here.
BookRow(t) == t = [has |-> t.has, type |-> t.type, wallet |-> t.wallet, amount |-> t.amount, my |-> t.my, at |-> t.at]
PartRow == [of: Users, with: Users \cup {Gone}, iOwe: BOOLEAN, amount: Nat, repay: BOOLEAN, at: Nat]
ClaimForm == [payDebt: BOOLEAN, bookDebts: BOOLEAN, skipTx: BOOLEAN, wallet: BOOLEAN]
PlanRow(u) == [with: Users \ {u}, amount: Nat, iOwe: BOOLEAN]

\* Books as they are when the paper has had n changes.
BooksFit(books, n) ==
  /\ books = [tx |-> books.tx, parts |-> books.parts]
  /\ books.tx = [u \in Users |-> books.tx[u]]
  /\ \A u \in Users : BookRow(books.tx[u]) /\ books.tx[u].at \in 0 .. n
  /\ books.parts \subseteq {b \in PartRow : b.at <= n}

MoneyFits(m) == m.type \in PaperTypes /\ m.amount \in Nat /\ m.share \in [Users -> Nat] /\ m.paid \in [Users -> Nat]

\* Each book of the one is a book of the other, or of the last change.
Fresh(before, after) ==
  /\ \A u \in Users : after.tx[u] = before.tx[u] \/ after.tx[u].at = change'
  /\ \A b \in after.parts : b \in before.parts \/ b.at = change'

-----------------------------------------------------------------------------
(* What a paper says of money.                                             *)

\* A quotient of naturals is one, and no more than its dividend when multiplied back.
LEMMA Quotient ==
  ASSUME NEW a \in Nat, NEW d \in Nat \ {0}
  PROVE  a \div d \in Nat /\ (a \div d) * d \in Nat /\ (a \div d) * d <= a
OBVIOUS

\* What one owes another is a natural number.
LEMMA PairIsNat ==
  ASSUME NEW m, MoneyFits(m), NEW u \in Users, NEW v \in Users
  PROVE  PairAmount(m, u, v) \in Nat
<1>1. CASE u = v \/ m.amount <= 0 \/ m.share[u] <= 0 \/ m.paid[v] <= 0
  BY <1>1 DEF PairAmount
<1>2. CASE ~(u = v \/ m.amount <= 0 \/ m.share[u] <= 0 \/ m.paid[v] <= 0)
  <2>1. m.share[u] * m.paid[v] \in Nat /\ m.amount \in Nat \ {0}
    BY <1>2 DEF MoneyFits
  <2>2. 2 * (m.share[u] * m.paid[v]) + m.amount \in Nat /\ 2 * m.amount \in Nat \ {0}
    BY <2>1
  <2>3. Round(m.share[u] * m.paid[v], m.amount) \in Nat
    BY <2>2, Quotient DEF Round
  <2> QED BY <2>3, <1>2 DEF PairAmount
<1> QED BY <1>1, <1>2

\* What I owe another, net, is a whole number, and nothing to myself.
LEMMA NetIsInt ==
  ASSUME NEW m, MoneyFits(m), NEW u \in Users, NEW v \in Users
  PROVE  NetOf(m, u, v) \in Int /\ Abs(NetOf(m, u, v)) \in Nat /\ NetOf(m, u, u) = 0
<1>1. Owes(m, u, v) \in Nat /\ Owes(m, v, u) \in Nat /\ Owes(m, u, u) \in Nat
  BY PairIsNat DEF Owes
<1>2. NetOf(m, u, v) \in Int /\ NetOf(m, u, u) = 0
  BY <1>1 DEF NetOf
<1> QED BY <1>2 DEF Abs

\* A plan names others on the paper.
LEMMA PlanNamesOthers ==
  ASSUME NEW m, MoneyFits(m), NEW u \in Users, NEW event \in BOOLEAN, NEW payDebt \in BOOLEAN, NEW asks \in BOOLEAN
  PROVE  /\ PlanFor(m, u, event, payDebt, asks).debts \subseteq PlanRow(u)
         /\ PlanFor(m, u, event, payDebt, asks).repayments \subseteq PlanRow(u)
<1> DEFINE row(p) == [with |-> p, amount |-> Abs(NetOf(m, u, p)),
                      iOwe |-> IF m.type = "payback" THEN NetOf(m, u, p) < 0 ELSE NetOf(m, u, p) > 0]
           rows == {row(p) : p \in Partners(m, u)}
<1>1. ASSUME NEW p \in Partners(m, u) PROVE row(p) \in PlanRow(u)
  <2>1. p \in Users /\ NetOf(m, u, p) # 0
    BY DEF Partners, MoneyFits
  <2>2. p # u /\ Abs(NetOf(m, u, p)) \in Nat
    BY <2>1, NetIsInt
  <2>3. (IF m.type = "payback" THEN NetOf(m, u, p) < 0 ELSE NetOf(m, u, p) > 0) \in BOOLEAN
    <3>1. (NetOf(m, u, p) < 0) \in BOOLEAN /\ (NetOf(m, u, p) > 0) \in BOOLEAN
      BY <2>1, NetIsInt
    <3> QED BY <3>1
  <2> QED BY <2>1, <2>2, <2>3 DEF PlanRow
<1>2. rows \subseteq PlanRow(u)
  BY <1>1
<1>3. PlanFor(m, u, event, payDebt, asks).debts \subseteq rows
  BY DEF PlanFor
<1>4. PlanFor(m, u, event, payDebt, asks).repayments \subseteq rows
  BY DEF PlanFor
<1> QED BY <1>2, <1>3, <1>4

-----------------------------------------------------------------------------
(* What the operators on books do.                                         *)

\* Who follows, said without the set of parts.
LEMMA FollowersAre ==
  ASSUME NEW books
  PROVE  Followers(books) = {u \in Users : books.tx[u].has \/ \E b \in books.parts : b.of = u}
BY DEF Followers, PartsOf

\* A claim adds books of its user alone, of the last change.
LEMMA ClaimAdds ==
  ASSUME NEW books, NEW seen, NEW m, NEW u \in Users, NEW event \in BOOLEAN, NEW form \in ClaimForm,
         change' \in Nat, BooksFit(books, change'), MoneyFits(m),
         NEW after, after = Claimed(books, seen, m, u, event, form)
  PROVE  /\ BooksFit(after, change') /\ Fresh(books, after)
         /\ Followers(after) \subseteq Followers(books) \cup {u}
<1> DEFINE plan == PlanFor(m, u, event, form.payDebt, form.bookDebts)
           booked == {b.with : b \in PartsOf(seen.parts, u)}
           new(rows, repay) ==
             {[of |-> u, with |-> r.with, iOwe |-> r.iOwe, amount |-> r.amount, repay |-> repay,
               at |-> change'] : r \in {x \in rows : x.with \notin booked}}
           makes == plan.ok /\ plan.tx /\ u \notin seen.tx /\ ~form.skipTx
           mine  == [has |-> TRUE, type |-> m.type, wallet |-> plan.wallet /\ form.wallet,
                     amount |-> plan.amount, my |-> plan.my, at |-> change']
<1>1. after = [tx |-> IF makes THEN [books.tx EXCEPT ![u] = mine] ELSE books.tx,
               parts |-> IF plan.ok THEN books.parts \cup new(plan.debts, FALSE) \cup new(plan.repayments, TRUE)
                         ELSE books.parts]
  BY DEF Claimed
<1>2. form.payDebt \in BOOLEAN /\ form.bookDebts \in BOOLEAN
  BY DEF ClaimForm
<1>3. plan.debts \subseteq PlanRow(u) /\ plan.repayments \subseteq PlanRow(u)
  BY <1>2, PlanNamesOthers
<1>4. ASSUME NEW rows, rows \subseteq PlanRow(u), NEW repay \in BOOLEAN, NEW b \in new(rows, repay)
      PROVE  b \in PartRow /\ b.at = change' /\ b.of = u
  <2>1. PICK r \in PlanRow(u) : b = [of |-> u, with |-> r.with, iOwe |-> r.iOwe, amount |-> r.amount,
                                     repay |-> repay, at |-> change']
    BY <1>4
  <2> QED BY <2>1 DEF PlanRow, PartRow
<1>5. \A b \in after.parts : b \in books.parts \/ (b \in PartRow /\ b.at = change' /\ b.of = u)
  <2>1. after.parts \subseteq books.parts \cup new(plan.debts, FALSE) \cup new(plan.repayments, TRUE)
    BY <1>1
  <2>2. \A b \in new(plan.debts, FALSE) : b \in PartRow /\ b.at = change' /\ b.of = u
    BY <1>3, <1>4
  <2>3. \A b \in new(plan.repayments, TRUE) : b \in PartRow /\ b.at = change' /\ b.of = u
    BY <1>3, <1>4
  <2> HIDE DEF new
  <2> QED BY <2>1, <2>2, <2>3
<1>61. after.tx = books.tx \/ after.tx = [books.tx EXCEPT ![u] = mine]
  BY <1>1
<1>62. books.tx = [v \in Users |-> books.tx[v]]
  BY DEF BooksFit
<1>6. \A v \in Users \ {u} : after.tx[v] = books.tx[v]
  <2> HIDE DEF mine
  <2> QED BY <1>61, <1>62
<1>7. after.tx[u] = books.tx[u] \/ after.tx[u] = mine
  <2> HIDE DEF mine
  <2> QED BY <1>61, <1>62
<1>8. BookRow(mine) /\ mine.at = change'
  BY DEF BookRow
<1>9. after.tx = [v \in Users |-> after.tx[v]] /\ after = [tx |-> after.tx, parts |-> after.parts]
  <2>1. after = [tx |-> after.tx, parts |-> after.parts]
    BY <1>1
  <2> HIDE DEF mine
  <2> QED BY <1>61, <1>62, <2>1
<1> HIDE DEF plan, mine
<1>10. Fresh(books, after)
  BY <1>5, <1>6, <1>7, <1>8 DEF Fresh
<1>11. BooksFit(after, change')
  <2>1. \A v \in Users : BookRow(after.tx[v]) /\ after.tx[v].at \in 0 .. change'
    BY <1>6, <1>7, <1>8 DEF BooksFit
  <2>2. after.parts \subseteq {b \in PartRow : b.at <= change'}
    BY <1>5 DEF BooksFit
  <2> QED BY <1>9, <2>1, <2>2 DEF BooksFit
<1>12. Followers(after) \subseteq Followers(books) \cup {u}
  BY <1>5, <1>6, FollowersAre
<1> QED BY <1>10, <1>11, <1>12

\* What a transaction that follows looks like.
LEMMA TxFollowsIs ==
  ASSUME NEW t, BookRow(t), NEW plan
  PROVE  /\ BookRow(TxFollows(t, plan)) /\ TxFollows(t, plan).has = t.has /\ TxFollows(t, plan).at = change'
         /\ TxFollows(t, plan).amount = plan.amount /\ TxFollows(t, plan).my = plan.my
<1>1. t = [has |-> t.has, type |-> t.type, wallet |-> t.wallet, amount |-> t.amount, my |-> t.my, at |-> t.at]
  BY DEF BookRow
<1>2. [t EXCEPT !.amount = plan.amount]
      = [has |-> t.has, type |-> t.type, wallet |-> t.wallet, amount |-> plan.amount, my |-> t.my, at |-> t.at]
  BY <1>1
<1>3. \A x : x = [has |-> t.has, type |-> t.type, wallet |-> t.wallet, amount |-> plan.amount, my |-> t.my, at |-> t.at]
        => [x EXCEPT !.my = plan.my]
           = [has |-> t.has, type |-> t.type, wallet |-> t.wallet, amount |-> plan.amount, my |-> plan.my, at |-> t.at]
  OBVIOUS
<1>4. \A x : x = [has |-> t.has, type |-> t.type, wallet |-> t.wallet, amount |-> plan.amount, my |-> plan.my, at |-> t.at]
        => [x EXCEPT !.at = change']
           = [has |-> t.has, type |-> t.type, wallet |-> t.wallet, amount |-> plan.amount, my |-> plan.my, at |-> change']
  OBVIOUS
<1>5. TxFollows(t, plan)
      = [has |-> t.has, type |-> t.type, wallet |-> t.wallet, amount |-> plan.amount, my |-> plan.my, at |-> change']
  BY <1>2, <1>3, <1>4, Zenon DEF TxFollows
<1> QED BY <1>5 DEF BookRow

\* What a part that follows looks like.
LEMMA PartFollowsIs ==
  ASSUME NEW b \in PartRow, NEW net, Abs(net) \in Nat, change' \in Nat
  PROVE  LET f == PartFollows(b, net)
         IN f \in PartRow /\ f.of = b.of /\ f.with = b.with /\ f.at = change' /\ f.amount = Abs(net)
<1>1. b = [of |-> b.of, with |-> b.with, iOwe |-> b.iOwe, amount |-> b.amount, repay |-> b.repay, at |-> b.at]
  BY DEF PartRow
<1>2. [b EXCEPT !.amount = Abs(net)]
      = [of |-> b.of, with |-> b.with, iOwe |-> b.iOwe, amount |-> Abs(net), repay |-> b.repay, at |-> b.at]
  BY <1>1
<1>3. \A x : x = [of |-> b.of, with |-> b.with, iOwe |-> b.iOwe, amount |-> Abs(net), repay |-> b.repay, at |-> b.at]
        => [x EXCEPT !.at = change']
           = [of |-> b.of, with |-> b.with, iOwe |-> b.iOwe, amount |-> Abs(net), repay |-> b.repay, at |-> change']
  OBVIOUS
<1>4. PartFollows(b, net)
      = [of |-> b.of, with |-> b.with, iOwe |-> b.iOwe, amount |-> Abs(net), repay |-> b.repay, at |-> change']
  BY <1>2, <1>3, Zenon DEF PartFollows
<1> QED BY <1>4 DEF PartRow

\* A sync makes no book, and what it leaves as it was is what it was.
LEMMA SyncMakesNone ==
  ASSUME NEW books, NEW m, NEW u \in Users, NEW event \in BOOLEAN,
         change' \in Nat, BooksFit(books, change'), MoneyFits(m)
  PROVE  LET after == Synced(books, m, u, event) IN
         /\ BooksFit(after, change') /\ Fresh(books, after)
         /\ \A v \in Users : after.tx[v].has = books.tx[v].has
         /\ \A b \in after.parts : \E x \in books.parts : x.of = b.of
<1> DEFINE t == books.tx[u]
           payDebt == ~t.wallet \/ \E b \in PartsOf(books.parts, u) : Net(m, b) > 0
           plan == PlanFor(m, u, event, payDebt, FALSE)
           after == Synced(books, m, u, event)
<1>1. /\ after.tx = books.tx \/ after.tx = [books.tx EXCEPT ![u] = TxFollows(t, plan)]
      /\ after.parts = (books.parts \ PartsOf(books.parts, u))
                       \cup {PartFollows(b, Net(m, b)) : b \in {x \in PartsOf(books.parts, u) : Net(m, x) # 0}}
      /\ after = [tx |-> after.tx, parts |-> after.parts]
  BY DEF Synced
<1>2. \A b \in books.parts : b.of = u => LET f == PartFollows(b, Net(m, b)) IN f \in PartRow /\ f.of = b.of /\ f.with = b.with /\ f.at = change'
  <2> SUFFICES ASSUME NEW b \in books.parts, b.of = u
               PROVE  LET f == PartFollows(b, Net(m, b)) IN f \in PartRow /\ f.of = b.of /\ f.with = b.with /\ f.at = change'
    OBVIOUS
  <2>1. Abs(Net(m, b)) \in Nat
    BY NetIsInt DEF BooksFit, PartRow, Net, Abs
  <2>2. b \in PartRow
    BY DEF BooksFit
  <2> QED BY <2>1, <2>2, PartFollowsIs
<1>3. \A b \in after.parts : \/ b \in books.parts
                             \/ b \in PartRow /\ b.at = change' /\ \E x \in books.parts : x.of = b.of
  <2> SUFFICES ASSUME NEW b \in after.parts, b \notin books.parts
               PROVE  b \in PartRow /\ b.at = change' /\ \E x \in books.parts : x.of = b.of
    OBVIOUS
  <2>1. PICK x \in PartsOf(books.parts, u) : b = PartFollows(x, Net(m, x))
    <3> HIDE DEF after
    <3> QED BY <1>1
  <2>2. x \in books.parts /\ x.of = u
    BY <2>1 DEF PartsOf, BooksFit
  <2> QED BY <2>1, <2>2, <1>2
<1> HIDE DEF plan, after
<1>4. books.tx = [v \in Users |-> books.tx[v]]
  BY DEF BooksFit
<1>5. \A v \in Users \ {u} : after.tx[v] = books.tx[v]
  BY <1>1, <1>4
<1>6. after.tx[u] = books.tx[u] \/ after.tx[u] = TxFollows(t, plan)
  BY <1>1, <1>4
<1>7. BookRow(TxFollows(t, plan)) /\ TxFollows(t, plan).has = t.has /\ TxFollows(t, plan).at = change'
  <2>1. BookRow(t)
    BY DEF BooksFit
  <2> QED BY <2>1, TxFollowsIs
<1>8. after.tx = [v \in Users |-> after.tx[v]]
  BY <1>1, <1>4
<1>9. Fresh(books, after)
  BY <1>3, <1>5, <1>6, <1>7 DEF Fresh
<1>10. BooksFit(after, change')
  <2>1. \A v \in Users : BookRow(after.tx[v]) /\ after.tx[v].at \in 0 .. change'
    BY <1>5, <1>6, <1>7 DEF BooksFit
  <2>2. after.parts \subseteq {b \in PartRow : b.at <= change'}
    BY <1>3 DEF BooksFit
  <2> QED BY <1>1, <1>8, <2>1, <2>2 DEF BooksFit
<1>11. \A v \in Users : after.tx[v].has = books.tx[v].has
  BY <1>5, <1>6, <1>7
<1> QED BY <1>3, <1>9, <1>10, <1>11 DEF after

\* Books of the last change but one are books of the last one.
LEMMA FitsLater ==
  ASSUME NEW books, NEW n \in Nat, NEW k \in Nat, n <= k, BooksFit(books, n)
  PROVE  BooksFit(books, k)
<1>1. \A u \in Users : books.tx[u].at \in 0 .. k
  BY DEF BooksFit
<1>2. books.parts \subseteq {b \in PartRow : b.at <= k}
  <2> SUFFICES ASSUME NEW b \in books.parts PROVE b \in PartRow /\ b.at <= k
    OBVIOUS
  <2>1. b \in PartRow /\ b.at <= n /\ b.at \in Nat
    BY DEF BooksFit, PartRow
  <2> QED BY <2>1
<1> QED BY <1>1, <1>2 DEF BooksFit

\* The books of several users follow one by one.
LEMMA SyncedAllMakesNone ==
  ASSUME NEW books, NEW m, NEW us, NEW event \in BOOLEAN, change' \in Nat, BooksFit(books, change'), MoneyFits(m)
  PROVE  LET after == SyncedAll(books, m, us, event)
         IN BooksFit(after, change') /\ Followers(after) \subseteq Followers(books)
<1> DEFINE after == SyncedAll(books, m, us, event)
           one(u) == Synced(books, m, u, event)
<1>1. /\ after.tx = [u \in Users |-> IF u \in us THEN one(u).tx[u] ELSE books.tx[u]]
      /\ after.parts = {b \in books.parts : b.of \notin us} \cup UNION {PartsOf(one(u).parts, u) : u \in us}
      /\ after = [tx |-> after.tx, parts |-> after.parts]
  BY DEF SyncedAll
<1>2. \A u \in Users : /\ BooksFit(one(u), change') /\ \A v \in Users : one(u).tx[v].has = books.tx[v].has
                       /\ \A b \in one(u).parts : \E x \in books.parts : x.of = b.of
  BY SyncMakesNone
<1>3. \A u \in Users : after.tx[u] = one(u).tx[u] \/ after.tx[u] = books.tx[u]
  <2> HIDE DEF after, one
  <2> QED BY <1>1
<1>4. ASSUME NEW b \in after.parts
      PROVE  b \in PartRow /\ b.at <= change' /\ \E x \in books.parts : x.of = b.of
  <2>1. CASE b \in books.parts
    BY <2>1 DEF BooksFit
  <2>2. ASSUME NEW u \in us, b \in PartsOf(one(u).parts, u)
        PROVE  b \in PartRow /\ b.at <= change' /\ \E x \in books.parts : x.of = b.of
    <3>1. CASE u \in Users
      <4>1. b \in one(u).parts /\ BooksFit(one(u), change') /\ \E x \in books.parts : x.of = b.of
        BY <1>2, <2>2, <3>1 DEF PartsOf
      <4> QED BY <4>1 DEF BooksFit
    <3>2. CASE u \notin Users
      <4>1. PartsOf(books.parts, u) = {}
        BY <3>2 DEF PartsOf, BooksFit, PartRow
      <4>2. one(u).parts \subseteq books.parts
        BY <4>1 DEF Synced
      <4> QED BY <4>1, <4>2, <2>2 DEF PartsOf
    <3> QED BY <3>1, <3>2
  <2> HIDE DEF after, one
  <2> QED BY <2>1, <2>2, <1>1, <1>4
<1> HIDE DEF after, one
<1>5. BooksFit(after, change')
  <2>1. \A u \in Users : BookRow(after.tx[u]) /\ after.tx[u].at \in 0 .. change'
    BY <1>2, <1>3 DEF BooksFit
  <2>2. after.tx = [u \in Users |-> after.tx[u]]
    BY <1>1
  <2>3. after.parts \subseteq {b \in PartRow : b.at <= change'}
    BY <1>4
  <2> QED BY <1>1, <2>1, <2>2, <2>3 DEF BooksFit
<1>6. Followers(after) \subseteq Followers(books)
  <2>1. \A u \in Users : after.tx[u].has = books.tx[u].has
    BY <1>2, <1>3
  <2> QED BY <2>1, <1>4, FollowersAre
<1> QED BY <1>5, <1>6 DEF after

\* What nobody asked for is claimed for the new people alone.
LEMMA ClaimedAllAdds ==
  ASSUME NEW books, NEW m, NEW us \in SUBSET Users, NEW event \in BOOLEAN, change' \in Nat,
         BooksFit(books, change'), MoneyFits(m)
  PROVE  LET after == ClaimedAll(books, m, us, event)
         IN BooksFit(after, change') /\ Followers(after) \subseteq Followers(books) \cup us
<1> DEFINE after == ClaimedAll(books, m, us, event)
           seen == [tx |-> {u \in Users : books.tx[u].has}, parts |-> books.parts]
           one(u) == Claimed(books, seen, m, u, event, AutoForm)
<1>1. /\ after.tx = [u \in Users |-> IF u \in us THEN one(u).tx[u] ELSE books.tx[u]]
      /\ after.parts = books.parts \cup UNION {PartsOf(one(u).parts, u) : u \in us}
      /\ after = [tx |-> after.tx, parts |-> after.parts]
  BY DEF ClaimedAll
<1>2. \A u \in Users : BooksFit(one(u), change')
  <2> SUFFICES ASSUME NEW u \in Users PROVE BooksFit(one(u), change')
    OBVIOUS
  <2>1. AutoForm \in ClaimForm
    BY DEF AutoForm, ClaimForm
  <2>2. \A s : \A f \in ClaimForm : BooksFit(Claimed(books, s, m, u, event, f), change')
    BY ClaimAdds
  <2>3. BooksFit(Claimed(books, seen, m, u, event, AutoForm), change')
    BY <2>1, <2>2, Zenon
  <2> QED BY <2>3 DEF one
<1> HIDE DEF after, one
<1>3. \A u \in Users : after.tx[u] = books.tx[u] \/ (u \in us /\ after.tx[u] = one(u).tx[u])
  BY <1>1
<1>4. ASSUME NEW b \in after.parts
      PROVE  b \in PartRow /\ b.at <= change' /\ (b \in books.parts \/ b.of \in us)
  <2>1. CASE b \in books.parts
    BY <2>1 DEF BooksFit
  <2>2. ASSUME NEW u \in us, b \in PartsOf(one(u).parts, u)
        PROVE  b \in PartRow /\ b.at <= change' /\ b.of \in us
    BY <2>2, <1>2 DEF PartsOf, BooksFit
  <2> QED BY <2>1, <2>2, <1>1, <1>4
<1>5. BooksFit(after, change')
  <2>1. \A u \in Users : BookRow(after.tx[u]) /\ after.tx[u].at \in 0 .. change'
    BY <1>2, <1>3 DEF BooksFit
  <2>2. after.tx = [u \in Users |-> after.tx[u]]
    BY <1>1
  <2>3. after.parts \subseteq {b \in PartRow : b.at <= change'}
    BY <1>4
  <2> QED BY <1>1, <2>1, <2>2, <2>3 DEF BooksFit
<1>6. Followers(after) \subseteq Followers(books) \cup us
  BY <1>3, <1>4, FollowersAre
<1> QED BY <1>5, <1>6 DEF after

\* Whose books go out holds none, and the others' are as they were.
LEMMA OutOfTakes ==
  ASSUME NEW books, NEW us, NEW n \in Nat, BooksFit(books, n)
  PROVE  LET after == OutOf(books, us)
         IN /\ BooksFit(after, n) /\ Followers(after) \subseteq Followers(books) \ us
            /\ \A u \in Users \ us : after.tx[u] = books.tx[u]
            /\ after.parts \subseteq books.parts
<1> DEFINE after == OutOf(books, us)
<1>1. /\ after.tx = [u \in Users |-> IF u \in us THEN NoBook ELSE books.tx[u]]
      /\ after.parts = {b \in books.parts : b.of \notin us}
      /\ after = [tx |-> after.tx, parts |-> after.parts]
  BY DEF OutOf
<1>2. BookRow(NoBook) /\ NoBook.at = 0 /\ ~NoBook.has
  BY DEF BookRow, NoBook
<1> HIDE DEF after
<1>3. \A u \in Users : (u \in us /\ after.tx[u] = NoBook) \/ (u \notin us /\ after.tx[u] = books.tx[u])
  BY <1>1
<1>4. BooksFit(after, n)
  BY <1>1, <1>2, <1>3 DEF BooksFit
<1>5. Followers(after) \subseteq Followers(books) \ us
  BY <1>1, <1>2, <1>3, FollowersAre
<1> QED BY <1>1, <1>3, <1>4, <1>5 DEF after

\* A part whose person goes stays its holder's.
LEMMA NamelessKeeps ==
  ASSUME NEW books, NEW us, NEW n \in Nat, BooksFit(books, n)
  PROVE  LET after == Nameless(books, us) IN BooksFit(after, n) /\ Followers(after) \subseteq Followers(books)
<1> DEFINE after == Nameless(books, us)
           named == {IF b.with \in us THEN [b EXCEPT !.with = Gone] ELSE b : b \in books.parts}
<1>1. /\ after.tx = books.tx /\ after.parts = named
      /\ after = [tx |-> after.tx, parts |-> after.parts]
  <2>1. after = [books EXCEPT !.parts = named]
    BY Zenon DEF Nameless
  <2>2. books = [tx |-> books.tx, parts |-> books.parts]
    BY DEF BooksFit
  <2> HIDE DEF after, named
  <2> QED BY <2>1, <2>2
<1> HIDE DEF after
<1>2. \A b \in after.parts : b \in PartRow /\ b.at <= n /\ \E x \in books.parts : x.of = b.of
  <2> SUFFICES ASSUME NEW x \in books.parts, NEW b, b = IF x.with \in us THEN [x EXCEPT !.with = Gone] ELSE x
               PROVE  b \in PartRow /\ b.at <= n /\ b.of = x.of
    BY <1>1
  <2>1. x \in PartRow /\ x.at <= n
    BY DEF BooksFit
  <2> QED BY <2>1, PaperUsers DEF PartRow
<1>3. BooksFit(after, n)
  BY <1>1, <1>2 DEF BooksFit
<1> QED BY <1>1, <1>2, <1>3, FollowersAre DEF after

-----------------------------------------------------------------------------
(* The inductive invariant.                                                *)

PersonRow == [st: Statuses, share: Nat, paid: Nat]
Standings == {"no", "asked", "active", "left"}
WorkRow == [op: Ops \cup {"none"}, by: Users, done: BOOLEAN, tx: SUBSET Users, parts: SUBSET PartRow]

Shapes ==
  /\ paper \in PaperRow /\ work \in WorkRow
  /\ person \in [Users -> PersonRow] /\ member \in [Users -> Standings]
  /\ change \in 0 .. MaxChanges /\ loud \in 0 .. change
  /\ told \subseteq Users /\ back \subseteq Users /\ astray \subseteq Users

BooksAreRows == BooksFit(Books, change)

HoldersOn == \A u \in Followers(Books) \ astray : person[u].st = "joined" /\ (paper.event => Active(u) \/ u \in back)

\* Before there is a paper there is nothing of it.
NothingBefore ==
  ~paper.there /\ ~paper.ended =>
    Followers(Books) = {} /\ change = 0 /\ \A u \in Users : person[u] = NoRow

\* A request is at work on a paper that is there, and what let it in holds until it writes.
LetIn ==
  /\ work.op # "none" => paper.there
  /\ work.op = "claim" => /\ person[work.by].st = "joined"
                          /\ paper.event /\ work.by \notin astray => Active(work.by)
  /\ work.op = "answer" => person[work.by].st = "invited" /\ ~paper.event

PInv == Shapes /\ BooksAreRows /\ HoldersOn /\ NothingBefore /\ LetIn /\ StaleBooksAreTold

-----------------------------------------------------------------------------
(* What is common to several steps.                                        *)

\* Shares of a form's people are natural numbers.
LEMMA EqualSharesAreNat ==
  ASSUME NEW a \in Nat, NEW on \in SUBSET Users, on # {}, NEW lead
  PROVE  EqualShares(a, on, lead) \in [on -> Nat]
<1>1. Cardinality(on) \in Nat \ {0}
  <2>1. IsFiniteSet(on)
    BY PaperUsers, FS_Subset
  <2> QED BY <2>1, FS_CardinalityType, FS_EmptySet
<1> DEFINE each == a \div Cardinality(on)
<1>2. each \in Nat /\ each * Cardinality(on) \in Nat /\ each * Cardinality(on) <= a
  BY <1>1, Quotient
<1>3. each + a - each * Cardinality(on) \in Nat
  <2> HIDE DEF each
  <2> QED BY <1>2
<1> HIDE DEF each
<1>4. EqualShares(a, on, lead) = [p \in on |-> IF p = lead THEN each + a - each * Cardinality(on) ELSE each]
  BY DEF EqualShares, each
<1> QED BY <1>2, <1>3, <1>4

\* The rows a form leaves.
LEMMA WrittenFits ==
  ASSUME Shapes, NEW in \in Inputs, NEW u \in Users, NEW owner \in Users, NEW event \in BOOLEAN,
         NEW named
  PROVE  Written(in, u, owner, event, named) \in [Users -> PersonRow]
<1>1. /\ in.amount \in Nat /\ in.on # {} /\ in.on \in SUBSET Users
      /\ in.share \in [Users -> Nat] /\ in.paid \in [Users -> Nat]
  BY PaperInputs
<1>2. \A v \in in.on : Shares(in, owner)[v] \in Nat
  <2>1. EqualShares(in.amount, in.on, Lead(in.on, owner)) \in [in.on -> Nat]
    BY <1>1, EqualSharesAreNat
  <2> QED BY <1>1, <2>1 DEF Shares
<1>3. \A v \in Users : NewStatus(u, v, event, named) \in Statuses
  BY DEF NewStatus, Statuses
<1>4. NoRow \in PersonRow
  BY DEF NoRow, PersonRow, Statuses
<1>5. \A v \in in.on : [st |-> IF person[v].st # "none" THEN person[v].st ELSE NewStatus(u, v, event, named),
                        share |-> Shares(in, owner)[v], paid |-> in.paid[v]] \in PersonRow
  <2> SUFFICES ASSUME NEW v \in in.on
               PROVE  [st |-> IF person[v].st # "none" THEN person[v].st ELSE NewStatus(u, v, event, named),
                       share |-> Shares(in, owner)[v], paid |-> in.paid[v]] \in PersonRow
    OBVIOUS
  <2>1. v \in Users /\ person[v].st \in Statuses
    BY <1>1 DEF Shapes, PersonRow
  <2> QED BY <2>1, <1>1, <1>2, <1>3 DEF PersonRow
<1> QED BY <1>4, <1>5 DEF Written

\* What the paper says is an amount of its people.
LEMMA MoneyIs ==
  ASSUME NEW ppr, ppr.type \in PaperTypes, ppr.amount \in Nat, NEW p \in [Users -> PersonRow]
  PROVE  MoneyFits(Money(ppr, p))
BY DEF MoneyFits, Money, PersonRow

\* Books that are taken are the books there are.
LEMMA TakenAre ==
  ASSUME NEW books, NEW n, BooksFit(books, n), Take(books)
  PROVE  [tx |-> tx', parts |-> parts'] = books /\ Books' = books
BY DEF BooksFit, Take, Books

\* Whoever holds no book has missed nothing; all others are told, or cannot be.
LEMMA StaleIfHeard ==
  ASSUME \A u \in Followers(Books)' \ astray' : u \in told' \/ (u \in back' /\ ~paper'.event)
  PROVE  StaleBooksAreTold'
BY DEF StaleBooksAreTold, Holders, Followers, PartsOf, Books

\* All others are told.
LEMMA StaleIfTold ==
  ASSUME Followers(Books)' \ astray' \subseteq told'
  PROVE  StaleBooksAreTold'
BY StaleIfHeard

\* Books that went, or are of the last change, leave nothing to tell.
LEMMA StaleKept ==
  ASSUME StaleBooksAreTold, UNCHANGED <<change, loud, told, back>>, astray \subseteq astray',
         paper'.event = paper.event, loud \in 0 .. change,
         \A u \in Users : tx'[u] = tx[u] \/ tx'[u].at = change \/ ~tx'[u].has,
         \A b \in parts' : b \in parts \/ b.at = change,
         change \in Nat
  PROVE  StaleBooksAreTold'
<1> SUFFICES ASSUME NEW u \in Users, u \notin astray',
                    (tx'[u].has /\ tx'[u].at < loud) \/ \E b \in parts' : b.of = u /\ b.at < loud
             PROVE  u \in told \/ (u \in back /\ ~paper.event)
  BY DEF StaleBooksAreTold, PartsOf, Holders
<1>1. (tx[u].has /\ tx[u].at < loud) \/ \E b \in parts : b.of = u /\ b.at < loud
  OBVIOUS
<1> QED BY <1>1 DEF StaleBooksAreTold, PartsOf, Holders

\* A change of the paper's money reaches the books there are, and adds those of new people.
LEMMA FollowAndWelcomeTells ==
  ASSUME Shapes, NEW books, BooksFit(books, change), NEW m, MoneyFits(m), NEW p, NEW u \in Users,
         NEW new \in SUBSET Users, FollowAndWelcome(books, m, p, u, new)
  PROVE  /\ BooksAreRows' /\ Followers(Books)' \subseteq Followers(books) \cup new
         /\ change' \in 0 .. MaxChanges /\ change' = change + 1 /\ loud' \in 0 .. change'
         /\ told' \subseteq Users /\ told' = Followers(books) \cup new \cup {u}
<1> DEFINE autos == Following(books, p, u)
           synced == SyncedAll(books, m, autos, paper.event)
           after == ClaimedAll(synced, m, new, paper.event)
<1>1. /\ change \in Nat /\ change < MaxChanges /\ change' = change + 1 /\ loud' = change' /\ paper.event \in BOOLEAN
      /\ Take(after) /\ told' = Followers(books) \cup new \cup {u}
  BY PaperBound DEF FollowAndWelcome, Changes, Shapes, PaperRow
<1>2. change' \in Nat /\ change <= change' /\ change' \in 0 .. MaxChanges /\ loud' \in 0 .. change'
  BY <1>1, PaperBound
<1>3. BooksFit(books, change')
  BY <1>1, <1>2, FitsLater
<1>4. BooksFit(synced, change') /\ Followers(synced) \subseteq Followers(books)
  BY <1>1, <1>2, <1>3, SyncedAllMakesNone
<1> HIDE DEF synced
<1>5. BooksFit(after, change') /\ Followers(after) \subseteq Followers(synced) \cup new
  BY <1>1, <1>2, <1>4, ClaimedAllAdds
<1> HIDE DEF after
<1>6. Books' = after
  BY <1>1, <1>5, TakenAre
<1>7. BooksAreRows' /\ Followers(Books)' = Followers(after)
  BY <1>5, <1>6 DEF BooksAreRows, BooksFit, Followers, PartsOf
<1>8. Followers(books) \subseteq Users
  BY DEF Followers
<1> QED BY <1>1, <1>2, <1>4, <1>5, <1>7, <1>8

\* New people of an event bill are members of the event, or asked to be, or were before.
LEMMA MatchedFits ==
  ASSUME Shapes, NEW in \in Inputs, NEW u \in Users, NEW owner \in Users, NEW event \in BOOLEAN,
         NEW named \in SUBSET Former(in.on, event)
  PROVE  LET p == Written(in, u, owner, event, named) IN
         /\ Matched(p, event) \in [Users -> Standings]
         /\ \A v \in Users : member[v] = "active" => Matched(p, event)[v] = "active"
         /\ \A v \in in.on : person[v].st # "none" => p[v].st = person[v].st
         /\ Welcomed(p, u) \in SUBSET Users /\ named \in SUBSET Users
         /\ \A v \in Welcomed(p, u) : p[v].st = "joined" /\ (event => Matched(p, event)[v] = "active" \/ v \in named)
<1> DEFINE p == Written(in, u, owner, event, named)
<1>1. in.on \subseteq Users
  BY PaperInputs
<1>2. Matched(p, event) \in [Users -> Standings]
  BY DEF Matched, Shapes, Standings
<1>3. \A v \in Users : member[v] = "active" => Matched(p, event)[v] = "active"
  BY DEF Matched
<1>4. \A v \in in.on : person[v].st # "none" => p[v].st = person[v].st
  BY <1>1 DEF Written
<1>5. \A v \in Users \ in.on : p[v] = NoRow
  BY DEF Written
<1>6. Welcomed(p, u) \in SUBSET Users
  BY PaperSwitches DEF Welcomed
<1>7. ASSUME NEW v \in Welcomed(p, u)
      PROVE  p[v].st = "joined" /\ (event => Matched(p, event)[v] = "active" \/ v \in named)
  <2>1. v \in Users /\ person[v].st = "none" /\ p[v].st = "joined"
    BY <1>6, <1>7 DEF Welcomed
  <2>2. v \in in.on
    BY <2>1, <1>5 DEF NoRow
  <2>3. NewStatus(u, v, event, named) = "joined"
    BY <2>1, <2>2 DEF Written
  <2>4. event => member[v] \in {"no", "active"} \/ v \in named
    BY <2>3 DEF NewStatus, Active
  <2> HIDE DEF p
  <2> QED BY <2>1, <2>4 DEF Matched
<1>8. named \in SUBSET Users
  BY <1>1 DEF Former
<1> QED BY <1>2, <1>3, <1>4, <1>6, <1>7, <1>8

\* A request that ends leaves nothing at work.
LEMMA NothingAtWork == NoWork \in WorkRow /\ NoWork.op = "none"
BY PaperUsers DEF NoWork, WorkRow

\* Books nobody touched are of a later change, too.
LEMMA BooksStay ==
  ASSUME BooksAreRows, UNCHANGED <<tx, parts>>, change \in Nat, change' \in Nat, change <= change'
  PROVE  BooksAreRows' /\ Followers(Books)' = Followers(Books)
<1>1. BooksFit(Books, change')
  BY FitsLater DEF BooksAreRows
<1>2. Books' = Books
  BY DEF Books
<1> QED BY <1>1, <1>2 DEF BooksAreRows, BooksFit, Followers, PartsOf

\* Books that are taken.
LEMMA BooksTaken ==
  ASSUME NEW books, BooksFit(books, change'), Take(books)
  PROVE  BooksAreRows' /\ Followers(Books)' = Followers(books) /\ tx' = books.tx /\ parts' = books.parts
<1>1. Books' = books /\ tx' = books.tx /\ parts' = books.parts
  BY TakenAre DEF Take
<1> QED BY <1>1 DEF BooksAreRows, BooksFit, Followers, PartsOf

\* A paper written again is the same paper.
Rewrite(ppr, type, mode, amount) == [ppr EXCEPT !.type = type, !.mode = mode, !.amount = amount]

\* It has the form's money and is where it was.
LEMMA RewrittenIs ==
  ASSUME NEW ppr \in PaperRow, NEW type \in PaperTypes, NEW mode \in {"equal", "custom"}, NEW amount \in Nat
  PROVE  LET new == Rewrite(ppr, type, mode, amount)
         IN new \in PaperRow /\ new.type = type /\ new.amount = amount /\ new.event = ppr.event /\ new.there = ppr.there
<1> DEFINE row(t, mo, a) == [there |-> ppr.there, ended |-> ppr.ended, event |-> ppr.event, done |-> ppr.done,
                             owner |-> ppr.owner, type |-> t, mode |-> mo, amount |-> a]
<1>1. ppr = row(ppr.type, ppr.mode, ppr.amount)
  BY DEF PaperRow
<1>2. [ppr EXCEPT !.type = type] = row(type, ppr.mode, ppr.amount)
  BY <1>1
<1>3. \A x : x = row(type, ppr.mode, ppr.amount) => [x EXCEPT !.mode = mode] = row(type, mode, ppr.amount)
  OBVIOUS
<1>4. \A x : x = row(type, mode, ppr.amount) => [x EXCEPT !.amount = amount] = row(type, mode, amount)
  OBVIOUS
<1> HIDE DEF row
<1>5. Rewrite(ppr, type, mode, amount) = row(type, mode, amount)
  BY <1>2, <1>3, <1>4, Zenon DEF Rewrite
<1>6. row(type, mode, amount) \in PaperRow
  BY DEF row, PaperRow
<1> QED BY <1>5, <1>6 DEF row

\* A row that takes on what another had keeps its status.
LEMMA TakesOn ==
  ASSUME NEW r \in PersonRow, NEW a \in Nat, NEW b \in Nat
  PROVE  LET new == [r EXCEPT !.paid = a, !.share = b] IN new \in PersonRow /\ new.st = r.st
<1>1. r = [st |-> r.st, share |-> r.share, paid |-> r.paid]
  BY DEF PersonRow
<1>2. [r EXCEPT !.paid = a] = [st |-> r.st, share |-> r.share, paid |-> a]
  BY <1>1
<1>3. \A x : x = [st |-> r.st, share |-> r.share, paid |-> a] => [x EXCEPT !.share = b] = [st |-> r.st, share |-> b, paid |-> a]
  OBVIOUS
<1>4. [r EXCEPT !.paid = a, !.share = b] = [st |-> r.st, share |-> b, paid |-> a]
  BY <1>2, <1>3, Zenon
<1> QED BY <1>4 DEF PersonRow

\* Whoever stays on the paper keeps their status.
LEMMA ResharedFits ==
  ASSUME Shapes, NEW gone \in Users, OnPaper(Reshared(gone)) # {}
  PROVE  Reshared(gone) \in [Users -> PersonRow] /\ \A v \in Users \ {gone} : Reshared(gone)[v].st = person[v].st
<1> DEFINE keep == OnPaper(person) \ {gone}
           lead == Lead(keep, paper.owner)
           equal == paper.mode = "equal" /\ paper.type # "payback"
           add(v, n) == IF v = lead THEN n ELSE 0
           paid(v) == person[v].paid + add(v, person[gone].paid)
           share(v) == IF equal THEN EqualShares(paper.amount, keep, lead)[v]
                       ELSE person[v].share + add(v, person[gone].share)
<1>1. Reshared(gone) = [v \in Users |-> IF v \notin keep THEN NoRow
                                       ELSE [person[v] EXCEPT !.paid = paid(v), !.share = share(v)]]
  BY DEF Reshared
<1>2. NoRow \in PersonRow /\ NoRow.st = "none"
  BY DEF NoRow, PersonRow, Statuses
<1>3. keep \in SUBSET Users /\ \A v \in Users : person[v] \in PersonRow
  BY DEF OnPaper, Shapes
<1>4. keep # {}
  <2> SUFFICES ASSUME keep = {} PROVE FALSE
    OBVIOUS
  <2>1. \A v \in Users : Reshared(gone)[v] = NoRow
    BY <1>1
  <2> QED BY <2>1, <1>2 DEF OnPaper
<1>5. EqualShares(paper.amount, keep, lead) \in [keep -> Nat]
  <2>1. paper.amount \in Nat
    BY DEF Shapes, PaperRow
  <2> HIDE DEF keep, lead
  <2> QED BY <1>3, <1>4, <2>1, EqualSharesAreNat
<1>6. ASSUME NEW v \in keep PROVE paid(v) \in Nat /\ share(v) \in Nat
  <2>1. person[v].paid \in Nat /\ person[v].share \in Nat /\ person[gone].paid \in Nat /\ person[gone].share \in Nat
    BY <1>3 DEF PersonRow
  <2>2. add(v, person[gone].paid) \in Nat /\ add(v, person[gone].share) \in Nat
    BY <2>1
  <2> HIDE DEF add, keep, lead, equal
  <2> QED BY <2>1, <2>2, <1>5
<1> HIDE DEF paid, share
<1>7. \A v \in keep : LET new == [person[v] EXCEPT !.paid = paid(v), !.share = share(v)]
                     IN new \in PersonRow /\ new.st = person[v].st
  BY <1>3, <1>6, TakesOn
<1>8. \A v \in Users \ {gone} : v \notin keep => person[v].st = "none"
  BY DEF OnPaper
<1> HIDE DEF keep
<1> DEFINE new(v) == [person[v] EXCEPT !.paid = paid(v), !.share = share(v)]
<1>9. Reshared(gone) = [v \in Users |-> IF v \notin keep THEN NoRow ELSE new(v)]
  BY <1>1
<1>10. \A v \in keep : new(v) \in PersonRow /\ new(v).st = person[v].st
  BY <1>7
<1> HIDE DEF new
<1> QED BY <1>2, <1>8, <1>9, <1>10

\* A row that changes its status alone.
LEMMA StandsAs ==
  ASSUME NEW r \in PersonRow, NEW st \in Statuses
  PROVE  LET new == [r EXCEPT !.st = st] IN new \in PersonRow /\ new.st = st
BY DEF PersonRow

\* A paper that is deleted is no more, one whose event is deleted is a split bill.
Ended(ppr, a, b)   == [ppr EXCEPT !.there = a, !.ended = b]
Eventless(ppr, a, b) == [ppr EXCEPT !.event = a, !.done = b]

\* Both keep their shape.
LEMMA PlacedIs ==
  ASSUME NEW ppr \in PaperRow, NEW a \in BOOLEAN, NEW b \in BOOLEAN
  PROVE  /\ Ended(ppr, a, b) \in PaperRow /\ Ended(ppr, a, b).ended = b
         /\ Ended(ppr, a, b).event = ppr.event
         /\ Eventless(ppr, a, b) \in PaperRow /\ Eventless(ppr, a, b).event = a
         /\ Eventless(ppr, a, b).there = ppr.there
<1> DEFINE row(there, ended, event, done) ==
             [there |-> there, ended |-> ended, event |-> event, done |-> done,
              owner |-> ppr.owner, type |-> ppr.type, mode |-> ppr.mode, amount |-> ppr.amount]
<1>1. /\ [ppr EXCEPT !.there = a] = row(a, ppr.ended, ppr.event, ppr.done)
      /\ [ppr EXCEPT !.event = a] = row(ppr.there, ppr.ended, a, ppr.done)
  BY DEF PaperRow
<1>2. \A x : x = row(a, ppr.ended, ppr.event, ppr.done) => [x EXCEPT !.ended = b] = row(a, b, ppr.event, ppr.done)
  OBVIOUS
<1>3. \A x : x = row(ppr.there, ppr.ended, a, ppr.done) => [x EXCEPT !.done = b] = row(ppr.there, ppr.ended, a, b)
  OBVIOUS
<1>4. /\ row(a, b, ppr.event, ppr.done) \in PaperRow /\ row(a, b, ppr.event, ppr.done).ended = b
      /\ row(a, b, ppr.event, ppr.done).event = ppr.event
      /\ row(ppr.there, ppr.ended, a, b) \in PaperRow /\ row(ppr.there, ppr.ended, a, b).event = a
      /\ row(ppr.there, ppr.ended, a, b).there = ppr.there
  BY DEF PaperRow
<1> HIDE DEF row
<1>5. Ended(ppr, a, b) = row(a, b, ppr.event, ppr.done)
  BY <1>1, <1>2, Zenon DEF Ended
<1>6. Eventless(ppr, a, b) = row(ppr.there, ppr.ended, a, b)
  BY <1>1, <1>3, Zenon DEF Eventless
<1> QED BY <1>4, <1>5, <1>6

\* Books that go out take with them what their users missed.
LEMMA OutKept ==
  ASSUME PInv, NEW us, Take(OutOf(Books, us)), UNCHANGED <<change, loud, told, back>>, astray \subseteq astray',
         paper'.event = paper.event
  PROVE  BooksAreRows' /\ Followers(Books)' \subseteq Followers(Books) \ us /\ StaleBooksAreTold'
<1> DEFINE after == OutOf(Books, us)
<1>1. change \in Nat /\ loud \in 0 .. change /\ BooksFit(Books, change)
  BY PaperBound DEF PInv, Shapes, BooksAreRows
<1>2. /\ BooksFit(after, change) /\ Followers(after) \subseteq Followers(Books) \ us
      /\ \A u \in Users \ us : after.tx[u] = Books.tx[u]
      /\ after.parts \subseteq Books.parts
  BY <1>1, OutOfTakes
<1>3. Take(after)
  OBVIOUS
<1> HIDE DEF after
<1>4. BooksFit(after, change')
  BY <1>2
<1>5. BooksAreRows' /\ Followers(Books)' = Followers(after) /\ tx' = after.tx /\ parts' = after.parts
  BY <1>3, <1>4, BooksTaken
<1>6. StaleBooksAreTold'
  <2>1. \A u \in Users : tx'[u] = tx[u] \/ ~tx'[u].has
    BY <1>2, <1>5, FollowersAre DEF Books
  <2>2. parts' \subseteq parts
    BY <1>2, <1>5 DEF Books
  <2> QED BY <2>1, <2>2, <1>1, StaleKept DEF PInv
<1> QED BY <1>2, <1>5, <1>6

-----------------------------------------------------------------------------
(* The steps.                                                              *)

\* At first there is nothing.
LEMMA PapersStart == Init => PInv
<1> SUFFICES ASSUME Init PROVE PInv
  OBVIOUS
<1>1. Shapes
  BY PaperUsers, PaperBound, NothingAtWork DEF Init, Shapes, PaperRow, PaperTypes, PersonRow, Statuses, Standings, NoRow
<1>2. BooksAreRows /\ Followers(Books) = {}
  <2>1. BookRow(NoBook) /\ NoBook.at = 0 /\ ~NoBook.has
    BY DEF BookRow, NoBook
  <2>2. Books = [tx |-> [u \in Users |-> NoBook], parts |-> {}] /\ change = 0
    BY DEF Init, Books
  <2>3. BooksFit([tx |-> [u \in Users |-> NoBook], parts |-> {}], 0)
    BY <2>1 DEF BooksFit
  <2>4. Followers([tx |-> [u \in Users |-> NoBook], parts |-> {}]) = {}
    BY <2>1, FollowersAre
  <2> QED BY <2>2, <2>3, <2>4 DEF BooksAreRows
<1>3. NothingBefore /\ HoldersOn
  BY <1>2 DEF Init, NothingBefore, HoldersOn
<1>4. LetIn
  BY NothingAtWork DEF Init, LetIn
<1>5. StaleBooksAreTold
  BY <1>2, FollowersAre DEF StaleBooksAreTold, Holders, Books, PartsOf
<1> QED BY <1>1, <1>2, <1>3, <1>4, <1>5 DEF PInv

\* The paper is made, with the books of whoever claims it at once.
LEMMA CreateKept ==
  ASSUME PInv, NEW u \in Creators, NEW in \in Inputs, NEW event \in BOOLEAN, NEW named \in SUBSET Users,
         CreatePaper(u, in, event, named)
  PROVE  PInv'
<1> DEFINE ppr == [there |-> TRUE, ended |-> FALSE, event |-> event, done |-> FALSE, owner |-> u,
                   type |-> in.type, mode |-> in.mode, amount |-> in.amount]
           p   == Written(in, u, u, event, named)
           m   == Money(ppr, p)
           none == [tx |-> {}, parts |-> {}]
<1>0. u \in Users
  BY PaperActors
<1>1. /\ ~paper.there /\ ~paper.ended /\ (event => Active(u)) /\ named \in SUBSET Former(in.on, event)
      /\ paper' = ppr /\ person' = p /\ member' = Matched(p, event) /\ change' = 1 /\ loud' = 1
      /\ told' = Users /\ back' = named /\ UNCHANGED <<work, astray>>
      /\ \E bk : /\ bk = Books \/ (u \in in.on /\ \E f \in Forms : bk = Claimed(Books, none, m, u, event, f))
               /\ Take(ClaimedAll(bk, m, Welcomed(p, u), event))
  <2>1. /\ (event => Active(u))
        /\ \E bk \in (IF u \notin in.on THEN {Books} ELSE {Books} \cup {Claimed(Books, none, m, u, event, f) : f \in Forms}) :
             Take(ClaimedAll(bk, m, Welcomed(p, u), event))
    BY DEF CreatePaper
  <2>2. /\ ~paper.there /\ ~paper.ended /\ named \in SUBSET Former(in.on, event)
        /\ paper' = ppr /\ person' = p /\ member' = Matched(p, event) /\ change' = 1 /\ loud' = 1
        /\ told' = Users /\ back' = named /\ UNCHANGED <<work, astray>>
    BY DEF CreatePaper
  <2> HIDE DEF p, m, ppr, none
  <2> QED BY <2>1, <2>2
<1> HIDE DEF p, m, ppr, none
<1>2. Followers(Books) = {} /\ change = 0 /\ person[u] = NoRow
  BY <1>0, <1>1 DEF PInv, NothingBefore
<1>3. p \in [Users -> PersonRow] /\ ppr \in PaperRow
  BY <1>0, WrittenFits, PaperInputs DEF PInv, PaperRow, p, ppr
<1>4. MoneyFits(m)
  <2>1. ppr.type \in PaperTypes /\ ppr.amount \in Nat
    BY PaperInputs DEF ppr
  <2> QED BY <1>3, <2>1, MoneyIs DEF m
<1>5. /\ Matched(p, event) \in [Users -> Standings] /\ Welcomed(p, u) \in SUBSET Users
      /\ member[u] = "active" => Matched(p, event)[u] = "active"
      /\ \A v \in Welcomed(p, u) : p[v].st = "joined" /\ (event => Matched(p, event)[v] = "active" \/ v \in named)
  <2>1. PInv => Shapes
    BY DEF PInv
  <2> QED BY <1>0, <1>1, <2>1, MatchedFits DEF p
<1>6. u \in in.on => p[u].st = "joined"
  <2>1. u \in in.on => p[u].st = NewStatus(u, u, event, named)
    BY <1>0, <1>2 DEF Written, NoRow, p
  <2> QED BY <2>1, <1>1 DEF NewStatus
<1>7. BooksFit(Books, change') /\ change' \in Nat
  BY <1>1, <1>2, FitsLater DEF PInv, BooksAreRows
<1>8. PICK bk : /\ bk = Books \/ (u \in in.on /\ \E f \in Forms : bk = Claimed(Books, none, m, u, event, f))
                /\ Take(ClaimedAll(bk, m, Welcomed(p, u), event))
  BY <1>1
<1>9. BooksFit(bk, change') /\ Followers(bk) \subseteq {x \in {u} : u \in in.on}
  <2>1. CASE bk = Books
    BY <2>1, <1>2, <1>7
  <2>2. ASSUME u \in in.on, NEW f \in Forms, bk = Claimed(Books, none, m, u, event, f)
        PROVE  BooksFit(bk, change') /\ Followers(bk) \subseteq {x \in {u} : u \in in.on}
    <3>1. f \in ClaimForm
      BY PaperForms DEF ClaimForm
    <3>2. BooksFit(bk, change') /\ Followers(bk) \subseteq Followers(Books) \cup {u}
      BY <1>0, <1>4, <1>7, <2>2, <3>1, ClaimAdds
    <3> QED BY <3>2, <1>2, <2>2
  <2> QED BY <2>1, <2>2, <1>8
<1> DEFINE after == ClaimedAll(bk, m, Welcomed(p, u), event)
<1>10. BooksFit(after, change') /\ Followers(after) \subseteq Followers(bk) \cup Welcomed(p, u)
  BY <1>4, <1>5, <1>7, <1>9, ClaimedAllAdds
<1>11. Books' = after /\ BooksAreRows'
  <2> HIDE DEF after
  <2>1. Books' = after
    BY <1>8, <1>10, TakenAre DEF after
  <2> QED BY <2>1, <1>10 DEF BooksAreRows, BooksFit
<1>12. Followers(Books)' = Followers(after) /\ Followers(Books)' \subseteq Users
  BY <1>11 DEF Followers, PartsOf
<1> HIDE DEF after
<1>13. HoldersOn'
  <2> SUFFICES ASSUME NEW v \in Followers(Books)' PROVE person'[v].st = "joined" /\ (paper'.event => member'[v] = "active" \/ v \in back')
    BY DEF HoldersOn, Active
  <2>1. v \in Welcomed(p, u) \/ (v = u /\ u \in in.on)
    BY <1>9, <1>10, <1>12
  <2>2. person' = p /\ paper'.event = event /\ member' = Matched(p, event) /\ (event => member[u] = "active")
        /\ back' = named
    BY <1>1 DEF ppr, Active
  <2> QED BY <2>1, <2>2, <1>5, <1>6
<1>14. Shapes'
  BY <1>1, <1>3, <1>5, PaperBound DEF PInv, Shapes
<1>15. StaleBooksAreTold'
  BY <1>1, <1>12, StaleIfTold
<1>16. NothingBefore' /\ LetIn'
  <2>1. paper'.there /\ work'.op = "none"
    BY <1>1 DEF PInv, LetIn, ppr
  <2> QED BY <2>1 DEF NothingBefore, LetIn
<1> QED BY <1>11, <1>13, <1>14, <1>15, <1>16 DEF PInv

\* A request has the lock, or gives up.
LEMMA BeginsAndGivesUp ==
  ASSUME PInv, (\E op \in Ops, u \in Users : Begin(op, u)) \/ GiveUp
  PROVE  PInv'
<1>1. UNCHANGED <<paper, person, member, tx, parts, change, loud, told, back, astray>>
  BY DEF Begin, GiveUp
<1>2. BooksAreRows' /\ Followers(Books)' = Followers(Books)
  BY <1>1 DEF PInv, BooksAreRows, BooksFit, Followers, PartsOf, Books
<1>3. HoldersOn' /\ NothingBefore' /\ StaleBooksAreTold'
  BY <1>1, <1>2 DEF PInv, HoldersOn, NothingBefore, StaleBooksAreTold, Active, Holders, PartsOf
<1>4. work' \in WorkRow /\ LetIn'
  <2>1. ASSUME NEW op \in Ops, NEW u \in Users, Begin(op, u) PROVE work' \in WorkRow /\ LetIn'
    <3>1. work' = [op |-> op, by |-> u, done |-> paper.done, tx |-> {v \in Users : tx[v].has}, parts |-> parts]
          /\ paper.there /\ Starts(op, u)
      BY <2>1 DEF Begin
    <3>2. parts \subseteq PartRow /\ paper.done \in BOOLEAN
      BY DEF PInv, BooksAreRows, BooksFit, Books, Shapes, PaperRow
    <3>3. work' \in WorkRow
      BY <3>1, <3>2 DEF WorkRow
    <3>4. work'.op = op /\ work'.by = u
      BY <3>1
    <3>5. op = "claim" => person[u].st = "joined" /\ (paper.event => Active(u))
      BY <3>1 DEF Starts, CanSee
    <3>6. op = "answer" => person[u].st = "invited" /\ ~paper.event
      BY <3>1 DEF Starts
    <3> QED BY <3>1, <3>3, <3>4, <3>5, <3>6, <1>1 DEF LetIn, Active
  <2>2. ASSUME GiveUp PROVE work' \in WorkRow /\ LetIn'
    BY <2>2, NothingAtWork DEF GiveUp, LetIn
  <2> QED BY <2>1, <2>2
<1> QED BY <1>1, <1>2, <1>3, <1>4 DEF PInv, Shapes

\* The form changes: whoever is taken off loses their books.
LEMMA UpdateKept ==
  ASSUME PInv, UpdatePaper
  PROVE  PInv'
<1> DEFINE u == work.by
           p(in, named) == Written(in, u, paper.owner, paper.event, named)
           ppr(in) == [paper EXCEPT !.type = in.type, !.mode = in.mode, !.amount = in.amount]
           gone(in) == OnPaper(person) \ in.on
           out(in)  == {v \in gone(in) : UserRow(person, v)}
<1> DEFINE done(in, named) ==
             /\ paper' = ppr(in) /\ person' = p(in, named) /\ member' = Matched(p(in, named), paper.event)
             /\ FollowAndWelcome(Nameless(OutOf(Books, out(in)), gone(in)), Money(ppr(in), p(in, named)), p(in, named), u, Welcomed(p(in, named), u))
             /\ back' = Back(named)
<1>01. PICK in \in Inputs : \E named \in SUBSET Former(in.on, paper.event) : done(in, named)
  BY Zenon DEF UpdatePaper
<1>02. PICK named \in SUBSET Former(in.on, paper.event) : done(in, named)
  BY <1>01
<1>1. /\ paper' = ppr(in) /\ person' = p(in, named) /\ member' = Matched(p(in, named), paper.event)
      /\ FollowAndWelcome(Nameless(OutOf(Books, out(in)), gone(in)), Money(ppr(in), p(in, named)), p(in, named), u, Welcomed(p(in, named), u))
      /\ back' = Back(named)
  BY <1>02
<1> HIDE DEF done
<1>2. work.op = "update" /\ work' = NoWork /\ astray' = astray /\ paper.there
  BY DEF UpdatePaper, Working, PInv, LetIn
<1>3. /\ u \in Users /\ paper.owner \in Users /\ paper.event \in BOOLEAN /\ paper \in PaperRow /\ Shapes
      /\ change \in Nat
  BY PaperBound DEF PInv, Shapes, WorkRow, PaperRow
<1>4. p(in, named) \in [Users -> PersonRow]
  BY <1>3, WrittenFits
<1>5. ppr(in) \in PaperRow /\ ppr(in).type = in.type /\ ppr(in).amount = in.amount
      /\ ppr(in).event = paper.event /\ ppr(in).there = paper.there
  <2>1. in.type \in PaperTypes /\ in.mode \in {"equal", "custom"} /\ in.amount \in Nat
    BY PaperInputs
  <2>2. ppr(in) = Rewrite(paper, in.type, in.mode, in.amount)
    BY Zenon DEF Rewrite
  <2> HIDE DEF ppr
  <2> QED BY <1>3, <2>1, <2>2, RewrittenIs
<1>6. /\ Matched(p(in, named), paper.event) \in [Users -> Standings] /\ Welcomed(p(in, named), u) \in SUBSET Users
      /\ \A v \in Users : member[v] = "active" => Matched(p(in, named), paper.event)[v] = "active"
      /\ \A v \in in.on : person[v].st # "none" => p(in, named)[v].st = person[v].st
      /\ named \in SUBSET Users
      /\ \A v \in Welcomed(p(in, named), u) : p(in, named)[v].st = "joined" /\ (paper.event => Matched(p(in, named), paper.event)[v] = "active" \/ v \in named)
  BY <1>1, <1>3, MatchedFits
<1> HIDE DEF p, ppr, u
<1> DEFINE left == Nameless(OutOf(Books, out(in)), gone(in))
<1>7. BooksFit(left, change) /\ Followers(left) \subseteq Followers(Books) \ out(in)
  <2>1. BooksFit(OutOf(Books, out(in)), change) /\ Followers(OutOf(Books, out(in))) \subseteq Followers(Books) \ out(in)
    BY <1>3, OutOfTakes DEF PInv, BooksAreRows
  <2> HIDE DEF out, gone
  <2> QED BY <2>1, <1>3, NamelessKeeps
<1>8. MoneyFits(Money(ppr(in), p(in, named)))
  BY <1>4, <1>5, PaperInputs, MoneyIs
<1> HIDE DEF left
<1>9. /\ BooksAreRows' /\ Followers(Books)' \subseteq Followers(left) \cup Welcomed(p(in, named), u)
      /\ change' \in 0 .. MaxChanges /\ loud' \in 0 .. change' /\ told' \subseteq Users /\ told' = Followers(left) \cup Welcomed(p(in, named), u) \cup {u}
  <2>1. FollowAndWelcome(left, Money(ppr(in), p(in, named)), p(in, named), u, Welcomed(p(in, named), u))
    BY <1>1, Zenon DEF left
  <2> HIDE DEF out, gone
  <2>2. Shapes /\ BooksFit(left, change) /\ MoneyFits(Money(ppr(in), p(in, named))) /\ u \in Users /\ Welcomed(p(in, named), u) \in SUBSET Users
    BY <1>3, <1>6, <1>7, <1>8
  <2> QED BY <2>1, <2>2, FollowAndWelcomeTells, Zenon
<1>10. HoldersOn'
  <2> SUFFICES ASSUME NEW v \in Followers(Books)' \ astray'
               PROVE  /\ p(in, named)[v].st = "joined"
                      /\ paper.event => Matched(p(in, named), paper.event)[v] = "active" \/ v \in back \cup named
    BY <1>1, <1>5 DEF HoldersOn, Active, Back
  <2>1. CASE v \in Welcomed(p(in, named), u)
    BY <2>1, <1>6
  <2>2. CASE v \in Followers(Books) \ out(in)
    <3>1. v \in Users /\ person[v].st = "joined" /\ (paper.event => member[v] = "active" \/ v \in back)
      BY <2>2, <1>2 DEF PInv, HoldersOn, Active, Followers
    <3>2. v \in in.on
      BY <2>2, <3>1 DEF OnPaper, UserRow
    <3> QED BY <3>1, <3>2, <1>6
  <2> QED BY <2>1, <2>2, <1>7, <1>9
<1>11. Shapes'
  BY <1>1, <1>2, <1>3, <1>4, <1>5, <1>6, <1>9, NothingAtWork DEF Shapes, Back
<1>12. StaleBooksAreTold'
  BY <1>9, StaleIfTold
<1>13. NothingBefore' /\ LetIn'
  BY <1>1, <1>2, <1>5, NothingAtWork DEF NothingBefore, LetIn
<1> QED BY <1>9, <1>10, <1>11, <1>12, <1>13 DEF PInv

\* Someone is taken off: their books go out, and what they paid falls to another.
LEMMA RemoveKept ==
  ASSUME PInv, RemovePerson
  PROVE  PInv'
<1> DEFINE u == work.by
           p(gone)    == Reshared(gone)
           out(gone)  == {gone} \cap {v \in Users : UserRow(person, v)}
           left(gone) == Nameless(OutOf(Books, out(gone)), {gone})
<1>1. PICK gone \in OnPaper(person) :
        /\ OnPaper(p(gone)) # {} /\ person' = p(gone)
        /\ FollowAndWelcome(left(gone), Money(paper, p(gone)), p(gone), u, {})
        /\ back' = Back({})
  BY Zenon DEF RemovePerson
<1>2. /\ work.op = "remove" /\ work' = NoWork /\ paper.there
      /\ UNCHANGED <<paper, member, astray>>
  BY DEF RemovePerson, Working, PInv, LetIn
<1>3. u \in Users /\ gone \in Users /\ paper \in PaperRow /\ Shapes /\ change \in Nat
  BY <1>1, PaperBound DEF PInv, Shapes, WorkRow, OnPaper
<1>4. p(gone) \in [Users -> PersonRow] /\ \A v \in Users \ {gone} : p(gone)[v].st = person[v].st
  BY <1>1, <1>3, ResharedFits
<1> HIDE DEF p, u
<1>5. BooksFit(left(gone), change) /\ Followers(left(gone)) \subseteq Followers(Books) \ out(gone)
  <2>1. BooksFit(OutOf(Books, out(gone)), change) /\ Followers(OutOf(Books, out(gone))) \subseteq Followers(Books) \ out(gone)
    BY <1>3, OutOfTakes DEF PInv, BooksAreRows
  <2> HIDE DEF out
  <2> QED BY <2>1, <1>3, NamelessKeeps
<1>6. MoneyFits(Money(paper, p(gone)))
  BY <1>3, <1>4, MoneyIs DEF PaperRow
<1> HIDE DEF left
<1>7. /\ BooksAreRows' /\ Followers(Books)' \subseteq Followers(left(gone)) \cup {}
      /\ change' \in 0 .. MaxChanges /\ loud' \in 0 .. change' /\ told' \subseteq Users /\ told' = Followers(left(gone)) \cup {} \cup {u}
  <2>1. {} \in SUBSET Users
    OBVIOUS
  <2> QED BY <2>1, <1>1, <1>3, <1>5, <1>6, FollowAndWelcomeTells, Zenon
<1>8. HoldersOn'
  <2> SUFFICES ASSUME NEW v \in Followers(Books)' \ astray'
               PROVE  p(gone)[v].st = "joined" /\ (paper.event => member[v] = "active" \/ v \in back)
    BY <1>1, <1>2 DEF HoldersOn, Active, Back
  <2>1. v \in Users /\ v \notin out(gone) /\ person[v].st = "joined" /\ (paper.event => member[v] = "active" \/ v \in back)
    BY <1>2, <1>5, <1>7 DEF PInv, HoldersOn, Active, Followers
  <2>2. v # gone
    BY <2>1 DEF out, UserRow
  <2> QED BY <2>1, <2>2, <1>4
<1>9. Shapes'
  BY <1>1, <1>2, <1>3, <1>4, <1>7, NothingAtWork DEF Shapes, Back
<1>10. StaleBooksAreTold'
  BY <1>7, StaleIfTold
<1>11. NothingBefore' /\ LetIn'
  BY <1>2, NothingAtWork DEF NothingBefore, LetIn
<1> QED BY <1>7, <1>8, <1>9, <1>10, <1>11 DEF PInv

\* A claim's books are of the last change, and its user was let in.
LEMMA ClaimKept ==
  ASSUME PInv, Claim
  PROVE  PInv'
<1> DEFINE u == work.by
           m == Money(paper, person)
           after(f) == Claimed(Books, work, m, u, paper.event, f)
<1>1. PICK f \in Forms : Take(after(f))
  BY Zenon DEF Claim
<1>2. /\ work.op = "claim" /\ work' = NoWork /\ paper.there /\ change' = change
      /\ UNCHANGED <<paper, person, member, loud, told, back, astray>>
  BY DEF Claim, Working, PInv, LetIn
<1>3. u \in Users /\ Shapes /\ change \in Nat /\ paper.event \in BOOLEAN /\ f \in ClaimForm
  BY PaperBound, PaperForms DEF PInv, Shapes, WorkRow, PaperRow, ClaimForm
<1>4. MoneyFits(m)
  BY <1>3, MoneyIs DEF Shapes, PaperRow
<1> HIDE DEF u, m
<1>5. /\ BooksFit(after(f), change') /\ Fresh(Books, after(f))
      /\ Followers(after(f)) \subseteq Followers(Books) \cup {u}
  <2>1. BooksFit(Books, change') /\ change' \in Nat
    BY <1>2, <1>3 DEF PInv, BooksAreRows
  <2>2. after(f) = Claimed(Books, work, m, u, paper.event, f)
    BY DEF after
  <2> HIDE DEF after
  <2>3. u \in Users /\ paper.event \in BOOLEAN /\ f \in ClaimForm
    BY <1>3
  <2> QED BY <2>1, <2>2, <2>3, <1>4, ClaimAdds
<1> HIDE DEF after
<1>6. BooksAreRows' /\ Followers(Books)' = Followers(after(f)) /\ tx' = after(f).tx /\ parts' = after(f).parts
  BY <1>1, <1>5, BooksTaken
<1>8. HoldersOn'
  <2> SUFFICES ASSUME NEW v \in Followers(Books)' \ astray'
               PROVE  person[v].st = "joined" /\ (paper.event => Active(v) \/ v \in back)
    BY <1>2 DEF HoldersOn, Active
  <2>1. CASE v \in Followers(Books)
    BY <2>1, <1>2 DEF PInv, HoldersOn
  <2>2. CASE v = u
    BY <2>2, <1>2 DEF PInv, LetIn, u
  <2> QED BY <2>1, <2>2, <1>5, <1>6
<1>9. StaleBooksAreTold'
  <2>1. /\ \A v \in Users : tx'[v] = tx[v] \/ tx'[v].at = change
        /\ \A b \in parts' : b \in parts \/ b.at = change
    BY <1>2, <1>5, <1>6 DEF Fresh, Books
  <2>2. loud \in 0 .. change
    BY <1>3 DEF Shapes
  <2> QED BY <2>1, <2>2, <1>2, <1>3, StaleKept DEF PInv
<1>10. Shapes'
  BY <1>2, <1>3, NothingAtWork DEF Shapes
<1>11. NothingBefore' /\ LetIn'
  BY <1>2, NothingAtWork DEF NothingBefore, LetIn
<1> QED BY <1>6, <1>8, <1>9, <1>10, <1>11 DEF PInv

\* A sync makes no books, and those it touches are of the last change.
LEMMA SyncKept ==
  ASSUME PInv, SyncMyBooks
  PROVE  PInv'
<1> DEFINE u == work.by
           m == Money(paper, person)
           after == Synced(Books, m, u, paper.event)
<1>1. /\ work.op = "sync" /\ work' = NoWork /\ paper.there /\ change' = change /\ Take(after)
      /\ UNCHANGED <<paper, person, member, loud, told, back, astray>>
  BY DEF SyncMyBooks, Working, PInv, LetIn
<1>2. u \in Users /\ Shapes /\ change \in Nat /\ paper.event \in BOOLEAN
  BY PaperBound DEF PInv, Shapes, WorkRow, PaperRow
<1>3. MoneyFits(m)
  BY <1>2, MoneyIs DEF Shapes, PaperRow
<1> HIDE DEF u, m
<1>4. /\ BooksFit(after, change') /\ Fresh(Books, after)
      /\ \A v \in Users : after.tx[v].has = Books.tx[v].has
      /\ \A b \in after.parts : \E x \in Books.parts : x.of = b.of
  <2>1. BooksFit(Books, change') /\ change' \in Nat
    BY <1>1, <1>2 DEF PInv, BooksAreRows
  <2> QED BY <2>1, <1>2, <1>3, SyncMakesNone
<1> HIDE DEF after
<1>5. BooksAreRows' /\ Followers(Books)' = Followers(after) /\ tx' = after.tx /\ parts' = after.parts
  BY <1>1, <1>4, BooksTaken
<1>6. Followers(after) \subseteq Followers(Books)
  BY <1>4, FollowersAre
<1>7. HoldersOn'
  <2> SUFFICES ASSUME NEW v \in Followers(Books)' \ astray'
               PROVE  person[v].st = "joined" /\ (paper.event => Active(v) \/ v \in back)
    BY <1>1 DEF HoldersOn, Active
  <2>1. v \in Followers(Books) \ astray
    BY <1>1, <1>5, <1>6
  <2> QED BY <2>1 DEF PInv, HoldersOn
<1>8. StaleBooksAreTold'
  <2>1. /\ \A v \in Users : tx'[v] = tx[v] \/ tx'[v].at = change
        /\ \A b \in parts' : b \in parts \/ b.at = change
    BY <1>1, <1>4, <1>5 DEF Fresh, Books
  <2>2. loud \in 0 .. change
    BY <1>2 DEF Shapes
  <2> QED BY <2>1, <2>2, <1>1, <1>2, StaleKept DEF PInv
<1>9. Shapes'
  BY <1>1, <1>2, NothingAtWork DEF Shapes
<1>10. NothingBefore' /\ LetIn'
  BY <1>1, NothingAtWork DEF NothingBefore, LetIn
<1> QED BY <1>5, <1>7, <1>8, <1>9, <1>10 DEF PInv

\* An invitation is answered by one who holds no books.
LEMMA AnswerKept ==
  ASSUME PInv, AnswerInvite
  PROVE  PInv'
<1> DEFINE u == work.by
<1>1. PICK st \in {"joined", "declined"} : person' = [person EXCEPT ![u].st = st]
  BY DEF AnswerInvite
<1>2. /\ work.op = "answer" /\ work' = NoWork /\ paper.there /\ person[u].st = "invited"
      /\ UNCHANGED <<paper, member, tx, parts, change, loud, told, back, astray>>
  BY DEF AnswerInvite, Working, PInv, LetIn
<1>3. u \in Users /\ st \in Statuses /\ \A v \in Users : person[v] \in PersonRow
  BY DEF PInv, Shapes, WorkRow, Statuses
<1> HIDE DEF u
<1>4. person' \in [Users -> PersonRow] /\ \A v \in Users \ {u} : person'[v] = person[v]
  <2>1. [person[u] EXCEPT !.st = st] \in PersonRow
    BY <1>3, StandsAs
  <2> QED BY <2>1, <1>1, <1>3 DEF PInv, Shapes
<1>5. BooksAreRows' /\ Followers(Books)' = Followers(Books)
  BY <1>2 DEF PInv, BooksAreRows, BooksFit, Followers, PartsOf, Books
<1>6. HoldersOn'
  <2>1. \A v \in Followers(Books) \ astray : v # u /\ v \in Users /\ person[v].st = "joined" /\ (paper.event => Active(v) \/ v \in back)
    BY <1>2 DEF PInv, HoldersOn, Followers
  <2> QED BY <2>1, <1>2, <1>4, <1>5 DEF HoldersOn, Active
<1>7. StaleBooksAreTold'
  BY <1>2 DEF PInv, StaleBooksAreTold, Holders, PartsOf
<1>8. Shapes' /\ NothingBefore' /\ LetIn'
  BY <1>2, <1>4, NothingAtWork DEF PInv, Shapes, NothingBefore, LetIn
<1> QED BY <1>5, <1>6, <1>7, <1>8 DEF PInv

\* Whoever leaves takes their books; the last to leave a split bill takes the paper.
LEMMA LeaveKept ==
  ASSUME PInv, Leave
  PROVE  PInv'
<1> DEFINE u == work.by
           heirs == {v \in Users \ {u} : person[v].st = "joined"}
           stays == /\ person' = [person EXCEPT ![u].st = "left"]
                    /\ Take(OutOf(Books, {u}))
                    /\ \E next \in Users : paper' = [paper EXCEPT !.owner = next]
<1>1. /\ work.op = "leave" /\ work' = NoWork /\ paper.there
      /\ UNCHANGED <<member, change, loud, told, back, astray>>
  BY DEF Leave, Working, PInv, LetIn
<1>2. u \in Users /\ paper \in PaperRow /\ \A v \in Users : person[v] \in PersonRow
  BY DEF PInv, Shapes, WorkRow
<1>3. Deleted \/ stays
  <2>1. paper.owner \in Users /\ heirs \subseteq Users
    BY <1>2 DEF PaperRow
  <2>2. \/ Deleted
        \/ /\ person' = [person EXCEPT ![u].st = "left"] /\ Take(OutOf(Books, {u}))
           /\ \E next \in IF paper.owner # u THEN {paper.owner} ELSE IF heirs # {} THEN heirs ELSE {EventOwner} :
                paper' = [paper EXCEPT !.owner = next]
    BY Zenon DEF Leave
  <2> HIDE DEF heirs, u
  <2> QED BY <2>1, <2>2, PaperUsers
<1>4. CASE Deleted
  <2>1. /\ paper' = [paper EXCEPT !.there = FALSE, !.ended = TRUE]
        /\ person' = [v \in Users |-> NoRow] /\ Take(OutOf(Books, Users))
    BY <1>4, Zenon DEF Deleted
  <2>2. paper' \in PaperRow /\ paper'.ended /\ paper'.event = paper.event
    <3>1. paper' = Ended(paper, FALSE, TRUE)
      BY <2>1, Zenon DEF Ended
    <3> QED BY <3>1, <1>2, PlacedIs, Zenon
  <2>3. BooksAreRows' /\ Followers(Books)' = {} /\ StaleBooksAreTold'
    <3>1. BooksAreRows' /\ Followers(Books)' \subseteq Followers(Books) \ Users /\ StaleBooksAreTold'
      BY <1>1, <2>1, <2>2, OutKept
    <3>2. Followers(Books) \subseteq Users
      BY DEF Followers
    <3> QED BY <3>1, <3>2
  <2>4. person' \in [Users -> PersonRow]
    BY <2>1 DEF NoRow, PersonRow, Statuses
  <2> QED BY <1>1, <2>2, <2>3, <2>4, NothingAtWork DEF PInv, Shapes, HoldersOn, NothingBefore, LetIn
<1>5. CASE stays
  <2>1. /\ person' \in [Users -> PersonRow] /\ \A v \in Users \ {u} : person'[v] = person[v]
    <3>1. [person[u] EXCEPT !.st = "left"] \in PersonRow
      <4>1. "left" \in Statuses
        BY DEF Statuses
      <4> QED BY <4>1, <1>2, StandsAs
    <3> QED BY <3>1, <1>2, <1>5 DEF PInv, Shapes
  <2>2. paper' \in PaperRow /\ paper'.event = paper.event /\ paper'.there = paper.there
    BY <1>2, <1>5 DEF PaperRow
  <2>3. BooksAreRows' /\ Followers(Books)' \subseteq Followers(Books) \ {u} /\ StaleBooksAreTold'
    BY <1>1, <1>5, <2>2, OutKept
  <2> HIDE DEF u
  <2>4. HoldersOn'
    <3>1. \A v \in Followers(Books) \ astray : v \in Users /\ person[v].st = "joined" /\ (paper.event => Active(v) \/ v \in back)
      BY DEF PInv, HoldersOn, Followers
    <3> QED BY <3>1, <1>1, <2>1, <2>2, <2>3 DEF HoldersOn, Active
  <2> QED BY <1>1, <2>1, <2>2, <2>3, <2>4, NothingAtWork DEF PInv, Shapes, NothingBefore, LetIn
<1> QED BY <1>3, <1>4, <1>5

\* The bill of an event is one of people who are in it; whose row loses its user is astray.
LEMMA MoveInKept ==
  ASSUME PInv, MoveIntoEvent
  PROVE  PInv'
<1> DEFINE met == {v \in Users : person[v].st \in {"invited", "joined"}}
           st(v, known) == CASE person[v].st = "none" -> "none"
                             [] v \in met \cup known   -> NewStatus(work.by, v, TRUE, {})
                             [] OTHER                -> "name"
           row(known) == [v \in Users |-> [person[v] EXCEPT !.st = st(v, known)]]
<1>0. /\ work.op = "move" /\ work' = NoWork /\ paper.there
      /\ paper' = [paper EXCEPT !.event = TRUE]
      /\ change < MaxChanges /\ change' = change + 1 /\ loud' = change' /\ back' = {}
      /\ UNCHANGED <<tx, parts>>
  BY DEF MoveIntoEvent, Working, Changes, PInv, LetIn
<1>00. PICK known \in SUBSET (OnPaper(person) \ met) :
         /\ person' = row(known)
         /\ member' = [v \in Users |-> CASE row(known)[v].st = "joined" -> "active"
                                         [] row(known)[v].st = "asked" /\ member[v] = "no" -> "asked"
                                         [] OTHER -> member[v]]
         /\ told' = {v \in Users : row(known)[v].st = "joined"} \cup {work.by}
         /\ astray' = astray \cup {v \in Followers(Books) : row(known)[v].st \in {"asked", "name"}}
  BY Zenon DEF MoveIntoEvent
<1> DEFINE p == row(known)
           to(v) == st(v, known)
<1>1. /\ work.op = "move" /\ work' = NoWork /\ paper.there
      /\ paper' = [paper EXCEPT !.event = TRUE] /\ person' = p
      /\ change < MaxChanges /\ change' = change + 1 /\ loud' = change' /\ back' = {}
      /\ told' = {v \in Users : p[v].st = "joined"} \cup {work.by}
      /\ astray' = astray \cup {v \in Followers(Books) : p[v].st \in {"asked", "name"}}
      /\ UNCHANGED <<tx, parts>>
  BY <1>0, <1>00
<1>2. member' = [v \in Users |-> CASE p[v].st = "joined" -> "active"
                                   [] p[v].st = "asked" /\ member[v] = "no" -> "asked"
                                   [] OTHER -> member[v]]
  BY <1>00
<1>3. /\ work.by \in Users /\ paper \in PaperRow /\ change \in Nat /\ change' \in 0 .. MaxChanges
      /\ \A v \in Users : person[v] \in PersonRow
  BY <1>1, PaperBound DEF PInv, Shapes, WorkRow
<1>4. \A v \in Users : to(v) \in Statuses /\ (person[v].st = "joined" => to(v) \in {"joined", "asked"})
  BY DEF NewStatus, Statuses
<1>40. p = [v \in Users |-> [person[v] EXCEPT !.st = to(v)]]
  OBVIOUS
<1> HIDE DEF p, to
<1>5. p \in [Users -> PersonRow] /\ \A v \in Users : p[v].st = to(v)
  BY <1>3, <1>4, <1>40, StandsAs
<1>6. member' \in [Users -> Standings] /\ \A v \in Users : p[v].st = "joined" => member'[v] = "active"
  BY <1>2 DEF PInv, Shapes, Standings
<1>7. paper' \in PaperRow /\ paper'.there = paper.there
  BY <1>1, <1>3 DEF PaperRow
<1>8. BooksAreRows' /\ Followers(Books)' = Followers(Books)
  BY <1>1, <1>3, BooksStay DEF PInv
<1>9. Followers(Books) \subseteq Users
  BY DEF Followers
<1>10. \A v \in Followers(Books)' \ astray' : p[v].st = "joined"
  <2> SUFFICES ASSUME NEW v \in Followers(Books)' \ astray' PROVE p[v].st = "joined"
    OBVIOUS
  <2>1. v \in Users /\ v \in Followers(Books) \ astray /\ p[v].st \notin {"asked", "name"}
    BY <1>1, <1>8, <1>9
  <2>2. person[v].st = "joined"
    BY <2>1 DEF PInv, HoldersOn
  <2> QED BY <2>1, <2>2, <1>4, <1>5
<1>11. HoldersOn' /\ StaleBooksAreTold'
  <2>1. HoldersOn'
    BY <1>1, <1>6, <1>8, <1>9, <1>10 DEF HoldersOn, Active
  <2>2. Followers(Books)' \ astray' \subseteq told'
    BY <1>1, <1>8, <1>9, <1>10
  <2> QED BY <2>1, <2>2, StaleIfTold
<1>12. Shapes' /\ NothingBefore' /\ LetIn'
  <2>1. told' \subseteq Users /\ astray' \subseteq Users /\ back' \subseteq Users
    BY <1>1, <1>3, <1>9 DEF PInv, Shapes
  <2> QED BY <2>1, <1>1, <1>3, <1>5, <1>6, <1>7, NothingAtWork DEF Shapes, NothingBefore, LetIn
<1> QED BY <1>8, <1>11, <1>12 DEF PInv

\* Out of the event whoever was joined still is, on every row.
LEMMA PeopleOutAre ==
  ASSUME Shapes
  PROVE  /\ PeopleOut \in [Users -> PersonRow]
         /\ \A v \in Users : person[v].st = "joined" => PeopleOut[v].st = "joined"
<1> DEFINE st(v) == CASE person[v].st = "asked" -> "name" [] person[v].st = "declined" -> "joined" [] OTHER -> person[v].st
<1>1. PeopleOut = [v \in Users |-> [person[v] EXCEPT !.st = st(v)]]
  BY DEF PeopleOut
<1>2. \A v \in Users : person[v] \in PersonRow /\ st(v) \in Statuses /\ (person[v].st = "joined" => st(v) = "joined")
  BY DEF Shapes, PersonRow, Statuses
<1> HIDE DEF st
<1> QED BY <1>1, <1>2, StandsAs

\* A bill that leaves its event is told to all who hold books of it.
LEMMA MoveOutKept ==
  ASSUME PInv, MoveOutOfEvent
  PROVE  PInv'
<1>1. /\ work.op = "move" /\ work' = NoWork /\ paper.there
      /\ paper' = [paper EXCEPT !.event = FALSE] /\ person' = PeopleOut
      /\ change < MaxChanges /\ change' = change + 1 /\ loud' = change' /\ back' = {}
      /\ told' = {v \in Users : PeopleOut[v].st = "joined"} \cup {work.by}
      /\ astray' = astray \cup {v \in Followers(Books) : PeopleOut[v].st = "name"}
      /\ UNCHANGED <<member, tx, parts>>
  BY DEF MoveOutOfEvent, Changes, Working, PInv, LetIn
<1>2. work.by \in Users /\ paper \in PaperRow /\ change \in Nat /\ change' \in 0 .. MaxChanges /\ Shapes
  BY <1>1, PaperBound DEF PInv, Shapes, WorkRow
<1>3. paper' \in PaperRow /\ paper'.there = paper.there /\ ~paper'.event
  BY <1>1, <1>2 DEF PaperRow
<1>4. BooksAreRows' /\ Followers(Books)' = Followers(Books) /\ Followers(Books) \subseteq Users
  BY <1>1, <1>2, BooksStay DEF PInv, Followers
<1>5. /\ PeopleOut \in [Users -> PersonRow]
      /\ \A v \in Followers(Books) \ astray : PeopleOut[v].st = "joined"
  <2>1. \A v \in Followers(Books) \ astray : person[v].st = "joined"
    BY DEF PInv, HoldersOn
  <2> QED BY <2>1, <1>2, <1>4, PeopleOutAre
<1>6. HoldersOn'
  BY <1>1, <1>3, <1>4, <1>5 DEF HoldersOn
<1>7. StaleBooksAreTold'
  <2>1. Followers(Books)' \ astray' \subseteq told'
    BY <1>1, <1>4, <1>5
  <2> QED BY <2>1, StaleIfTold
<1>8. Shapes' /\ NothingBefore' /\ LetIn'
  <2>1. told' \subseteq Users /\ astray' \subseteq Users /\ back' \subseteq Users
    BY <1>1, <1>2, <1>4 DEF Shapes
  <2> QED BY <2>1, <1>1, <1>2, <1>3, <1>5, NothingAtWork DEF Shapes, NothingBefore, LetIn
<1> QED BY <1>4, <1>6, <1>7, <1>8 DEF PInv

\* The event's members hear that it is gone, and its books' holders were members.
LEMMA EventGoneKept ==
  ASSUME PInv, DeleteEvent
  PROVE  PInv'
<1>1. /\ paper.there /\ paper.event /\ work.op = "none" /\ work' = work
      /\ person' = PeopleOut
      /\ member' = [v \in Users |-> IF v = EventOwner THEN "active" ELSE "no"]
      /\ change < MaxChanges /\ change' = change + 1 /\ loud' = change' /\ back' = back
      /\ told' = {v \in Users : Active(v)}
      /\ astray' = astray \cup {v \in Followers(Books) : PeopleOut[v].st = "name"}
      /\ UNCHANGED <<tx, parts>>
  BY DEF DeleteEvent, Changes
<1>2. paper \in PaperRow /\ change \in Nat /\ change' \in 0 .. MaxChanges /\ Shapes
  BY <1>1, PaperBound DEF PInv, Shapes
<1>3. paper' \in PaperRow /\ paper'.there = paper.there /\ ~paper'.event
  <2>1. paper' = Eventless(paper, FALSE, FALSE)
    BY Zenon DEF DeleteEvent, Eventless
  <2> QED BY <2>1, <1>2, PlacedIs, Zenon
<1>4. BooksAreRows' /\ Followers(Books)' = Followers(Books) /\ Followers(Books) \subseteq Users
  BY <1>1, <1>2, BooksStay DEF PInv, Followers
<1>5. PeopleOut \in [Users -> PersonRow] /\ \A v \in Followers(Books) \ astray : PeopleOut[v].st = "joined" /\ (Active(v) \/ v \in back)
  <2>1. \A v \in Followers(Books) \ astray : person[v].st = "joined" /\ (Active(v) \/ v \in back)
    BY <1>1 DEF PInv, HoldersOn
  <2> QED BY <2>1, <1>2, <1>4, PeopleOutAre
<1>6. HoldersOn'
  BY <1>1, <1>3, <1>4, <1>5 DEF HoldersOn
<1>7. StaleBooksAreTold'
  <2>1. \A v \in Followers(Books)' \ astray' : v \in told' \/ v \in back'
    BY <1>1, <1>4, <1>5
  <2> QED BY <2>1, <1>3, StaleIfHeard
<1>8. Shapes' /\ NothingBefore' /\ LetIn'
  <2>1. told' \subseteq Users /\ astray' \subseteq Users /\ member' \in [Users -> Standings]
    BY <1>1, <1>2, <1>4 DEF Shapes, Standings
  <2> QED BY <2>1, <1>1, <1>2, <1>3, <1>5 DEF Shapes, NothingBefore, LetIn
<1> QED BY <1>4, <1>6, <1>7, <1>8 DEF PInv

\* Parts that change their person are their holder's, and as old as they were.
LEMMA RepointedAre ==
  ASSUME NEW n \in Nat, BooksFit(Books, n), NEW from \in Users, NEW into \in Users
  PROVE  /\ Repointed(parts, from, into) \subseteq {b \in PartRow : b.at <= n}
         /\ \A b \in Repointed(parts, from, into) : \E x \in parts : x.of = b.of /\ x.at = b.at
<1> SUFFICES ASSUME NEW x \in parts, NEW to \in {into, Gone}, NEW b, b = x \/ b = [x EXCEPT !.with = to]
             PROVE  b \in PartRow /\ b.at <= n /\ b.of = x.of /\ b.at = x.at
  BY DEF Repointed
<1>1. x \in PartRow /\ x.at <= n /\ to \in Users \cup {Gone}
  BY DEF BooksFit, Books
<1> QED BY <1>1 DEF PartRow

\* What a merge leaves of the people: whoever was joined still is.
LEMMA MergeFits ==
  ASSUME Shapes, NEW from \in Users, NEW into \in Users, MergeMembers(from, into)
  PROVE  /\ person' \in [Users -> PersonRow]
         /\ \A v \in Users : person[v].st = "joined" => person'[v].st = "joined"
<1>0. person[from].st # "joined" /\ person[from].st # "none" /\ from \in OnPaper(person) /\ (\A v \in Users : person[v] \in PersonRow)
  BY DEF MergeMembers, OnPaper, Shapes
<1>1. CASE into # from /\ person[into].st # "none" /\ person' = Merged(from, into)
  <2> DEFINE keep == OnPaper(person) \ {from}
             equal == paper.mode = "equal" /\ paper.type # "payback"
             add(v, n) == IF v = into THEN n ELSE 0
             paid(v) == person[v].paid + add(v, person[from].paid)
             share(v) == IF equal THEN EqualShares(paper.amount, keep, Lead(keep, paper.owner))[v]
                         ELSE person[v].share + add(v, person[from].share)
             new(v) == [person[v] EXCEPT !.paid = paid(v), !.share = share(v)]
  <2>1. person' = [v \in Users |-> IF v \notin keep THEN NoRow ELSE new(v)]
    BY <1>1 DEF Merged
  <2>2. NoRow \in PersonRow
    BY DEF NoRow, PersonRow, Statuses
  <2>3. keep \in SUBSET Users /\ into \in keep /\ paper.amount \in Nat
    BY <1>1 DEF OnPaper, Shapes, PaperRow
  <2>4. EqualShares(paper.amount, keep, Lead(keep, paper.owner)) \in [keep -> Nat]
    <3> HIDE DEF keep
    <3>1. keep # {}
      BY <2>3
    <3> QED BY <2>3, <3>1, EqualSharesAreNat
  <2>5. \A v \in Users \ {from} : v \notin keep => person[v].st = "none"
    BY DEF OnPaper
  <2>6. ASSUME NEW v \in keep PROVE paid(v) \in Nat /\ share(v) \in Nat
    <3>1. person[v].paid \in Nat /\ person[v].share \in Nat /\ person[from].paid \in Nat /\ person[from].share \in Nat
      BY <1>0, <2>3 DEF PersonRow
    <3>2. add(v, person[from].paid) \in Nat /\ add(v, person[from].share) \in Nat
      BY <3>1
    <3> HIDE DEF add, keep, equal
    <3> QED BY <3>1, <3>2, <2>4
  <2> HIDE DEF paid, share, keep
  <2>7. \A v \in keep : new(v) \in PersonRow /\ new(v).st = person[v].st
    BY <1>0, <2>3, <2>6, TakesOn
  <2> HIDE DEF new
  <2> QED BY <1>0, <2>1, <2>2, <2>5, <2>7
<1>2. ASSUME into = from \/ person[into].st = "none", NEW st \in TakesAs(from, into), person' = TakenOver(from, into, st)
      PROVE  /\ person' \in [Users -> PersonRow]
             /\ \A v \in Users : person[v].st = "joined" => person'[v].st = "joined"
  <2>1. st \in Statuses
    BY <1>2 DEF TakesAs, Statuses
  <2>2. [person[from] EXCEPT !.st = st] \in PersonRow
    BY <1>0, <2>1, StandsAs
  <2>3. NoRow \in PersonRow
    BY DEF NoRow, PersonRow, Statuses
  <2>4. person' = [v \in Users |-> IF v = into THEN [person[from] EXCEPT !.st = st]
                                   ELSE IF v = from THEN NoRow ELSE person[v]]
    BY <1>2 DEF TakenOver, Shapes
  <2> QED BY <1>0, <1>2, <2>2, <2>3, <2>4
<1> QED BY <1>1, <1>2 DEF MergeMembers

\* A merge takes no row from those who hold books, and tells nobody.
LEMMA MergeKept ==
  ASSUME PInv, NEW from \in Users, NEW into \in Users, MergeMembers(from, into)
  PROVE  PInv'
<1>1. /\ paper.there /\ work.op = "none" /\ person[from].st \in {"asked", "name"}
      /\ parts' = IF into = from THEN parts ELSE Repointed(parts, from, into)
      /\ member' = [member EXCEPT ![from] = IF @ = "asked" /\ person[from].st = "asked" THEN "no" ELSE @]
      /\ change < MaxChanges /\ change' = change + 1
      /\ UNCHANGED <<paper, tx, work, loud, told, back, astray>>
  BY DEF MergeMembers
<1>2. /\ Shapes /\ change \in Nat /\ change' \in 0 .. MaxChanges /\ change <= change' /\ change' \in Nat
      /\ loud' \in 0 .. change' /\ BooksFit(Books, change)
  BY <1>1, PaperBound DEF PInv, Shapes, BooksAreRows
<1>3. /\ person' \in [Users -> PersonRow]
      /\ \A v \in Users : person[v].st = "joined" => person'[v].st = "joined"
  BY <1>2, MergeFits
<1>4. /\ member' \in [Users -> Standings]
      /\ \A v \in Users : member[v] = "active" => member'[v] = "active"
  BY <1>1, <1>2 DEF Shapes, Standings
<1>5. /\ parts' \subseteq {b \in PartRow : b.at <= change}
      /\ \A b \in parts' : \E x \in parts : x.of = b.of /\ x.at = b.at
  <2>1. CASE into = from
    BY <2>1, <1>1, <1>2 DEF BooksFit, Books
  <2>2. CASE into # from
    BY <2>2, <1>1, <1>2, RepointedAre
  <2> QED BY <2>1, <2>2
<1>6. BooksAreRows'
  <2>1. parts' \subseteq {b \in PartRow : b.at <= change'}
    <3> SUFFICES ASSUME NEW b \in parts' PROVE b \in PartRow /\ b.at <= change'
      OBVIOUS
    <3>1. b \in PartRow /\ b.at <= change /\ b.at \in Nat
      BY <1>5 DEF PartRow
    <3> QED BY <3>1, <1>2
  <2>2. \A v \in Users : BookRow(tx[v]) /\ tx[v].at \in 0 .. change' /\ tx = [u \in Users |-> tx[u]]
    BY <1>2 DEF BooksFit, Books
  <2> QED BY <2>1, <2>2, <1>1, <1>2 DEF BooksAreRows, BooksFit, Books
<1>7. Followers(Books)' \subseteq Followers(Books) /\ Followers(Books) \subseteq Users
  BY <1>1, <1>5 DEF Followers, PartsOf, Books
<1>8. HoldersOn'
  <2>1. \A v \in Followers(Books) \ astray : v \in Users /\ person[v].st = "joined" /\ (paper.event => Active(v) \/ v \in back)
    BY DEF PInv, HoldersOn, Followers
  <2> QED BY <2>1, <1>1, <1>3, <1>4, <1>7 DEF HoldersOn, Active
<1>9. StaleBooksAreTold'
  <2> SUFFICES ASSUME NEW v \in Users, v \notin astray,
                      (tx[v].has /\ tx[v].at < loud) \/ \E b \in parts' : b.of = v /\ b.at < loud
               PROVE  v \in told \/ (v \in back /\ ~paper.event)
    BY <1>1 DEF StaleBooksAreTold, PartsOf, Holders
  <2>1. (tx[v].has /\ tx[v].at < loud) \/ \E b \in parts : b.of = v /\ b.at < loud
    BY <1>5
  <2> QED BY <2>1 DEF PInv, StaleBooksAreTold, PartsOf, Holders
<1>10. Shapes'
  BY <1>1, <1>2, <1>3, <1>4 DEF Shapes
<1>11. NothingBefore' /\ LetIn'
  BY <1>1 DEF NothingBefore, LetIn
<1> QED BY <1>6, <1>8, <1>9, <1>10, <1>11 DEF PInv

\* A completed event's bills keep their people, their event and their books.
LEMMA CompleteKept ==
  ASSUME PInv, Complete
  PROVE  PInv'
<1>1. /\ paper.there /\ paper' = [paper EXCEPT !.done = TRUE]
      /\ UNCHANGED <<person, member, tx, parts, work, change, loud, told, back, astray>>
  BY DEF Complete
<1>2. paper' \in PaperRow /\ paper'.there = paper.there /\ paper'.event = paper.event
  BY <1>1 DEF PInv, Shapes, PaperRow
<1>3. BooksAreRows' /\ Followers(Books)' = Followers(Books)
  BY <1>1 DEF PInv, BooksAreRows, BooksFit, Followers, PartsOf, Books
<1>4. HoldersOn' /\ StaleBooksAreTold' /\ LetIn'
  BY <1>1, <1>2, <1>3 DEF PInv, HoldersOn, StaleBooksAreTold, Active, Holders, PartsOf, LetIn
<1> QED BY <1>1, <1>2, <1>3, <1>4 DEF PInv, Shapes, NothingBefore

\* Whoever accepts the event is a member, and joined where they were asked.
LEMMA AcceptKept ==
  ASSUME PInv, NEW u \in Users, AcceptEventInvite(u)
  PROVE  PInv'
<1> DEFINE st == IF person[u].st = "asked" THEN "joined" ELSE person[u].st
<1>1. /\ member' = [member EXCEPT ![u] = "active"] /\ person' = [person EXCEPT ![u].st = st]
      /\ UNCHANGED <<paper, tx, parts, work, change, loud, told, back, astray>>
  BY DEF AcceptEventInvite
<1>2. \A v \in Users : person[v] \in PersonRow
  BY DEF PInv, Shapes
<1>3. st \in Statuses
  BY <1>2 DEF PersonRow, Statuses
<1>4. [person[u] EXCEPT !.st = st] \in PersonRow /\ [person[u] EXCEPT !.st = st].st = st
      /\ (person[u] = NoRow => [person[u] EXCEPT !.st = st] = NoRow)
  <2>1. person[u] = NoRow => [person[u] EXCEPT !.st = st] = NoRow
    BY DEF NoRow
  <2> HIDE DEF st
  <2> QED BY <2>1, <1>2, <1>3, StandsAs
<1>5. /\ person' \in [Users -> PersonRow] /\ member' \in [Users -> Standings]
      /\ \A v \in Users \ {u} : person'[v] = person[v] /\ member'[v] = member[v]
      /\ person'[u] = [person[u] EXCEPT !.st = st] /\ member'[u] = "active"
  <2> HIDE DEF st
  <2> QED BY <1>1, <1>4 DEF PInv, Shapes, Standings
<1>6. \A v \in Users : /\ person[v].st \in {"joined", "invited"} => person'[v].st = person[v].st
                       /\ member[v] = "active" => member'[v] = "active"
                       /\ person[v] = NoRow => person'[v] = NoRow
  BY <1>4, <1>5
<1>7. BooksAreRows' /\ Followers(Books)' = Followers(Books) /\ Followers(Books) \subseteq Users
  BY <1>1 DEF PInv, BooksAreRows, BooksFit, Followers, PartsOf, Books
<1>8. HoldersOn'
  BY <1>1, <1>6, <1>7 DEF PInv, HoldersOn, Active
<1>9. StaleBooksAreTold' /\ NothingBefore'
  BY <1>1, <1>6, <1>7 DEF PInv, StaleBooksAreTold, Holders, PartsOf, NothingBefore
<1>10. LetIn'
  BY <1>1, <1>6 DEF PInv, LetIn, Active, Shapes, WorkRow
<1> QED BY <1>1, <1>5, <1>7, <1>8, <1>9, <1>10 DEF PInv, Shapes

\* Whoever is out of the event holds no books of its bills; a request that was let in before goes on.
LEMMA MemberOutKept ==
  ASSUME PInv, NEW u \in Users, MemberOut(u)
  PROVE  PInv'
<1>1. /\ member' = [member EXCEPT ![u] = "left"]
      /\ IF paper.event THEN Take(OutOf(Books, {u})) ELSE UNCHANGED <<tx, parts>>
      /\ astray' = IF work.op # "none" THEN astray \cup {u} ELSE astray
      /\ UNCHANGED <<paper, person, work, change, loud, told, back>>
  BY DEF MemberOut
<1>2. member' \in [Users -> Standings] /\ \A v \in Users \ {u} : member'[v] = member[v]
  BY <1>1 DEF PInv, Shapes, Standings
<1>3. /\ astray \subseteq astray' /\ astray' \subseteq Users /\ (work.op # "none" => u \in astray')
  BY <1>1 DEF PInv, Shapes
<1>4. /\ BooksAreRows' /\ Followers(Books)' \subseteq Followers(Books) /\ StaleBooksAreTold'
      /\ paper.event => u \notin Followers(Books)'
  <2>1. CASE paper.event
    <3>1. BooksAreRows' /\ Followers(Books)' \subseteq Followers(Books) \ {u} /\ StaleBooksAreTold'
      BY <1>1, <1>3, <2>1, OutKept
    <3> QED BY <3>1
  <2>2. CASE ~paper.event
    <3>1. UNCHANGED <<paper, tx, parts, change, loud, told, back>>
      BY <1>1, <2>2
    <3>2. BooksAreRows' /\ Followers(Books)' = Followers(Books)
      BY <3>1 DEF PInv, BooksAreRows, BooksFit, Followers, PartsOf, Books
    <3>3. StaleBooksAreTold'
      BY <3>1, <1>3 DEF PInv, StaleBooksAreTold, Holders, PartsOf
    <3> QED BY <3>2, <3>3, <2>2
  <2> QED BY <2>1, <2>2
<1>5. HoldersOn'
  <2>1. \A v \in Followers(Books) \ astray : v \in Users /\ person[v].st = "joined" /\ (paper.event => Active(v) \/ v \in back)
    BY DEF PInv, HoldersOn, Followers
  <2> QED BY <2>1, <1>1, <1>2, <1>3, <1>4 DEF HoldersOn, Active
<1>6. NothingBefore'
  BY <1>1, <1>4 DEF PInv, NothingBefore
<1>7. LetIn'
  BY <1>1, <1>2, <1>3 DEF PInv, LetIn, Active, Shapes, WorkRow
<1> QED BY <1>1, <1>2, <1>3, <1>4, <1>5, <1>6, <1>7 DEF PInv, Shapes

\* A book that is unlinked is no book of the paper.
LEMMA UnlinkKept ==
  ASSUME PInv, (\E u \in Unlinkers : UnlinkMyTransaction(u)) \/ (\E b \in parts : UnlinkMyDebt(b))
  PROVE  PInv'
<1>1. UNCHANGED <<paper, person, member, work, change, loud, told, back, astray>> /\ change \in Nat
  BY PaperBound DEF UnlinkMyTransaction, UnlinkMyDebt, PInv, Shapes
<1>2. /\ parts' \subseteq parts
      /\ tx' = [u \in Users |-> tx'[u]]
      /\ \A u \in Users : tx'[u] = tx[u] \/ tx'[u] = NoBook
  <2>1. tx = [u \in Users |-> tx[u]]
    BY DEF PInv, BooksAreRows, BooksFit, Books
  <2> QED BY <2>1, PaperActors DEF UnlinkMyTransaction, UnlinkMyDebt
<1>3. BookRow(NoBook) /\ NoBook.at = 0 /\ ~NoBook.has
  BY DEF BookRow, NoBook
<1>4. BooksAreRows'
  <2>1. BooksFit(Books, change)
    BY DEF PInv, BooksAreRows
  <2> QED BY <2>1, <1>1, <1>2, <1>3 DEF BooksAreRows, BooksFit, Books
<1>5. Followers(Books)' \subseteq Followers(Books)
  BY <1>2, <1>3 DEF Followers, PartsOf, Books
<1>6. StaleBooksAreTold'
  <2>1. loud \in 0 .. change
    BY DEF PInv, Shapes
  <2> QED BY <2>1, <1>1, <1>2, <1>3, StaleKept DEF PInv
<1>7. HoldersOn'
  <2> SUFFICES ASSUME NEW v \in Followers(Books)' \ astray'
               PROVE  person[v].st = "joined" /\ (paper.event => Active(v) \/ v \in back)
    BY <1>1 DEF HoldersOn, Active
  <2>1. v \in Followers(Books) \ astray
    BY <1>1, <1>5
  <2> QED BY <2>1 DEF PInv, HoldersOn
<1>8. NothingBefore' /\ LetIn'
  BY <1>1, <1>5 DEF PInv, NothingBefore, LetIn, Active
<1> QED BY <1>1, <1>4, <1>6, <1>7, <1>8 DEF PInv, Shapes

-----------------------------------------------------------------------------
\* Every step keeps the invariant.
LEMMA PapersStep == PInv /\ [Next]_vars => PInv'
<1> SUFFICES ASSUME PInv, [Next]_vars PROVE PInv'
  OBVIOUS
<1>1. CASE \E u \in Creators, in \in Inputs, event \in BOOLEAN, named \in SUBSET Users :
          CreatePaper(u, in, event, named)
  BY <1>1, CreateKept
<1>2. CASE (\E op \in Ops, u \in Users : Begin(op, u)) \/ GiveUp
  BY <1>2, BeginsAndGivesUp
<1>3. CASE UpdatePaper \/ RemovePerson \/ Claim \/ SyncMyBooks \/ AnswerInvite \/ Leave
  BY <1>3, UpdateKept, RemoveKept, ClaimKept, SyncKept, AnswerKept, LeaveKept
<1>4. CASE MoveIntoEvent \/ MoveOutOfEvent \/ DeleteEvent \/ Complete
  BY <1>4, MoveInKept, MoveOutKept, EventGoneKept, CompleteKept
<1>5. CASE (\E u \in Users : AcceptEventInvite(u)) \/ (\E u \in Leavers : MemberOut(u))
  BY <1>5, AcceptKept, MemberOutKept, PaperActors
<1>6. CASE (\E u \in Unlinkers : UnlinkMyTransaction(u)) \/ (\E b \in parts : b.of \in Unlinkers /\ UnlinkMyDebt(b))
  BY <1>6, UnlinkKept
<1>8. CASE \E from, into \in Users : MergeMembers(from, into)
  BY <1>8, MergeKept
<1>7. CASE UNCHANGED vars
  BY <1>7 DEF vars, PInv, Shapes, BooksAreRows, BooksFit, HoldersOn, NothingBefore, LetIn, StaleBooksAreTold,
              Followers, PartsOf, Holders, Books, Active
<1> QED BY <1>1, <1>2, <1>3, <1>4, <1>5, <1>6, <1>7, <1>8 DEF Next

\* The invariant says what the run checks.
LEMMA PapersShow == PInv => HoldersAreOnThePaper
<1> SUFFICES ASSUME PInv PROVE HoldersAreOnThePaper
  OBVIOUS
<1>1. Followers(Books) = Holders
  BY DEF Followers, PartsOf, Holders, Books
<1>2. TypeOK
  <2>1. /\ \A u \in Users : tx[u].at \in 0 .. change
        /\ parts \subseteq {b \in PartRow : b.at <= change}
    BY DEF PInv, BooksAreRows, BooksFit, Books
  <2>2. \A b \in parts : b.of \in Users /\ b.with \in Users \cup {Gone} /\ b.at \in 0 .. change
    <3>1. change \in Nat
      BY PaperBound DEF PInv, Shapes
    <3> QED BY <2>1, <3>1 DEF PartRow
  <2> QED BY <2>1, <2>2 DEF TypeOK, PInv, Shapes, PaperRow, PersonRow, Standings
<1> QED BY <1>1, <1>2 DEF HoldersAreOnThePaper, PInv, HoldersOn

\* Holders of books are joined on the paper and, on an event's bill, members of the
\* event, after every request, move, leaving, acceptance and deletion (paper_lifecycle.go,
\* event_member.go), beside those a move or a racing leaving sent astray.
THEOREM HoldersAreOnIt == Spec => []HoldersAreOnThePaper
<1> QED BY PapersStart, PapersStep, PapersShow, PTL DEF Spec

\* A book that is behind the paper is one whose holder was told (followTx, movePaper, Delete).
THEOREM StaleAreTold == Spec => []StaleBooksAreTold
<1>1. PInv => StaleBooksAreTold
  BY DEF PInv
<1> QED BY <1>1, PapersStart, PapersStep, PTL DEF Spec

-----------------------------------------------------------------------------
(* Sums over finite sets, as a paper adds up its people (MapThenSumSet).     *)
(* A smallest set of those that fail leads to a smaller one; HomeProofs and *)
(* DebtsProofs have the same library.                                       *)

SumIn(f, S) == MapThenSumSet(LAMBDA x : f[x], S)
OneOf(S) == CHOOSE x \in S : TRUE

\* Of the subsets of a finite set that fail at something, one has no other inside it.
LEMMA SmallestSet ==
  ASSUME NEW S, IsFiniteSet(S), NEW F, F \subseteq SUBSET S, F # {}
  PROVE  \E T \in F : \A U \in F : U \subseteq T => U = T
<1>1. F \subseteq FiniteSubsetsOf(S)
  <2> SUFFICES ASSUME NEW T \in F PROVE T \in FiniteSubsetsOf(S)
    OBVIOUS
  <2>1. T \in SUBSET S
    OBVIOUS
  <2>2. IsFiniteSet(T)
    BY <2>1, FS_Subset
  <2> QED BY <2>1, <2>2 DEF FiniteSubsetsOf
<1>2. IsWellFoundedOn(StrictSubsetOrdering(S), FiniteSubsetsOf(S))
  BY FS_StrictSubsetOrderingWellFounded
<1>3. PICK T \in F : \A U \in F : <<U, T>> \notin StrictSubsetOrdering(S)
  BY <1>1, <1>2, WFMin, Zenon
<1> SUFFICES ASSUME NEW U \in F, U \subseteq T, U # T PROVE FALSE
  BY Zenon
<1>4. <<U, T>> \in StrictSubsetOrdering(S)
  BY DEF StrictSubsetOrdering
<1> QED BY <1>3, <1>4, Zenon

\* A table of the sums over every subset, as the fold makes it.
Runs(g, f, S) ==
  g = [T \in SUBSET S |-> IF T = {} THEN 0 ELSE f[OneOf(T)] + g[T \ {OneOf(T)}]]

\* The sum is the last entry of the table.
LEMMA SumUnfold ==
  ASSUME NEW f, NEW S
  PROVE  SumIn(f, S) = (CHOOSE g : Runs(g, f, S))[S]
BY DEF SumIn, Runs, MapThenSumSet, MapThenFoldSet, OneOf

\* A set that is not empty has the element that is taken.
LEMMA OneOfIn == ASSUME NEW T, T # {} PROVE OneOf(T) \in T /\ T \ {OneOf(T)} \subseteq T
  BY DEF OneOf

\* The table of a set holds that of its subsets.
LEMMA RunsInside ==
  ASSUME NEW S, NEW f, NEW g, Runs(g, f, S), NEW V \in SUBSET S
  PROVE  Runs([T \in SUBSET V |-> g[T]], f, V)
<1> DEFINE h == [T \in SUBSET V |-> g[T]]
           r == [T \in SUBSET V |-> IF T = {} THEN 0 ELSE f[OneOf(T)] + h[T \ {OneOf(T)}]]
<1>1. \A T \in SUBSET V : h[T] = r[T]
  <2> SUFFICES ASSUME NEW T \in SUBSET V PROVE h[T] = r[T]
    OBVIOUS
  <2>1. T \in SUBSET S
    OBVIOUS
  <2>2. g[T] = IF T = {} THEN 0 ELSE f[OneOf(T)] + g[T \ {OneOf(T)}]
    BY <2>1 DEF Runs
  <2>3. T \ {OneOf(T)} \in SUBSET V
    OBVIOUS
  <2> QED BY <2>2, <2>3
<1>2. h = r
  BY <1>1
<1> QED BY <1>2 DEF Runs

\* There is one table at most.
LEMMA RunsOnce ==
  ASSUME NEW S, IsFiniteSet(S), NEW f, NEW g, NEW h, Runs(g, f, S), Runs(h, f, S)
  PROVE  g = h
<1> DEFINE F == {T \in SUBSET S : g[T] # h[T]}
<1>1. F = {}
  <2> SUFFICES ASSUME F # {} PROVE FALSE
    OBVIOUS
  <2>0. F \subseteq SUBSET S
    OBVIOUS
  <2>1. PICK T \in F : \A U \in F : U \subseteq T => U = T
    <3> HIDE DEF F
    <3> QED BY <2>0, SmallestSet
  <2>2. /\ g[T] = IF T = {} THEN 0 ELSE f[OneOf(T)] + g[T \ {OneOf(T)}]
        /\ h[T] = IF T = {} THEN 0 ELSE f[OneOf(T)] + h[T \ {OneOf(T)}]
    BY DEF Runs
  <2>3. T # {} /\ g[T \ {OneOf(T)}] # h[T \ {OneOf(T)}]
    BY <2>2
  <2>4. T \ {OneOf(T)} \in F /\ T \ {OneOf(T)} # T
    BY <2>3, OneOfIn
  <2> QED BY <2>1, <2>4
<1>2. \A T \in SUBSET S : g[T] = h[T]
  BY <1>1
<1>3. /\ g = [T \in SUBSET S |-> g[T]]
      /\ h = [T \in SUBSET S |-> h[T]]
  BY DEF Runs
<1> QED BY <1>2, <1>3

\* What a table says of a subset is that subset's sum.
LEMMA RunsSay ==
  ASSUME NEW S, IsFiniteSet(S), NEW f, NEW g, Runs(g, f, S), NEW V \in SUBSET S
  PROVE  SumIn(f, V) = g[V]
<1>1. IsFiniteSet(V)
  BY FS_Subset
<1> DEFINE h == [T \in SUBSET V |-> g[T]]
<1>2. Runs(h, f, V)
  BY RunsInside
<1>3. h[V] = g[V]
  OBVIOUS
<1> HIDE DEF h
<1>4. PICK k : k = CHOOSE q : Runs(q, f, V)
  OBVIOUS
<1>5. Runs(k, f, V)
  BY <1>2, <1>4, Zenon
<1>6. k = h
  BY <1>1, <1>2, <1>5, RunsOnce
<1> QED BY <1>3, <1>4, <1>6, SumUnfold

\* There is a table for every finite set.
LEMMA RunsThere ==
  ASSUME NEW S, IsFiniteSet(S), NEW f
  PROVE  \E g : Runs(g, f, S)
<1> DEFINE F == {T \in SUBSET S : ~\E g : Runs(g, f, T)}
<1>1. F = {}
  <2> SUFFICES ASSUME F # {} PROVE FALSE
    OBVIOUS
  <2>0. F \subseteq SUBSET S
    OBVIOUS
  <2>1. PICK T \in F : \A U \in F : U \subseteq T => U = T
    <3> HIDE DEF F
    <3> QED BY <2>0, SmallestSet
  <2>2. T \in SUBSET S /\ IsFiniteSet(T)
    BY FS_Subset
  <2> DEFINE g == [U \in SUBSET T |-> IF U = {} THEN 0 ELSE f[OneOf(U)] + SumIn(f, U \ {OneOf(U)})]
             r == [U \in SUBSET T |-> IF U = {} THEN 0 ELSE f[OneOf(U)] + g[U \ {OneOf(U)}]]
  <2>3. \A V \in SUBSET T : V # T => SumIn(f, V) = g[V]
    <3> SUFFICES ASSUME NEW V \in SUBSET T, V # T PROVE SumIn(f, V) = g[V]
      OBVIOUS
    <3>1. IsFiniteSet(V) /\ V \notin F /\ V \in SUBSET S
      BY <2>1, <2>2, FS_Subset
    <3>2. PICK h : Runs(h, f, V)
      BY <3>1
    <3>3. SumIn(f, V) = h[V]
      BY <3>1, <3>2, RunsSay
    <3>4. h[V] = IF V = {} THEN 0 ELSE f[OneOf(V)] + h[V \ {OneOf(V)}]
      BY <3>2 DEF Runs
    <3>5. V # {} => SumIn(f, V \ {OneOf(V)}) = h[V \ {OneOf(V)}]
      BY <3>1, <3>2, RunsSay
    <3> QED BY <3>3, <3>4, <3>5
  <2>4. \A U \in SUBSET T : g[U] = r[U]
    <3> SUFFICES ASSUME NEW U \in SUBSET T, U # {} PROVE g[U] = r[U]
      OBVIOUS
    <3>1. U \ {OneOf(U)} \in SUBSET T /\ U \ {OneOf(U)} # T
      BY OneOfIn
    <3>2. SumIn(f, U \ {OneOf(U)}) = g[U \ {OneOf(U)}]
      BY <2>3, <3>1
    <3> QED BY <3>2
  <2>5. g = r
    BY <2>4
  <2>6. Runs(g, f, T)
    BY <2>5 DEF Runs
  <2> QED BY <2>6
<1> QED BY <1>1

\* The fold takes one element at a time.
LEMMA SumStep ==
  ASSUME NEW S, IsFiniteSet(S), NEW f
  PROVE  SumIn(f, S) = IF S = {} THEN 0 ELSE f[OneOf(S)] + SumIn(f, S \ {OneOf(S)})
<1>1. PICK g : Runs(g, f, S)
  BY RunsThere
<1>2. SumIn(f, S) = g[S] /\ SumIn(f, S \ {OneOf(S)}) = g[S \ {OneOf(S)}]
  BY <1>1, RunsSay
<1>3. g[S] = IF S = {} THEN 0 ELSE f[OneOf(S)] + g[S \ {OneOf(S)}]
  BY <1>1 DEF Runs
<1> QED BY <1>2, <1>3

\* A sum of integers is one.
LEMMA SumType ==
  ASSUME NEW S, IsFiniteSet(S), NEW f, \A x \in S : f[x] \in Int
  PROVE  SumIn(f, S) \in Int
<1> DEFINE F == {T \in SUBSET S : SumIn(f, T) \notin Int}
<1>1. F = {}
  <2> SUFFICES ASSUME F # {} PROVE FALSE
    OBVIOUS
  <2>0. F \subseteq SUBSET S
    OBVIOUS
  <2>1. PICK T \in F : \A U \in F : U \subseteq T => U = T
    <3> HIDE DEF F
    <3> QED BY <2>0, SmallestSet
  <2>2. SumIn(f, T) = IF T = {} THEN 0 ELSE f[OneOf(T)] + SumIn(f, T \ {OneOf(T)})
    BY FS_Subset, SumStep
  <2>3. T # {} /\ SumIn(f, T \ {OneOf(T)}) \notin Int
    BY <2>2, OneOfIn
  <2> QED BY <2>1, <2>3, OneOfIn
<1> QED BY <1>1

\* It may take any of its elements first.
LEMMA SumTakes ==
  ASSUME NEW S, IsFiniteSet(S), NEW f, \A x \in S : f[x] \in Int
  PROVE  \A x \in S : SumIn(f, S) = f[x] + SumIn(f, S \ {x})
<1> DEFINE F == {T \in SUBSET S : \E x \in T : SumIn(f, T) # f[x] + SumIn(f, T \ {x})}
<1>1. F = {}
  <2> SUFFICES ASSUME F # {} PROVE FALSE
    OBVIOUS
  <2>0. F \subseteq SUBSET S
    OBVIOUS
  <2>1. PICK T \in F : \A U \in F : U \subseteq T => U = T
    <3> HIDE DEF F
    <3> QED BY <2>0, SmallestSet
  <2>2. PICK x \in T : SumIn(f, T) # f[x] + SumIn(f, T \ {x})
    OBVIOUS
  <2> DEFINE y == OneOf(T)
  <2>3. SumIn(f, T) = f[y] + SumIn(f, T \ {y}) /\ y \in T /\ x # y
    BY <2>2, FS_Subset, SumStep, OneOfIn
  <2> HIDE DEF y
  <2>4. T \ {x} \notin F /\ T \ {y} \notin F
    BY <2>1, <2>3
  <2>5. SumIn(f, T \ {y}) = f[x] + SumIn(f, (T \ {y}) \ {x})
    BY <2>3, <2>4
  <2>6. SumIn(f, T \ {x}) = f[y] + SumIn(f, (T \ {x}) \ {y})
    BY <2>3, <2>4
  <2>7. (T \ {x}) \ {y} = (T \ {y}) \ {x} /\ IsFiniteSet((T \ {x}) \ {y})
    BY FS_Subset
  <2>8. SumIn(f, (T \ {y}) \ {x}) \in Int /\ f[x] \in Int /\ f[y] \in Int
    BY <2>3, <2>7, SumType
  <2>9. SumIn(f, (T \ {x}) \ {y}) = SumIn(f, (T \ {y}) \ {x})
    BY <2>7
  <2> QED BY <2>2, <2>3, <2>5, <2>6, <2>8, <2>9
<1>2. S \notin F
  BY <1>1
<1> QED BY <1>2

\* Nothing adds up to nothing.
LEMMA SumNone == ASSUME NEW f PROVE SumIn(f, {}) = 0
  BY FS_EmptySet, SumStep

\* A sum of sums is the sum of both.
LEMMA SumPlus ==
  ASSUME NEW S, IsFiniteSet(S), NEW f, NEW g, NEW h,
         \A x \in S : f[x] \in Int /\ g[x] \in Int /\ h[x] = f[x] + g[x]
  PROVE  SumIn(h, S) = SumIn(f, S) + SumIn(g, S)
<1> DEFINE F == {T \in SUBSET S : SumIn(h, T) # SumIn(f, T) + SumIn(g, T)}
<1>1. F = {}
  <2> SUFFICES ASSUME F # {} PROVE FALSE
    OBVIOUS
  <2>0. F \subseteq SUBSET S
    OBVIOUS
  <2>1. PICK T \in F : \A U \in F : U \subseteq T => U = T
    <3> HIDE DEF F
    <3> QED BY <2>0, SmallestSet
  <2>2. IsFiniteSet(T) /\ T \in SUBSET S
    BY FS_Subset
  <2>3. T # {}
    <3> SUFFICES ASSUME T = {} PROVE FALSE
      OBVIOUS
    <3>1. SumIn(f, T) = 0 /\ SumIn(g, T) = 0 /\ SumIn(h, T) = 0
      BY SumNone
    <3> QED BY <3>1
  <2>4. PICK x \in T : TRUE
    BY <2>3
  <2>5. T \ {x} \notin F /\ IsFiniteSet(T \ {x})
    BY <2>1, <2>2, FS_Subset
  <2>6. /\ SumIn(f, T) = f[x] + SumIn(f, T \ {x})
        /\ SumIn(g, T) = g[x] + SumIn(g, T \ {x})
    BY <2>2, SumTakes
  <2>7. \A y \in T : h[y] \in Int
    BY <2>2
  <2>8. SumIn(h, T) = h[x] + SumIn(h, T \ {x})
    BY <2>2, <2>7, SumTakes
  <2>9. SumIn(f, T \ {x}) \in Int /\ SumIn(g, T \ {x}) \in Int
    BY <2>2, <2>5, SumType
  <2>10. SumIn(h, T \ {x}) = SumIn(f, T \ {x}) + SumIn(g, T \ {x})
    BY <2>2, <2>5
  <2> QED BY <2>2, <2>6, <2>8, <2>9, <2>10
<1> QED BY <1>1

\* What is no greater anywhere adds up to no more.
\* What is nothing outside a part adds up to the part.
LEMMA SumPart ==
  ASSUME NEW S, IsFiniteSet(S), NEW P \in SUBSET S, NEW f,
         \A x \in S : f[x] \in Int, \A x \in S \ P : f[x] = 0
  PROVE  SumIn(f, S) = SumIn(f, P)
<1> DEFINE F == {T \in SUBSET S : P \subseteq T /\ SumIn(f, T) # SumIn(f, P)}
<1>1. F = {}
  <2> SUFFICES ASSUME F # {} PROVE FALSE
    OBVIOUS
  <2>0. F \subseteq SUBSET S
    OBVIOUS
  <2>1. PICK T \in F : \A U \in F : U \subseteq T => U = T
    <3> HIDE DEF F
    <3> QED BY <2>0, SmallestSet
  <2>2. IsFiniteSet(T) /\ T \in SUBSET S /\ P \subseteq T /\ T # P
    BY FS_Subset
  <2>4. PICK x \in T : x \notin P
    BY <2>2
  <2>5. T \ {x} \notin F /\ P \subseteq T \ {x} /\ IsFiniteSet(T \ {x})
    BY <2>1, <2>2, <2>4, FS_Subset
  <2>6. SumIn(f, T) = f[x] + SumIn(f, T \ {x}) /\ f[x] = 0 /\ SumIn(f, T \ {x}) \in Int
    BY <2>2, <2>4, <2>5, SumTakes, SumType
  <2> QED BY <2>2, <2>5, <2>6
<1> QED BY <1>1

\* Nothing but nothing adds up to nothing.
LEMMA SumZero ==
  ASSUME NEW S, IsFiniteSet(S), NEW f, \A x \in S : f[x] = 0
  PROVE  SumIn(f, S) = 0
BY SumPart, SumNone

\* The same amounts add up to the same.
LEMMA SumSame ==
  ASSUME NEW S, IsFiniteSet(S), NEW f, NEW g, \A x \in S : f[x] \in Int /\ f[x] = g[x]
  PROVE  SumIn(f, S) = SumIn(g, S)
<1> DEFINE none == [x \in S |-> 0]
<1>1. /\ SumIn(none, S) = 0
      /\ \A x \in S : g[x] \in Int /\ none[x] \in Int /\ f[x] = g[x] + none[x]
  BY SumZero
<1> HIDE DEF none
<1>2. SumIn(f, S) = SumIn(g, S) + SumIn(none, S) /\ SumIn(g, S) \in Int
  BY <1>1, SumPlus, SumType
<1> QED BY <1>1, <1>2

\* One amount changes: the sum does by as much.
LEMMA SumChanges ==
  ASSUME NEW S, IsFiniteSet(S), NEW f, NEW g, NEW x \in S,
         \A y \in S : f[y] \in Int /\ g[y] \in Int,
         \A y \in S \ {x} : f[y] = g[y]
  PROVE  SumIn(g, S) = SumIn(f, S) + g[x] - f[x]
<1>1. IsFiniteSet(S \ {x})
  BY FS_Subset
<1>2. SumIn(f, S \ {x}) = SumIn(g, S \ {x}) /\ SumIn(f, S \ {x}) \in Int
  BY <1>1, SumSame, SumType
<1>3. SumIn(f, S) = f[x] + SumIn(f, S \ {x}) /\ SumIn(g, S) = g[x] + SumIn(g, S \ {x})
  BY SumTakes
<1> QED BY <1>2, <1>3

\* A sum of natural numbers is one.
LEMMA SumNat ==
  ASSUME NEW S, IsFiniteSet(S), NEW f, \A x \in S : f[x] \in Nat
  PROVE  SumIn(f, S) \in Nat
<1> DEFINE F == {T \in SUBSET S : SumIn(f, T) \notin Nat}
<1>1. F = {}
  <2> SUFFICES ASSUME F # {} PROVE FALSE
    OBVIOUS
  <2>0. F \subseteq SUBSET S
    OBVIOUS
  <2>1. PICK T \in F : \A U \in F : U \subseteq T => U = T
    <3> HIDE DEF F
    <3> QED BY <2>0, SmallestSet
  <2>2. SumIn(f, T) = IF T = {} THEN 0 ELSE f[OneOf(T)] + SumIn(f, T \ {OneOf(T)})
    BY FS_Subset, SumStep
  <2>3. T # {} /\ SumIn(f, T \ {OneOf(T)}) \notin Nat
    BY <2>2, OneOfIn
  <2> QED BY <2>1, <2>3, OneOfIn
<1> QED BY <1>1

\* The same amount for everyone adds up to it as often as there are people.
LEMMA SumEven ==
  ASSUME NEW S, IsFiniteSet(S), NEW f, NEW a \in Int, \A x \in S : f[x] = a
  PROVE  SumIn(f, S) = a * Cardinality(S)
<1> DEFINE F == {T \in SUBSET S : SumIn(f, T) # a * Cardinality(T)}
<1>1. F = {}
  <2> SUFFICES ASSUME F # {} PROVE FALSE
    OBVIOUS
  <2>0. F \subseteq SUBSET S
    OBVIOUS
  <2>1. PICK T \in F : \A U \in F : U \subseteq T => U = T
    <3> HIDE DEF F
    <3> QED BY <2>0, SmallestSet
  <2>2. IsFiniteSet(T) /\ T \in SUBSET S
    BY FS_Subset
  <2>3. T # {}
    <3> SUFFICES ASSUME T = {} PROVE FALSE
      OBVIOUS
    <3>1. SumIn(f, T) = 0 /\ Cardinality(T) = 0
      BY SumNone, FS_EmptySet
    <3>2. a * 0 = 0
      OBVIOUS
    <3> QED BY <3>1, <3>2
  <2>4. PICK x \in T : TRUE
    BY <2>3
  <2>5. T \ {x} \notin F /\ IsFiniteSet(T \ {x}) /\ T \ {x} \in SUBSET S
    BY <2>1, <2>2, FS_Subset
  <2>6. SumIn(f, T) = f[x] + SumIn(f, T \ {x}) /\ f[x] = a
    BY <2>2, SumTakes
  <2>7. Cardinality(T \ {x}) = Cardinality(T) - 1 /\ Cardinality(T) \in Nat
    BY <2>2, FS_CardinalityType, FS_RemoveElement
  <2>8. SumIn(f, T \ {x}) = a * Cardinality(T \ {x})
    BY <2>5
  <2>9. \A k \in Nat : a + a * (k - 1) = a * k
    OBVIOUS
  <2> QED BY <2>6, <2>7, <2>8, <2>9
<1> QED BY <1>1

-----------------------------------------------------------------------------
(* The sums of a paper.                                                    *)

\* A column of the paper adds up as its people do.
LEMMA TotalIs == ASSUME NEW f PROVE Total(f) = SumIn(f, DOMAIN f)
  BY DEF Total, SumIn

\* The plan's fold over the creditors is a sum of natural numbers.
Nets(m, u) == [p \in Users |-> NetOf(m, u, p)]
OwedBy(m, u) == MapThenSumSet(LAMBDA p : NetOf(m, u, p), Creditors(m, u))
OweRuns(g, m, u, S) == g = [T \in SUBSET S |-> IF T = {} THEN 0 ELSE NetOf(m, u, OneOf(T)) + g[T \ {OneOf(T)}]]

\* The fold is the last entry of its table.
LEMMA OwedUnfold ==
  ASSUME NEW m, NEW u
  PROVE  OwedBy(m, u) = (CHOOSE g : OweRuns(g, m, u, Creditors(m, u)))[Creditors(m, u)]
BY DEF OwedBy, OweRuns, MapThenSumSet, MapThenFoldSet, OneOf

\* What I owe in all is a natural number.
LEMMA OwedIsNat ==
  ASSUME NEW m, MoneyFits(m), NEW u \in Users
  PROVE  OwedBy(m, u) \in Nat
<1> DEFINE S == Creditors(m, u)
           f == Nets(m, u)
<1>1. S \subseteq Users /\ \A p \in S : f[p] \in Nat
  <2>1. \A p \in S : p \in Users /\ NetOf(m, u, p) > 0 /\ NetOf(m, u, p) \in Int
    BY NetIsInt DEF Creditors, MoneyFits
  <2> HIDE DEF S
  <2> QED BY <2>1 DEF Nets
<1>2. IsFiniteSet(S)
  BY <1>1, PaperUsers, FS_Subset
<1>3. \A p \in S : f[p] = NetOf(m, u, p)
  BY <1>1 DEF Nets
<1> HIDE DEF S, f
<1>4. ASSUME NEW g PROVE OweRuns(g, m, u, S) <=> Runs(g, f, S)
  <2> DEFINE a == [T \in SUBSET S |-> IF T = {} THEN 0 ELSE NetOf(m, u, OneOf(T)) + g[T \ {OneOf(T)}]]
             b == [T \in SUBSET S |-> IF T = {} THEN 0 ELSE f[OneOf(T)] + g[T \ {OneOf(T)}]]
  <2>1. \A T \in SUBSET S : a[T] = b[T]
    <3> SUFFICES ASSUME NEW T \in SUBSET S, T # {} PROVE a[T] = b[T]
      OBVIOUS
    <3>1. OneOf(T) \in S
      BY OneOfIn
    <3>2. f[OneOf(T)] = NetOf(m, u, OneOf(T))
      BY <3>1, <1>3
    <3> QED BY <3>2
  <2>2. a = b
    BY <2>1
  <2> QED BY <2>2 DEF OweRuns, Runs
<1>5. PICK k : k = CHOOSE g : OweRuns(g, m, u, S)
  OBVIOUS
<1>6. \E g : OweRuns(g, m, u, S)
  BY <1>2, <1>4, RunsThere
<1>7. Runs(k, f, S)
  BY <1>4, <1>5, <1>6, Zenon
<1>8. SumIn(f, S) = k[S]
  BY <1>2, <1>7, RunsSay
<1>9. OwedBy(m, u) = k[S]
  BY <1>5, OwedUnfold DEF S
<1> QED BY <1>1, <1>2, <1>8, <1>9, SumNat

\* What a plan has me pay is a natural number.
LEMMA PlanIsNat ==
  ASSUME NEW m, MoneyFits(m), NEW u \in Users, NEW event, NEW payDebt, NEW asks
  PROVE  PlanFor(m, u, event, payDebt, asks).amount \in Nat
<1>1. OwedBy(m, u) \in Nat /\ m.share[u] \in Nat /\ m.paid[u] \in Nat
  BY OwedIsNat DEF MoneyFits
<1>2. m.paid[u] + OwedBy(m, u) \in Nat
  BY <1>1
<1>3. PlanFor(m, u, event, payDebt, asks).amount
      = IF m.type = "payback" THEN 0
        ELSE IF m.paid[u] = 0 THEN m.share[u]
        ELSE IF event \/ payDebt THEN m.paid[u] ELSE m.paid[u] + OwedBy(m, u)
  BY DEF PlanFor, OwedBy
<1> QED BY <1>1, <1>2, <1>3
-----------------------------------------------------------------------------
(* Books that say what the paper says.                                     *)

\* My transaction is a sum; followed, it is what the paper has me pay.
TxSays(t, m, u, event, n) ==
  t.has => /\ t.amount \in Nat
           /\ t.at = n => TxInSync(m, u, event, t.amount, t.my)
\* A part that followed the last change is the pair's net.
PartSays(b, m, n) == b.at = n /\ b.with # Gone => b.amount = Abs(Net(m, b))

BooksSay(books, m, event, n) ==
  /\ \A u \in Users : TxSays(books.tx[u], m, u, event, n)
  /\ \A b \in books.parts : PartSays(b, m, n)

\* A transaction that takes its amounts from a plan that has one is in sync.
LEMMA PlannedIsInSync ==
  ASSUME NEW m, MoneyFits(m), NEW u \in Users, NEW event \in BOOLEAN, NEW payDebt \in BOOLEAN, NEW asks \in BOOLEAN,
         NEW plan, plan = PlanFor(m, u, event, payDebt, asks), plan.ok, plan.tx
  PROVE  plan.amount \in Nat /\ TxInSync(m, u, event, plan.amount, plan.my)
<1>1. plan.amount \in Nat
  BY PlanIsNat
<1>2. LET same == PlanFor(m, u, event, payDebt, FALSE)
      IN same.ok /\ same.tx /\ same.amount = plan.amount /\ same.my = plan.my
  <2>1. CASE m.type = "payback"
    BY <2>1 DEF PlanFor
  <2>2. CASE m.type # "payback"
    BY <2>2 DEF PlanFor
  <2> QED BY <2>1, <2>2
<1> QED BY <1>1, <1>2 DEF TxInSync

\* A row of a plan is a pair's net.
LEMMA PlannedIsNet ==
  ASSUME NEW m, MoneyFits(m), NEW u \in Users, NEW event \in BOOLEAN, NEW payDebt \in BOOLEAN, NEW asks \in BOOLEAN,
         NEW r, r \in PlanFor(m, u, event, payDebt, asks).debts \/ r \in PlanFor(m, u, event, payDebt, asks).repayments
  PROVE  r.with \in Users /\ r.amount = Abs(NetOf(m, u, r.with))
<1> DEFINE row(p) == [with |-> p, amount |-> Abs(NetOf(m, u, p)),
                      iOwe |-> IF m.type = "payback" THEN NetOf(m, u, p) < 0 ELSE NetOf(m, u, p) > 0]
           rows == {row(p) : p \in Partners(m, u)}
<1>1. PlanFor(m, u, event, payDebt, asks).debts \subseteq rows /\ PlanFor(m, u, event, payDebt, asks).repayments \subseteq rows
  <2>1. PlanFor(m, u, event, payDebt, asks).debts \subseteq rows
    BY DEF PlanFor
  <2>2. PlanFor(m, u, event, payDebt, asks).repayments \subseteq rows
    BY DEF PlanFor
  <2> QED BY <2>1, <2>2
<1>2. r \in rows
  <2> HIDE DEF rows
  <2> QED BY <1>1
<1>3. PICK p \in Partners(m, u) : r = row(p)
  BY <1>2
<1>4. p \in Users
  BY DEF Partners, MoneyFits
<1> QED BY <1>3, <1>4

\* What a claim books is in sync.
LEMMA ClaimSays ==
  ASSUME NEW books, NEW seen, NEW m, NEW u \in Users, NEW event \in BOOLEAN, NEW form \in ClaimForm,
         BooksFit(books, change'), MoneyFits(m), BooksSay(books, m, event, change'),
         NEW after, after = Claimed(books, seen, m, u, event, form)
  PROVE  BooksSay(after, m, event, change')
<1> DEFINE plan == PlanFor(m, u, event, form.payDebt, form.bookDebts)
           booked == {b.with : b \in PartsOf(seen.parts, u)}
           new(rows, repay) ==
             {[of |-> u, with |-> r.with, iOwe |-> r.iOwe, amount |-> r.amount, repay |-> repay,
               at |-> change'] : r \in {x \in rows : x.with \notin booked}}
           makes == plan.ok /\ plan.tx /\ u \notin seen.tx /\ ~form.skipTx
           mine  == [has |-> TRUE, type |-> m.type, wallet |-> plan.wallet /\ form.wallet,
                     amount |-> plan.amount, my |-> plan.my, at |-> change']
<1>1. /\ after.tx = IF makes THEN [books.tx EXCEPT ![u] = mine] ELSE books.tx
      /\ after.parts \subseteq books.parts \cup new(plan.debts, FALSE) \cup new(plan.repayments, TRUE)
  BY DEF Claimed
<1>2. form.payDebt \in BOOLEAN /\ form.bookDebts \in BOOLEAN
  BY DEF ClaimForm
<1>3. makes => TxSays(mine, m, u, event, change')
  <2> SUFFICES ASSUME makes PROVE TxSays(mine, m, u, event, change')
    OBVIOUS
  <2>1. plan.amount \in Nat /\ TxInSync(m, u, event, plan.amount, plan.my)
    <3> HIDE DEF plan
    <3> QED BY <1>2, PlannedIsInSync DEF plan
  <2>2. mine.amount = plan.amount /\ mine.my = plan.my
    OBVIOUS
  <2> HIDE DEF mine, plan
  <2> QED BY <2>1, <2>2 DEF TxSays
<1>4. books.tx = [v \in Users |-> books.tx[v]]
  BY DEF BooksFit
<1>5. \A v \in Users : TxSays(after.tx[v], m, v, event, change')
  <2> HIDE DEF mine, makes
  <2>1. \A v \in Users : after.tx[v] = books.tx[v] \/ (v = u /\ makes /\ after.tx[v] = mine)
    BY <1>1, <1>4
  <2> QED BY <2>1, <1>3 DEF BooksSay
<1>6. ASSUME NEW rows, NEW repay, rows \subseteq plan.debts \/ rows \subseteq plan.repayments, NEW b \in new(rows, repay)
      PROVE  PartSays(b, m, change')
  <2>1. PICK r \in rows : b = [of |-> u, with |-> r.with, iOwe |-> r.iOwe, amount |-> r.amount, repay |-> repay,
                               at |-> change']
    BY <1>6
  <2>2. r.amount = Abs(NetOf(m, u, r.with)) /\ r.with \in Users
    <3>1. r \in plan.debts \/ r \in plan.repayments
      BY <1>6
    <3> HIDE DEF plan
    <3> QED BY <3>1, <1>2, PlannedIsNet DEF plan
  <2>3. b.of = u /\ b.with = r.with /\ b.amount = r.amount
    BY <2>1
  <2> QED BY <2>2, <2>3 DEF PartSays, Net
<1>7. \A b \in after.parts : PartSays(b, m, change')
  <2>1. \A b \in new(plan.debts, FALSE) : PartSays(b, m, change')
    BY <1>6
  <2>2. \A b \in new(plan.repayments, TRUE) : PartSays(b, m, change')
    BY <1>6
  <2> HIDE DEF new
  <2> QED BY <2>1, <2>2, <1>1 DEF BooksSay
<1> QED BY <1>5, <1>7 DEF BooksSay

\* What a sync writes is in sync, and what it leaves is as it was.
LEMMA SyncSays ==
  ASSUME NEW books, NEW m, NEW u \in Users, NEW event \in BOOLEAN, change' \in Nat,
         BooksFit(books, change'), MoneyFits(m), BooksSay(books, m, event, change')
  PROVE  BooksSay(Synced(books, m, u, event), m, event, change')
<1> DEFINE t == books.tx[u]
           payDebt == ~t.wallet \/ \E b \in PartsOf(books.parts, u) : Net(m, b) > 0
           plan == PlanFor(m, u, event, payDebt, FALSE)
           after == Synced(books, m, u, event)
           makes == t.has /\ plan.ok /\ plan.tx
<1>1. /\ after.tx = IF makes THEN [books.tx EXCEPT ![u] = TxFollows(t, plan)] ELSE books.tx
      /\ after.parts = (books.parts \ PartsOf(books.parts, u))
                       \cup {PartFollows(b, Net(m, b)) : b \in {x \in PartsOf(books.parts, u) : Net(m, x) # 0}}
  BY DEF Synced
<1>2. payDebt \in BOOLEAN
  OBVIOUS
<1>3. makes => TxSays(TxFollows(t, plan), m, u, event, change')
  <2> SUFFICES ASSUME makes PROVE TxSays(TxFollows(t, plan), m, u, event, change')
    OBVIOUS
  <2>1. plan.amount \in Nat /\ TxInSync(m, u, event, plan.amount, plan.my)
    <3> HIDE DEF plan, payDebt
    <3> QED BY <1>2, PlannedIsInSync DEF plan
  <2>2. TxFollows(t, plan).amount = plan.amount /\ TxFollows(t, plan).my = plan.my
    <3>1. BookRow(t)
      BY DEF BooksFit
    <3> HIDE DEF t, plan
    <3> QED BY <3>1, TxFollowsIs
  <2> HIDE DEF plan, t
  <2> QED BY <2>1, <2>2 DEF TxSays
<1> HIDE DEF plan, after, makes, payDebt
<1>4. books.tx = [v \in Users |-> books.tx[v]]
  BY DEF BooksFit
<1>5. \A v \in Users : TxSays(after.tx[v], m, v, event, change')
  <2>1. \A v \in Users : after.tx[v] = books.tx[v] \/ (v = u /\ makes /\ after.tx[v] = TxFollows(t, plan))
    BY <1>1, <1>4
  <2> QED BY <2>1, <1>3 DEF BooksSay
<1>6. ASSUME NEW b \in PartsOf(books.parts, u), Net(m, b) # 0
      PROVE  PartSays(PartFollows(b, Net(m, b)), m, change')
  <2>1. b \in PartRow /\ b.of = u /\ b \in books.parts
    BY DEF BooksFit, PartsOf
  <2>2. Abs(Net(m, b)) \in Nat
    BY <2>1, NetIsInt DEF PartRow, Net, Abs
  <2>3. PartFollows(b, Net(m, b)).amount = Abs(Net(m, b))
    BY <2>1, <2>2, PartFollowsIs
  <2>4. PartFollows(b, Net(m, b)).of = b.of /\ PartFollows(b, Net(m, b)).with = b.with
    BY <2>1, <2>2, PartFollowsIs
  <2>5. Net(m, PartFollows(b, Net(m, b))) = Net(m, b)
    BY <2>4 DEF Net
  <2> QED BY <2>3, <2>5 DEF PartSays
<1>7. \A b \in after.parts : PartSays(b, m, change')
  BY <1>1, <1>6 DEF BooksSay
<1> QED BY <1>5, <1>7 DEF BooksSay, after

\* The books of several users follow one by one.
LEMMA SyncedAllSay ==
  ASSUME NEW books, NEW m, NEW us \in SUBSET Users, NEW event \in BOOLEAN, change' \in Nat,
         BooksFit(books, change'), MoneyFits(m), BooksSay(books, m, event, change')
  PROVE  BooksSay(SyncedAll(books, m, us, event), m, event, change')
<1> DEFINE after == SyncedAll(books, m, us, event)
           one(u) == Synced(books, m, u, event)
<1>1. /\ after.tx = [u \in Users |-> IF u \in us THEN one(u).tx[u] ELSE books.tx[u]]
      /\ after.parts = {b \in books.parts : b.of \notin us} \cup UNION {PartsOf(one(u).parts, u) : u \in us}
  BY DEF SyncedAll
<1>2. \A u \in Users : BooksSay(one(u), m, event, change')
  BY SyncSays
<1> HIDE DEF after, one
<1>3. \A u \in Users : after.tx[u] = one(u).tx[u] \/ after.tx[u] = books.tx[u]
  BY <1>1
<1>4. \A b \in after.parts : b \in books.parts \/ \E u \in us : b \in one(u).parts
  BY <1>1 DEF PartsOf
<1> QED BY <1>2, <1>3, <1>4 DEF BooksSay, after

\* What nobody asked for is in sync.
LEMMA ClaimedAllSay ==
  ASSUME NEW books, NEW m, NEW us \in SUBSET Users, NEW event \in BOOLEAN,
         BooksFit(books, change'), MoneyFits(m), BooksSay(books, m, event, change')
  PROVE  BooksSay(ClaimedAll(books, m, us, event), m, event, change')
<1> DEFINE after == ClaimedAll(books, m, us, event)
           seen == [tx |-> {u \in Users : books.tx[u].has}, parts |-> books.parts]
           one(u) == Claimed(books, seen, m, u, event, AutoForm)
<1>1. /\ after.tx = [u \in Users |-> IF u \in us THEN one(u).tx[u] ELSE books.tx[u]]
      /\ after.parts = books.parts \cup UNION {PartsOf(one(u).parts, u) : u \in us}
  BY DEF ClaimedAll
<1>2. \A u \in Users : BooksSay(one(u), m, event, change')
  <2> SUFFICES ASSUME NEW u \in Users PROVE BooksSay(one(u), m, event, change')
    OBVIOUS
  <2>1. AutoForm \in ClaimForm
    BY DEF AutoForm, ClaimForm
  <2>2. \A s : \A f \in ClaimForm : BooksSay(Claimed(books, s, m, u, event, f), m, event, change')
    BY ClaimSays
  <2>3. BooksSay(Claimed(books, seen, m, u, event, AutoForm), m, event, change')
    BY <2>1, <2>2, Zenon
  <2> QED BY <2>3 DEF one
<1> HIDE DEF after, one
<1>3. \A u \in Users : after.tx[u] = one(u).tx[u] \/ after.tx[u] = books.tx[u]
  BY <1>1
<1>4. \A b \in after.parts : b \in books.parts \/ \E u \in us : b \in one(u).parts
  BY <1>1 DEF PartsOf
<1> QED BY <1>2, <1>3, <1>4 DEF BooksSay, after

\* Books of an earlier change say nothing of this one.
LEMMA SaysNothingYet ==
  ASSUME NEW books, NEW n \in Nat, NEW k \in Nat, n < k, BooksFit(books, n), NEW m, NEW event, NEW m2, NEW e2,
         BooksSay(books, m, event, n)
  PROVE  BooksSay(books, m2, e2, k)
<1>1. \A u \in Users : books.tx[u].at # k
  BY DEF BooksFit
<1>2. \A b \in books.parts : b.at # k
  <2> SUFFICES ASSUME NEW b \in books.parts PROVE b.at # k
    OBVIOUS
  <2>1. b.at \in Nat /\ b.at <= n
    BY DEF BooksFit, PartRow
  <2> QED BY <2>1
<1> QED BY <1>1, <1>2 DEF BooksSay, TxSays, PartSays

\* What is left when some books go out says what it said.
LEMMA OutOfSays ==
  ASSUME NEW books, NEW us, NEW n \in Nat, BooksFit(books, n), NEW m, NEW event, BooksSay(books, m, event, n)
  PROVE  BooksSay(OutOf(books, us), m, event, n)
<1> DEFINE after == OutOf(books, us)
<1>1. after.tx = [u \in Users |-> IF u \in us THEN NoBook ELSE books.tx[u]] /\ after.parts \subseteq books.parts
  BY DEF OutOf
<1>2. \A u \in Users : TxSays(NoBook, m, u, event, n)
  BY DEF TxSays, NoBook
<1> HIDE DEF after
<1>3. \A u \in Users : after.tx[u] = NoBook \/ after.tx[u] = books.tx[u]
  BY <1>1
<1> QED BY <1>1, <1>2, <1>3 DEF BooksSay, after

\* A part that loses its name says nothing of it.
LEMMA NamelessSays ==
  ASSUME NEW books, NEW us, NEW n \in Nat, BooksFit(books, n), NEW m, NEW event, BooksSay(books, m, event, n)
  PROVE  BooksSay(Nameless(books, us), m, event, n)
<1> DEFINE after == Nameless(books, us)
           named == {IF b.with \in us THEN [b EXCEPT !.with = Gone] ELSE b : b \in books.parts}
<1>1. after.tx = books.tx /\ after.parts = named
  <2>1. after = [books EXCEPT !.parts = named]
    BY Zenon DEF Nameless
  <2>2. books = [tx |-> books.tx, parts |-> books.parts]
    BY DEF BooksFit
  <2> HIDE DEF after, named
  <2> QED BY <2>1, <2>2
<1> HIDE DEF after
<1>2. \A b \in after.parts : PartSays(b, m, n)
  <2> SUFFICES ASSUME NEW x \in books.parts, NEW b, b = IF x.with \in us THEN [x EXCEPT !.with = Gone] ELSE x
               PROVE  PartSays(b, m, n)
    BY <1>1
  <2>1. CASE x.with \in us
    <3>1. x \in PartRow
      BY DEF BooksFit
    <3>2. b.with = Gone
      BY <2>1, <3>1 DEF PartRow
    <3> QED BY <3>2 DEF PartSays
  <2>2. CASE x.with \notin us
    BY <2>2 DEF BooksSay
  <2> QED BY <2>1, <2>2
<1> QED BY <1>1, <1>2 DEF BooksSay, after
-----------------------------------------------------------------------------
(* A paper that is even.                                                   *)

\* Whoever leads the people is one of them.
LEMMA LeadIsOn ==
  ASSUME NEW on \in SUBSET Users, on # {}, NEW owner
  PROVE  Lead(on, owner) \in on
<1>1. on \subseteq Nat
  BY PaperUsers
<1>2. IsWellFoundedOn(OpToRel(<, Nat), Nat)
  BY NatLessThanWellFounded
<1>3. PICK x \in on : \A y \in on : <<y, x>> \notin OpToRel(<, Nat)
  BY <1>1, <1>2, WFMin, Zenon
<1>4. \A y \in on : x <= y
  <2> SUFFICES ASSUME NEW y \in on, ~(x <= y) PROVE FALSE
    OBVIOUS
  <2>1. y \in Nat /\ x \in Nat /\ y < x
    BY <1>1
  <2>2. <<y, x>> \in OpToRel(<, Nat)
    BY <2>1 DEF OpToRel
  <2> QED BY <2>2, <1>3
<1>5. (CHOOSE z \in on : \A y \in on : z <= y) \in on
  BY <1>4
<1> QED BY <1>5 DEF Lead

\* Equal shares add up to the amount: the lead takes what is left over.
LEMMA EqualSharesAddUp ==
  ASSUME NEW a \in Nat, NEW on \in SUBSET Users, on # {}, NEW lead \in on
  PROVE  SumIn(EqualShares(a, on, lead), on) = a
<1>1. IsFiniteSet(on) /\ Cardinality(on) \in Nat \ {0}
  <2>1. IsFiniteSet(on)
    BY PaperUsers, FS_Subset
  <2> QED BY <2>1, FS_CardinalityType, FS_EmptySet
<1> DEFINE each == a \div Cardinality(on)
           all == [p \in on |-> each]
           f == EqualShares(a, on, lead)
<1>2. each \in Nat /\ each * Cardinality(on) \in Nat
  BY <1>1, Quotient
<1>3. f = [p \in on |-> IF p = lead THEN each + a - each * Cardinality(on) ELSE each]
  BY DEF EqualShares
<1> HIDE DEF f, each
<1>4. SumIn(all, on) = each * Cardinality(on)
  <2>1. \A p \in on : all[p] = each
    OBVIOUS
  <2> HIDE DEF all
  <2> QED BY <1>1, <1>2, <2>1, SumEven
<1>5. /\ \A p \in on : all[p] = each /\ f[p] \in Int
      /\ \A p \in on \ {lead} : all[p] = f[p]
      /\ f[lead] = each + a - each * Cardinality(on)
  BY <1>2, <1>3
<1> HIDE DEF all
<1>6. SumIn(f, on) = SumIn(all, on) + f[lead] - all[lead]
  <2>1. \A p \in on : all[p] \in Int /\ f[p] \in Int
    BY <1>2, <1>5
  <2> QED BY <2>1, <1>1, <1>5, SumChanges
<1>7. SumIn(f, on) = a
  BY <1>2, <1>4, <1>5, <1>6
<1> QED BY <1>7 DEF f

\* One hands all they have to another.
LEMMA HandedOn ==
  ASSUME NEW S, IsFiniteSet(S), NEW f, NEW g, NEW x \in S, NEW y \in S, x # y,
         \A z \in S : f[z] \in Int /\ g[z] \in Int,
         g[x] = 0, g[y] = f[y] + f[x], \A z \in S \ {x, y} : f[z] = g[z]
  PROVE  SumIn(g, S) = SumIn(f, S)
<1> DEFINE h == [z \in S |-> IF z = x THEN 0 ELSE f[z]]
<1>1. /\ \A z \in S : h[z] \in Int
      /\ \A z \in S \ {x} : f[z] = h[z]
      /\ \A z \in S \ {y} : h[z] = g[z]
      /\ h[x] = 0 /\ h[y] = f[y]
  OBVIOUS
<1> HIDE DEF h
<1>2. SumIn(h, S) = SumIn(f, S) + h[x] - f[x]
  <2>1. \A z \in S : f[z] \in Int /\ h[z] \in Int
    BY <1>1
  <2>2. \A z \in S \ {x} : f[z] = h[z]
    BY <1>1
  <2>3. \A a \in S : (\A z \in S \ {a} : f[z] = h[z]) => SumIn(h, S) = SumIn(f, S) + h[a] - f[a]
    BY <2>1, SumChanges
  <2> QED BY <2>2, <2>3
<1>3. SumIn(g, S) = SumIn(h, S) + g[y] - h[y]
  <2>1. \A z \in S : h[z] \in Int /\ g[z] \in Int
    BY <1>1
  <2>2. \A z \in S \ {y} : h[z] = g[z]
    BY <1>1
  <2> QED BY <2>1, <2>2, SumChanges
<1>4. SumIn(f, S) \in Int /\ SumIn(h, S) \in Int
  BY <1>1, SumType
<1> QED BY <1>1, <1>2, <1>3, <1>4

\* Being even, said of the sums.
LEMMA BalancedIs ==
  ASSUME NEW ppr, NEW p
  PROVE  Balanced(Money(ppr, p)) <=> /\ SumIn([u \in Users |-> p[u].share], Users) = ppr.amount
                                     /\ SumIn([u \in Users |-> p[u].paid], Users) = ppr.amount
<1> DEFINE m == Money(ppr, p)
           share == [u \in Users |-> p[u].share]
           paid == [u \in Users |-> p[u].paid]
<1>1. m.share = share /\ m.paid = paid /\ m.amount = ppr.amount
  BY DEF Money
<1>2. DOMAIN share = Users /\ DOMAIN paid = Users
  OBVIOUS
<1> HIDE DEF m, share, paid
<1>3. Total(m.share) = SumIn(share, Users) /\ Total(m.paid) = SumIn(paid, Users)
  BY <1>1, <1>2, TotalIs
<1>4. Balanced(m) <=> SumIn(share, Users) = ppr.amount /\ SumIn(paid, Users) = ppr.amount
  BY <1>1, <1>3 DEF Balanced
<1> QED BY <1>4 DEF m, share, paid

\* A user who is not on the paper has nothing on it.
OffIsNothing(p) == \A v \in Users : p[v].st = "none" => p[v].share = 0 /\ p[v].paid = 0

\* Someone taken off leaves the paper even: what they paid and shared stays on it.
LEMMA ResharedIsEven ==
  ASSUME Shapes, OffIsNothing(person), Balanced(Money(paper, person)), NEW gone \in OnPaper(person),
         OnPaper(Reshared(gone)) # {}
  PROVE  Balanced(Money(paper, Reshared(gone))) /\ OffIsNothing(Reshared(gone))
<1> DEFINE keep == OnPaper(person) \ {gone}
           lead == Lead(keep, paper.owner)
           equal == paper.mode = "equal" /\ paper.type # "payback"
           eq == EqualShares(paper.amount, keep, lead)
           add(v, n) == IF v = lead THEN n ELSE 0
           paid(v) == person[v].paid + add(v, person[gone].paid)
           share(v) == IF equal THEN EqualShares(paper.amount, keep, lead)[v]
                       ELSE person[v].share + add(v, person[gone].share)
           p == Reshared(gone)
           paidWas == [v \in Users |-> person[v].paid]
           shareWas == [v \in Users |-> person[v].share]
           paidIs == [v \in Users |-> p[v].paid]
           shareIs == [v \in Users |-> p[v].share]
<1>1. p = [v \in Users |-> IF v \notin keep THEN NoRow
                           ELSE [person[v] EXCEPT !.paid = paid(v), !.share = share(v)]]
  BY DEF Reshared
<1>2. NoRow.st = "none" /\ NoRow.paid = 0 /\ NoRow.share = 0
  BY DEF NoRow
<1>3. /\ keep \in SUBSET Users /\ gone \in Users /\ gone \notin keep /\ paper.amount \in Nat
      /\ \A v \in Users : person[v] \in PersonRow
      /\ \A v \in Users \ keep : v # gone => person[v].paid = 0 /\ person[v].share = 0
  BY DEF OnPaper, Shapes, PaperRow, OffIsNothing
<1>4. keep # {}
  <2> SUFFICES ASSUME keep = {} PROVE FALSE
    OBVIOUS
  <2>1. \A v \in Users : p[v] = NoRow
    BY <1>1
  <2> QED BY <2>1, <1>2 DEF OnPaper
<1>5. lead \in keep
  <2> HIDE DEF keep
  <2> QED BY <1>3, <1>4, LeadIsOn
<1>6. /\ \A v \in Users \ keep : p[v] = NoRow
      /\ \A v \in keep : p[v].paid = paid(v) /\ p[v].share = share(v) /\ p[v].st = person[v].st
  <2> HIDE DEF keep, paid, share, lead, equal, p
  <2>1. \A v \in Users \ keep : p[v] = NoRow
    BY <1>1
  <2>2. ASSUME NEW v \in keep PROVE p[v].paid = paid(v) /\ p[v].share = share(v) /\ p[v].st = person[v].st
    <3>1. p[v] = [person[v] EXCEPT !.paid = paid(v), !.share = share(v)] /\ person[v] \in PersonRow
      BY <1>1, <1>3
    <3> QED BY <3>1 DEF PersonRow
  <2> QED BY <2>1, <2>2
<1>7. OffIsNothing(p)
  <2>1. \A v \in keep : person[v].st # "none"
    BY DEF OnPaper
  <2> HIDE DEF p, keep, paid, share
  <2> QED BY <2>1, <1>2, <1>6 DEF OffIsNothing
<1>8. IsFiniteSet(Users)
  BY PaperUsers
<1>9. SumIn(paidWas, Users) = paper.amount /\ SumIn(shareWas, Users) = paper.amount
  BY BalancedIs
<1> HIDE DEF keep, lead, p
<1>10. \A v \in Users : person[v].paid \in Nat /\ person[v].share \in Nat
  BY <1>3 DEF PersonRow
<1>11. SumIn(paidIs, Users) = SumIn(paidWas, Users)
  <2>1. /\ paidIs[gone] = 0 /\ paidIs[lead] = paidWas[lead] + paidWas[gone]
        /\ \A v \in Users \ {gone, lead} : paidWas[v] = paidIs[v]
        /\ \A v \in Users : paidWas[v] \in Int /\ paidIs[v] \in Int
    <3>1. paidIs[gone] = 0
      BY <1>2, <1>3, <1>6
    <3>2. paidIs[lead] = paidWas[lead] + paidWas[gone]
      BY <1>3, <1>5, <1>6
    <3>3. \A v \in Users \ {gone, lead} : paidWas[v] = paidIs[v]
      <4> SUFFICES ASSUME NEW v \in Users \ {gone, lead} PROVE person[v].paid = p[v].paid
        OBVIOUS
      <4>1. CASE v \in keep
        BY <4>1, <1>6, <1>10
      <4>2. CASE v \notin keep
        BY <4>2, <1>2, <1>3, <1>6
      <4> QED BY <4>1, <4>2
    <3>4. \A v \in Users : paidWas[v] \in Int
      BY <1>10
    <3> HIDE DEF paidIs, paidWas
    <3> QED BY <3>1, <3>2, <3>3, <3>4, <1>3, <1>5
  <2> HIDE DEF paidIs, paidWas
  <2> QED BY <2>1, <1>3, <1>5, <1>8, HandedOn
<1>12. SumIn(shareIs, Users) = paper.amount
  <2>1. CASE equal
    <3>1. \A v \in keep : shareIs[v] = eq[v]
      BY <2>1, <1>3, <1>6
    <3>2. \A v \in Users \ keep : shareIs[v] = 0
      BY <1>2, <1>3, <1>6
    <3>3. eq \in [keep -> Nat] /\ SumIn(eq, keep) = paper.amount
      BY <1>3, <1>4, <1>5, EqualSharesAreNat, EqualSharesAddUp
    <3>4. IsFiniteSet(keep)
      BY <1>3, <1>8, FS_Subset
    <3> HIDE DEF eq, shareIs
    <3>5. \A v \in Users : shareIs[v] \in Int
      BY <3>1, <3>2, <3>3
    <3>6. SumIn(shareIs, Users) = SumIn(shareIs, keep)
      BY <3>2, <3>5, <1>3, <1>8, SumPart
    <3>7. SumIn(shareIs, keep) = SumIn(eq, keep)
      BY <3>1, <3>3, <3>4, <3>5, SumSame
    <3> QED BY <3>3, <3>6, <3>7
  <2>2. CASE ~equal
    <3>1. shareIs[gone] = 0
      BY <1>2, <1>3, <1>6
    <3>2. shareIs[lead] = shareWas[lead] + shareWas[gone]
      BY <2>2, <1>3, <1>5, <1>6
    <3>3. \A v \in Users \ {gone, lead} : shareWas[v] = shareIs[v]
      <4> SUFFICES ASSUME NEW v \in Users \ {gone, lead} PROVE person[v].share = p[v].share
        OBVIOUS
      <4>1. CASE v \in keep
        BY <4>1, <2>2, <1>6, <1>10
      <4>2. CASE v \notin keep
        BY <4>2, <1>2, <1>3, <1>6
      <4> QED BY <4>1, <4>2
    <3>4. \A v \in Users : shareWas[v] \in Int
      BY <1>10
    <3> HIDE DEF shareIs, shareWas
    <3>5. \A v \in Users : shareIs[v] \in Int
      BY <3>1, <3>2, <3>3, <3>4, <1>3, <1>5
    <3>6. SumIn(shareIs, Users) = SumIn(shareWas, Users)
      BY <3>1, <3>2, <3>3, <3>4, <3>5, <1>3, <1>5, <1>8, HandedOn
    <3> QED BY <3>6, <1>9 DEF shareWas
  <2> QED BY <2>1, <2>2
<1>13. Balanced(Money(paper, p))
  BY <1>9, <1>11, <1>12, BalancedIs
<1> QED BY <1>7, <1>13 DEF p

\* A merged row leaves the paper even: what it paid and shared goes to the other.
LEMMA MergedIsEven ==
  ASSUME Shapes, OffIsNothing(person), Balanced(Money(paper, person)), NEW gone \in OnPaper(person),
         NEW lead \in OnPaper(person) \ {gone}
  PROVE  Balanced(Money(paper, Merged(gone, lead))) /\ OffIsNothing(Merged(gone, lead))
<1> DEFINE keep == OnPaper(person) \ {gone}
           first == Lead(keep, paper.owner)
           equal == paper.mode = "equal" /\ paper.type # "payback"
           eq == EqualShares(paper.amount, keep, first)
           add(v, n) == IF v = lead THEN n ELSE 0
           paid(v) == person[v].paid + add(v, person[gone].paid)
           share(v) == IF equal THEN EqualShares(paper.amount, keep, first)[v]
                       ELSE person[v].share + add(v, person[gone].share)
           p == Merged(gone, lead)
           paidWas == [v \in Users |-> person[v].paid]
           shareWas == [v \in Users |-> person[v].share]
           paidIs == [v \in Users |-> p[v].paid]
           shareIs == [v \in Users |-> p[v].share]
<1>1. p = [v \in Users |-> IF v \notin keep THEN NoRow
                           ELSE [person[v] EXCEPT !.paid = paid(v), !.share = share(v)]]
  BY DEF Merged
<1>2. NoRow.st = "none" /\ NoRow.paid = 0 /\ NoRow.share = 0
  BY DEF NoRow
<1>3. /\ keep \in SUBSET Users /\ gone \in Users /\ gone \notin keep /\ paper.amount \in Nat
      /\ \A v \in Users : person[v] \in PersonRow
      /\ \A v \in Users \ keep : v # gone => person[v].paid = 0 /\ person[v].share = 0
  BY DEF OnPaper, Shapes, PaperRow, OffIsNothing
<1>4. lead \in keep /\ keep # {}
  OBVIOUS
<1>5. first \in keep
  <2> HIDE DEF keep
  <2> QED BY <1>3, <1>4, LeadIsOn
<1>6. /\ \A v \in Users \ keep : p[v] = NoRow
      /\ \A v \in keep : p[v].paid = paid(v) /\ p[v].share = share(v) /\ p[v].st = person[v].st
  <2> HIDE DEF keep, paid, share, first, equal, p
  <2>1. \A v \in Users \ keep : p[v] = NoRow
    BY <1>1
  <2>2. ASSUME NEW v \in keep PROVE p[v].paid = paid(v) /\ p[v].share = share(v) /\ p[v].st = person[v].st
    <3>1. p[v] = [person[v] EXCEPT !.paid = paid(v), !.share = share(v)] /\ person[v] \in PersonRow
      BY <1>1, <1>3
    <3> QED BY <3>1 DEF PersonRow
  <2> QED BY <2>1, <2>2
<1>7. OffIsNothing(p)
  <2>1. \A v \in keep : person[v].st # "none"
    BY DEF OnPaper
  <2> HIDE DEF p, keep, paid, share
  <2> QED BY <2>1, <1>2, <1>6 DEF OffIsNothing
<1>8. IsFiniteSet(Users)
  BY PaperUsers
<1>9. SumIn(paidWas, Users) = paper.amount /\ SumIn(shareWas, Users) = paper.amount
  BY BalancedIs
<1> HIDE DEF keep, first, p
<1>10. \A v \in Users : person[v].paid \in Nat /\ person[v].share \in Nat
  BY <1>3 DEF PersonRow
<1>11. SumIn(paidIs, Users) = SumIn(paidWas, Users)
  <2>1. /\ paidIs[gone] = 0 /\ paidIs[lead] = paidWas[lead] + paidWas[gone]
        /\ \A v \in Users \ {gone, lead} : paidWas[v] = paidIs[v]
        /\ \A v \in Users : paidWas[v] \in Int /\ paidIs[v] \in Int
    <3>1. paidIs[gone] = 0
      BY <1>2, <1>3, <1>6
    <3>2. paidIs[lead] = paidWas[lead] + paidWas[gone]
      BY <1>3, <1>4, <1>6
    <3>3. \A v \in Users \ {gone, lead} : paidWas[v] = paidIs[v]
      <4> SUFFICES ASSUME NEW v \in Users \ {gone, lead} PROVE person[v].paid = p[v].paid
        OBVIOUS
      <4>1. CASE v \in keep
        BY <4>1, <1>6, <1>10
      <4>2. CASE v \notin keep
        BY <4>2, <1>2, <1>3, <1>6
      <4> QED BY <4>1, <4>2
    <3>4. \A v \in Users : paidWas[v] \in Int
      BY <1>10
    <3> HIDE DEF paidIs, paidWas
    <3> QED BY <3>1, <3>2, <3>3, <3>4, <1>3, <1>4
  <2> HIDE DEF paidIs, paidWas
  <2> QED BY <2>1, <1>3, <1>4, <1>8, HandedOn
<1>12. SumIn(shareIs, Users) = paper.amount
  <2>1. CASE equal
    <3>1. \A v \in keep : shareIs[v] = eq[v]
      BY <2>1, <1>3, <1>6
    <3>2. \A v \in Users \ keep : shareIs[v] = 0
      BY <1>2, <1>3, <1>6
    <3>3. eq \in [keep -> Nat] /\ SumIn(eq, keep) = paper.amount
      BY <1>3, <1>4, <1>5, EqualSharesAreNat, EqualSharesAddUp
    <3>4. IsFiniteSet(keep)
      BY <1>3, <1>8, FS_Subset
    <3> HIDE DEF eq, shareIs
    <3>5. \A v \in Users : shareIs[v] \in Int
      BY <3>1, <3>2, <3>3
    <3>6. SumIn(shareIs, Users) = SumIn(shareIs, keep)
      BY <3>2, <3>5, <1>3, <1>8, SumPart
    <3>7. SumIn(shareIs, keep) = SumIn(eq, keep)
      BY <3>1, <3>3, <3>4, <3>5, SumSame
    <3> QED BY <3>3, <3>6, <3>7
  <2>2. CASE ~equal
    <3>1. shareIs[gone] = 0
      BY <1>2, <1>3, <1>6
    <3>2. shareIs[lead] = shareWas[lead] + shareWas[gone]
      BY <2>2, <1>3, <1>4, <1>6
    <3>3. \A v \in Users \ {gone, lead} : shareWas[v] = shareIs[v]
      <4> SUFFICES ASSUME NEW v \in Users \ {gone, lead} PROVE person[v].share = p[v].share
        OBVIOUS
      <4>1. CASE v \in keep
        BY <4>1, <2>2, <1>6, <1>10
      <4>2. CASE v \notin keep
        BY <4>2, <1>2, <1>3, <1>6
      <4> QED BY <4>1, <4>2
    <3>4. \A v \in Users : shareWas[v] \in Int
      BY <1>10
    <3> HIDE DEF shareIs, shareWas
    <3>5. \A v \in Users : shareIs[v] \in Int
      BY <3>1, <3>2, <3>3, <3>4, <1>3, <1>4
    <3>6. SumIn(shareIs, Users) = SumIn(shareWas, Users)
      BY <3>1, <3>2, <3>3, <3>4, <3>5, <1>3, <1>4, <1>8, HandedOn
    <3> QED BY <3>6, <1>9 DEF shareWas
  <2> QED BY <2>1, <2>2
<1>13. Balanced(Money(paper, p))
  BY <1>9, <1>11, <1>12, BalancedIs
<1> QED BY <1>7, <1>13 DEF p

\* The form's rows are of the people in it.
LEMMA WrittenHasNoOther ==
  ASSUME Shapes, NEW in \in Inputs, NEW u \in Users, NEW owner \in Users, NEW event \in BOOLEAN, NEW named
  PROVE  OffIsNothing(Written(in, u, owner, event, named))
<1> DEFINE p == Written(in, u, owner, event, named)
           row(v) == [st    |-> IF person[v].st # "none" THEN person[v].st ELSE NewStatus(u, v, event, named),
                      share |-> Shares(in, owner)[v], paid |-> in.paid[v]]
<1>1. p = [v \in Users |-> IF v \notin in.on THEN NoRow ELSE row(v)]
  BY DEF Written
<1>2. NoRow.share = 0 /\ NoRow.paid = 0
  BY DEF NoRow
<1>3. \A v \in in.on : row(v).st # "none"
  <2>1. \A v \in Users : NewStatus(u, v, event, named) # "none"
    BY DEF NewStatus
  <2> QED BY <2>1, PaperInputs
<1> HIDE DEF p, row
<1> QED BY <1>1, <1>2, <1>3 DEF OffIsNothing, p
-----------------------------------------------------------------------------
(* Every step leaves the paper even and its last followers in sync.        *)

IsEven == OffIsNothing(person) /\ (paper.there => Balanced(Money(paper, person)))
BooksAreSaid == BooksSay(Books, Money(paper, person), paper.event, change)
SInv == PInv /\ IsEven /\ BooksAreSaid

\* The paper's money is what it was when nobody's amounts changed.
LEMMA SameMoney ==
  ASSUME NEW ppr, NEW ppr2, NEW p, NEW p2, ppr2.type = ppr.type, ppr2.amount = ppr.amount,
         \A v \in Users : p2[v].share = p[v].share /\ p2[v].paid = p[v].paid
  PROVE  Money(ppr2, p2) = Money(ppr, p)
<1>1. [v \in Users |-> p2[v].share] = [v \in Users |-> p[v].share] /\ [v \in Users |-> p2[v].paid] = [v \in Users |-> p[v].paid]
  OBVIOUS
<1> QED BY <1>1 DEF Money

\* A status is all that changes.
LEMMA SameAmounts ==
  ASSUME NEW r, NEW st
  PROVE  [r EXCEPT !.st = st].share = r.share /\ [r EXCEPT !.st = st].paid = r.paid
OBVIOUS

\* Amounts that stay leave the paper as even as it was.
LEMMA EvenStays ==
  ASSUME IsEven, paper'.type = paper.type, paper'.amount = paper.amount, paper'.there => paper.there,
         \A v \in Users : /\ person'[v].share = person[v].share /\ person'[v].paid = person[v].paid
                          /\ person'[v].st = "none" => person[v].st = "none"
  PROVE  IsEven' /\ Money(paper', person') = Money(paper, person)
<1>1. Money(paper', person') = Money(paper, person)
  BY SameMoney
<1>2. OffIsNothing(person)'
  BY DEF IsEven, OffIsNothing
<1>3. paper'.there => Balanced(Money(paper', person'))
  BY <1>1 DEF IsEven
<1> QED BY <1>1, <1>2, <1>3 DEF IsEven

\* Books that stay or go say what they said of the same money.
LEMMA SaidStays ==
  ASSUME BooksAreSaid, Money(paper', person') = Money(paper, person), paper'.event = paper.event, change' = change,
         \A u \in Users : tx'[u] = tx[u] \/ ~tx'[u].has, parts' \subseteq parts
  PROVE  BooksAreSaid'
<1> DEFINE m == Money(paper, person)
<1>1. /\ \A u \in Users : TxSays(tx[u], m, u, paper.event, change)
      /\ \A b \in parts : PartSays(b, m, change)
  BY DEF BooksAreSaid, BooksSay, Books
<1> HIDE DEF m
<1>2. \A u \in Users : TxSays(tx'[u], m, u, paper.event, change)
  <2> SUFFICES ASSUME NEW u \in Users PROVE TxSays(tx'[u], m, u, paper.event, change)
    OBVIOUS
  <2>1. CASE tx'[u] = tx[u]
    BY <2>1, <1>1
  <2>2. CASE ~tx'[u].has
    BY <2>2 DEF TxSays
  <2> QED BY <2>1, <2>2
<1>3. \A b \in parts' : PartSays(b, m, change)
  BY <1>1
<1>4. BooksSay([tx |-> tx', parts |-> parts'], m, paper.event, change)
  BY <1>2, <1>3 DEF BooksSay
<1>5. Money(paper', person') = m
  BY DEF m
<1> QED BY <1>4, <1>5 DEF BooksAreSaid, Books

\* Books nobody touched say nothing of a new change.
LEMMA SaidOfNew ==
  ASSUME PInv, BooksAreSaid, UNCHANGED <<tx, parts>>, change' = change + 1
  PROVE  BooksAreSaid'
<1>1. change \in Nat /\ BooksFit(Books, change)
  BY PaperBound DEF PInv, Shapes, BooksAreRows
<1>2. change' \in Nat /\ change < change'
  BY <1>1
<1>3. BooksSay(Books, Money(paper, person), paper.event, change)
  BY DEF BooksAreSaid
<1>4. BooksSay(Books, Money(paper', person'), paper'.event, change')
  BY <1>1, <1>2, <1>3, SaysNothingYet
<1>5. Books' = Books
  BY DEF Books
<1> QED BY <1>4, <1>5 DEF BooksAreSaid

\* A change that is followed is said by whoever followed it.
LEMMA FollowAndWelcomeSays ==
  ASSUME Shapes, NEW books, BooksFit(books, change), NEW m, MoneyFits(m), NEW p, NEW u \in Users,
         NEW new \in SUBSET Users, NEW m0, NEW e0, BooksSay(books, m0, e0, change),
         FollowAndWelcome(books, m, p, u, new)
  PROVE  BooksSay(Books', m, paper.event, change')
<1> DEFINE autos == Following(books, p, u)
           synced == SyncedAll(books, m, autos, paper.event)
           after == ClaimedAll(synced, m, new, paper.event)
<1>1. change \in Nat /\ change' = change + 1 /\ paper.event \in BOOLEAN /\ Take(after)
  BY PaperBound DEF FollowAndWelcome, Changes, Shapes, PaperRow
<1>2. change' \in Nat /\ change < change' /\ change <= change'
  BY <1>1
<1>3. BooksFit(books, change')
  BY <1>1, <1>2, FitsLater
<1>4. BooksSay(books, m, paper.event, change')
  BY <1>1, <1>2, SaysNothingYet
<1>5. autos \in SUBSET Users
  BY DEF Following, Followers
<1>6. BooksFit(synced, change')
  BY <1>1, <1>2, <1>3, SyncedAllMakesNone
<1> HIDE DEF autos
<1>7. BooksSay(synced, m, paper.event, change')
  BY <1>1, <1>2, <1>3, <1>4, <1>5, SyncedAllSay
<1> HIDE DEF synced
<1>8. BooksFit(after, change')
  BY <1>1, <1>2, <1>6, ClaimedAllAdds
<1>9. BooksSay(after, m, paper.event, change')
  BY <1>1, <1>6, <1>7, ClaimedAllSay
<1> HIDE DEF after
<1>10. Books' = after
  BY <1>1, <1>8, TakenAre
<1> QED BY <1>9, <1>10

\* The paper is made even, with books of what it says.
LEMMA CreateSays ==
  ASSUME SInv, NEW u \in Creators, NEW in \in Inputs, NEW event \in BOOLEAN, NEW named \in SUBSET Users,
         CreatePaper(u, in, event, named)
  PROVE  IsEven' /\ BooksAreSaid'
<1> DEFINE ppr == [there |-> TRUE, ended |-> FALSE, event |-> event, done |-> FALSE, owner |-> u,
                   type |-> in.type, mode |-> in.mode, amount |-> in.amount]
           p   == Written(in, u, u, event, named)
           m   == Money(ppr, p)
           none == [tx |-> {}, parts |-> {}]
<1>0. u \in Users /\ Shapes
  BY PaperActors DEF SInv, PInv
<1>1. /\ paper' = ppr /\ person' = p /\ change' = 1 /\ Balanced(m) /\ ~paper.there /\ ~paper.ended
      /\ \E bk : /\ bk = Books \/ \E f \in Forms : bk = Claimed(Books, none, m, u, event, f)
                 /\ Take(ClaimedAll(bk, m, Welcomed(p, u), event))
  <2>1. \E bk \in (IF u \notin in.on THEN {Books} ELSE {Books} \cup {Claimed(Books, none, m, u, event, f) : f \in Forms}) :
             Take(ClaimedAll(bk, m, Welcomed(p, u), event))
    BY DEF CreatePaper
  <2>2. paper' = ppr /\ person' = p /\ change' = 1 /\ ~paper.there /\ ~paper.ended /\ Fits(in, p, ppr)
    BY DEF CreatePaper
  <2>3. Balanced(m)
    BY <2>2 DEF Fits
  <2> HIDE DEF p, m, ppr, none
  <2> QED BY <2>1, <2>2, <2>3
<1>2. ppr.type = in.type /\ ppr.amount = in.amount /\ ppr.event = event
  OBVIOUS
<1> HIDE DEF p, m, ppr, none
<1>3. p \in [Users -> PersonRow] /\ MoneyFits(m)
  <2>1. p \in [Users -> PersonRow]
    BY <1>0, WrittenFits DEF p
  <2> QED BY <2>1, <1>2, PaperInputs, MoneyIs DEF m
<1>4. IsEven'
  <2>1. OffIsNothing(p)
    BY <1>0, WrittenHasNoOther DEF p
  <2>2. Balanced(Money(paper', person'))
    BY <1>1 DEF m
  <2>3. OffIsNothing(person')
    BY <2>1, <1>1
  <2> QED BY <2>2, <2>3 DEF IsEven
<1>5. change = 0 /\ BooksFit(Books, 0) /\ BooksSay(Books, Money(paper, person), paper.event, 0)
  BY <1>1 DEF SInv, PInv, NothingBefore, BooksAreRows, BooksAreSaid
<1>6. BooksFit(Books, change') /\ change' \in Nat /\ BooksSay(Books, m, event, change')
  <2>1. BooksFit(Books, 1)
    BY <1>5, FitsLater
  <2>2. BooksSay(Books, m, event, 1)
    BY <1>5, SaysNothingYet
  <2> QED BY <2>1, <2>2, <1>1
<1>7. PICK bk : /\ bk = Books \/ \E f \in Forms : bk = Claimed(Books, none, m, u, event, f)
                /\ Take(ClaimedAll(bk, m, Welcomed(p, u), event))
  BY <1>1
<1>8. BooksFit(bk, change') /\ BooksSay(bk, m, event, change')
  <2>1. CASE bk = Books
    BY <2>1, <1>6
  <2>2. ASSUME NEW f \in Forms, bk = Claimed(Books, none, m, u, event, f)
        PROVE  BooksFit(bk, change') /\ BooksSay(bk, m, event, change')
    <3>1. f \in ClaimForm
      BY PaperForms DEF ClaimForm
    <3>2. BooksFit(bk, change')
      BY <1>0, <1>3, <1>6, <2>2, <3>1, ClaimAdds
    <3>3. BooksSay(bk, m, event, change')
      BY <1>0, <1>3, <1>6, <2>2, <3>1, ClaimSays
    <3> QED BY <3>2, <3>3
  <2> QED BY <2>1, <2>2, <1>7
<1> DEFINE after == ClaimedAll(bk, m, Welcomed(p, u), event)
<1>9. Welcomed(p, u) \in SUBSET Users
  BY PaperSwitches DEF Welcomed
<1>10. BooksFit(after, change') /\ BooksSay(after, m, event, change')
  BY <1>3, <1>6, <1>8, <1>9, ClaimedAllAdds, ClaimedAllSay
<1> HIDE DEF after
<1>11. Books' = after
  BY <1>7, <1>10, TakenAre DEF after
<1>12. Money(paper', person') = m /\ paper'.event = event
  BY <1>1, <1>2 DEF m
<1>13. BooksAreSaid'
  BY <1>10, <1>11, <1>12 DEF BooksAreSaid
<1> QED BY <1>4, <1>13

\* The form leaves an even paper, and those who follow it say so.
LEMMA UpdateSays ==
  ASSUME SInv, UpdatePaper
  PROVE  IsEven' /\ BooksAreSaid'
<1> DEFINE u == work.by
           p(in, named) == Written(in, u, paper.owner, paper.event, named)
           ppr(in) == [paper EXCEPT !.type = in.type, !.mode = in.mode, !.amount = in.amount]
           gone(in) == OnPaper(person) \ in.on
           out(in)  == {v \in gone(in) : UserRow(person, v)}
<1> DEFINE done(in, named) ==
             /\ paper' = ppr(in) /\ person' = p(in, named) /\ Fits(in, p(in, named), ppr(in))
             /\ FollowAndWelcome(Nameless(OutOf(Books, out(in)), gone(in)), Money(ppr(in), p(in, named)), p(in, named), u, Welcomed(p(in, named), u))
<1>01. PICK in \in Inputs : \E named \in SUBSET Former(in.on, paper.event) : done(in, named)
  BY Zenon DEF UpdatePaper
<1>02. PICK named \in SUBSET Former(in.on, paper.event) : done(in, named)
  BY <1>01
<1>1. /\ paper' = ppr(in) /\ person' = p(in, named) /\ Fits(in, p(in, named), ppr(in))
      /\ FollowAndWelcome(Nameless(OutOf(Books, out(in)), gone(in)), Money(ppr(in), p(in, named)), p(in, named), u, Welcomed(p(in, named), u))
  BY <1>02
<1> HIDE DEF done
<1>2. /\ u \in Users /\ paper.owner \in Users /\ paper.event \in BOOLEAN /\ paper \in PaperRow /\ Shapes /\ change \in Nat
      /\ BooksFit(Books, change)
  BY PaperBound DEF SInv, PInv, Shapes, WorkRow, PaperRow, BooksAreRows
<1>3. p(in, named) \in [Users -> PersonRow] /\ OffIsNothing(p(in, named))
  BY <1>2, WrittenFits, WrittenHasNoOther
<1>4. ppr(in).type = in.type /\ ppr(in).amount = in.amount /\ ppr(in).event = paper.event
  <2>1. in.type \in PaperTypes /\ in.mode \in {"equal", "custom"} /\ in.amount \in Nat
    BY PaperInputs
  <2>2. ppr(in) = Rewrite(paper, in.type, in.mode, in.amount)
    BY Zenon DEF Rewrite
  <2>3. paper \in PaperRow
    BY <1>2
  <2> HIDE DEF ppr
  <2> QED BY <2>1, <2>2, <2>3, RewrittenIs
<1>5. Welcomed(p(in, named), u) \in SUBSET Users
  BY PaperSwitches DEF Welcomed
<1> HIDE DEF p, ppr, u
<1> DEFINE m == Money(ppr(in), p(in, named))
           left == Nameless(OutOf(Books, out(in)), gone(in))
           m0 == Money(paper, person)
<1>6. MoneyFits(m)
  BY <1>3, <1>4, PaperInputs, MoneyIs
<1>7. BooksFit(left, change) /\ BooksSay(left, m0, paper.event, change)
  <2>1. BooksSay(Books, m0, paper.event, change)
    BY DEF SInv, BooksAreSaid
  <2> HIDE DEF m0, out, gone
  <2>2. BooksFit(OutOf(Books, out(in)), change)
    BY <1>2, OutOfTakes
  <2>3. BooksSay(OutOf(Books, out(in)), m0, paper.event, change)
    BY <1>2, <2>1, OutOfSays
  <2> QED BY <2>2, <2>3, <1>2, NamelessKeeps, NamelessSays
<1>8. Balanced(m) /\ Money(paper', person') = m /\ paper'.event = paper.event
  BY <1>1, <1>4 DEF Fits
<1>9. FollowAndWelcome(left, m, p(in, named), u, Welcomed(p(in, named), u))
  BY <1>1, Zenon
<1> HIDE DEF left, m, m0
<1>10. BooksSay(Books', m, paper.event, change')
  BY <1>2, <1>5, <1>6, <1>7, <1>9, FollowAndWelcomeSays, Zenon
<1>11. BooksAreSaid'
  BY <1>8, <1>10 DEF BooksAreSaid
<1>12. IsEven'
  BY <1>1, <1>3, <1>8 DEF IsEven
<1> QED BY <1>11, <1>12

\* Someone taken off leaves an even paper, and those who follow it say so.
LEMMA RemoveSays ==
  ASSUME SInv, RemovePerson
  PROVE  IsEven' /\ BooksAreSaid'
<1> DEFINE u == work.by
           p(gone)    == Reshared(gone)
           out(gone)  == {gone} \cap {v \in Users : UserRow(person, v)}
           left(gone) == Nameless(OutOf(Books, out(gone)), {gone})
<1>1. PICK gone \in OnPaper(person) :
        /\ OnPaper(p(gone)) # {} /\ person' = p(gone)
        /\ FollowAndWelcome(left(gone), Money(paper, p(gone)), p(gone), u, {})
  BY Zenon DEF RemovePerson
<1>2. work.op = "remove" /\ paper.there /\ paper' = paper
  BY DEF RemovePerson, Working, SInv, PInv, LetIn
<1>3. /\ u \in Users /\ gone \in Users /\ paper \in PaperRow /\ Shapes /\ change \in Nat /\ BooksFit(Books, change)
  BY <1>1, PaperBound DEF SInv, PInv, Shapes, WorkRow, OnPaper, BooksAreRows
<1>4. p(gone) \in [Users -> PersonRow]
  BY <1>1, <1>3, ResharedFits
<1>5. Balanced(Money(paper, p(gone))) /\ OffIsNothing(p(gone))
  BY <1>1, <1>2, <1>3, ResharedIsEven DEF SInv, IsEven
<1> HIDE DEF p, u
<1> DEFINE m == Money(paper, p(gone))
           m0 == Money(paper, person)
<1>6. MoneyFits(m)
  BY <1>3, <1>4, MoneyIs DEF PaperRow
<1>7. BooksFit(left(gone), change) /\ BooksSay(left(gone), m0, paper.event, change)
  <2>1. BooksSay(Books, m0, paper.event, change)
    BY DEF SInv, BooksAreSaid
  <2> HIDE DEF m0, out
  <2>2. BooksFit(OutOf(Books, out(gone)), change)
    BY <1>3, OutOfTakes
  <2>3. BooksSay(OutOf(Books, out(gone)), m0, paper.event, change)
    BY <1>3, <2>1, OutOfSays
  <2> QED BY <2>2, <2>3, <1>3, NamelessKeeps, NamelessSays
<1>8. Money(paper', person') = m /\ Balanced(m)
  BY <1>1, <1>2, <1>5
<1>9. FollowAndWelcome(left(gone), m, p(gone), u, {})
  BY <1>1
<1> HIDE DEF left, m, m0
<1>10. BooksSay(Books', m, paper.event, change')
  <2>1. {} \in SUBSET Users
    OBVIOUS
  <2> QED BY <2>1, <1>3, <1>6, <1>7, <1>9, FollowAndWelcomeSays, Zenon
<1>11. BooksAreSaid'
  BY <1>2, <1>8, <1>10 DEF BooksAreSaid
<1>12. IsEven'
  BY <1>1, <1>5, <1>8 DEF IsEven
<1> QED BY <1>11, <1>12

\* A claim and a sync write what the paper says.
LEMMA ClaimAndSyncSay ==
  ASSUME SInv, Claim \/ SyncMyBooks
  PROVE  IsEven' /\ BooksAreSaid'
<1> DEFINE u == work.by
           m == Money(paper, person)
<1>1. UNCHANGED <<paper, person>> /\ change' = change
  BY DEF Claim, SyncMyBooks
<1>2. u \in Users /\ Shapes /\ change' \in Nat /\ paper.event \in BOOLEAN /\ BooksFit(Books, change')
  BY <1>1, PaperBound DEF SInv, PInv, Shapes, WorkRow, PaperRow, BooksAreRows
<1>3. MoneyFits(m) /\ BooksSay(Books, m, paper.event, change')
  BY <1>1, <1>2, MoneyIs DEF Shapes, PaperRow, SInv, BooksAreSaid
<1>4. \E books : BooksFit(books, change') /\ BooksSay(books, m, paper.event, change') /\ Take(books)
  <2>1. CASE Claim
    <3>1. PICK f \in Forms : Take(Claimed(Books, work, m, u, paper.event, f))
      BY <2>1, Zenon DEF Claim
    <3>2. f \in ClaimForm
      BY PaperForms DEF ClaimForm
    <3> HIDE DEF u, m
    <3>3. PICK after : after = Claimed(Books, work, m, u, paper.event, f)
      OBVIOUS
    <3>4. BooksFit(after, change')
      BY <1>2, <1>3, <3>2, <3>3, ClaimAdds
    <3>5. BooksSay(after, m, paper.event, change')
      BY <1>2, <1>3, <3>2, <3>3, ClaimSays
    <3> QED BY <3>1, <3>3, <3>4, <3>5
  <2>2. CASE SyncMyBooks
    <3>1. Take(Synced(Books, m, u, paper.event))
      BY <2>2 DEF SyncMyBooks
    <3> HIDE DEF u, m
    <3>2. BooksFit(Synced(Books, m, u, paper.event), change') /\ BooksSay(Synced(Books, m, u, paper.event), m, paper.event, change')
      BY <1>2, <1>3, SyncMakesNone, SyncSays
    <3> QED BY <3>1, <3>2
  <2> QED BY <2>1, <2>2
<1>5. PICK books : BooksFit(books, change') /\ BooksSay(books, m, paper.event, change') /\ Take(books)
  BY <1>4
<1>6. Books' = books
  BY <1>5, TakenAre
<1> HIDE DEF m
<1>7. BooksAreSaid'
  <2>1. Money(paper', person') = m
    BY <1>1 DEF m
  <2> QED BY <2>1, <1>1, <1>5, <1>6 DEF BooksAreSaid
<1>8. IsEven'
  BY <1>1 DEF SInv, IsEven
<1> QED BY <1>7, <1>8

\* Books that go out say nothing.
LEMMA OutSays ==
  ASSUME SInv, NEW us, Take(OutOf(Books, us))
  PROVE  (\A v \in Users : tx'[v] = tx[v] \/ ~tx'[v].has) /\ parts' \subseteq parts
<1>1. OutOf(Books, us) = [tx |-> [v \in Users |-> IF v \in us THEN NoBook ELSE tx[v]], parts |-> {b \in parts : b.of \notin us}]
  BY DEF OutOf, Books
<1>2. tx' = [v \in Users |-> IF v \in us THEN NoBook ELSE tx[v]] /\ parts' \subseteq parts
  BY <1>1 DEF Take
<1> QED BY <1>2 DEF NoBook

\* Whoever leaves keeps their row, and with the last of them the paper goes.
LEMMA LeaveSays ==
  ASSUME SInv, Leave
  PROVE  IsEven' /\ BooksAreSaid'
<1> DEFINE u == work.by
           heirs == {v \in Users \ {u} : person[v].st = "joined"}
           stays == /\ person' = [person EXCEPT ![u].st = "left"]
                    /\ Take(OutOf(Books, {u}))
                    /\ \E next : paper' = [paper EXCEPT !.owner = next]
<1>1. u \in Users /\ paper \in PaperRow /\ change' = change /\ person = [v \in Users |-> person[v]]
  BY DEF SInv, PInv, Shapes, WorkRow, Leave
<1>2. Deleted \/ stays
  <2>1. \/ Deleted
        \/ /\ person' = [person EXCEPT ![u].st = "left"] /\ Take(OutOf(Books, {u}))
           /\ \E next \in IF paper.owner # u THEN {paper.owner} ELSE IF heirs # {} THEN heirs ELSE {EventOwner} :
                paper' = [paper EXCEPT !.owner = next]
    BY Zenon DEF Leave
  <2> HIDE DEF heirs, u
  <2> QED BY <2>1
<1>3. CASE Deleted
  <2>1. /\ paper' = [paper EXCEPT !.there = FALSE, !.ended = TRUE]
        /\ person' = [v \in Users |-> NoRow] /\ Take(OutOf(Books, Users))
    BY <1>3, Zenon DEF Deleted
  <2>2. ~paper'.there
    BY <2>1, <1>1 DEF PaperRow
  <2>3. IsEven'
    BY <2>1, <2>2 DEF IsEven, OffIsNothing, NoRow
  <2>4. OutOf(Books, Users) = [tx |-> [v \in Users |-> NoBook], parts |-> {b \in parts : b.of \notin Users}]
    BY DEF OutOf, Books
  <2>5. {b \in parts : b.of \notin Users} = {}
    BY DEF SInv, PInv, BooksAreRows, BooksFit, Books, PartRow
  <2>6. Books' = [tx |-> [v \in Users |-> NoBook], parts |-> {}]
    BY <2>1, <2>4, <2>5 DEF Take, Books
  <2>7. BooksAreSaid'
    BY <2>6 DEF BooksAreSaid, BooksSay, TxSays, NoBook
  <2> QED BY <2>3, <2>7
<1>4. CASE stays
  <2>1. paper'.type = paper.type /\ paper'.amount = paper.amount /\ paper'.there = paper.there /\ paper'.event = paper.event
    BY <1>1, <1>4 DEF PaperRow
  <2>2. \A v \in Users : /\ person'[v].share = person[v].share /\ person'[v].paid = person[v].paid
                         /\ person'[v].st = "none" => person[v].st = "none"
    <3>1. /\ person'[u] = [person[u] EXCEPT !.st = "left"]
          /\ \A v \in Users \ {u} : person'[v] = person[v]
      BY <1>1, <1>4
    <3>2. person[u] \in PersonRow
      BY <1>1 DEF SInv, PInv, Shapes
    <3> QED BY <3>1, <3>2 DEF PersonRow
  <2>3. IsEven' /\ Money(paper', person') = Money(paper, person)
    BY <2>1, <2>2, EvenStays DEF SInv
  <2>4. (\A v \in Users : tx'[v] = tx[v] \/ ~tx'[v].has) /\ parts' \subseteq parts
    BY <1>4, OutSays
  <2> QED BY <2>1, <2>3, <2>4, <1>1, SaidStays DEF SInv
<1> QED BY <1>2, <1>3, <1>4

\* A move changes no amount, and nobody has followed it yet.
LEMMA MoveSays ==
  ASSUME SInv, MoveIntoEvent \/ MoveOutOfEvent \/ DeleteEvent
  PROVE  IsEven' /\ BooksAreSaid'
<1>1. UNCHANGED <<tx, parts>> /\ change' = change + 1
  BY DEF MoveIntoEvent, MoveOutOfEvent, DeleteEvent, Changes
<1>2. paper \in PaperRow /\ \A v \in Users : person[v] \in PersonRow
  BY DEF SInv, PInv, Shapes
<1>3. paper'.type = paper.type /\ paper'.amount = paper.amount /\ paper'.there = paper.there
  <2>1. CASE MoveIntoEvent
    BY <2>1, <1>2 DEF MoveIntoEvent, PaperRow
  <2>2. CASE MoveOutOfEvent
    BY <2>2, <1>2 DEF MoveOutOfEvent, PaperRow
  <2>3. CASE DeleteEvent
    BY <2>3, <1>2 DEF DeleteEvent, PaperRow
  <2> QED BY <2>1, <2>2, <2>3
<1> DEFINE kept(st) == \A v \in Users : /\ person'[v] = [person[v] EXCEPT !.st = st[v]]
                                        /\ st[v] = "none" => person[v].st = "none"
<1>4. \E st : kept(st)
  <2>1. CASE MoveIntoEvent
    <3> DEFINE met == {v \in Users : person[v].st \in {"invited", "joined"}}
               st(known) == [v \in Users |->
                               CASE person[v].st = "none" -> "none"
                                 [] v \in met \cup known   -> NewStatus(work.by, v, TRUE, {})
                                 [] OTHER                -> "name"]
    <3>1. PICK known : person' = [v \in Users |-> [person[v] EXCEPT !.st =
                               CASE person[v].st = "none" -> "none"
                                 [] v \in met \cup known   -> NewStatus(work.by, v, TRUE, {})
                                 [] OTHER                -> "name"]]
      BY <2>1, Zenon DEF MoveIntoEvent
    <3>2. \A v \in Users : person'[v] = [person[v] EXCEPT !.st = st(known)[v]]
      BY <3>1
    <3>3. \A v \in Users : st(known)[v] = "none" => person[v].st = "none"
      BY DEF NewStatus
    <3> HIDE DEF st
    <3> QED BY <3>2, <3>3
  <2>2. CASE MoveOutOfEvent \/ DeleteEvent
    <3> DEFINE st == [v \in Users |-> CASE person[v].st = "asked" -> "name" [] person[v].st = "declined" -> "joined"
                                        [] OTHER -> person[v].st]
    <3>1. person' = [v \in Users |-> [person[v] EXCEPT !.st =
                       CASE person[v].st = "asked" -> "name" [] person[v].st = "declined" -> "joined" [] OTHER -> person[v].st]]
      BY <2>2 DEF MoveOutOfEvent, DeleteEvent, PeopleOut
    <3>2. kept(st)
      BY <3>1
    <3> QED BY <3>2
  <2> QED BY <2>1, <2>2
<1>5. PICK st : kept(st)
  BY <1>4
<1>6. \A v \in Users : /\ person'[v].share = person[v].share /\ person'[v].paid = person[v].paid
                       /\ person'[v].st = "none" => person[v].st = "none"
  <2> SUFFICES ASSUME NEW v \in Users
               PROVE  /\ person'[v].share = person[v].share /\ person'[v].paid = person[v].paid
                      /\ person'[v].st = "none" => person[v].st = "none"
    OBVIOUS
  <2>1. person'[v] = [person[v] EXCEPT !.st = st[v]] /\ (st[v] = "none" => person[v].st = "none") /\ person[v] \in PersonRow
    BY <1>2, <1>5
  <2> QED BY <2>1 DEF PersonRow
<1>7. IsEven'
  BY <1>3, <1>6, EvenStays DEF SInv
<1>8. BooksAreSaid'
  BY <1>1, SaidOfNew DEF SInv
<1> QED BY <1>7, <1>8

\* A row that changes hands takes its amounts along.
LEMMA TakenOverIsEven ==
  ASSUME Shapes, OffIsNothing(person), Balanced(Money(paper, person)), NEW from \in OnPaper(person),
         NEW into \in Users, into = from \/ person[into].st = "none", NEW st, st # "none"
  PROVE  Balanced(Money(paper, TakenOver(from, into, st))) /\ OffIsNothing(TakenOver(from, into, st))
<1> DEFINE p == TakenOver(from, into, st)
           paidWas == [v \in Users |-> person[v].paid]
           shareWas == [v \in Users |-> person[v].share]
           paidIs == [v \in Users |-> p[v].paid]
           shareIs == [v \in Users |-> p[v].share]
<1>1. /\ from \in Users /\ IsFiniteSet(Users) /\ (\A v \in Users : person[v] \in PersonRow)
      /\ into # from => person[into].share = 0 /\ person[into].paid = 0
  BY PaperUsers DEF OnPaper, Shapes, OffIsNothing
<1>2. p = [v \in Users |-> IF v = into THEN [person[from] EXCEPT !.st = st]
                           ELSE IF v = from THEN NoRow ELSE person[v]]
  BY <1>1 DEF TakenOver, Shapes
<1>3. /\ p[into].share = person[from].share /\ p[into].paid = person[from].paid /\ p[into].st = st
      /\ from # into => p[from].share = 0 /\ p[from].paid = 0
      /\ \A v \in Users \ {from, into} : p[v] = person[v]
  BY <1>1, <1>2 DEF PersonRow, NoRow
<1> HIDE DEF p
<1>4. \A v \in Users : person[v].paid \in Nat /\ person[v].share \in Nat /\ p[v].paid \in Nat /\ p[v].share \in Nat
  <2>1. \A v \in Users : person[v].paid \in Nat /\ person[v].share \in Nat
    BY <1>1 DEF PersonRow
  <2> QED BY <2>1, <1>1, <1>3
<1>5. SumIn(paidWas, Users) = paper.amount /\ SumIn(shareWas, Users) = paper.amount
  BY BalancedIs
<1>6. OffIsNothing(p)
  BY <1>1, <1>3 DEF OffIsNothing
<1>7. SumIn(paidIs, Users) = SumIn(paidWas, Users) /\ SumIn(shareIs, Users) = SumIn(shareWas, Users)
  <2>1. CASE into = from
    <3>1. paidIs = paidWas /\ shareIs = shareWas
      BY <2>1, <1>3
    <3> QED BY <3>1
  <2>2. CASE into # from
    <3>1. /\ paidIs[from] = 0 /\ paidIs[into] = paidWas[into] + paidWas[from]
          /\ shareIs[from] = 0 /\ shareIs[into] = shareWas[into] + shareWas[from]
      BY <2>2, <1>1, <1>3, <1>4
    <3>2. /\ \A v \in Users \ {from, into} : paidWas[v] = paidIs[v] /\ shareWas[v] = shareIs[v]
          /\ \A v \in Users : /\ paidWas[v] \in Int /\ paidIs[v] \in Int
                              /\ shareWas[v] \in Int /\ shareIs[v] \in Int
      BY <1>3, <1>4
    <3> HIDE DEF paidIs, paidWas, shareIs, shareWas
    <3>3. SumIn(paidIs, Users) = SumIn(paidWas, Users)
      BY <3>1, <3>2, <2>2, <1>1, HandedOn
    <3>4. SumIn(shareIs, Users) = SumIn(shareWas, Users)
      BY <3>1, <3>2, <2>2, <1>1, HandedOn
    <3> QED BY <3>3, <3>4
  <2> QED BY <2>1, <2>2
<1>8. Balanced(Money(paper, p))
  BY <1>5, <1>7, BalancedIs
<1> QED BY <1>6, <1>8 DEF p

\* A merge leaves an even paper, and nobody has followed it yet.
LEMMA MergeSays ==
  ASSUME SInv, NEW from \in Users, NEW into \in Users, MergeMembers(from, into)
  PROVE  IsEven' /\ BooksAreSaid'
<1>1. /\ paper' = paper /\ tx' = tx /\ change' = change + 1 /\ paper.there /\ from \in OnPaper(person)
      /\ parts' = IF into = from THEN parts ELSE Repointed(parts, from, into)
  BY DEF MergeMembers, OnPaper
<1>2. Shapes /\ OffIsNothing(person) /\ Balanced(Money(paper, person)) /\ change \in Nat /\ BooksFit(Books, change)
  BY <1>1, PaperBound DEF SInv, PInv, Shapes, IsEven, BooksAreRows
<1>3. Balanced(Money(paper, person')) /\ OffIsNothing(person')
  <2>1. CASE into # from /\ person[into].st # "none" /\ person' = Merged(from, into)
    <3>1. into \in OnPaper(person) \ {from}
      BY <2>1 DEF OnPaper
    <3> QED BY <3>1, <2>1, <1>1, <1>2, MergedIsEven
  <2>2. ASSUME into = from \/ person[into].st = "none", NEW st \in TakesAs(from, into), person' = TakenOver(from, into, st)
        PROVE  Balanced(Money(paper, person')) /\ OffIsNothing(person')
    <3>1. st # "none"
      BY <2>2 DEF TakesAs
    <3> QED BY <3>1, <2>2, <1>1, <1>2, TakenOverIsEven
  <2> QED BY <2>1, <2>2 DEF MergeMembers
<1>4. IsEven'
  BY <1>1, <1>3 DEF IsEven, OffIsNothing
<1>5. \A v \in Users : TxSays(tx[v], Money(paper', person'), v, paper.event, change')
  <2> SUFFICES ASSUME NEW v \in Users, tx[v].has PROVE tx[v].amount \in Nat /\ tx[v].at # change'
    BY DEF TxSays
  <2>1. tx[v].amount \in Nat
    BY DEF SInv, BooksAreSaid, BooksSay, TxSays, Books
  <2>2. tx[v].at \in 0 .. change
    BY <1>2 DEF BooksFit, Books
  <2> QED BY <2>1, <2>2, <1>1, <1>2
<1>6. \A b \in parts' : b.at # change'
  <2> SUFFICES ASSUME NEW b \in parts' PROVE b.at # change'
    OBVIOUS
  <2>1. PICK x \in parts : x.at = b.at
    <3>1. CASE into = from
      BY <3>1, <1>1
    <3>2. CASE into # from
      BY <3>2, <1>1, <1>2, RepointedAre
    <3> QED BY <3>1, <3>2
  <2>2. x \in PartRow /\ x.at <= change
    BY <1>2 DEF BooksFit, Books
  <2>3. x.at \in Nat
    BY <2>2 DEF PartRow
  <2> QED BY <2>1, <2>2, <2>3, <1>1, <1>2
<1>7. BooksAreSaid'
  BY <1>1, <1>5, <1>6 DEF BooksAreSaid, BooksSay, PartSays, Books
<1> QED BY <1>4, <1>7

\* All other steps leave the amounts, and take books away at most.
LEMMA OthersSay ==
  ASSUME SInv, \/ \E op \in Ops, u \in Users : Begin(op, u)
               \/ GiveUp \/ AnswerInvite \/ Complete
               \/ \E u \in Users : AcceptEventInvite(u)
               \/ \E u \in Users : MemberOut(u)
               \/ \E u \in Users : UnlinkMyTransaction(u)
               \/ \E b \in parts : UnlinkMyDebt(b)
               \/ UNCHANGED vars
  PROVE  IsEven' /\ BooksAreSaid'
<1>1. /\ change' = change /\ paper'.type = paper.type /\ paper'.amount = paper.amount /\ paper'.there = paper.there
      /\ paper'.event = paper.event
  <2>1. CASE Complete
    <3>1. paper \in PaperRow
      BY DEF SInv, PInv, Shapes
    <3> QED BY <2>1, <3>1 DEF Complete, PaperRow
  <2>2. CASE ~Complete
    BY <2>2 DEF Begin, GiveUp, AnswerInvite, AcceptEventInvite, MemberOut, UnlinkMyTransaction, UnlinkMyDebt, vars
  <2> QED BY <2>1, <2>2
<1>2. /\ person = [v \in Users |-> person[v]] /\ tx = [v \in Users |-> tx[v]] /\ work.by \in Users
      /\ \A v \in Users : person[v] \in PersonRow
  BY DEF SInv, PInv, Shapes, BooksAreRows, BooksFit, Books, WorkRow
<1>3. person' = person \/ \E u \in Users, st \in Statuses \ {"none"} : \/ person' = [person EXCEPT ![u].st = st]
                                                                   \/ person' = [person EXCEPT ![u].st = person[u].st]
  <2>1. CASE AnswerInvite
    BY <2>1, <1>2 DEF AnswerInvite, Statuses
  <2>2. ASSUME NEW u \in Users, AcceptEventInvite(u)
        PROVE  person' = [person EXCEPT ![u].st = "joined"] \/ person' = [person EXCEPT ![u].st = person[u].st]
    BY <2>2 DEF AcceptEventInvite
  <2>3. "joined" \in Statuses \ {"none"}
    BY DEF Statuses
  <2>4. CASE ~(AnswerInvite \/ \E u \in Users : AcceptEventInvite(u))
    BY <2>4 DEF Begin, GiveUp, Complete, MemberOut, UnlinkMyTransaction, UnlinkMyDebt, vars
  <2> QED BY <2>1, <2>2, <2>3, <2>4
<1>4. \A v \in Users : /\ person'[v].share = person[v].share /\ person'[v].paid = person[v].paid
                       /\ person'[v].st = "none" => person[v].st = "none"
  <2> SUFFICES ASSUME NEW u \in Users, NEW st, st # "none" \/ st = person[u].st, person' = [person EXCEPT ![u].st = st]
               PROVE  \A v \in Users : /\ person'[v].share = person[v].share /\ person'[v].paid = person[v].paid
                                       /\ person'[v].st = "none" => person[v].st = "none"
    BY <1>3
  <2>1. person'[u] = [person[u] EXCEPT !.st = st] /\ \A v \in Users \ {u} : person'[v] = person[v]
    BY <1>2
  <2>2. person[u] \in PersonRow
    BY <1>2
  <2> QED BY <2>1, <2>2 DEF PersonRow
<1>5. IsEven' /\ Money(paper', person') = Money(paper, person)
  BY <1>1, <1>4, EvenStays DEF SInv
<1>6. (\A v \in Users : tx'[v] = tx[v] \/ ~tx'[v].has) /\ parts' \subseteq parts
  <2>1. ASSUME NEW u \in Users, MemberOut(u)
        PROVE  (\A v \in Users : tx'[v] = tx[v] \/ ~tx'[v].has) /\ parts' \subseteq parts
    <3>1. Take(OutOf(Books, {u})) \/ UNCHANGED <<tx, parts>>
      BY <2>1 DEF MemberOut
    <3> QED BY <3>1, OutSays
  <2>2. ASSUME NEW u \in Users, UnlinkMyTransaction(u)
        PROVE  (\A v \in Users : tx'[v] = tx[v] \/ ~tx'[v].has) /\ parts' \subseteq parts
    BY <2>2, <1>2 DEF UnlinkMyTransaction, NoBook
  <2>3. ASSUME NEW b \in parts, UnlinkMyDebt(b)
        PROVE  (\A v \in Users : tx'[v] = tx[v] \/ ~tx'[v].has) /\ parts' \subseteq parts
    BY <2>3 DEF UnlinkMyDebt
  <2>4. CASE ~(\/ \E u \in Users : MemberOut(u) \/ UnlinkMyTransaction(u)
               \/ \E b \in parts : UnlinkMyDebt(b))
    BY <2>4 DEF Begin, GiveUp, AnswerInvite, Complete, AcceptEventInvite, vars
  <2> QED BY <2>1, <2>2, <2>3, <2>4
<1>7. BooksAreSaid'
  BY <1>1, <1>5, <1>6, SaidStays DEF SInv
<1> QED BY <1>5, <1>7

\* At first there is no paper.
LEMMA SaidAtFirst == Init => SInv
<1> SUFFICES ASSUME Init PROVE SInv
  OBVIOUS
<1>1. PInv
  BY PapersStart
<1>2. IsEven
  BY DEF Init, IsEven, OffIsNothing, NoRow
<1>3. BooksAreSaid
  BY DEF Init, BooksAreSaid, BooksSay, TxSays, Books, NoBook
<1> QED BY <1>1, <1>2, <1>3 DEF SInv

\* Every step keeps it.
LEMMA SaidStep == SInv /\ [Next]_vars => SInv'
<1> SUFFICES ASSUME SInv, [Next]_vars PROVE SInv'
  OBVIOUS
<1>1. PInv'
  BY PapersStep DEF SInv
<1>2. IsEven' /\ BooksAreSaid'
  <2>1. CASE \E u \in Creators, in \in Inputs, event \in BOOLEAN, named \in SUBSET Users :
          CreatePaper(u, in, event, named)
    BY <2>1, CreateSays
  <2>2. CASE UpdatePaper \/ RemovePerson \/ Claim \/ SyncMyBooks \/ Leave
    BY <2>2, UpdateSays, RemoveSays, ClaimAndSyncSay, LeaveSays
  <2>3. CASE MoveIntoEvent \/ MoveOutOfEvent \/ DeleteEvent
    BY <2>3, MoveSays
  <2>5. CASE \E from, into \in Users : MergeMembers(from, into)
    BY <2>5, MergeSays
  <2>4. CASE \/ \E op \in Ops, u \in Users : Begin(op, u)
             \/ GiveUp \/ AnswerInvite \/ Complete
             \/ \E u \in Users : AcceptEventInvite(u)
             \/ \E u \in Leavers : MemberOut(u)
             \/ \E u \in Unlinkers : UnlinkMyTransaction(u)
             \/ \E b \in parts : b.of \in Unlinkers /\ UnlinkMyDebt(b)
             \/ UNCHANGED vars
    <3>1. Leavers \subseteq Users /\ Unlinkers \subseteq Users
      BY PaperActors
    <3> QED BY <2>4, <3>1, OthersSay
  <2> QED BY <2>1, <2>2, <2>3, <2>4, <2>5 DEF Next
<1> QED BY <1>1, <1>2 DEF SInv

\* A paper is even after every request, and whatever followed its last change says the
\* paper's amounts (paper_lifecycle.go, paper_book.go, paper_debts.go): a transaction those
\* of its branch, a part of a debt the pair's net.
THEOREM ReadInSync == Spec => []SyncedReadsInSync
<1>1. SInv => SyncedReadsInSync
  BY DEF SInv, IsEven, BooksAreSaid, BooksSay, TxSays, PartSays, Books, SyncedReadsInSync
<1> QED BY <1>1, SaidAtFirst, SaidStep, PTL DEF Spec
=============================================================================
