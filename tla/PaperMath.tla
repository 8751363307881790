------------------------------ MODULE PaperMath -----------------------------
(***************************************************************************)
(* What a paper (a bill several people share) says of money: equal shares, *)
(* who owes whom, what my own books should hold, and how an event settles  *)
(* (internal/shared/paper.go, internal/modules/projects/lump.go).          *)
(*                                                                         *)
(* Money is a number of cents.  A paper here is [type, amount, share,      *)
(* paid], share and paid being functions of the persons it may name.       *)
(***************************************************************************)
EXTENDS Naturals, Integers, FiniteSets, FiniteSetsExt

PaperTypes == {"expense", "income", "payback"}

Abs(n) == IF n < 0 THEN -n ELSE n

\* round2 of n/d, for n >= 0.
Round(n, d) == (2 * n + d) \div (2 * d)

Total(f) == MapThenSumSet(LAMBDA p : f[p], DOMAIN f)

\* The amount over `on' in equal shares; the cents left over go to the lead.
EqualShares(amount, on, lead) ==
  LET n == Cardinality(on)
      each == amount \div n
  IN [p \in on |-> IF p = lead THEN each + amount - each * n ELSE each]

Balanced(paper) == Total(paper.share) = paper.amount /\ Total(paper.paid) = paper.amount

\* Everyone with a share owes each payer share * paid / amount; income is flipped.
PairAmount(paper, sharer, payer) ==
  IF sharer = payer \/ paper.amount <= 0 \/ paper.share[sharer] <= 0 \/ paper.paid[payer] <= 0
  THEN 0 ELSE Round(paper.share[sharer] * paper.paid[payer], paper.amount)

\* What d owes c on the paper, before c's debts to d.
Owes(paper, d, c) ==
  IF paper.type = "income" THEN PairAmount(paper, c, d) ELSE PairAmount(paper, d, c)

\* What I owe the other, net (negative: they owe me).
NetOf(paper, me, other) == Owes(paper, me, other) - Owes(paper, other, me)

Creditors(paper, me) == {p \in DOMAIN paper.share : NetOf(paper, me, p) > 0}
Partners(paper, me)  == {p \in DOMAIN paper.share : NetOf(paper, me, p) # 0}

\* What my books hold of the paper.  payDebt: I owe the payers, rather than
\* having settled from my wallet.  An event bill plans debts only when asked.
PlanFor(paper, me, event, payDebt, eventDebts) ==
  LET owe  == MapThenSumSet(LAMBDA p : NetOf(paper, me, p), Creditors(paper, me))
      row(p) == [with |-> p, amount |-> Abs(NetOf(paper, me, p)),
                 iOwe |-> IF paper.type = "payback" THEN NetOf(paper, me, p) < 0
                          ELSE NetOf(paper, me, p) > 0]
      rows == {row(p) : p \in Partners(paper, me)}
  IN IF paper.type = "payback"
     THEN [ok |-> rows # {}, tx |-> FALSE, amount |-> 0, my |-> 0, wallet |-> FALSE,
           debts |-> {}, repayments |-> rows]
     ELSE [ok |-> paper.share[me] > 0 \/ paper.paid[me] > 0,
           tx |-> paper.share[me] > 0 \/ paper.paid[me] > 0,
           amount |-> IF paper.paid[me] = 0 THEN paper.share[me]
                      ELSE IF event \/ payDebt THEN paper.paid[me]
                      ELSE paper.paid[me] + owe,
           my |-> paper.share[me],
           wallet |-> paper.paid[me] > 0 \/ ~payDebt,
           debts |-> IF event /\ ~eventDebts THEN {}
                     ELSE {r \in rows : ~(r.iOwe /\ ~payDebt)},
           repayments |-> {}]

\* My transaction holds what the paper says now, on either branch of the claim.
TxInSync(paper, me, event, amount, my) ==
  \E payDebt \in BOOLEAN :
    LET plan == PlanFor(paper, me, event, payDebt, FALSE)
    IN plan.ok /\ plan.tx /\ plan.amount = amount /\ plan.my = my

-----------------------------------------------------------------------------
(* Settling an event: papers, by id, over the same members.                *)

PairNet(papers, a, b) == MapThenSumSet(LAMBDA p : NetOf(papers[p], a, b), DOMAIN papers)

\* What each member is to receive over all papers (negative: to pay).
MemberNets(papers, members) ==
  [m \in members |-> -MapThenSumSet(LAMBDA o : PairNet(papers, m, o), members)]

\* The largest amount, the first id among equals.
Largest(bal, ids) ==
  CHOOSE m \in ids : \A o \in ids : bal[m] > bal[o] \/ (bal[m] = bal[o] /\ m <= o)

\* Mutant: the creditor is still owed what was paid.
PayOff_OneSide(net, d, c) ==
  LET pay == IF -net[d] < net[c] THEN -net[d] ELSE net[c] IN [net EXCEPT ![d] = @ + pay]

\* One payment: the smaller of what d owes and c is owed.
PayOff(net, d, c) ==
  LET pay == IF -net[d] < net[c] THEN -net[d] ELSE net[c]
  IN [net EXCEPT ![d] = @ + pay, ![c] = @ - pay]

\* The moves that even everyone out: the largest debtor pays the largest
\* creditor until one side is empty.
SimplifyNets(nets) ==
  LET members == DOMAIN nets
      settle[net \in [members -> Int]] ==
        LET debtors   == {m \in members : net[m] < 0}
            creditors == {m \in members : net[m] > 0}
            d == Largest([m \in members |-> -net[m]], debtors)
            c == Largest(net, creditors)
            after == PayOff(net, d, c)
            rest == settle[after]
        IN IF debtors = {} \/ creditors = {} THEN [left |-> net, moves |-> {}]
           ELSE [rest EXCEPT !.moves = @ \cup {[from |-> d, to |-> c, amount |-> after[d] - net[d]]}]
  IN settle[nets]
=============================================================================
