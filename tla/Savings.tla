------------------------------- MODULE Savings -------------------------------
(***************************************************************************)
(* Saving goals (internal/modules/saving_goals, shared/savings.go): money  *)
(* of wallets that is set aside in buckets, the spare pot and the goals.   *)
(* Every entry moves money between two buckets of one wallet.  Writes of   *)
(* entries take the user's advisory lock before they look; an update of a  *)
(* goal, a check that records a saving, and whoever sets a recurring       *)
(* saving on a goal look before they take it, or without it: `looked' is   *)
(* the one that has, and so is a request that waits with the lock in its   *)
(* hands.                                                                  *)
(***************************************************************************)
EXTENDS Integers, FiniteSets, FiniteSetsExt

CONSTANTS
  Goals, Wallets,   \* "" is money with no wallet
  SavingIds,        \* bound: the entries there may ever be
  Sums,             \* bound: the amounts asked for
  Deposits,         \* bound: what was saved before, sets of [id, wallet, goal, amount]
  Targets           \* bound: the goals' targets, 0 for none

Available == "available"
Spare     == "spare"
Pots      == Goals \cup {Spare}
Pockets   == Wallets \cup {""}

ASSUME SavingBuckets == Available \notin Goals /\ Spare \notin Goals
ASSUME SavingBounds  == IsFiniteSet(Goals) /\ IsFiniteSet(Wallets) /\ IsFiniteSet(SavingIds)
ASSUME SavingAmounts == Sums \subseteq Nat /\ Targets \subseteq Nat
ASSUME DepositsAreSums ==
  \A d \in UNION Deposits : d.wallet \in Pockets /\ d.goal \in Pots /\ d.amount \in Nat

VARIABLES
  goal,     \* saving_goals: [st, target]
  saving,   \* saving_entries: [st, wallet, from, to, amount]
  plans,    \* the goal's recurring settings of type saving
  looked,   \* the request between its look and its write
  loose,    \* history: goals an update wrote as it had read them before another write, or whose
            \* entries were edited after they were closed or deleted
  hasty     \* history: goals whose saving was set by one who saw them active when they no longer
            \* were, and that have not been closed since

savingVars == <<goal, saving, plans, looked, loose, hasty>>

NoGoal   == [st |-> "none", target |-> 0]
NoSaving == [st |-> "new", wallet |-> "", from |-> Available, to |-> Spare, amount |-> 0]
NoLook   == [op |-> "none", locked |-> FALSE]

GoalRow   == [st : {"none", "active", "completed", "archived", "gone"}, target : Nat]
SavingRow == [st : {"new", "live", "gone"}, wallet : Pockets, from : Pots \cup {Available},
              to : Pots \cup {Available}, amount : Nat]

-----------------------------------------------------------------------------
(* What the entries come to.                                               *)

\* SavingBalancesSQL: amounts, summed.
Summed(f) == MapThenSumSet(LAMBDA x : f[x], DOMAIN f)

\* A goal that is gone leaves its entries without one (ON DELETE SET NULL): one bucket.
Pot(b) == IF b \in Goals /\ goal[b].st = "gone" THEN {g \in Goals : goal[g].st = "gone"} ELSE {b}
Moved(w, b, side) ==
  LET es == {e \in SavingIds : saving[e].st = "live" /\ saving[e].wallet = w
                               /\ (IF side = "to" THEN saving[e].to ELSE saving[e].from) \in Pot(b)}
  IN Summed([e \in es |-> saving[e].amount])
\* bucketBalances, LoadSavingBalances.
Held(w, b) == Moved(w, b, "to") - Moved(w, b, "from")
Saved(b)   == Summed([w \in Pockets |-> Held(w, b)])

\* checkNoNegative, on the entries as they are after the write.
NoNegative(wallet) == \A w \in {wallet}, b \in Pots : (Held(w, b))' >= 0

\* splitsFor, asked: one amount per wallet that holds it.
AskedSplits(b, amount) ==
  {s \in [Pockets -> 0..amount] : /\ Summed(s) = amount
                                  /\ \A w \in Pockets : s[w] <= Held(w, b)}

\* splitsFor, not asked: from the fullest wallet on.
Before(b, v, w) == Held(v, b) > Held(w, b) \/ (Held(v, b) = Held(w, b) /\ v # w /\ w # "")
FullestFirst(b, amount) ==
  LET Least(x, y) == IF x < y THEN x ELSE y
      Most(x, y) == IF x > y THEN x ELSE y
      taken(w) == Summed([v \in {p \in Pockets : Before(b, p, w)} |-> Most(Held(v, b), 0)])
  IN [w \in Pockets |-> Least(Most(Held(w, b), 0), Most(amount - taken(w), 0))]

SplitsFor(b, amount) == IF amount > Saved(b) THEN {} ELSE AskedSplits(b, amount) \cup {FullestFirst(b, amount)}

-----------------------------------------------------------------------------
(* The pages: goalView, longTermTotals, SavingTotalsOf.                    *)

Target(g)  == goal[g].target
Live(g)    == goal[g].st \notin {"none", "gone"}
Reached(g) == Target(g) > 0 /\ Saved(g) >= Target(g)

Offers(g) ==
  [save |-> goal[g].st = "active", close |-> goal[g].st = "active",
   withdraw |-> goal[g].st = "active" /\ Saved(g) > 0,
   archive |-> goal[g].st # "archived", restore |-> goal[g].st # "active", delete |-> Saved(g) <= 0]

CountedGoals(status) == {g \in Goals : goal[g].st = status}
Ring(status) ==
  LET listed == {g \in CountedGoals(status) : Target(g) > 0 /\ status = "active"}
      capped(g) == IF Saved(g) < 0 THEN 0 ELSE IF Saved(g) > Target(g) THEN Target(g) ELSE Saved(g)
  IN [target |-> Summed([g \in listed |-> Target(g)]), saved |-> Summed([g \in listed |-> capped(g)]),
      done |-> Cardinality({g \in CountedGoals(status) : status = "completed" \/ Reached(g)}),
      noTarget |-> Cardinality({g \in CountedGoals(status) : status # "completed" /\ Target(g) = 0}),
      short |-> Cardinality({g \in CountedGoals(status) : status # "completed" /\ Target(g) > 0 /\ ~Reached(g)})]

\* CountedSavings: the pots but for archived goals; those that are gone are one.
CountedPots ==
  LET gone == {g \in Goals : goal[g].st = "gone"}
  IN {Spare} \cup {g \in Goals : goal[g].st \in {"active", "completed"}}
             \cup (IF gone = {} THEN {} ELSE {CHOOSE g \in gone : TRUE})

SavingTotals ==
  [inGoals |-> Summed([b \in CountedPots \ {Spare} |-> Saved(b)]), spare |-> Saved(Spare),
   saved |-> Summed([b \in CountedPots |-> Saved(b)])]

\* LoadWalletSavings: what a wallet's page says is set aside in it.
WalletSaved(w) == Summed([b \in CountedPots |-> Held(w, b)])

-----------------------------------------------------------------------------
\* The ids of the next n entries; which ids they are does not matter.
NewSavings(n) ==
  LET new == {e \in SavingIds : saving[e].st = "new"}
      first == CHOOSE s \in SUBSET new : Cardinality(s) = n
  IN IF Cardinality(new) < n THEN {} ELSE {first}

\* insertEntry, one row per wallet that gives.
Booked(split, from, to) ==
  \E givers \in {{w \in Pockets : split[w] > 0}} : \E ids \in NewSavings(Cardinality(givers)) :
    \E owner \in {CHOOSE o \in [ids -> givers] : \A w \in givers : \E e \in ids : o[e] = w} :
      saving' = [e \in SavingIds |-> IF e \notin ids THEN saving[e] ELSE
        [st |-> "live", wallet |-> owner[e], from |-> from, to |-> to, amount |-> split[owner[e]]]]

\* Mutant: the advisory lock is not taken.
Unlocked_Always == TRUE

\* lockUser: it waits while another request holds it.
Unlocked == ~looked.locked

CreateGoal(g, target) ==
  /\ goal[g] = NoGoal
  /\ goal' = [goal EXCEPT ![g] = [st |-> "active", target |-> target]]
  /\ UNCHANGED <<saving, plans, looked, loose, hasty>>

\* Update: the whole row is read on the pool, and written as it was read.
ReadGoal(g) ==
  /\ looked = NoLook /\ Live(g)
  /\ looked' = [op |-> "update", locked |-> FALSE, g |-> g, row |-> goal[g]]
  /\ UNCHANGED <<goal, saving, plans, loose, hasty>>
UpdateGoal(target) ==
  /\ looked.op = "update" /\ looked' = NoLook
  /\ goal' = IF Live(looked.g) THEN [goal EXCEPT ![looked.g] = [looked.row EXCEPT !.target = target]] ELSE goal
  /\ loose' = IF Live(looked.g) /\ looked.row.st # goal[looked.g].st THEN loose \cup {looked.g} ELSE loose
  /\ UNCHANGED <<saving, plans, hasty>>

\* Delete: nothing saved; its settings go with it, its entries keep no goal.
DeleteGoal(g) ==
  /\ Unlocked /\ Live(g) /\ Saved(g) <= 0
  /\ goal' = [goal EXCEPT ![g] = [st |-> "gone", target |-> 0]]
  /\ plans' = [plans EXCEPT ![g] = "none"]
  /\ UNCHANGED <<saving, looked, loose, hasty>>

\* pauseSavingRulesTx; restoring resumes none.
Paused(g) == [plans EXCEPT ![g] = IF @ = "active" THEN "paused" ELSE @]

\* Archive and Restore.
SetGoalStatus(g, st) ==
  /\ Unlocked /\ Live(g) /\ goal[g].st # st /\ st \in {"active", "archived"}
  /\ goal' = [goal EXCEPT ![g].st = st]
  /\ plans' = IF st = "active" THEN plans ELSE Paused(g)
  /\ hasty' = IF st = "active" THEN hasty ELSE hasty \ {g}
  /\ UNCHANGED <<saving, looked, loose>>

\* What leaves a goal that is closed: all each wallet holds in it.
Emptied(g) == [w \in Pockets |-> IF Held(w, g) > 0 THEN Held(w, g) ELSE 0]

CloseGoal(g, to) ==
  /\ Unlocked /\ goal[g].st = "active"
  /\ Booked(Emptied(g), g, to)
  /\ goal' = [goal EXCEPT ![g].st = "completed"]
  /\ plans' = Paused(g)
  /\ hasty' = hasty \ {g}
  /\ UNCHANGED <<looked, loose>>

\* checkGoalTarget.
Into(b) == b \in Goals => goal[b].st = "active"

\* createEntriesTx: what is looked at and inserted is one step under the lock, or the
\* request is caught in between.
Save(w, b, amount) ==
  /\ Into(b)
  /\ Booked([p \in Pockets |-> IF p = w THEN amount ELSE 0], Available, b)
  /\ UNCHANGED <<goal, plans, loose, hasty>>

SaveEntry(w, b, amount) == Unlocked /\ b \in Pots /\ Save(w, b, amount) /\ UNCHANGED looked

\* A withdrawal (to the wallets) or a move.
LookToMove(from, to, amount) ==
  /\ Unlocked /\ looked = NoLook /\ from # to /\ Into(to)
  /\ from \in Goals => Live(from)
  /\ \E split \in SplitsFor(from, amount) :
       looked' = [op |-> "move", locked |-> TRUE, from |-> from, to |-> to, split |-> split]
  /\ UNCHANGED <<goal, saving, plans, loose, hasty>>
MoveEntries ==
  /\ looked.op = "move" /\ looked' = NoLook
  /\ Booked(looked.split, looked.from, looked.to)
  /\ UNCHANGED <<goal, plans, loose, hasty>>

\* recordSavingTx, SaveFromDraftTx: the goal's status and what is left to the target are read before the lock.
LookToFill(g, amount) ==
  /\ looked = NoLook /\ plans[g] = "active" /\ goal[g].st = "active" /\ ~Reached(g)
  /\ LET left == Target(g) - Saved(g)
     IN looked' = [op |-> "fill", locked |-> FALSE, g |-> g,
                   amount |-> IF Target(g) > 0 /\ left < amount THEN left ELSE amount]
  /\ UNCHANGED <<goal, saving, plans, loose, hasty>>
FillOccurrence(w) ==
  /\ looked.op = "fill" /\ looked' = NoLook
  /\ Save(w, looked.g, looked.amount)

\* The one that looked fails, or its caller is gone.
GiveUp ==
  /\ looked # NoLook /\ looked' = NoLook
  /\ UNCHANGED <<goal, saving, plans, loose, hasty>>

Edited(e) == loose' = loose \cup {g \in Goals : goal[g].st \in {"completed", "gone"} /\ g \in {saving[e].from, saving[e].to}}

\* updateEntryTx.
UpdateEntry(e, amount) ==
  /\ Unlocked /\ saving[e].st = "live" /\ saving[e].amount # amount
  /\ saving' = [saving EXCEPT ![e].amount = amount]
  /\ UNCHANGED <<goal, plans, looked, hasty>> /\ Edited(e)
  /\ NoNegative(saving[e].wallet)

\* deleteEntryTx (the occurrence it fills turns skipped, as in Slots).
DeleteEntry(e) ==
  /\ Unlocked /\ saving[e].st = "live"
  /\ saving' = [saving EXCEPT ![e] = [NoSaving EXCEPT !.st = "gone"]]
  /\ UNCHANGED <<goal, plans, looked, hasty>> /\ Edited(e)
  /\ NoNegative(saving[e].wallet)

\* A recurring saving is set on the goal, moved to it, or resumed: checkSavingTx reads the
\* goal's status with no lock, and the setting is written later.  A close or an archive in
\* between does not see it (it is paused, on another goal, or not yet there); a goal that is
\* deleted takes it along.
LookToPlan(g) ==
  /\ looked = NoLook /\ goal[g].st = "active" /\ plans[g] # "active"
  /\ looked' = [op |-> "plan", locked |-> FALSE, g |-> g]
  /\ UNCHANGED <<goal, saving, plans, loose, hasty>>
PlanSaving ==
  /\ looked.op = "plan" /\ looked' = NoLook
  /\ Live(looked.g)
  /\ plans' = [plans EXCEPT ![looked.g] = "active"]
  /\ hasty' = IF goal[looked.g].st = "active" THEN hasty ELSE hasty \cup {looked.g}
  /\ UNCHANGED <<goal, saving, loose>>

\* The first entries: those that were saved before, or were and are gone again.
SavingsInit ==
  /\ \E t \in Targets, ds \in Deposits :
       /\ goal = [g \in Goals |-> IF \E d \in ds : d.goal = g THEN [st |-> "active", target |-> t] ELSE NoGoal]
       /\ saving = [e \in SavingIds |->
            IF \E d \in ds : d.id = e
            THEN LET d == CHOOSE d \in ds : d.id = e
                 IN [st |-> "live", wallet |-> d.wallet, from |-> Available, to |-> d.goal, amount |-> d.amount]
            ELSE IF \E d \in UNION Deposits : d.id = e THEN [NoSaving EXCEPT !.st = "gone"] ELSE NoSaving]
  /\ plans = [g \in Goals |-> "none"]
  /\ looked = NoLook /\ loose = {} /\ hasty = {}

SavingsNext ==
  \/ \E g \in Goals :
       \/ \E t \in Targets : CreateGoal(g, t)
       \/ ReadGoal(g) \/ DeleteGoal(g) \/ LookToPlan(g)
       \/ \E st \in {"active", "archived"} : SetGoalStatus(g, st)
       \/ \E to \in {Spare, Available} : CloseGoal(g, to)
       \/ \E a \in Sums : LookToFill(g, a)
  \/ \E t \in Targets : UpdateGoal(t)
  \/ \E w \in Pockets, b \in Pots, a \in Sums : SaveEntry(w, b, a)
  \/ \E from \in Pots, to \in Pots \cup {Available}, a \in Sums : LookToMove(from, to, a)
  \/ MoveEntries \/ PlanSaving \/ GiveUp
  \/ \E w \in Pockets : FillOccurrence(w)
  \/ \E e \in SavingIds : DeleteEntry(e) \/ \E a \in Sums : UpdateEntry(e, a)

-----------------------------------------------------------------------------
SavingsTypeOK ==
  /\ goal \in [Goals -> GoalRow] /\ saving \in [SavingIds -> SavingRow]
  /\ plans \in [Goals -> {"none", "active", "paused"}]
  /\ looked.op \in {"none", "update", "move", "fill", "plan"}

\* No pot owes a wallet money: what leaves it was in it, whatever was edited or deleted
\* since (splitsFor and checkNoNegative under the user's lock); so no list of goals has more
\* saved than it aims for, or less than nothing.  The wallets' pages say together what the
\* totals say.
NothingOverdrawn ==
  /\ SavingsTypeOK
  /\ \A w \in Pockets, b \in Pots : Held(w, b) >= 0
  /\ \A st \in {"active", "completed", "archived"} : Ring(st).saved \in 0..Ring(st).target
  /\ Summed([w \in Pockets |-> WalletSaved(w)]) = SavingTotals.saved

\* A closed goal is over: its money is out, so that the goals' total is what active ones hold,
\* none of its recurring savings runs, and one that a check had begun to record goes nowhere;
\* unless an update wrote back an older status or an entry of it was edited, and, of what runs,
\* unless a saving was set by one who had seen the goal active (Close, archive, checkSavingTx).
ClosedIsOver ==
  /\ loose = {} => SavingTotals.inGoals = Summed([g \in CountedGoals("active") |-> Saved(g)])
  /\ \A g \in Goals \ (loose \cup hasty) : Live(g) /\ ~Offers(g).save => plans[g] # "active"
=============================================================================
