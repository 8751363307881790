------------------------------- MODULE Home -------------------------------
(***************************************************************************)
(* The parts of a user's own household, side by side: saving goals         *)
(* (Savings), budgets (Budgets), the dates of recurring items (Calendar),  *)
(* chat cards and the pending page (Drafts), the answers of a model that   *)
(* become chat cards (Answers), contacts (Contacts), the tree of           *)
(* categories (Categories), how one signs in (SignIn), and what an app     *)
(* keeps (Sync).  Each keeps its own tables and takes no step of           *)
(* another's, so that a step of one leaves the others as they are, and     *)
(* what each promises speaks of its own state alone.  A behaviour          *)
(* therefore follows one part, which `focus' names; the others stay at one *)
(* of their starts.                                                        *)
(***************************************************************************)
EXTENDS Savings, Budgets, Drafts, Answers, Contacts, Categories, SignIn, Sync

CONSTANTS
  DateRules,    \* bound: recurring rules
  Windows,      \* bound: [today, from, to], what is asked of a rule's dates
  PeriodDays    \* bound: days whose period is looked for

VARIABLES
  focus,        \* bound: the part that is followed
  asked         \* the rule and the window whose dates are asked for

homeVars == <<focus, asked, savingVars, budgetVars, draftVars, answerVars, contactVars, catVars, signInVars, syncVars>>

Parts == {"savings", "budgets", "dates", "drafts", "answers", "contacts", "categories", "signin", "sync"}

AnyOf(set) == CHOOSE x \in set : TRUE

-----------------------------------------------------------------------------
DatesInit ==
  asked \in IF focus = "dates" THEN [rule : DateRules, window : Windows]
            ELSE {[rule |-> AnyOf(DateRules), window |-> AnyOf(Windows)]}

\* Of the parts with several starts, those that are not followed keep to one.
OneStart ==
  /\ focus # "savings"  => \A e \in SavingIds : saving[e].st # "live"
  /\ focus # "drafts"   => \A r \in RowIds : rows[r] = NoRow
  /\ focus # "answers"  => lists = AnyOf(ListSets)
  /\ focus # "signin"   => open
  /\ focus # "contacts" => \A s \in {AnyOf(Switches)} : auto = s[1] /\ muted = s[2]

HomeInit ==
  /\ focus \in Parts
  /\ DatesInit
  /\ SavingsInit /\ BudgetsInit /\ DraftsInit /\ AnswersInit /\ ContactsInit
  /\ CategoriesInit /\ SignInInit /\ SyncInit
  /\ OneStart

HomeNext ==
  \/ focus = "savings" /\ SavingsNext
     /\ UNCHANGED <<focus, asked, budgetVars, draftVars, answerVars, contactVars, catVars, signInVars, syncVars>>
  \/ focus = "budgets" /\ BudgetsNext
     /\ UNCHANGED <<focus, asked, savingVars, draftVars, answerVars, contactVars, catVars, signInVars, syncVars>>
  \/ focus = "drafts" /\ DraftsNext
     /\ UNCHANGED <<focus, asked, savingVars, budgetVars, answerVars, contactVars, catVars, signInVars, syncVars>>
  \/ focus = "answers" /\ AnswersNext
     /\ UNCHANGED <<focus, asked, savingVars, budgetVars, draftVars, contactVars, catVars, signInVars, syncVars>>
  \/ focus = "contacts" /\ ContactsNext
     /\ UNCHANGED <<focus, asked, savingVars, budgetVars, draftVars, answerVars, catVars, signInVars, syncVars>>
  \/ focus = "categories" /\ CategoriesNext
     /\ UNCHANGED <<focus, asked, savingVars, budgetVars, draftVars, answerVars, contactVars, signInVars, syncVars>>
  \/ focus = "signin" /\ SignInNext
     /\ UNCHANGED <<focus, asked, savingVars, budgetVars, draftVars, answerVars, contactVars, catVars, syncVars>>
  \/ focus = "sync" /\ SyncNext
     /\ UNCHANGED <<focus, asked, savingVars, budgetVars, draftVars, answerVars, contactVars, catVars, signInVars>>

Spec == HomeInit /\ [][HomeNext]_homeVars

-----------------------------------------------------------------------------
(* What each part promises, looked at where the part is followed.          *)

\* No pot owes a wallet money, whatever was edited, deleted, moved or closed, and a closed goal is
\* over (splitsFor, checkNoNegative and Close under the user's lock).
SavingsHold == focus = "savings" => NothingOverdrawn /\ ClosedIsOver

\* However a budget is changed, its periods tile and every page shows the same of one of them
\* (Update, syncPeriods, figuresOf).
PeriodsHold == focus = "budgets" => PeriodsTile

\* The dates of a recurring rule are those of the walk, cut to the window that is asked for
\* (Between: "It is Within(to) cut to the window"), and the period found for a day holds it,
\* at the ends of months, in leap years and across pauses (recurrence, periodAt).
CalendarHolds ==
  focus = "dates" =>
    LET rule == asked.rule
        win  == asked.window
    IN /\ \A r \in Limits(rule, win.today) : BetweenIsWithinCut(r, win.from, win.to)
       /\ rule.freq # "dates" =>
            \A day \in PeriodDays : PeriodHolds(rule.freq, rule.interval, rule.start, day)

\* A message is recorded at most once on its way from the chat over the pending page to the
\* ledger, as it was last edited (memCards.close, submitOne).
DraftsHold == focus = "drafts" => BookedOnce

\* A card handed to the model and answered unchanged stays the card it was (Lists, check, toAnswer).
AnswersHold == focus = "answers" => EchoKeepsTheItem

\* A contact stands for a user only with that user's word, and for one user of each (AcceptLinkRequest,
\* verifyAcceptedLinkRequestTx).
LinksHold == focus = "contacts" => LinksAreAgreed

\* An app that has the server's fingerprint of a set has the server's data (Fingerprints, Sync).
SyncHolds == focus = "sync" => SameStampSameData

\* What a user sees of the categories is a tree (TreeIsSound).
TreeHolds == focus = "categories" => TreeIsSound
=============================================================================
