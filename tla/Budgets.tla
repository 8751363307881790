------------------------------- MODULE Budgets -------------------------------
(***************************************************************************)
(* Budgets (internal/modules/budgets): a limit on what is spent, over      *)
(* periods that repeat.  The periods are stored, with an amount of their   *)
(* own each; every write brings them up to date under the budget's row     *)
(* lock, and so does a page that finds them missing or behind, without it. *)
(***************************************************************************)
EXTENDS Calendar, FiniteSetsExt

CONSTANTS
  Rules,        \* bound: how often, <<freq, interval>>
  Starts,       \* bound: first days
  Endings,      \* bound: [kind, date, count]
  Amounts,      \* bound: limits
  Asks,         \* bound: the sets of fields an update names
  Days,         \* bound: the days that are looked at, in their order
  Scopes,       \* bound: [all, cats, kids, tags, wallets] what a budget counts
  Rows,         \* bound: the user's expenses [id, day, cat, tags, wallet, sum]
  Parent,       \* the user's categories: of each its parent, itself for a root
  MaxChanges    \* bound: writes to the budget

VARIABLES
  budget,       \* the budget's row: [st, amount, recurring, rule, start, anchor, end, closed]
  periods,      \* budget_periods: by first day [seq, end, amount, base, own]
  today,
  reader,       \* a page that has found the periods behind: the budget as it has read it
  outdated,     \* history: a page wrote the periods of a budget that was changed since
  changes       \* writes so far

budgetVars == <<budget, periods, today, reader, outdated, changes>>

Never    == 1000000
Open     == [kind |-> "none", date |-> 0, count |-> 0]
NoRule   == <<"none", 1>>
NoBudget == [st |-> "none", amount |-> 0, recurring |-> FALSE, rule |-> NoRule, start |-> 0,
             anchor |-> 0, end |-> Open, closed |-> Never]
NoReader == [at |-> "idle", b |-> NoBudget]

\* A stored budget, and a stored period.
BudgetRow == [st : {"active", "archived"}, amount : Amounts, recurring : BOOLEAN, rule : Rules \cup {NoRule},
              start : Starts, anchor : Nat, end : Endings, closed : Days \cup {Never}]
PeriodRow == [seq : Nat, end : Int, amount : Amounts, base : Amounts, own : BOOLEAN]

-----------------------------------------------------------------------------
(* The periods of a budget.                                                *)

MinOf(s) == CHOOSE x \in s : \A y \in s : x <= y
MaxOf(s) == CHOOSE x \in s : \A y \in s : y <= x

Starting(b, k) == NthStart(b.rule[1], b.rule[2], b.anchor, k)

\* baseSeq: how many periods start before the anchor.
Base(b, ps) == Cardinality({s \in DOMAIN ps : s < b.anchor})

\* stopDate.
Stop(b, base) ==
  LET left == b.end.count - base
      counted == IF left <= 0 THEN b.anchor - 1 ELSE Starting(b, left) - 1
  IN MinOf({b.closed, IF b.end.kind = "date" THEN b.end.date ELSE Never,
            IF b.recurring /\ b.end.kind = "count" THEN counted ELSE Never})

\* spans: [from, to] of every period until the day; the first is always there.
Spans(b, base, until) ==
  LET stop == Stop(b, base)
      far  == IF until < b.anchor THEN 0 ELSE PeriodAt(b.rule[1], b.rule[2], b.anchor, until)
  IN IF ~b.recurring
     THEN {[from |-> b.start, to |-> Least(stop, IF b.end.kind = "date" THEN b.end.date ELSE Never)]}
     ELSE {[from |-> Starting(b, k), to |-> Least(stop, Starting(b, k + 1) - 1)] :
             k \in {k \in 0..far : k = 0 \/ Starting(b, k) <= stop}}

\* syncPeriods: the periods from the anchor on are those of the spans; one that starts on the
\* same day stays, with its amount.
Synced(b, ps, base, spans) ==
  LET At(s) == CHOOSE sp \in spans : sp.from = s
      seq(s) == base + Cardinality({sp \in spans : sp.from <= s})
  IN [s \in {s \in DOMAIN ps : s < b.anchor} \cup {sp.from : sp \in spans} |->
        IF s < b.anchor /\ s \in DOMAIN ps THEN ps[s]
        ELSE IF s \in DOMAIN ps THEN [ps[s] EXCEPT !.seq = seq(s), !.end = At(s).to]
        ELSE [seq |-> seq(s), end |-> At(s).to, amount |-> b.amount, base |-> b.amount, own |-> FALSE]]
Sync(b, ps) ==
  \E base \in {Base(b, ps)} : \E spans \in {Spans(b, base, today)} : periods' = Synced(b, ps, base, spans)

\* state.
State(b, base, day) ==
  CASE b.st = "archived"    -> "archived"
    [] b.closed # Never /\ b.st # "archived" -> "ended"
    [] b.st # "archived" /\ b.closed = Never /\ b.start > day -> "upcoming"
    [] OTHER -> IF Stop(b, base) < day THEN "ended" ELSE "active"

\* currentIndex: the period a page opens on, by its first day.
Current(ps, state, day) ==
  LET held == {s \in DOMAIN ps : s <= day /\ ps[s].end >= day}
  IN IF state = "upcoming" THEN MinOf(DOMAIN ps)
     ELSE IF state = "active" /\ held # {} THEN MaxOf(held)
     ELSE MaxOf(DOMAIN ps)

\* settlePeriods: missing, or behind.
Behind(b, ps, day) ==
  \/ ps = <<>>
  \/ b.recurring /\ b.st = "active" /\ b.closed = Never /\ ps[MaxOf(DOMAIN ps)].end < day

-----------------------------------------------------------------------------
(* What a budget counts, and what its pages show.                          *)

\* expandCategoriesOf: the categories picked, and all that are below the ones with children.
Family(sc) ==
  sc.cats \cup {c \in DOMAIN Parent : c \in sc.cats \/ {Parent[c], Parent[Parent[c]]} \cap sc.kids # {}}

\* countSQL: a row matches every list that is set.
InScope(sc, r) ==
  \/ sc.all
  \/ /\ sc.cats \cup sc.tags \cup sc.wallets # {}
     /\ sc.cats # {} => r.cat \in Family(sc)
     /\ sc.wallets # {} => r.wallet \in sc.wallets
     /\ sc.tags # {} => r.tags \cap sc.tags # {}

\* reasoner.
Reason(sc, r) ==
  IF sc.all THEN "all"
  ELSE IF r.cat \in sc.cats THEN "category"
  ELSE IF r.cat \in Family(sc) THEN "sub_category"
  ELSE IF r.tags \cap sc.tags # {} THEN "tag"
  ELSE IF r.wallet \in sc.wallets THEN "wallet" ELSE ""

\* periodIndexOf: the last period that has begun, if it has not ended.
PeriodOf(ps, day) == {s \in DOMAIN ps : /\ s <= day /\ day <= ps[s].end
                                        /\ \A o \in DOMAIN ps : o <= day => o <= s}

\* collectMany and figuresOf: the rows the pages from `lo' to `hi' read, each under its period;
\* a row of a later day is expected, and is one of the current period's.
Counted(sc, ps, lo, hi, s) ==
  {r \in Rows : InScope(sc, r) /\ r.day <= today /\ lo <= r.day /\ r.day <= ps[hi].end /\ s \in PeriodOf(ps, r.day)}
Awaited(sc, ps, cur) == {r \in Rows : InScope(sc, r) /\ r.day > today /\ cur <= r.day /\ r.day <= ps[cur].end}
SumOf(rows) == MapThenSumSet(LAMBDA r : r.sum, rows)

\* detail: the last six periods, and six before the one that is viewed.
DetailFrom(ps, view) ==
  LET n == Cardinality(DOMAIN ps) IN
  CHOOSE s \in DOMAIN ps :
    Cardinality({o \in DOMAIN ps : o < s}) =
      Most(0, Least(n - 6, Cardinality({o \in DOMAIN ps : o < view}) - 6))

DetailUsed(sc, ps, view) == Counted(sc, ps, DetailFrom(ps, view), MaxOf(DOMAIN ps), view)
\* listEntries: the list reads the period it shows alone.
ListUsed(sc, ps, cur) == Counted(sc, ps, cur, cur, cur)
\* Items, and Periods with one to a page.
OwnUsed(sc, ps, s) == Counted(sc, ps, s, s, s)

\* periodView, forecastOf: over, near, on pace to be, or fine.
Health(ps, s, used, expected, warn) ==
  LET elapsed == Most(1, today - s + 1)
      total   == ps[s].end - s + 1
      amount  == ps[s].amount
      live    == State(budget, Base(budget, ps), today) = "active"
  IN IF used > amount THEN "over"
     ELSE IF warn # 0 /\ 100 * used >= amount * warn THEN "warn"
     ELSE IF live /\ ps[s].end # Never /\ used * total + expected * elapsed > amount * elapsed THEN "pace"
     ELSE "ok"

-----------------------------------------------------------------------------
(* The writes.                                                             *)

Fields == {"amount", "recurring", "rule", "start", "end"}

\* apply: the fields the request names; none where they do not go together.
Applied(b, has, f) ==
  LET recurring == IF "recurring" \in has THEN f.recurring ELSE b.recurring
      rule      == IF ~recurring THEN NoRule ELSE IF "rule" \in has THEN f.rule ELSE b.rule
      new == [b EXCEPT !.amount = IF "amount" \in has THEN f.amount ELSE @,
                       !.recurring = recurring, !.rule = rule,
                       !.start = IF "start" \in has THEN f.start ELSE @,
                       !.end = IF "end" \in has THEN f.end ELSE @]
  IN {n \in {new} : /\ recurring => rule # NoRule
                    /\ n.end.kind = "count" => recurring
                    /\ n.end.kind = "date" => n.end.date >= n.start}
Timing(old, new, has, f) ==
  \/ new.recurring # old.recurring \/ new.start # old.start \/ "end" \in has
  \/ "rule" \in has /\ f.rule # old.rule

Forms == [amount : Amounts, recurring : BOOLEAN, rule : Rules, start : Starts, end : Endings]
\* Every form, with the fields that are not named left out.
AnyForm == CHOOSE f \in Forms : TRUE
Named(has) == {f \in Forms : \A k \in Fields \ has : f[k] = AnyForm[k]}

SavesBudget(b) == budget' = b

\* write: the budget and its periods together.
Written(b, ps) ==
  /\ changes < MaxChanges
  /\ SavesBudget(b)
  /\ Sync(b, ps)
  /\ changes' = changes + 1
  /\ UNCHANGED <<today, reader, outdated>>

CreateBudget ==
  /\ budget = NoBudget
  /\ \E f \in Forms : \E b \in Applied([NoBudget EXCEPT !.st = "active"], Fields, f) : Written([b EXCEPT !.anchor = b.start], <<>>)

\* Mutant: a first day that moves on leaves the periods before it.
Dropped_Kept(ps, from) == ps

\* Update: the periods before a new first day go.
Dropped(ps, from) == [s \in {s \in DOMAIN ps : s >= from} |-> ps[s]]

\* Update: from the current period on the amounts follow, but for a period with its own.
Raised(ps, from, amount) ==
  [s \in DOMAIN ps |-> IF s < from THEN ps[s]
                       ELSE [ps[s] EXCEPT !.base = amount, !.amount = IF ps[s].own THEN @ ELSE amount]]

UpdateBudget ==
  /\ budget # NoBudget /\ changes < MaxChanges
  /\ \E has \in Asks, everything \in BOOLEAN : \E f \in Named(has) : \E b \in Applied(budget, has, f) :
     \E timing \in {Timing(budget, b, has, f) \/ ("rule" \in has /\ everything)},
        all    \in {everything \/ ~b.recurring \/ ~budget.recurring} :
     \E from   \in {IF all \/ periods = <<>> THEN budget.start
                    ELSE Current(periods, State(budget, Base(budget, periods), today), today)},
        moved  \in {timing /\ (all \/ b.start # budget.start)} :
     \E anchor \in {IF moved THEN b.start ELSE IF timing /\ ~all /\ b.rule # budget.rule THEN from ELSE budget.anchor} :
     \E left   \in {IF moved THEN Dropped(periods, anchor) ELSE periods} :
     \E raised \in {IF b.amount # budget.amount THEN Raised(left, from, b.amount) ELSE left} :
       Written([b EXCEPT !.anchor = anchor], raised)

\* UpdatePeriod: an amount of its own, or the period's base again.
UpdatePeriod ==
  \E s \in DOMAIN periods, amount \in Amounts :
    Written(budget, [periods EXCEPT ![s].amount = amount, ![s].own = amount # periods[s].base])

CloseBudget ==
  /\ budget # NoBudget
  /\ State(budget, Base(budget, periods), today) = "active"
  /\ Written([budget EXCEPT !.closed = today], periods)

Archive == budget.st = "active" /\ Written([budget EXCEPT !.st = "archived"], periods)
Restore == budget.st = "archived" /\ Written([budget EXCEPT !.st = "active"], periods)

DeleteBudget ==
  /\ budget # NoBudget
  /\ budget' = NoBudget
  /\ periods' = <<>>
  /\ UNCHANGED <<today, reader, outdated, changes>>

-----------------------------------------------------------------------------
(* A page: it reads the budget, then its periods, and writes these when    *)
(* they are behind (periodsAndBase, settlePeriods).                        *)

\* A page that finds them up to date changes nothing; a write between its two reads leaves
\* them so.
FindBehind ==
  /\ reader = NoReader
  /\ budget # NoBudget
  /\ Behind(budget, periods, today)
  /\ reader' = [at |-> "behind", b |-> budget]
  /\ UNCHANGED <<budget, periods, today, outdated, changes>>

\* The insert of a budget that is gone fails.
Settle ==
  /\ reader.at = "behind"
  /\ reader' = NoReader
  /\ IF budget = NoBudget THEN UNCHANGED <<periods, outdated>>
     ELSE /\ Sync(reader.b, periods)
          /\ outdated' = (outdated \/ [reader.b EXCEPT !.amount = 0, !.st = ""] # [budget EXCEPT !.amount = 0, !.st = ""])
  /\ UNCHANGED <<budget, today, changes>>

NextDay ==
  \E d \in Days :
    /\ today < d
    /\ \A e \in Days : today < e => d <= e
    /\ today' = d
    /\ UNCHANGED <<budget, periods, reader, outdated, changes>>

BudgetsInit ==
  /\ budget = NoBudget
  /\ periods = <<>>
  /\ today = MinOf(Days)
  /\ reader = NoReader
  /\ outdated = FALSE
  /\ changes = 0

BudgetsNext ==
  \/ CreateBudget \/ UpdateBudget \/ UpdatePeriod \/ CloseBudget \/ Archive \/ Restore \/ DeleteBudget
  \/ FindBehind \/ Settle \/ NextDay

-----------------------------------------------------------------------------

BudgetsTypeOK ==
  /\ budget = NoBudget <=> periods = <<>>
  /\ budget # NoBudget => budget \in BudgetRow
  /\ \A s \in DOMAIN periods : periods[s] \in PeriodRow
  /\ today \in Days
  /\ reader.at \in {"idle", "behind"}

\* Every period begins the day after the one before it ends, and their numbers follow.
Tiled ==
  \A s \in DOMAIN periods :
    /\ periods[s].seq = Cardinality({o \in DOMAIN periods : o <= s})
    /\ s # MaxOf(DOMAIN periods) => periods[s].end + 1 \in DOMAIN periods

\* A page shows the same of a period as the list does and the page of its own.
PagesAgree ==
  reader = NoReader => \A sc \in Scopes, s \in DOMAIN periods :
    /\ s = Current(periods, State(budget, Base(budget, periods), today), today)
         => ListUsed(sc, periods, s) = DetailUsed(sc, periods, s)
    /\ DetailUsed(sc, periods, s) = OwnUsed(sc, periods, s)
    /\ \A r \in OwnUsed(sc, periods, s) : Reason(sc, r) # ""
    /\ LET expected == SumOf(Awaited(sc, periods, s)) IN
       Health(periods, s, SumOf(DetailUsed(sc, periods, s)), expected, 80)
         = Health(periods, s, SumOf(OwnUsed(sc, periods, s)), expected, 80)

\* However a budget is changed, its stored periods go on from its first day without a gap or
\* an overlap and a period shows the same spending on every page, each row of it with a
\* reason (Update moves the anchor, and syncPeriods leaves what is before it); unless a page
\* has written the periods of a budget it had read before a change, or an end was set before
\* a period that began since.
PeriodsTile ==
  /\ BudgetsTypeOK
  /\ outdated \/ budget = NoBudget \/ Tiled
  /\ outdated \/ budget = NoBudget
     \/ (\E s \in DOMAIN periods : periods[s].end < s) \/ PagesAgree
=============================================================================
