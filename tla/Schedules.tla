------------------------------ MODULE Schedules ------------------------------
(***************************************************************************)
(* A recurring setting (internal/modules/recurring): its rule, the rows    *)
(* stored for some of its occurrences, and the daily check that pauses,    *)
(* records and tells.  An occurrence is named by the date the rule gives   *)
(* it (its slot); one without a row is computed from the rule.  What two   *)
(* requests do to one occurrence is in Slots: here a request is one step.  *)
(***************************************************************************)
EXTENDS Calendar, Sequences, Functions, TLC

CONSTANTS
  Forms,      \* the rules a setting is given (records of Calendar), by name
  Endings,    \* the ends: [kind, date, count]
  Starts,     \* bound: the settings created: [form, end, kind, auto]
  Looks,      \* the days somebody looks, in order, within a year
  Near,       \* bound: the slots a user writes that have no row
  Moves,      \* bound: the days an occurrence is moved to or added on
  Horizon,    \* bound: the walk ends there, a year after the last look
  MaxTouches  \* bound on the writes of the setting and of its occurrences

VARIABLES
  today,      \* the index of the day in Looks
  rule,       \* recurring_rules, one row
  items,      \* recurring_items: the rows by slot; Extra is the one added by hand
  live,       \* a repayment: something is owed its way; a saving: its goal is active
  checked,    \* the due check has run since the last day or write of the setting
  told,       \* what the due notice counted, in order
  touches

scheduleVars == <<today, rule, items, live, checked, told, touches>>

Extra  == 0
Names  == DOMAIN Forms
Walk   == [f \in Names |-> Occurrences(Forms[f], Horizon, 0)] @@ <<>>
Today  == Looks[today]
Stored(its) == DOMAIN its

\* Months, counted from one year 0, of every day looked at.
MonthCount == [d \in 0..Horizon |-> 12 * YearOf(d) + MonthOf(d)] @@ <<>>

-----------------------------------------------------------------------------
(* The schedule.                                                           *)

Skipped(r, d) == \E g \in r.gaps : g.from <= d /\ d < g.to
Farthest(r) == MaxEnd([Forms[r.form] EXCEPT !.gaps = r.gaps])
Open(r) == {d \in Walk[r.form] : ~Skipped(r, d)}
HasEnd(r) == r.end.kind # "none"

\* limits: the rule with its last day, or refused (Calendar's Limits, on the walk).
Limited(r) ==
  UNION {CASE r.end.kind = "none"  -> {r}
           [] r.end.kind = "date"  -> IF \A d \in reach : d > r.end.date THEN {} ELSE {[r EXCEPT !.until = r.end.date]}
           [] r.end.kind = "count" -> IF Cardinality(reach) < r.end.count THEN {}
                                      ELSE {[r EXCEPT !.until = Last(ds)] : ds \in {Firsts(reach, r.end.count)}} :
         reach \in {{d \in Open(r) : d <= farthest} : farthest \in
                     {IF r.end.kind = "date" /\ r.end.date > Farthest(r) THEN 0 ELSE Farthest(r)}}}

Dates(r) == {d \in Open(r) : HasEnd(r) => d <= r.until}

Earliest(ds) == {d \in ds : \A e \in ds : d <= e}
Latest(ds)   == {d \in ds : \A e \in ds : e <= d}

\* periodOf: the date of ds whose period holds s.
PeriodOf(r, ds, s) ==
  LET f == Forms[r.form]
      months == IF f.freq = "yearly" THEN 12 * f.interval ELSE f.interval
      first(d) == IF f.freq = "yearly" THEN MonthCount[d] - ((MonthCount[d] - 1) % 12) ELSE MonthCount[d]
  IN IF f.freq \in {"monthly", "yearly"}
     THEN UNION {Earliest(held) : held \in {{d \in ds : MonthCount[s] \in first(d)..(first(d) + months - 1)}}}
     ELSE UNION {Latest(held) : held \in {{d \in ds : d <= s}}}

\* currentSlot, or the day itself.
FromSlot(r, day) ==
  LET held(ds) == PeriodOf(r, ds, day)
      next(ds) == UNION {Earliest(later) : later \in {{d \in ds : d >= day}}}
  IN CHOOSE d \in UNION {IF held(ds) # {} THEN held(ds) ELSE IF next(ds) # {} THEN next(ds) ELSE {day} :
                          ds \in {Dates(r)}} : TRUE

-----------------------------------------------------------------------------
(* The occurrences.                                                        *)

\* statusOfRow, computedOcc.
StatusOf(r, its, day, k) ==
  IF k \notin Stored(its) THEN IF k < r.tracked THEN "paid" ELSE IF k <= day THEN "due" ELSE "upcoming"
  ELSE IF its[k].st # "open" THEN its[k].st
  ELSE IF its[k].date <= day THEN "due" ELSE "upcoming"

Expected(st) == st \in {"due", "upcoming"}
Listable(r, st) == r.status = "active" \/ ~Expected(st) \/ (r.status = "paused" /\ st = "due")

\* storedRows with a window.
Loaded(its, from, to) ==
  {k \in Stored(its) : its[k].date \in from..to \/ (k # Extra /\ k \in from..to)}

SlotsBetween(r, from, to) == IF r.status = "active" THEN {d \in Dates(r) : d \in from..to} ELSE {}

\* Mutant: an occurrence is listed beside the row that stands for its period.
Replaced_None(r, rows, from, to) == {}

\* The computed occurrences that a row of the same period stands for.
Replaced(r, rows, from, to) ==
  IF r.status # "active" THEN {}
  ELSE UNION {UNION {PeriodOf(r, around, k) : k \in rows \ ({d \in around : d \in from..to} \cup {Extra})} \ rows :
              around \in {Dates(r)}}

\* occsOf, on the rows a caller has loaded.  (What is bound to a set of one is evaluated once.)
OccsOf(r, its, loaded, from, to, day) ==
  UNION {{k \in rows : its[k].date \in from..to /\ Listable(r, StatusOf(r, its, day, k))}
         \cup (SlotsBetween(r, from, to) \ (rows \cup Replaced(r, rows, from, to))) : rows \in {loaded}}

Narrow(r, its, from, to, day) == OccsOf(r, its, Loaded(its, from, to), from, to, day)
DueIn(r, its, occs, day) == {k \in occs : StatusOf(r, its, day, k) = "due"}

\* dueOccs: what the checks and the writes see.
DueOccs(r, its, day) == DueIn(r, its, Narrow(r, its, r.tracked, day, day), day)

\* occsInRange (tracked): what the pages see, with the rows of a year around.
InRange(r, its, from, to, day) == OccsOf(r, its, Stored(its), Most(from, r.tracked), to, day)

\* The date an occurrence is shown on.
DateOf(its, k) == IF k \in Stored(its) THEN its[k].date ELSE k
Edited(its, k) == k \in Stored(its) /\ its[k].edited
Before(its, o, k) == DateOf(its, o) < DateOf(its, k) \/ (DateOf(its, o) = DateOf(its, k) /\ o < k)
Oldest(its, occs, n) == UNION {{k \in os : Cardinality({o \in os : Before(its, o, k)}) < n} : os \in {occs}}

-----------------------------------------------------------------------------
(* The pages.                                                              *)

\* Items, status due: active and paused settings.
DuePage(day) ==
  IF rule.status = "archived" THEN {} ELSE DueIn(rule, items, InRange(rule, items, rule.tracked, day, day), day)

\* dueWindow, ExpectedBetween: what is due or still to come.
ExpectedIn(from, to, day) ==
  IF rule.status = "archived" THEN {}
  ELSE {k \in InRange(rule, items, from, to, day) : Expected(StatusOf(rule, items, day, k))}
DueCount(day) == DueIn(rule, items, ExpectedIn(0, day + 30, day), day)

\* aggregate: the setting's own counts, over every stored row.
Listed(day) ==
  {k \in OccsOf(rule, items, Stored(items), IF HasEnd(rule) THEN Forms[rule.form].start ELSE rule.tracked,
                IF HasEnd(rule) THEN rule.until ELSE day + 400, day) :
     Listable(rule, StatusOf(rule, items, day, k))}
Counts(day) ==
  [due |-> DueIn(rule, items, Listed(day), day),
   next |-> {k \in Listed(day) : StatusOf(rule, items, day, k) = "upcoming"}]

\* ruleItemsOf, tab produced.
History(day) ==
  {k \in Stored(items) : StatusOf(rule, items, day, k) # "upcoming"}
  \cup (IF rule.status # "active" THEN {}
        ELSE DueIn(rule, items, OccsOf(rule, items, Stored(items), rule.tracked, day, day), day) \ Stored(items))

-----------------------------------------------------------------------------
(* What the writes and the check do to a setting s = [r, its, told].       *)

Now == [r |-> rule, its |-> items, told |-> told]
Put(s, ks, st) ==
  [s EXCEPT !.its = [k \in ks |-> [st |-> st, date |-> DateOf(@, k), edited |-> Edited(@, k)]] @@ @]

\* Mutant: the due ones are not stored: they vanish with the schedule.
PauseTx_Vanish(s, keep, from, reason) ==
  [s EXCEPT !.r = [@ EXCEPT !.status = "paused", !.pausedFrom = from, !.reason = reason]]

PauseTx(s, keep, from, reason) ==
  [Put(s, keep \ Stored(s.its), "open") EXCEPT
     !.r = [@ EXCEPT !.status = "paused", !.pausedFrom = from, !.reason = reason]]

\* resumeGap.
Since(r, to) == IF Most(r.pausedFrom, r.tracked) >= to THEN {}
                ELSE {[from |-> Most(r.pausedFrom, r.tracked), to |-> to]}

\* Mutant: the schedule keeps its last day.
Resumed_SameEnd(r, day) ==
  {[r EXCEPT !.status = "active", !.gaps = @ \cup Since(r, to), !.reason = "", !.notified = day, !.zero = 0] :
     to \in {FromSlot(r, day)}}

\* resume: the span since the pause is skipped; the rest of a count end moves on.
Resumed(r, day) ==
  UNION {{[n EXCEPT !.reason = "", !.notified = day, !.zero = 0, !.autoUntil = Least(FromSlot(n, day), day) - 1] :
            n \in Limited([r EXCEPT !.status = "active", !.gaps = @ \cup Since(r, to)])} :
         to \in {FromSlot(r, day)}}

\* repaymentRoundsTx: while something is owed the newest round waits; a round with
\* nothing owed is dropped, and the third in turn pauses the setting.
Rounds(s, due) ==
  IF s.r.kind # "repayment" \/ s.r.status # "active" \/ due = {} THEN {s}
  ELSE IF live THEN {[Put(s, {k \in Oldest(s.its, due, Cardinality(due) - 1) : ~Edited(s.its, k)}, "skipped") EXCEPT !.r.zero = 0]}
  ELSE {IF s.r.zero + Cardinality(dropped) = 3
        THEN PauseTx([Put(s, dropped, "skipped") EXCEPT !.r.zero = 3], {}, Last({DateOf(s.its, k) : k \in dropped}) + 1, "no_balance")
        ELSE [Put(s, dropped, "skipped") EXCEPT !.r.zero = @ + Cardinality(dropped)] :
        dropped \in {Oldest(s.its, {k \in due : ~Edited(s.its, k)}, 3 - s.r.zero)}}

\* overdueLimit: three wait, and the fourth pauses the setting.
OverdueLimit(s, due) ==
  IF s.r.auto \/ s.r.status # "active" \/ Cardinality(due) <= 3 THEN {s}
  ELSE {PauseTx(s, oldest, DateOf(s.its, fourth), "overdue_limit") :
        oldest \in {Oldest(s.its, due, 3)}, fourth \in Oldest(s.its, due, 4) \ Oldest(s.its, due, 3)}

\* What came due after the day a check last looked.
DueSince(s, day, seen) ==
  DueIn(s.r, s.its, Narrow(s.r, s.its, Most(s.r.tracked, seen + 1), day, day), day)

\* autoCreate: a recording that fails leaves its occurrence due.
AutoCreate(s, day, works) ==
  IF ~s.r.auto \/ s.r.autoUntil >= day THEN {s}
  ELSE {[(IF works THEN Put(s, due, "done") ELSE s) EXCEPT !.r.autoUntil = day] : due \in {DueSince(s, day, s.r.autoUntil)}}

\* Mutant: the marker of the due notice stays where it is.
NewlyDue_KeepsMark(s, day) ==
  IF s.r.notified >= day THEN {s} ELSE {[s EXCEPT !.told = Append(@, due)] : due \in {DueSince(s, day, s.r.notified)}}

\* newlyDue: counted for the one notice.
NewlyDue(s, day) ==
  IF s.r.notified >= day THEN {s}
  ELSE {[s EXCEPT !.told = Append(@, due), !.r.notified = day] : due \in {DueSince(s, day, s.r.notified)}}

\* endingOf: told once that two or fewer are left.
EndsSoon(s, day) ==
  /\ ~s.r.endingTold /\ HasEnd(s.r) /\ day < s.r.until
  /\ Cardinality({k \in Narrow(s.r, s.its, day + 1, s.r.until, day) : StatusOf(s.r, s.its, day, k) = "upcoming"}) <= 2

-----------------------------------------------------------------------------
Become(s) == \E n \in {s} : rule' = n.r /\ items' = n.its /\ told' = n.told

\* DueCheckDaily, and DueCheck after a write of the setting.
DueCheck ==
  LET back == rule.status = "paused" /\ rule.reason = "no_balance" /\ live IN
  /\ ~checked \/ back
  /\ \E r \in (IF back THEN Resumed(rule, Today) ELSE {rule}), works \in BOOLEAN :
       /\ works \/ (r.auto /\ r.status = "active")
       /\ IF r.status # "active" THEN Become([Now EXCEPT !.r = r])
          ELSE \E due \in {DueOccs(r, items, Today)} :
               \E rounded \in Rounds([Now EXCEPT !.r = r], due) :
               \E left \in {DueOccs(rounded.r, rounded.its, Today)} :
               \E limited \in OverdueLimit(rounded, left) :
               \E made \in AutoCreate(limited, Today, works) :
               \E counted \in NewlyDue(made, Today) :
                 Become([counted EXCEPT !.r.endingTold = @ \/ EndsSoon(counted, Today)])
  /\ checked' = TRUE
  /\ UNCHANGED <<today, live, touches>>

DayPasses ==
  /\ today < Len(Looks) /\ today' = today + 1 /\ checked' = FALSE
  /\ UNCHANGED <<rule, items, live, told, touches>>

Touched == touches < MaxTouches /\ touches' = touches + 1 /\ UNCHANGED today
Write(s) == Touched /\ Become(s) /\ checked' = FALSE /\ UNCHANGED live
Occurrence(s) == Touched /\ Become(s) /\ UNCHANGED <<checked, live>>

\* The writes of the setting (transition, Update); each runs the due check afterwards.
Pause ==
  /\ rule.status = "active"
  /\ \E due \in {DueOccs(rule, items, Today)} : Write(PauseTx(Now, due, Today, "manual"))
Resume ==
  /\ rule.status = "paused" /\ (rule.kind = "saving" => live)
  /\ \E r \in Resumed(rule, Today) : Write([Now EXCEPT !.r = r])
Archive ==
  /\ rule.status # "archived"
  /\ \E due \in {DueOccs(rule, items, Today)} :
       LET s == IF rule.status = "paused" THEN Now ELSE PauseTx(Now, due, Today, "manual")
       IN Write([s EXCEPT !.r.status = "archived"])
Restore ==
  /\ rule.status = "archived"
  /\ Write([Now EXCEPT !.r.status = "paused"])
Extend(end) ==
  /\ rule.status # "archived" /\ HasEnd(rule) /\ end.kind # "none" /\ end # rule.end
  /\ \E r \in Limited([rule EXCEPT !.end = end]) : Write([Now EXCEPT !.r = [r EXCEPT !.endingTold = FALSE]])
Update(f, end) ==
  /\ <<f, end>> # <<rule.form, rule.end>>
  /\ \E r \in Limited([rule EXCEPT !.form = f, !.end = end]) : Write([Now EXCEPT !.r = [r EXCEPT !.endingTold = FALSE]])
SwitchAuto == Write([Now EXCEPT !.r = [@ EXCEPT !.auto = ~@, !.autoUntil = Today - 1]])

\* A goal closes (its settings pause: pauseSavingRulesTx) or opens; a debt comes or goes.
LiveChanges ==
  /\ rule.kind \in {"repayment", "saving"} /\ live' = ~live
  /\ Touched /\ UNCHANGED <<items, told, checked>>
  /\ rule' = IF rule.kind = "saving" /\ live /\ rule.status = "active"
             THEN [rule EXCEPT !.status = "paused", !.pausedFrom = Today, !.reason = "goal_inactive"] ELSE rule

\* loadOcc: a stored row, or a date of the rule whatever the setting's status.
Slots == Stored(items) \cup {d \in Near : d \in Dates(rule)}
Blank(k) == k # Extra /\ ~items[k].edited

\* The writes of one occurrence: Confirm, SkipOcc, MarkPaid; RestoreOcc, UnmarkPaid (a row
\* with nothing left on it goes); EditOcc, UpdateItem; CreateItem; DeleteItem.
Settle(k, st) == StatusOf(rule, items, Today, k) \notin {"done", st} /\ Occurrence(Put(Now, {k}, st))
Without(k) == [Now EXCEPT !.its = [o \in DOMAIN @ \ {k} |-> @[o]] @@ <<>>]
Reopen(k) ==
  /\ items[k].st \in {"skipped", "paid"}
  /\ IF Blank(k) THEN Occurrence(Without(k)) ELSE Occurrence(Put(Now, {k}, "open"))
Move(k, d) ==
  /\ d # DateOf(items, k) /\ k \in Stored(items) => items[k].st # "done"
  /\ Occurrence([Put(Now, {k}, IF k \in Stored(items) THEN items[k].st ELSE "open")
                   EXCEPT !.its[k].date = d, !.its[k].edited = TRUE])
AddByHand(d) ==
  /\ Extra \notin Stored(items)
  /\ Occurrence([Now EXCEPT !.its = (Extra :> [st |-> "open", date |-> d, edited |-> TRUE]) @@ @])
DeleteItem(k) == Occurrence(Without(k))

\* Create, on the first day.
SchedulesInit ==
  /\ today = 1 /\ checked = FALSE /\ touches = 0
  /\ \E new \in Starts :
       rule \in Limited([status |-> "active", form |-> new.form, end |-> new.end, until |-> 0, gaps |-> {},
                         kind |-> new.kind, tracked |-> Today, pausedFrom |-> 0, reason |-> "", auto |-> new.auto,
                         autoUntil |-> Today - 1, notified |-> Today, endingTold |-> FALSE, zero |-> 0])
  /\ items = <<>>
  /\ live \in {rule.kind # "repayment", TRUE}
  /\ told = <<>>

SchedulesNext ==
  \/ DueCheck \/ DayPasses
  \/ Pause \/ Resume \/ Archive \/ Restore \/ SwitchAuto \/ LiveChanges
  \/ \E end \in Endings : Extend(end) \/ \E f \in Names : Update(f, end)
  \/ \E k \in Stored(items) : Reopen(k) \/ DeleteItem(k)
  \/ \E k \in Slots, st \in {"done", "skipped", "paid"} : Settle(k, st)
  \/ \E d \in Moves : AddByHand(d) \/ \E k \in Slots : Move(k, d)

-----------------------------------------------------------------------------
SchedulesTypeOK ==
  /\ rule.status \in {"active", "paused", "archived"} /\ rule.zero \in 0..3
  /\ rule.status = "active" => rule.reason = "" /\ rule.zero < 3
  /\ \A k \in Stored(items) : items[k].st \in {"open", "done", "skipped", "paid"}

\* A count end keeps its number: however often a setting is paused, resumed, archived,
\* edited or extended, what it still gives and has given by its schedule are as many
\* occurrences as were asked for, and the last one is its last day (resumeGap, limits:
\* "no installment is lost").
InstallmentsKept ==
  rule.end.kind = "count" => Cardinality(Dates(rule)) = rule.end.count /\ rule.until = Last(Dates(rule))

\* What waits to be recorded, whatever the setting's status.
Waiting == LET r == [rule EXCEPT !.status = IF @ = "archived" THEN "paused" ELSE @]
           IN DueIn(r, items, InRange(r, items, r.tracked, Today, Today), Today)

\* Pausing, archiving, restoring, a day that passes or the due check loses nothing that waits,
\* but for what is past the limit of three, what the check records, and the rounds of a
\* repayment that are dropped (pauseTx: "they stay due and listed while it is paused"); and
\* after the check no more than three wait of a setting that does not record by itself, but
\* for those a user has edited (overdueLimit).
WaitingIsKept ==
  [][/\ Pause \/ Archive \/ Restore \/ DayPasses \/ DueCheck
       => \A before \in {Waiting}, after \in {Waiting'} : \A k \in Oldest(items, before, 3) \ after :
            rule.kind = "repayment" \/ (rule.auto /\ k \in Stored(items)' /\ items'[k].st = "done")
     /\ DueCheck /\ rule.status = "active"
       => rule.auto \/ Cardinality({k \in DueOccs(rule', items', Today) : ~Edited(items', k)}) <= 3]_scheduleVars

\* The due notice counts an occurrence once, over all the daily checks, unless a user had moved
\* or edited it when it was counted again (newlyDue: "since the due notice last looked").
ToldOnce ==
  [][\A i \in 1..Len(told), j \in Len(told) + 1..Len(told') :
       \A k \in told[i] \cap told'[j] : Edited(items, k)]_scheduleVars

\* The pages agree: what the setting's own page lists as due is what is on the due page, what
\* the summary counts and what the setting counts itself, but for the rows a user has dated
\* before the setting was tracked (occsInRange starts there: they are on its own page alone,
\* and counted if it has an end and they are not before its start) and, in its own count, for
\* what is dated after its end. And a computed occurrence never shows in the month of a stored
\* one, though the rule was edited (occsOf: "so a month never shows twice").
DuePagesAgree ==
  LET page == DuePage(Today)
      own == IF rule.status = "archived" THEN {} ELSE DueIn(rule, items, History(Today), Today)
      early(k) == DateOf(items, k) < rule.tracked
      late(k) == HasEnd(rule) /\ DateOf(items, k) > rule.until
      counted(k) == ~late(k) /\ (early(k) => HasEnd(rule) /\ DateOf(items, k) >= Forms[rule.form].start)
  IN /\ SchedulesTypeOK
     /\ page = {k \in own : ~early(k)}
     /\ DueCount(Today) = page
     /\ Counts(Today).due = {k \in own : counted(k)}
     /\ Counts(Today).due \cap Counts(Today).next = {}
     /\ \A k \in page \ Stored(items), row \in Stored(items) \ {Extra} : MonthCount[k] # MonthCount[row]

\* What occsOf says: "so a month never shows twice": what auto-create records is on the page.
AutoRecordsWhatIsListed ==
  [][DueCheck => \A before \in {Waiting}, k \in Stored(items)' : items'[k].st = "done" =>
                   k \in before \/ (k \in Stored(items) /\ items[k].st = "done")]_scheduleVars
=============================================================================
