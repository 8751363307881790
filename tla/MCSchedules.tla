----------------------------- MODULE MCSchedules -----------------------------
(* A monthly setting, of the 5th or the 10th, followed from June to September 2023. *)
EXTENDS Schedules

Base == [freq |-> "monthly", interval |-> 1, weekdays |-> {}, dom |-> 0, nth |-> 0, weekday |-> 0, dates |-> {},
         start |-> Day(2023, 5, 5), endKind |-> "none", endDate |-> 0, endCount |-> 0, gaps |-> {}, until |-> 0]
MCForms == [fifth |-> Base, tenth |-> [Base EXCEPT !.dom = 10]]

NoEnd  == [kind |-> "none", date |-> 0, count |-> 0]
Four   == [kind |-> "count", date |-> 0, count |-> 4]
August == [kind |-> "date", date |-> Day(2023, 8, 20), count |-> 0]
MCEndings == {NoEnd, Four, August}

New(end, kind, auto) == [form |-> "fifth", end |-> end, kind |-> kind, auto |-> auto]
MCStarts == {New(Four, "bill", FALSE), New(NoEnd, "bill", TRUE), New(NoEnd, "repayment", FALSE), New(August, "saving", TRUE)}

MCLooks == <<Day(2023, 6, 1), Day(2023, 6, 7), Day(2023, 7, 6), Day(2023, 9, 12)>>
MCNear  == {Day(2023, 7, 5), Day(2023, 7, 10)}
\* Before the start, before the first day of tracking, after it, and past the end of August.
MCMoves == {Day(2023, 4, 20), Day(2023, 5, 20), Day(2023, 6, 20), Day(2023, 8, 25)}
==============================================================================
