--------------------------- MODULE MCRescheduling ---------------------------
(***************************************************************************)
(* Days from Monday 26 October 2026, day 20748, into the winter.           *)
(***************************************************************************)
EXTENDS Rescheduling

Weekly(n, days, first) ==
  [kind |-> "weekly", interval |-> n, days |-> days, first |-> first,
   dom |-> 0, month |-> 0, index |-> 0]

Wednesday(index) == [Plain("relativeMonthly", 1, {2}, 0, 0) EXCEPT !.index = index]

\* Tuesday 27, Wednesday 28 and Saturday 31 October, and Sunday 1 November.
MCDay == {20749, 20750, 20753, 20754}

\* A weekly and two fortnightly ones that a week boundary tells apart, monthly
\* and yearly on the 28th, and the fourth and the last Wednesday of a month.
MCAsked == {Weekly(0, {2}, 0), Weekly(2, {6, 0}, Sunday), Weekly(2, {6, 0}, 0),
            Plain("daily", 2, {}, 0, 0),
            Plain("absoluteMonthly", 1, {}, 28, 0), Plain("absoluteYearly", 1, {}, 28, 10),
            Wednesday(3), Wednesday(Last)}

MCWindow == 20740..20830
=============================================================================
