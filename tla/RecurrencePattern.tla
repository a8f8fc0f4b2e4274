------------------------- MODULE RecurrencePattern -------------------------
(***************************************************************************)
(* Recurrence patterns as _recurrence.py compares, moves and expands them, *)
(* and the days Graph schedules for them.                                  *)
(*                                                                         *)
(* A day is an integer and day 0 is a Monday.  Enums, number and date      *)
(* parsing, and the end of the range are left out: no operator here reads  *)
(* them.  A pattern has every field; the ones its kind does not read hold  *)
(* whatever Graph filled in.                                               *)
(***************************************************************************)
EXTENDS Integers

Kind == {"daily", "weekly", "absoluteMonthly", "absoluteYearly",
         "relativeMonthly", "relativeYearly"}

Sunday == 6
Omitted == -1  \* a firstDayOfWeek the caller did not send

Pattern == [kind : Kind, interval : Nat, days : SUBSET (0..6), first : (0..6) \cup {Omitted},
            dom : Int, month : Int, index : Int]

-----------------------------------------------------------------------------
(***************************************************************************)
(* The Gregorian calendar: the date of day d, counted from the 1st of      *)
(* March so that a leap day ends its year.                                 *)
(***************************************************************************)
Date(d) ==
  LET z   == d + 719472                   \* since 1 March of the year 0
      era == z \div 146097
      doe == z % 146097
      yoe == (doe - doe \div 1460 + doe \div 36524 - doe \div 146096) \div 365
      doy == doe - (365 * yoe + yoe \div 4 - yoe \div 100)
      m   == (5 * doy + 2) \div 153
  IN [year  |-> 400 * era + yoe + (IF m < 10 THEN 0 ELSE 1),
      month |-> IF m < 10 THEN m + 3 ELSE m - 9,
      dom   |-> doy - (153 * m + 2) \div 5 + 1]

Weekday(d) == d % 7
MonthNo(d) == 12 * Date(d).year + Date(d).month

\* A day of the month that a month does not have falls on its last day.
IsLastOfMonth(d) == MonthNo(d + 1) # MonthNo(d)
OnDayOfMonth(d, dom) == Date(d).dom = dom \/ (Date(d).dom < dom /\ IsLastOfMonth(d))

\* An interval that is absent counts as 1.
Interval(p) == IF p.interval = 0 THEN 1 ELSE p.interval

FirstDay(p) == IF p.first = Omitted THEN Sunday ELSE p.first
Week(d, boundary) == (d - boundary) \div 7

\* The index of a relative pattern: "first" is 0, "last" 4.
Last == 4

\* Whether a series with pattern p whose range begins on start has an
\* occurrence on day d, by Graph's definition of each kind of pattern.
Occurs(p, start, d) ==
  /\ d >= start
  /\ \/ p.kind = "daily" /\ (d - start) % Interval(p) = 0
     \/ /\ p.kind = "weekly"
        /\ Weekday(d) \in p.days
        /\ (Week(d, FirstDay(p)) - Week(start, FirstDay(p))) % Interval(p) = 0
     \/ /\ p.kind = "absoluteMonthly"
        /\ OnDayOfMonth(d, p.dom)
        /\ (MonthNo(d) - MonthNo(start)) % Interval(p) = 0
     \/ /\ p.kind = "absoluteYearly"
        /\ OnDayOfMonth(d, p.dom) /\ Date(d).month = p.month
        /\ (Date(d).year - Date(start).year) % Interval(p) = 0
     \/ /\ p.kind \in {"relativeMonthly", "relativeYearly"}
        /\ Weekday(d) \in p.days
        /\ IF p.index = Last THEN MonthNo(d + 7) # MonthNo(d)
                            ELSE (Date(d).dom - 1) \div 7 = p.index
        /\ IF p.kind = "relativeMonthly"
           THEN (MonthNo(d) - MonthNo(start)) % Interval(p) = 0
           ELSE /\ Date(d).month = p.month
                /\ (Date(d).year - Date(start).year) % Interval(p) = 0

-----------------------------------------------------------------------------
\* _week_boundary: with an interval of one week it decides nothing.
WeekBoundary(p) == IF Interval(p) <= 1 THEN Omitted ELSE FirstDay(p)

SamePatternWithoutBoundary(p, q) ==
  /\ p.kind = q.kind /\ Interval(p) = Interval(q)
  /\ p.kind \in {"weekly", "relativeMonthly", "relativeYearly"} => p.days = q.days
  /\ p.kind \in {"absoluteMonthly", "absoluteYearly"} => p.dom = q.dom
  /\ p.kind \in {"absoluteYearly", "relativeYearly"} => p.month = q.month
  /\ p.kind \in {"relativeMonthly", "relativeYearly"} => p.index = q.index

\* same_pattern: equality of _pattern_key, the fields that p's kind reads.
SamePattern(p, q) ==
  /\ p.kind = q.kind /\ Interval(p) = Interval(q)
  /\ p.kind \in {"weekly", "relativeMonthly", "relativeYearly"} => p.days = q.days
  /\ p.kind = "weekly" => WeekBoundary(p) = WeekBoundary(q)
  /\ p.kind \in {"absoluteMonthly", "absoluteYearly"} => p.dom = q.dom
  /\ p.kind \in {"absoluteYearly", "relativeYearly"} => p.month = q.month
  /\ p.kind \in {"relativeMonthly", "relativeYearly"} => p.index = q.index

ShiftedWithoutBoundary(p, delta) ==
  [p EXCEPT !.days = {(w + delta) % 7 : w \in p.days}]

\* A weekly pattern delta days later; its week boundary moves along where it
\* decides which days share a week.
Shifted(p, delta) ==
  [p EXCEPT !.days = {(w + delta) % 7 : w \in p.days},
            !.first = IF WeekBoundary(p) = Omitted THEN p.first
                                                   ELSE (WeekBoundary(p) + delta) % 7]

MovableUnanchored(p, old, new) ==
  \/ old = new \/ p.kind \in {"daily", "weekly", "absoluteYearly"}
  \/ p.kind = "absoluteMonthly" /\ MonthNo(new) = MonthNo(old)

\* The moves that move_pattern does not refuse.
Movable(p, old, new) ==
  \/ old = new \/ p.kind \in {"daily", "weekly"}
  \/ p.kind = "absoluteMonthly" /\ p.dom = Date(old).dom /\ MonthNo(new) = MonthNo(old)
  \/ p.kind = "absoluteYearly" /\ p.dom = Date(old).dom /\ p.month = Date(old).month

\* move_pattern, where it does not refuse.
Moved(p, old, new) ==
  CASE old = new \/ p.kind = "daily" -> p
    [] old # new /\ p.kind = "weekly" -> Shifted(p, new - old)
    [] old # new /\ p.kind = "absoluteMonthly" -> [p EXCEPT !.dom = Date(new).dom]
    [] OTHER -> [p EXCEPT !.dom = Date(new).dom, !.month = Date(new).month]

Plain(kind, interval, days, dom, month) ==
  [kind |-> kind, interval |-> interval, days |-> days, first |-> Omitted,
   dom |-> dom, month |-> month, index |-> 0]

\* _expand_shorthand.
Shorthand(name, start) ==
  CASE name = "daily"    -> Plain("daily", 1, {}, 0, 0)
    [] name = "weekdays" -> Plain("weekly", 1, 0..4, 0, 0)
    [] name = "weekly"   -> Plain("weekly", 1, {Weekday(start)}, 0, 0)
    [] name = "monthly"  -> Plain("absoluteMonthly", 1, {}, Date(start).dom, 0)
    [] name = "yearly"   -> Plain("absoluteYearly", 1, {}, Date(start).dom, Date(start).month)
=============================================================================
