---------------------------- MODULE Rescheduling ----------------------------
(***************************************************************************)
(* The days of one calendar series through create_event and update_event:  *)
(* which date the range begins on, whether a pattern in the call is the    *)
(* series' own, handed back, or a new instruction, and how the series' own *)
(* pattern moves with a new start.                                         *)
(*                                                                         *)
(* Each call is one step: EventUpdate has the requests it is made of and   *)
(* what other clients do in between.  A PATCH of the start alone, in the   *)
(* zone the event has, carries no recurrence and is left out, as is the    *)
(* removal of a recurrence.                                                *)
(***************************************************************************)
EXTENDS RecurrencePattern

CONSTANTS
  Day,    \* the days callers move series to
  Asked,  \* the patterns callers write, and the ones in the calendar at first
  Offset, \* how far the date a start is written with may be from its own
  Window  \* the days on which schedules are compared

ASSUME ReschedulingAssumption ==
  Day \subseteq Int /\ Asked \subseteq Pattern /\ {Offset, Window} \subseteq SUBSET Int

VARIABLES
  master,  \* the series at Graph; start is the day its first occurrence has in
           \* its own zone, range the one its range begins on
  call     \* history: how the last call ended; after a move also the pattern it
           \* was given and the series before it

vars == <<master, call>>

\* The zone of an event: one this host can resolve, one of Graph's Windows
\* names, or a custom one that Graph will not take back.
ZoneKind == {"iana", "windows", "custom"}
Series == [zone : ZoneKind, start : Int, range : Int, pattern : Pattern]
Calls  == [how : {"none", "refused", "given"}]
            \cup [how : {"moved"}, asked : Pattern, before : Series]

\* A `start` argument: the date it has in the event's zone and the date it is
\* written with, which may be the day before or after for an instant.
StartArg == {[local |-> d, text |-> d + k] : d \in Day, k \in Offset}

EventStartDateAsWritten(s, zone) == s.text

\* event_start_date: a zone that cannot be resolved leaves the date as written.
EventStartDate(s, zone) == IF zone = "iana" THEN s.local ELSE s.text

\* The dates the stored start can be read as when the call brings no start.
\* Graph is asked for the local time in a Windows zone; of an event in a custom
\* one only the instant is known, and its date in UTC.
StoredDates(e) == IF e.zone = "custom" THEN {e.start - 1, e.start, e.start + 1} ELSE {e.start}

\* What a caller may pass as recurrence: a pattern of its own, a shorthand, or
\* the series' own as outlook_get_event returned it, with or without its
\* firstDayOfWeek.
Payloads(date) ==
  Asked \cup {Shorthand(n, date) : n \in {"daily", "weekdays", "weekly", "monthly", "yearly"}}
    \cup {master.pattern, [master.pattern EXCEPT !.first = Omitted]}

\* Graph fills in what the pattern leaves out.
Stored(p) == [p EXCEPT !.first = FirstDay(p), !.interval = Interval(p)]

Init ==
  /\ master \in [zone : ZoneKind, start : Day, range : Day, pattern : {Stored(p) : p \in Asked}]
  /\ master.range = master.start
  /\ call = [how |-> "none"]

Refuse == call' = [how |-> "refused"] /\ UNCHANGED master

Write(zone, start, range, p) ==
  master' = [zone |-> zone, start |-> start, range |-> range, pattern |-> Stored(p)]

\* The pattern goes out as the caller gave it.
Give(zone, start, range, p) == call' = [how |-> "given"] /\ Write(zone, start, range, p)

\* _reconcile_range: a startDate in the call must be the date of the start.
RangeAgrees(given, date) == given \in {Omitted, date}

\* create_event in a zone of the caller's or the config's, both of which
\* resolve; this series takes the place of the one followed so far.
CreateEvent(s, given) ==
  \E p \in Payloads(EventStartDate(s, "iana")) :
    IF RangeAgrees(given, EventStartDate(s, "iana"))
    THEN Give("iana", s.local, EventStartDate(s, "iana"), p)
    ELSE Refuse

Move(zone, start, range, p) ==
  /\ call' = [how |-> "moved", asked |-> p, before |-> master]
  /\ Write(zone, start, range, Moved(p, master.range, range))

\* _follow_new_start and the PATCH: the range begins on the new date, and a
\* pattern that schedules what the stored one does moves there with it.
FollowNewStart(s, zone, p) ==
  LET date == EventStartDate(s, zone) IN
  IF ~SamePattern(p, master.pattern) THEN Give(zone, s.local, date, p)
  ELSE IF Movable(p, master.range, date) THEN Move(zone, s.local, date, p) ELSE Refuse

\* update_event with start, end and recurrence, and perhaps a timezone.
UpdateWithStart(s, zone) ==
  /\ zone \in {"iana", master.zone}
  /\ \E p \in Payloads(EventStartDate(s, zone)) :
       IF zone = "custom" THEN Refuse ELSE FollowNewStart(s, zone, p)

\* update_event with start, end and a timezone that the event is not in: the
\* series' own recurrence travels along.
ResendRecurrence(s) == FollowNewStart(s, "iana", master.pattern)

\* update_event with a recurrence and no start.
UpdateWithoutStart(given) ==
  \E date \in StoredDates(master) : \E p \in Payloads(date) :
    IF RangeAgrees(given, date) THEN Give(master.zone, master.start, date, p)
                                ELSE Refuse

Next ==
  \/ \E s \in StartArg : \E given \in {Omitted, s.local, s.text} : CreateEvent(s, given)
  \/ \E s \in StartArg, zone \in ZoneKind : UpdateWithStart(s, zone)
  \/ \E s \in StartArg : ResendRecurrence(s)
  \/ \E given \in {Omitted, master.range} : UpdateWithoutStart(given)

Spec == Init /\ [][Next]_vars

-----------------------------------------------------------------------------
\* Types; what is stored names its week start and its interval.
TypeOK ==
  /\ master \in Series /\ call \in Calls
  /\ master.pattern.first # Omitted /\ master.pattern.interval > 0

\* The days by which the range has moved in the last call.
Delta == master.range - call.before.range

\* The last call moved the series' own pattern, and on day d that is exact.
MovedExactly(d) ==
  Occurs(master.pattern, master.range, d + Delta)
    <=> Occurs(call.before.pattern, call.before.range, d)

\* A daily or weekly series that is moved is moved whole: every occurrence of it
\* by as many days as its start, and none is gained or lost.  "Weekly days shift
\* together, and a multi-week pattern's firstDayOfWeek with them, so a
\* fortnightly Sunday-and-Monday series stays one block".
MovesByDays ==
  call.how = "moved" /\ master.pattern.kind \in {"daily", "weekly"} =>
    \A d \in Window : MovedExactly(d)

\* A monthly or yearly series moved within the month, between days every month
\* has, is moved whole as well.  (The 29th to the 31st have no exact move:
\* move_pattern makes it all the same.)
MovesByDates ==
  /\ call.how = "moved" /\ master.pattern.kind \in {"absoluteMonthly", "absoluteYearly"}
  /\ MonthNo(master.range) = MonthNo(call.before.range)
  /\ Date(master.range).dom <= 28 /\ Date(call.before.range).dom <= 28
  => \A d \in Window : MovedExactly(d)

\* What is taken for the series' own pattern, and so moved instead of sent as
\* given, asks for the days the series has.
EchoAsksForSameDays ==
  call.how = "moved" =>
    \A d \in Window : Occurs(call.asked, call.before.range, d)
                      <=> Occurs(call.before.pattern, call.before.range, d)

\* The range of a series in a zone that resolves begins on the day its first
\* occurrence has there, whatever date the start was written with: "Graph
\* requires range.startDate to be the date of the first occurrence".
StartsOnItsDay == master.zone = "iana" => master.range = master.start
=============================================================================
