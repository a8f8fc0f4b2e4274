----------------------------- MODULE EventUpdate -----------------------------
(***************************************************************************)
(* One call of update_event, between reading the event and patching it.    *)
(*                                                                         *)
(* The call reads the event at most once (current_event), derives from it  *)
(* the zone and the recurrence the PATCH must carry, reads the edited and  *)
(* deleted occurrences of a series, which a change of its times or pattern *)
(* would discard, and pins the PATCH of a series to the change key of the  *)
(* first read (If-Match).  Each request is an await, in which another      *)
(* client can edit the event; Graph compares the key and writes in a step. *)
(*                                                                         *)
(* Left out: fields that do not bear on times or recurrence, dates (a new  *)
(* start moves the pattern's days, not which pattern it is), and the       *)
(* policy's refusals, which add no read of their own.  Start and end are   *)
(* anchored in one zone.                                                   *)
(***************************************************************************)
EXTENDS Integers

CONSTANTS
  Zone,        \* zones Graph accepts back; UTC is one of them
  UTC,
  Iana,        \* the ones maybe_zone can resolve
  Custom,      \* "tzone://Microsoft/Custom", which Graph does not accept back
  Recurrence,  \* recurrence patterns
  Occurrence,  \* occurrences of the series that somebody may edit or delete
  MaxEdits,    \* bound: edits by other clients
  MaxSends     \* bound: times the SDK sends the PATCH (its retry handler)

NoZone == "none"
NoPattern == "none"
NoKey == -1

ASSUME EventAssumption ==
  /\ UTC \in Iana /\ Iana \subseteq Zone
  /\ Custom \notin Zone /\ NoZone \notin Zone \cup {Custom}
  /\ NoPattern \notin Recurrence
  /\ MaxEdits \in Nat /\ MaxSends \in Nat

VARIABLES
  event,    \* the event at Graph
  changes,  \* its edited and deleted occurrences
  args,     \* what the caller asked for
  pc,       \* the request that is out, or how the call ended
  seen,     \* _current, the first read
  pin,      \* if_match
  sends,    \* times the PATCH has been sent
  edits     \* edits by other clients so far

world == <<event, changes, edits>>
updateVars == <<event, changes, args, pc, seen, pin, sends, edits>>

\* All-day events are stored in UTC, whatever zone they were sent in.
Event(keys) ==
  {e \in [series : BOOLEAN, zone : Zone \cup {Custom}, pattern : Recurrence \cup {NoPattern},
          allDay : BOOLEAN, key : keys] :
     /\ e.series <=> e.pattern # NoPattern
     /\ e.allDay => e.zone = UTC}

\* No `start` and `end`, one of them, or both; zone and allDay need both.
Args == {a \in [times : {"none", "start", "end", "both"}, zone : Zone \cup {NoZone},
                allDay : {"leave", "yes", "no"}, rec : Recurrence \cup {NoPattern}, remove : BOOLEAN] :
           /\ a.zone # NoZone \/ a.allDay # "leave" => a.times = "both"
           /\ a.zone # NoZone => a.allDay # "yes"
           /\ a.remove => a.rec = NoPattern}

NoRead == [series |-> FALSE, zone |-> UTC, pattern |-> NoPattern, allDay |-> FALSE,
           key |-> NoKey]

HasStart == args.times \in {"start", "both"}
Reshapes == args.times # "none" \/ args.rec # NoPattern

-----------------------------------------------------------------------------
(***************************************************************************)
(* What the code derives from the event e it read.                         *)
(***************************************************************************)
Usable(z) == IF z = Custom THEN NoZone ELSE z

AllDay(e) == IF args.allDay = "leave" THEN e.allDay ELSE args.allDay = "yes"

StartZoneFromProjection(e) ==
  IF AllDay(e) THEN UTC ELSE IF args.zone # NoZone THEN args.zone ELSE UTC

\* start_zone, for a patch of the times.
StartZone(e) ==
  IF AllDay(e) THEN UTC ELSE IF args.zone # NoZone THEN args.zone ELSE Usable(e.zone)

\* The zone the anchor of a recurrence without a new start is read in.
AnchorZone(e) == IF args.times = "end" /\ AllDay(e) THEN UTC ELSE Usable(e.zone)

ResentUnlessCustom(e) ==
  /\ args.times # "none" /\ args.rec = NoPattern /\ ~args.remove
  /\ e.series /\ Usable(e.zone) # NoZone /\ Usable(e.zone) # StartZone(e)

\* A new zone takes the series' own recurrence along.
Resent(e) ==
  /\ args.times # "none" /\ args.rec = NoPattern /\ ~args.remove
  /\ e.series /\ Usable(e.zone) # StartZone(e)

\* The recurrence in the PATCH.
Sent(e) == IF Resent(e) THEN e.pattern ELSE args.rec

\* _anchored: the times cannot be sent without a zone.
ZoneRefused(e) == args.times # "none" /\ StartZone(e) = NoZone

\* The request after all checks.
AfterChecks(e) ==
  IF ZoneRefused(e) THEN "refused"
  ELSE IF args.rec # NoPattern /\ ~HasStart /\ AnchorZone(e) \notin Iana \cup {NoZone}
       THEN "localize" ELSE "patch"

\* The request after the first read.
AfterRead(e) ==
  IF args.zone # NoZone /\ AllDay(e) THEN "refused"
  ELSE IF e.series THEN "occurrences" ELSE AfterChecks(e)

UpdateInit ==
  /\ event \in Event({0})
  /\ changes \in IF event.series THEN SUBSET Occurrence ELSE {{}}
  /\ args \in Args
  /\ pc = IF Reshapes THEN "read" ELSE "patch"
  /\ seen = NoRead /\ pin = NoKey
  /\ sends = 0 /\ edits = 0

(***************************************************************************)
(* Other clients.  Whatever they change moves the event's change key.      *)
(***************************************************************************)
EditedTo(pattern, zone) ==
  event' = [series |-> pattern # NoPattern, zone |-> zone, pattern |-> pattern,
            allDay |-> event.allDay, key |-> event.key + 1]

EditByOthers ==
  /\ edits < MaxEdits /\ edits' = edits + 1
  /\ UNCHANGED <<args, pc, seen, pin, sends>>

EditOccurrence(o) ==
  /\ EditByOthers
  /\ event.series /\ o \notin changes
  /\ changes' = changes \cup {o}
  /\ EditedTo(event.pattern, event.zone)

\* A new pattern, which may also turn a single event into a series.
Repattern(p) ==
  /\ EditByOthers
  /\ p # event.pattern
  /\ changes' = {}
  /\ EditedTo(p, event.zone)

Collapse ==
  /\ EditByOthers
  /\ event.series
  /\ changes' = {}
  /\ EditedTo(NoPattern, event.zone)

Rezone(z) ==
  /\ EditByOthers
  /\ ~event.allDay /\ z # event.zone
  /\ changes' = {}
  /\ EditedTo(event.pattern, z)

-----------------------------------------------------------------------------
(***************************************************************************)
(* The call.                                                               *)
(***************************************************************************)

\* current_event's GET.  Graph may leave the change key out.
Read ==
  /\ pc = "read"
  /\ \E k \in {event.key, NoKey} : seen' = [event EXCEPT !.key = k]
  /\ pc' = AfterRead(seen')
  /\ UNCHANGED <<world, args, pin, sends>>

ReadOccurrencesPinsThisRead ==
  /\ pc = "occurrences"
  /\ IF changes = {}
     THEN pc' = AfterChecks(seen) /\ pin' = event.key
     ELSE pc' = "refused" /\ UNCHANGED pin
  /\ UNCHANGED <<world, args, seen, sends>>

ReadOccurrencesUnchecked ==
  /\ pc = "occurrences"
  /\ pc' = AfterChecks(seen) /\ pin' = seen.key
  /\ UNCHANGED <<world, args, seen, sends>>

\* _refuse_to_discard_occurrences' GET; then the PATCH is pinned to the first read.
ReadOccurrences ==
  /\ pc = "occurrences"
  /\ IF changes = {}
     THEN pc' = AfterChecks(seen) /\ pin' = seen.key
     ELSE pc' = "refused" /\ UNCHANGED pin
  /\ UNCHANGED <<world, args, seen, sends>>

\* _start_in_its_own_zone's GET: a start projected into another zone is refused.
ReadLocalStart ==
  /\ pc = "localize"
  /\ pc' \in {"patch", "refused"}
  /\ UNCHANGED <<world, args, seen, pin, sends>>

\* A read or the PATCH fails for good without effect.
Fails ==
  /\ pc \in {"read", "occurrences", "localize", "patch"}
  /\ pc' = "raised"
  /\ UNCHANGED <<world, args, seen, pin, sends>>

Taken == pin \in {NoKey, event.key}

\* Graph refuses a new zone for a series without its recurrence.
Unsendable ==
  /\ event.series /\ HasStart /\ StartZone(seen) # event.zone
  /\ Sent(seen) = NoPattern /\ ~args.remove

\* The event after the PATCH.
Patched ==
  [series  |-> ~args.remove /\ (event.series \/ Sent(seen) # NoPattern),
   zone    |-> IF HasStart THEN StartZone(seen) ELSE event.zone,
   pattern |-> IF args.remove THEN NoPattern
               ELSE IF Sent(seen) # NoPattern THEN Sent(seen) ELSE event.pattern,
   allDay  |-> AllDay(event),
   key     |-> event.key + 1]

\* New times or another pattern restore every occurrence of a series, and so
\* does the end of the series.
Restores == args.times # "none" \/ Patched.pattern # event.pattern

\* If-Match names a change key that is no longer the event's: 412.
PatchConflicts ==
  /\ pc = "patch" /\ ~Taken
  /\ pc' = "conflict"
  /\ UNCHANGED <<world, args, seen, pin, sends>>

\* 400 ErrorPropertyValidationFailure.
PatchInvalid ==
  /\ pc = "patch" /\ Taken /\ Unsendable
  /\ pc' = "invalid"
  /\ UNCHANGED <<world, args, seen, pin, sends>>

SendAgain == sends + 1 < MaxSends /\ pc' = "patch" /\ sends' = sends + 1

\* The PATCH takes effect.  Its answer arrives, is a 503 or 504 upon which the
\* SDK sends the PATCH again, or is lost.
PatchTakesEffect ==
  /\ pc = "patch" /\ Taken /\ ~Unsendable
  /\ event' = Patched
  /\ changes' = IF Restores THEN {} ELSE changes
  /\ \/ pc' = "updated" /\ UNCHANGED sends
     \/ SendAgain
     \/ pc' = "raised" /\ UNCHANGED sends
  /\ UNCHANGED <<args, seen, pin, edits>>

\* 429, 503 or 504 without effect.
PatchUnavailable ==
  /\ pc = "patch"
  /\ SendAgain
  /\ UNCHANGED <<world, args, seen, pin>>

Patch == PatchConflicts \/ PatchInvalid \/ PatchTakesEffect \/ PatchUnavailable

UpdateNext ==
  \/ \E o \in Occurrence : EditOccurrence(o)
  \/ \E p \in Recurrence : Repattern(p)
  \/ Collapse
  \/ \E z \in Zone \cup {Custom} : Rezone(z)
  \/ Read \/ ReadOccurrences \/ ReadLocalStart \/ Fails
  \/ Patch

UpdateSpec == UpdateInit /\ [][UpdateNext]_updateVars

-----------------------------------------------------------------------------
(***************************************************************************)
(* Properties.                                                             *)
(***************************************************************************)

\* Types of all variables; no PATCH of the times goes out without a zone.
UpdateTypeOK ==
  /\ event \in Event(Nat)
  /\ changes \subseteq Occurrence /\ (~event.series => changes = {})
  /\ args \in Args
  /\ pc \in {"read", "occurrences", "localize", "patch", "updated", "refused",
             "conflict", "invalid", "raised"}
  /\ seen \in [series : BOOLEAN, zone : Zone \cup {Custom}, pattern : Recurrence \cup {NoPattern},
               allDay : BOOLEAN, key : Nat \cup {NoKey}]
  /\ pin \in Nat \cup {NoKey}
  /\ sends \in 0..MaxSends
  /\ edits \in 0..MaxEdits

ByTheCall == edits' = edits

\* The call read the event as a series, with its change key.
SeenAsSeries == seen.series /\ seen.key # NoKey

\* "Between those reads and the PATCH another client can edit an occurrence
\* (which this patch would then discard)": a change of a series' times or
\* pattern discards no edited or deleted occurrence, whenever it was edited.
SeriesKeepsOccurrences ==
  [][ByTheCall /\ SeenAsSeries /\ Reshapes => changes' = changes]_updateVars

\* "... or re-pattern the series (which the echo would revert)": the call gives
\* a series another pattern or zone only as its caller asked for, never one it
\* read before another client changed it.
SeriesChangedAsAsked ==
  [][ByTheCall /\ SeenAsSeries =>
       /\ \/ event'.pattern \in {event.pattern, args.rec}
          \/ args.remove /\ event'.pattern = NoPattern
       /\ \/ event'.zone \in {event.zone, args.zone}
          \/ args.allDay = "yes" /\ event'.zone = UTC]_updateVars

\* A series whose zone changes has its recurrence in the PATCH, so that Graph
\* does not answer with the opaque 400 ErrorPropertyValidationFailure.
ZoneChangeIsSendable == pc = "invalid" => ~SeenAsSeries

-----------------------------------------------------------------------------
(***************************************************************************)
(* The inductive invariant behind the properties.                          *)
(***************************************************************************)
Checked == pc \in {"localize", "patch"}

\* The PATCH of a series is pinned to what was read first.
PinInv ==
  /\ seen.key <= event.key
  /\ Checked /\ seen.series => Reshapes /\ pin = seen.key
  /\ pc = "read" => ~seen.series /\ seen.key = NoKey
  /\ ~Reshapes => seen = NoRead /\ pc \notin {"read", "occurrences"}

\* While the change key has not moved, the event is as it was read, and a
\* series that passed the check has no edited or deleted occurrence.
FreshInv ==
  seen.key # NoKey /\ seen.key = event.key =>
    /\ seen = event
    /\ Checked /\ seen.series => changes = {}

\* The times go out with a zone, and an all-day event in UTC.
ZoneInv ==
  /\ Checked /\ args.times # "none" => StartZone(seen) # NoZone
  /\ Checked /\ args.times # "none" => AllDay(seen) = AllDay(event)
  /\ pc = "occurrences" => AllDay(seen) = AllDay(event)

UpdateInv == UpdateTypeOK /\ PinInv /\ FreshInv /\ ZoneInv /\ ZoneChangeIsSendable
=============================================================================
