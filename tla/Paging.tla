------------------------------- MODULE Paging -------------------------------
(***************************************************************************)
(* An agent reads a listing page by page with the cursors it is given:     *)
(* list_inbox, search_mail in a folder, list_events of a calendar.         *)
(* Contacts, drafts and tasks are listed as a folder that has one name.    *)
(*                                                                         *)
(* A cursor is a number of entries to skip, so whatever comes and goes     *)
(* between two pages moves the rest past it; and the folder or calendar is *)
(* looked up by a name that may belong to another one by then.             *)
(***************************************************************************)
EXTENDS Integers, SequencesExt

CONSTANTS
  Tool,      \* tools that are used: "list_inbox", "list_events", "search_mail"
  Item,      \* messages or events
  Place,     \* folders or calendars
  MaxCount,  \* the most entries of one page
  MaxEdits   \* bound: changes while the agent reads

AnyPlace == "not pinned"

ASSUME PagingAssumption ==
  /\ AnyPlace \notin Place
  /\ Tool \subseteq {"list_inbox", "list_events", "search_mail"}
  /\ IsFiniteSet(Item) /\ MaxCount \in Nat \ {0} /\ MaxEdits \in Nat

VARIABLES
  held,      \* held[p]: the entries of p in the order of the listing
  called,    \* the place that has the name the agent passes
  tool,      \* the tool the agent uses
  cursor,    \* the cursor it has
  listed,    \* listed[i]: how often the agent was shown i, up to twice
  from,      \* history: the places its pages came from
  stayed,    \* history: entries that were in the first of them all the time
  removed,   \* history: entries that left it while the agent was reading
  inserted,  \* history: entries that came
  edits

reading == <<tool, cursor, listed, from>>
vars    == <<held, called, reading, stayed, removed, inserted, edits>>

NoCursor == [at |-> "start"]
AtEnd    == [at |-> "end"]

\* Entries on the page that starts after skip.
PageOf(s, skip, count) ==
  SubSeq(s, skip + 1, IF skip + count < Len(s) THEN skip + count ELSE Len(s))

\* Graph's nextLink, if there is more: $search pages by $skiptoken.
NextLink(s, skip, count) ==
  IF skip + count >= Len(s) THEN AtEnd
  ELSE [at |-> "page", skip |-> skip + count,
        key |-> IF tool = "search_mail" THEN "skiptoken" ELSE "skip"]

\* The clamp of apply_pagination.
Clamped(count) == IF count < 1 THEN 1 ELSE IF count > MaxCount THEN MaxCount ELSE count

\* The QueryParameters classes of the SDK have no field for $skiptoken:
\* build_request_config leaves it out.
Sendable(key) == key # "skiptoken"

SkippedAnew(c) == IF c # NoCursor /\ c.place = AnyPlace /\ Sendable(c.key) THEN c.skip ELSE 0

\* What apply_pagination and build_request_config make of a cursor.
Skipped(c) == IF c # NoCursor /\ Sendable(c.key) THEN c.skip ELSE 0

PinnedByNone(p) == AnyPlace

PinnedByName(p) == IF tool = "list_events" THEN called ELSE AnyPlace

\* list_events puts the calendar in its cursors, the others nothing.
Pinned(p) == IF tool = "list_events" THEN p ELSE AnyPlace

WrappedInFullPages(link, p) ==
  IF link = AtEnd THEN AtEnd
  ELSE [at |-> "page", key |-> link.key, skip |-> Skipped(cursor) + MaxCount, place |-> Pinned(p)]

\* wrap_nextlink.
Wrapped(link, p) ==
  IF link = AtEnd THEN AtEnd
  ELSE [at |-> "page", key |-> link.key, skip |-> link.skip, place |-> Pinned(p)]

-----------------------------------------------------------------------------
Distinct(h) == \A p, q \in Place : \A i \in DOMAIN h[p], j \in DOMAIN h[q] :
                 h[p][i] = h[q][j] => p = q /\ i = j

\* Which entry is which means nothing: at first they are in some order.
Init ==
  /\ held \in [Place -> {SubSeq(SetToSeq(Item), a, b) : a, b \in 1..Cardinality(Item)}]
  /\ Distinct(held)
  /\ called \in Place
  /\ tool \in Tool
  /\ cursor = NoCursor /\ listed = [i \in Item |-> 0]
  /\ from = {} /\ stayed = {} /\ removed = 0 /\ inserted = 0 /\ edits = 0

\* Edits count from the first page on: before it, each is another initial state.
Edit == cursor \notin {NoCursor, AtEnd} /\ edits < MaxEdits /\ edits' = edits + 1

\* An entry is deleted, moved away, or an event leaves a window that is taken
\* from now.
Leave(p) ==
  /\ Edit
  /\ \E k \in DOMAIN held[p] :
       /\ held' = [held EXCEPT ![p] = RemoveAt(@, k)]
       /\ stayed' = stayed \ {held[p][k]}
  /\ removed' = IF p \in from THEN removed + 1 ELSE removed
  /\ UNCHANGED <<called, reading, inserted>>

\* A message arrives, an event is made or enters the window: anywhere in the
\* order.
Arrive(p) ==
  /\ Edit
  /\ \E i \in Item, k \in 1..(Len(held[p]) + 1) :
       /\ \A q \in Place : i \notin ToSet(held[q])
       /\ held' = [held EXCEPT ![p] = InsertAt(@, k, i)]
  /\ inserted' = IF p \in from THEN inserted + 1 ELSE inserted
  /\ UNCHANGED <<called, reading, stayed, removed>>

\* The name goes to another folder or calendar.
Rename ==
  /\ Edit
  /\ called' \in Place \ {called}
  /\ UNCHANGED <<held, reading, stayed, removed, inserted>>

\* One call: the place of the cursor, or the one that has the name now.
ListPage(count) ==
  LET p == IF cursor # NoCursor /\ cursor.place # AnyPlace THEN cursor.place ELSE called
      n == Clamped(count)
      page == PageOf(held[p], Skipped(cursor), n) IN
  /\ cursor # AtEnd
  /\ cursor' = Wrapped(NextLink(held[p], Skipped(cursor), n), p)
  /\ listed' = [i \in Item |-> IF i \in ToSet(page) /\ listed[i] < 2 THEN listed[i] + 1
                                                                   ELSE listed[i]]
  /\ from' = from \cup {p}
  /\ stayed' = IF cursor = NoCursor THEN ToSet(held[p]) ELSE stayed
  /\ UNCHANGED <<held, called, tool, removed, inserted, edits>>

\* The agent asks for as many as it likes each time.
Read == \E count \in 0..(MaxCount + 1) : ListPage(count)

Next == (\E p \in Place : Leave(p) \/ Arrive(p)) \/ Rename \/ Read

\* The agent reads to the end.
Spec == Init /\ [][Next]_vars /\ WF_vars(Read)

-----------------------------------------------------------------------------
\* Types; a cursor of list_events names the one calendar that was read.
TypeOK ==
  /\ held \in [Place -> Seq(Item)] /\ Distinct(held) /\ called \in Place /\ tool \in Tool
  /\ \/ cursor \in {NoCursor, AtEnd}
     \/ /\ cursor \in [at : {"page"}, key : {"skip", "skiptoken"}, skip : Nat,
                       place : Place \cup {AnyPlace}]
        /\ cursor.place \in Place => from = {cursor.place}
  /\ listed \in [Item -> 0..2] /\ from \subseteq Place /\ stayed \subseteq Item
  /\ removed \in 0..edits /\ inserted \in 0..edits /\ edits \in 0..MaxEdits

\* Pages of one calendar, whoever has its name by now: "a later page neither
\* re-resolves the name nor drifts to a different calendar".
OneCalendar == tool = "list_events" => Cardinality(from) <= 1

\* A listing read to the end from one place misses no more of the entries that
\* were there all the time than have left in the meantime: without a removal,
\* the cursors skip nothing.
MissesAtMostTheRemoved ==
  cursor = AtEnd /\ Cardinality(from) = 1
    => Cardinality({i \in stayed : listed[i] = 0}) <= removed

\* Nor does it show more entries twice than have come.
RepeatsAtMostTheInserted ==
  Cardinality(from) = 1 => Cardinality({i \in Item : listed[i] > 1}) <= inserted

\* An agent that follows the cursors comes to the end of the listing.
EndIsReached == <>(cursor = AtEnd)
=============================================================================
