----------------------------- MODULE DeltaCursor -----------------------------
(***************************************************************************)
(* The opaque cursors of Microsoft Graph's delta queries, and which items  *)
(* a page lists.  The server treats a cursor as a URL it never looks into; *)
(* what a cursor means is Graph's, taken from how the delta tools use it.  *)
(***************************************************************************)
EXTENDS Integers

CONSTANT MaxClock                      \* bound: changes made to the folders

Tick == 0..MaxClock

(***************************************************************************)
(* A cursor is the URL of a deltaLink or nextLink.  It stands for the tick *)
(* up to which its holder was served; a nextLink also for the round it is  *)
(* in: the tick the round must reach, and whether it is a snapshot (a      *)
(* round begun without a cursor, which lists the items that exist and not  *)
(* the ones deleted before it began).                                      *)
(***************************************************************************)
Cursor == [link : {"none", "next", "delta"}, pos : Tick, target : Tick, snap : BOOLEAN]

\* delta_token = None; as a URL, the caller-built initial_url.
NoToken == [link |-> "none", pos |-> 0, target |-> 0, snap |-> TRUE]
DeltaLink(q) == [link |-> "delta", pos |-> q, target |-> 0, snap |-> FALSE]
NextLink(q, t, s) == [link |-> "next", pos |-> q, target |-> t, snap |-> s]

NoRow == -1                            \* no row for this item in this call

\* The tick a round has to reach when URL c is answered at tick now.
Target(c, now) == IF c.link = "next" THEN c.target ELSE now

\* Answering URL c up to tick q lists i if its last change, at tick at, lies
\* between the two; a snapshot lists no item that was gone when it began.
Lists(c, q, now, at, exists) ==
  /\ c.pos < at /\ at <= q
  /\ c.snap => exists \/ at > Target(c, now)
=============================================================================
