----------------------------- MODULE ChangeFeed -----------------------------
(***************************************************************************)
(* What a cursor-based change feed promises the agent that follows it:     *)
(* the abstract specification the delta tools implement.                   *)
(*                                                                         *)
(* A mailbox folder, calendar window or contact list is a set of items.    *)
(* Every change to an item happens at a tick of a clock; an item's version *)
(* is the tick of its last change, or 0 while the item does not exist.     *)
(* A follower keeps a view (a version per item) and a mark: it knows the   *)
(* current version of every item that has not changed since the mark.      *)
(***************************************************************************)
EXTENDS Naturals

CONSTANT Item

VARIABLES
  clock,     \* tick of the last change
  changed,   \* changed[i]: tick of i's last change, 0 if it never existed
  alive,     \* alive[i]: i exists now
  view,      \* view[i]: the version of i the follower has, 0 if none
  mark       \* the tick up to which the follower is up to date

feedVars == <<clock, changed, alive, view, mark>>

Version(i) == IF alive[i] THEN changed[i] ELSE 0

\* A follower at tick q has the current version of all that last changed by q.
UpToDate(v, q) == \A i \in Item : changed[i] <= q => v[i] = Version(i)

Init ==
  /\ clock \in Nat
  /\ changed \in [Item -> 0..clock]
  /\ alive \in [Item -> BOOLEAN]
  /\ \A i \in Item : alive[i] => changed[i] > 0
  /\ view = [i \in Item |-> 0]
  /\ mark = 0

\* Somebody creates, edits or deletes an item.
Change(i) ==
  /\ clock' = clock + 1
  /\ changed' = [changed EXCEPT ![i] = clock + 1]
  /\ \/ alive' = [alive EXCEPT ![i] = TRUE]
     \/ alive[i] /\ alive' = [alive EXCEPT ![i] = FALSE]
  /\ UNCHANGED <<view, mark>>

\* The follower moves on to tick q, and misses nothing on the way.
Advance(q) ==
  /\ mark <= q
  /\ mark' = q
  /\ view' \in [Item -> Nat]
  /\ UpToDate(view', q)
  /\ \A i \in Item : view'[i] <= changed[i]
  /\ UNCHANGED <<clock, changed, alive>>

\* The feed no longer remembers the follower: it starts over.
Forget ==
  /\ mark' = 0
  /\ UNCHANGED <<clock, changed, alive, view>>

Next ==
  \/ \E i \in Item : Change(i)
  \/ \E q \in 0..clock : Advance(q)
  \/ Forget

Spec == Init /\ [][Next]_feedVars
=============================================================================
