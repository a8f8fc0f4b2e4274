------------------------------ MODULE DeltaFeed ------------------------------
(***************************************************************************)
(* One delta tool (list_inbox_delta, list_events_delta,                    *)
(* list_contacts_delta) and the page loop they share, fetch_delta_pages,   *)
(* together with the two parties around it: Microsoft Graph, which serves  *)
(* the pages and hands out cursors, and the agent, which alone keeps the   *)
(* cursor between calls (the server is stateless).                         *)
(*                                                                         *)
(* A page is answered between two awaits, so the folder can change between *)
(* any two pages of a call; the code after an answer runs to the next      *)
(* await in one step.                                                      *)
(***************************************************************************)
EXTENDS DeltaCursor, FiniteSets

CONSTANTS
  Item,            \* items of the synced folder, calendar window or contact list
  PageSize,        \* page_size after the tool's clamp to 1..100
  CapMultiplier,   \* PAGE_SIZE_CAP_MULTIPLIER
  MaxRetries,      \* max_retries of send_with_retry
  MaxFaults        \* bound: throttles, errors, expiries and lost replies

ASSUME DeltaAssumption ==
  /\ IsFiniteSet(Item)
  /\ PageSize \in Nat \ {0}
  /\ CapMultiplier \in Nat \ {0}
  /\ MaxRetries \in Nat
  /\ MaxClock \in Nat
  /\ MaxFaults \in Nat

VARIABLES
  clock, changed, alive,             \* the folder at Graph, as in ChangeFeed
  token, view,                       \* what the agent stores between calls
  pc, url, got, count, attempt,      \* the call: phase and fetch_delta_pages' locals
  reply,                             \* what the call returned
  asked,                             \* history: the tick when this sync round began
  faults                             \* faults so far

folder == <<clock, changed, alive>>
agent  == <<token, view>>
call   == <<pc, url, got, count, attempt, reply>>
vars   == <<clock, changed, alive, token, view, pc, url, got, count, attempt,
            reply, asked, faults>>

Nothing == [i \in Item |-> NoRow]
Reply == [token : Cursor, more : BOOLEAN]
NoReply == [token |-> NoToken, more |-> FALSE]

Cap == PageSize * CapMultiplier

Version(i) == IF alive[i] THEN changed[i] ELSE 0

(***************************************************************************)
(* Graph.  Answering URL c up to tick q lists the items whose last change  *)
(* lies between the two, each with its state of now; a tombstone is a row  *)
(* of version 0.                                                           *)
(***************************************************************************)
RoundTarget(c) == Target(c, clock)

Rows(c, q) == {i \in Item : Lists(c, q, clock, changed[i], alive[i])}

ExtendDropsEarlierPages(rows) == [i \in Item |-> IF i \in rows THEN Version(i) ELSE NoRow]

(***************************************************************************)
(* collected.extend(page_items): the list of rows is kept as what a reader *)
(* who goes through it in order ends up with (each item's last row) and    *)
(* its length.                                                             *)
(***************************************************************************)
Extend(rows) == [i \in Item |-> IF i \in rows THEN Version(i) ELSE got[i]]

\* What the agent holds once it takes in the rows collected so far.  Without
\* a cursor it asked for a snapshot, which replaces what it had.
Merged == [i \in Item |->
             IF got[i] # NoRow THEN got[i]
             ELSE IF token.link = "none" THEN 0 ELSE view[i]]

-----------------------------------------------------------------------------
Init ==
  /\ clock \in Tick
  /\ changed \in [Item -> 0..clock]
  /\ alive \in [Item -> BOOLEAN]
  /\ \A i \in Item : alive[i] => changed[i] > 0
  /\ \A i, j \in Item : changed[i] = changed[j] => i = j \/ changed[i] = 0
  /\ token = NoToken
  /\ view = [i \in Item |-> 0]
  /\ pc = "idle" /\ url = NoToken /\ got = Nothing /\ count = 0 /\ attempt = 0
  /\ reply = NoReply
  /\ asked = 0
  /\ faults = 0

\* Another client creates, edits or deletes item i.
Change(i) ==
  /\ clock < MaxClock
  /\ clock' = clock + 1
  /\ changed' = [changed EXCEPT ![i] = clock + 1]
  /\ \/ alive' = [alive EXCEPT ![i] = TRUE]
     \/ alive[i] /\ alive' = [alive EXCEPT ![i] = FALSE]
  /\ UNCHANGED <<agent, call, asked, faults>>

StartWithoutCursor ==
  /\ pc = "idle"
  /\ pc' = "get"
  /\ url' = NoToken
  /\ got' = Nothing /\ count' = 0 /\ attempt' = 0
  /\ asked' = IF token.link = "next" THEN asked ELSE clock
  /\ UNCHANGED <<folder, agent, reply, faults>>

\* The agent calls the tool with the cursor it stored; the first request goes out.
Start ==
  /\ pc = "idle"
  /\ pc' = "get"
  /\ url' = token
  /\ got' = Nothing /\ count' = 0 /\ attempt' = 0
  /\ asked' = IF token.link = "next" THEN asked ELSE clock
  /\ UNCHANGED <<folder, agent, reply, faults>>

ReturnCapTokenless(r) ==
  /\ pc' = "replied"
  /\ reply' = [r EXCEPT !.token = IF r.more THEN NoToken ELSE @]
  /\ UNCHANGED url

Return(r) == pc' = "replied" /\ reply' = r /\ UNCHANGED url

\* A page that ends the round: its deltaLink is the cursor of the next one.
DeltaLinkPage(q) ==
  LET rows == Rows(url, q) IN
  /\ pc = "get"
  /\ url.pos <= q /\ RoundTarget(url) <= q
  /\ Cardinality(rows) <= PageSize
  /\ got' = Extend(rows) /\ count' = count + Cardinality(rows) /\ attempt' = 0
  /\ Return([token |-> DeltaLink(q), more |-> FALSE])
  /\ UNCHANGED <<folder, agent, asked, faults>>

FollowOrStopSaysDone(n, link) ==
  IF n >= Cap
  THEN Return([token |-> link, more |-> FALSE])
  ELSE url' = link /\ UNCHANGED <<pc, reply>>

\* What the loop does with a nextLink: follow it, or hand it back at the cap,
\* which is tested when a page is in, so the last one may go beyond it.
FollowOrStop(n, link) ==
  IF n >= Cap
  THEN Return([token |-> link, more |-> TRUE])
  ELSE url' = link /\ UNCHANGED <<pc, reply>>

\* A page in the middle of a round.
NextLinkPage(q) ==
  LET rows == Rows(url, q) IN
  /\ pc = "get"
  /\ url.pos <= q
  /\ Cardinality(rows) <= PageSize
  /\ got' = Extend(rows) /\ count' = count + Cardinality(rows) /\ attempt' = 0
  /\ FollowOrStop(count', NextLink(q, RoundTarget(url), url.snap))
  /\ UNCHANGED <<folder, agent, asked, faults>>

\* Nothing changed since the cursor and Graph sends neither link.
NoLinkPage ==
  /\ pc = "get"
  /\ url.link = "delta"
  /\ \A i \in Item : changed[i] <= url.pos
  /\ attempt' = 0
  /\ Return(NoReply)
  /\ UNCHANGED <<folder, agent, got, count, asked, faults>>

Fault == faults < MaxFaults /\ faults' = faults + 1

\* 429/503: send_with_retry waits and sends again; the last one is raised.
Throttled ==
  /\ pc = "get"
  /\ Fault
  /\ IF attempt < MaxRetries
     THEN attempt' = attempt + 1 /\ UNCHANGED pc
     ELSE pc' = "failed" /\ UNCHANGED attempt
  /\ UNCHANGED <<folder, agent, url, got, count, reply, asked>>

\* Any other error status, a transport error, a timeout or a refused link:
\* the exception discards what was collected.
Fails ==
  /\ pc = "get"
  /\ Fault
  /\ pc' = "failed"
  /\ UNCHANGED <<folder, agent, url, got, count, attempt, reply, asked>>

\* 410: Graph no longer knows the cursor.
Expires ==
  /\ pc = "get"
  /\ url.link # "none"
  /\ Fault
  /\ pc' = "gone"
  /\ UNCHANGED <<folder, agent, url, got, count, attempt, reply, asked>>

\* The call's locals go with the call.
CallOver ==
  /\ pc' = "idle" /\ url' = NoToken /\ got' = Nothing
  /\ count' = 0 /\ attempt' = 0 /\ reply' = NoReply

\* The agent stores what the tool returned; without a new token it keeps its own.
Adopt ==
  /\ pc = "replied"
  /\ view' = Merged
  /\ token' = IF reply.token.link = "none" THEN token ELSE reply.token
  /\ CallOver
  /\ UNCHANGED <<folder, asked, faults>>

\* The answer never reaches the agent.
ReplyLost ==
  /\ pc = "replied"
  /\ Fault
  /\ CallOver
  /\ UNCHANGED <<folder, agent, asked>>

\* The agent sees an error and keeps its cursor, unless the error says it is gone.
SeeError ==
  /\ pc \in {"failed", "gone"}
  /\ token' = IF pc = "gone" THEN NoToken ELSE token
  /\ CallOver
  /\ UNCHANGED <<folder, view, asked, faults>>

Answer ==
  \/ \E q \in 0..clock : DeltaLinkPage(q)
  \/ \E q \in 0..clock : NextLinkPage(q)
  \/ NoLinkPage

Next ==
  \/ \E i \in Item : Change(i)
  \/ Start
  \/ Answer
  \/ Throttled
  \/ Fails
  \/ Expires
  \/ Adopt
  \/ ReplyLost
  \/ SeeError

\* The agent polls in a loop and Graph answers every request in the end.
Fairness == WF_vars(Start) /\ WF_vars(Answer) /\ WF_vars(Adopt) /\ WF_vars(SeeError)

Spec == Init /\ [][Next]_vars /\ Fairness

-----------------------------------------------------------------------------
(***************************************************************************)
(* Properties.                                                             *)
(***************************************************************************)

\* Types of all variables; the call's phase and its locals.
TypeOK ==
  /\ clock \in Tick
  /\ changed \in [Item -> Tick]
  /\ alive \in [Item -> BOOLEAN]
  /\ token \in Cursor
  /\ view \in [Item -> Tick]
  /\ pc \in {"idle", "get", "replied", "failed", "gone"}
  /\ url \in Cursor
  /\ got \in [Item -> Tick \cup {NoRow}]
  /\ count \in Nat
  /\ attempt \in 0..MaxRetries
  /\ reply \in Reply
  /\ asked \in Tick
  /\ faults \in 0..MaxFaults

\* The agent's cursor never runs ahead of what the agent was told: it has the
\* current state (or the absence) of every item that last changed by the
\* cursor's tick, whatever pages, errors, expiries and lost replies came before.
NoLostChange == \A i \in Item : changed[i] <= token.pos => view[i] = Version(i)

\* "has_more False when the round is complete": once the agent takes in such
\* an answer it has everything that last changed before it began the round.
RoundComplete ==
  pc = "replied" /\ ~reply.more =>
    \A i \in Item : changed[i] <= asked => Merged[i] = Version(i)

\* The pair (view, tick of the cursor) behaves as a follower of ChangeFeed.
Feed == INSTANCE ChangeFeed WITH mark <- token.pos
FollowsFeed == Feed!Spec

\* When the folder stops changing, an agent that keeps polling ends up with
\* the folder's state and keeps it.
InSync == \A i \in Item : view[i] = Version(i)
EventuallyInSync == <>[]InSync

-----------------------------------------------------------------------------
(***************************************************************************)
(* The inductive invariant behind NoLostChange, RoundComplete and          *)
(* FollowsFeed.                                                            *)
(***************************************************************************)

\* A cursor points into the past and, inside a round, the round aims at or
\* beyond the tick at which the agent began it.
CursorOK(c) ==
  /\ c.pos <= clock /\ c.target <= clock
  /\ c.link = "none" => c = NoToken
  /\ c.link = "delta" => ~c.snap
  /\ c.link = "next" => asked <= c.target

\* Whoever holds view v may go on from cursor c: v is right up to c's tick,
\* and in the middle of a snapshot v has none of the items the snapshot
\* will not mention because they were deleted before it began.
Serves(c, v) ==
  /\ \A i \in Item : changed[i] <= c.pos => v[i] = Version(i)
  /\ c.link = "next" /\ c.snap =>
       \A i \in Item : ~alive[i] /\ changed[i] <= c.target => v[i] = 0

FolderInv ==
  /\ asked <= clock
  /\ \A i \in Item : changed[i] <= clock /\ view[i] <= changed[i] /\ got[i] <= changed[i]

AgentInv == CursorOK(token) /\ Serves(token, view)

GetInv ==
  pc = "get" =>
    /\ CursorOK(url) /\ Serves(url, Merged)
    /\ token.pos <= url.pos
    /\ url.link # "next" => url = token /\ got = Nothing
    /\ count < Cap

ReplyInv ==
  pc = "replied" =>
    /\ reply.token.link # "none" =>
         /\ CursorOK(reply.token) /\ Serves(reply.token, Merged)
         /\ token.pos <= reply.token.pos
         /\ ~reply.more => asked <= reply.token.pos
    /\ reply.token.link = "none" =>
         /\ got = Nothing /\ token.link = "delta"
         /\ \A i \in Item : changed[i] <= token.pos \/ asked < changed[i]

CountInv == count < Cap + PageSize

IInv == TypeOK /\ FolderInv /\ AgentInv /\ GetInv /\ ReplyInv /\ CountInv
=============================================================================
