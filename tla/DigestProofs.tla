----------------------------- MODULE DigestProofs -----------------------------
(***************************************************************************)
(* Proofs about Digest, for any resources, items, caps and faults.         *)
(*                                                                         *)
(* The argument: up to its own cursor, a drain has of every item that is   *)
(* due the row that is true now, or the agent was told it before (Told).   *)
(* Due are the items that exist and are not old, which a snapshot lists as *)
(* much as a delta does, and, for a drain that goes on from the agent's    *)
(* cursor (one that is not windowed), whatever changed after the baseline. *)
(* A windowed drain ends in a new baseline at or beyond its cursor.  A     *)
(* cursor of None holds no tick, so nothing is due up to it.               *)
(*                                                                         *)
(* That old mail is news only for what happened to it: a drain that is not *)
(* windowed lists what changed after the agent's cursor (News), and that   *)
(* cursor has reached the baseline unless it is inside a snapshot          *)
(* (CursorInv).                                                            *)
(***************************************************************************)
EXTENDS Digest, FiniteSetTheorems, TLAPS

USE DigestAssumption DEF DigestAssumption

Reported(r, i) == IF run[r].rows[i] # NoRow THEN run[r].rows[i] ELSE told[i]
Seen(r) == IF run[r].last # NoToken THEN run[r].last ELSE tokens[r]

CursorInv ==
  \A r \in Resource :
    /\ tokens[r].link = "none" => tokens[r] = NoToken
    /\ tokens[r].pos <= clock
    /\ tokens[r].link = "next" /\ tokens[r].snap => tokens[r].target <= baseline[r]
    /\ tokens[r].link = "delta" => ~tokens[r].snap
    /\ tokens[r] # NoToken => baseline[r] # Never /\ baseline[r] <= Founded(tokens[r])

\* The cursors of a drain.
DrainCursors(d, r) ==
  /\ d.windowed <=> tokens[r] = NoToken \/ d.resynced
  /\ d.last = NoToken \/ d.last.link \in {"next", "delta"}
  /\ d.last.pos <= clock
  /\ d.last.link = "delta" => ~d.last.snap
  /\ d.at = "run" => /\ d.n < MaxInternalPages
                     /\ d.token = IF d.last # NoToken THEN d.last
                                  ELSE IF d.windowed THEN NoToken ELSE tokens[r]
  /\ d.at = "done" /\ d.windowed => d.last # NoToken
  /\ ~d.windowed /\ d.last # NoToken =>
       /\ tokens[r].pos <= d.last.pos
       /\ d.last.link = "next" /\ d.last.snap => d.last.target <= baseline[r]
       /\ baseline[r] <= Founded(d.last)

\* What the agent can count on being told up to the cursor of r's drain.
Due(r, i) ==
  \/ alive[i] /\ i \notin Old
  \/ ~run[r].windowed /\ baseline[r] < changed[i]

Told(r) ==
  \A i \in ItemsOf[r] :
    Due(r, i) /\ changed[i] <= Seen(r).pos => Reported(r, i) = Version(i)

\* A drain from the agent's cursor lists what changed after it.
News(r) ==
  ~run[r].windowed => \A i \in ItemsOf[r] :
    run[r].rows[i] \in {NoRow, 0} \/ tokens[r].pos < run[r].rows[i]

DrainInv ==
  \A r \in Resource : run[r].at \in {"run", "done"} =>
    DrainCursors(run[r], r) /\ Told(r) /\ News(r)

ClockInv == \A i \in Item : changed[i] <= clock /\ (alive[i] => 0 < changed[i])

IInv ==
  TypeOK /\ ClockInv /\ CursorInv /\ DrainInv /\ NoSilentLoss /\ NothingRecentIsLost

-----------------------------------------------------------------------------
LEMMA LinkTypes ==
  ASSUME NEW q \in Tick, NEW t \in Tick, NEW s \in BOOLEAN
  PROVE  /\ DeltaLink(q) \in Cursor /\ NextLink(q, t, s) \in Cursor /\ NoToken \in Cursor
         /\ DeltaLink(q).link = "delta" /\ DeltaLink(q).pos = q /\ DeltaLink(q).snap = FALSE
         /\ NextLink(q, t, s).link = "next" /\ NextLink(q, t, s).pos = q
         /\ NextLink(q, t, s).target = t /\ NextLink(q, t, s).snap = s
         /\ NoToken.link = "none" /\ NoToken.pos = 0 /\ NoToken.snap = TRUE
  BY DEF DeltaLink, NextLink, NoToken, Cursor, Tick

LEMMA OffType == Off \in Runner
  BY LinkTypes DEF Off, Runner, Nothing, NoToken, Cursor, Tick, NoRow

LEMMA ItemFacts ==
  ASSUME NEW r \in Resource, NEW i \in ItemsOf[r]
  PROVE  i \in Item /\ ResourceOf(i) = r
<1>1. i \in Item
  BY DEF Item
<1>2. \A s \in Resource : i \in ItemsOf[s] => s = r
  OBVIOUS
<1> QED BY <1>1, <1>2 DEF ResourceOf

LEMMA VersionType == TypeOK => \A i \in Item : Version(i) \in Tick
  BY DEF TypeOK, Version, Tick

\* The fields of a drain from cursor c.
LEMMA DrainFields ==
  ASSUME NEW c \in Cursor
  PROVE  /\ Drain(c) \in Runner
         /\ Drain(c).at = "run" /\ (Drain(c).windowed <=> c.link = "none") /\ ~Drain(c).resynced
         /\ Drain(c).token = c /\ Drain(c).last = NoToken /\ Drain(c).n = 0
         /\ Drain(c).rows = Nothing
<1> DEFINE a == [Off EXCEPT !.at = "run"]
           b == [a EXCEPT !.windowed = (c.link = "none")]
           e == [b EXCEPT !.token = c]
<1>1. Drain(c) = e
  BY DEF Drain
<1>2. Off \in Runner /\ Off.last = NoToken /\ Off.n = 0 /\ Off.rows = Nothing /\ ~Off.resynced
  BY OffType DEF Off
<1>3. a \in Runner /\ a.at = "run" /\ a.last = NoToken /\ a.n = 0 /\ a.rows = Nothing
      /\ ~a.resynced
  BY <1>2 DEF Runner
<1> HIDE DEF a
<1>4. b \in Runner /\ b.at = "run" /\ b.last = NoToken /\ b.n = 0 /\ b.rows = Nothing
      /\ ~b.resynced /\ b.windowed = (c.link = "none")
  BY <1>3 DEF Runner
<1> HIDE DEF b
<1>5. e \in Runner /\ e.at = "run" /\ e.last = NoToken /\ e.n = 0 /\ e.rows = Nothing
      /\ ~e.resynced /\ e.windowed = (c.link = "none") /\ e.token = c
  BY <1>4 DEF Runner
<1> QED BY <1>1, <1>5

\* The fields of a drain after a pull.
LEMMA StepFields ==
  ASSUME NEW d \in Runner, d.n < MaxInternalPages, d.at = "run",
         NEW new \in SUBSET Item, NEW c \in Cursor, NEW more \in BOOLEAN,
         \A i \in Item : Version(i) \in Tick
  PROVE  LET e == DrainStep(d, new, c, more) IN
         /\ e \in Runner
         /\ e.at \in {"run", "done"} /\ (e.at = "run" => more)
         /\ e.windowed = d.windowed /\ e.resynced = d.resynced
         /\ e.last = IF c.link = "none" THEN d.last ELSE c
         /\ e.at = "run" => e.token = c /\ e.n < MaxInternalPages
         /\ e.rows = Collect(d.rows, new)
         /\ e.n = d.n + 1 /\ (e.at = "done" /\ more => e.n = MaxInternalPages)
<1> DEFINE over == d.n + 1 = MaxInternalPages \/ ~more
           a == [d EXCEPT !.at = IF over THEN "done" ELSE "run"]
           b == [a EXCEPT !.token = IF over THEN NoToken ELSE c]
           o == [b EXCEPT !.n = @ + 1]
           f == [o EXCEPT !.last = IF c.link = "none" THEN @ ELSE c]
           g == [f EXCEPT !.rows = Collect(@, new)]
<1>1. DrainStep(d, new, c, more) = g
  BY DEF DrainStep, Onward
<1>2. /\ d.n \in 0..MaxInternalPages /\ d.rows \in [Item -> Tick \cup {NoRow}] /\ d.last \in Cursor
      /\ NoToken \in Cursor
  BY DEF Runner, NoToken, Cursor, Tick
<1>3. Collect(d.rows, new) \in [Item -> Tick \cup {NoRow}]
  BY <1>2 DEF Collect
<1>4. /\ d.n + 1 \in 0..MaxInternalPages /\ (~over => d.n + 1 < MaxInternalPages /\ more)
      /\ over /\ more => d.n + 1 = MaxInternalPages
  BY <1>2
<1>5. /\ a \in Runner /\ a.at = (IF over THEN "done" ELSE "run")
      /\ a.windowed = d.windowed /\ a.resynced = d.resynced /\ a.last = d.last /\ a.n = d.n
      /\ a.rows = d.rows
  BY DEF Runner
<1> HIDE DEF a
<1>6. /\ b \in Runner /\ b.at = a.at /\ b.token = (IF over THEN NoToken ELSE c)
      /\ b.windowed = d.windowed /\ b.resynced = d.resynced /\ b.last = d.last /\ b.n = d.n
      /\ b.rows = d.rows
  BY <1>2, <1>5 DEF Runner
<1> HIDE DEF b
<1>7. /\ o \in Runner /\ o.at = a.at /\ o.token = b.token
      /\ o.windowed = d.windowed /\ o.resynced = d.resynced /\ o.last = d.last /\ o.n = d.n + 1
      /\ o.rows = d.rows
  BY <1>4, <1>6 DEF Runner
<1> HIDE DEF o
<1>8. /\ f \in Runner /\ f.at = a.at /\ f.token = b.token
      /\ f.windowed = d.windowed /\ f.resynced = d.resynced
      /\ f.last = (IF c.link = "none" THEN d.last ELSE c) /\ f.n = d.n + 1 /\ f.rows = d.rows
  BY <1>7 DEF Runner
<1> HIDE DEF f
<1>9. /\ g \in Runner /\ g.at = a.at /\ g.token = b.token
      /\ g.windowed = d.windowed /\ g.resynced = d.resynced
      /\ g.last = (IF c.link = "none" THEN d.last ELSE c) /\ g.n = d.n + 1
      /\ g.rows = Collect(d.rows, new)
  BY <1>3, <1>8 DEF Runner
<1> HIDE DEF g, over
<1>10. over \in BOOLEAN
  BY DEF over
<1> QED BY <1>1, <1>4, <1>5, <1>6, <1>9, <1>10

LEMMA InitInv == Init => IInv
<1> SUFFICES ASSUME Init PROVE IInv
  OBVIOUS
<1>1. NoToken \in Cursor /\ NoToken.link = "none" /\ NoToken.pos = 0
  BY DEF NoToken, Cursor, Tick
<1>2. TypeOK
  BY <1>1, OffType DEF Init, TypeOK, Tick, Never
<1>3. ClockInv
  BY DEF Init, ClockInv, Tick
<1>4. CursorInv
  BY <1>1 DEF Init, CursorInv, Tick
<1>5. DrainInv
  BY DEF Init, DrainInv, Off
<1>6. NoSilentLoss
  BY DEF Init, NoSilentLoss, Never
<1>7. NothingRecentIsLost
  <2> SUFFICES ASSUME NEW r \in Resource, NEW i \in ItemsOf[r], alive[i], changed[i] <= 0
               PROVE  FALSE
    BY <1>1 DEF NothingRecentIsLost, Init
  <2> QED BY <1>2, <1>3, ItemFacts DEF ClockInv, TypeOK, Tick
<1> QED BY <1>2, <1>3, <1>4, <1>5, <1>6, <1>7 DEF IInv

\* What a step that leaves the folders and the agent alone cannot disturb.
LEMMA AgentKept ==
  ASSUME IInv, UNCHANGED <<folder, agent>>
  PROVE  (ClockInv /\ CursorInv /\ NoSilentLoss /\ NothingRecentIsLost)'
BY DEF IInv, ClockInv, CursorInv, NoSilentLoss, NothingRecentIsLost, Version, folder, agent

LEMMA OtherKept ==
  ASSUME IInv, UNCHANGED <<folder, agent>>, NEW s \in Resource, run'[s] = run[s],
         run[s].at \in {"run", "done"}
  PROVE  DrainCursors(run[s], s)' /\ Told(s)' /\ News(s)'
<1>1. DrainCursors(run[s], s) /\ Told(s) /\ News(s)
  BY DEF IInv, DrainInv
<1>2. DrainCursors(run[s], s)'
  BY <1>1 DEF DrainCursors, folder, agent
<1>3. Told(s)'
  BY <1>1 DEF Told, Due, Seen, Reported, Version, folder, agent
<1>4. News(s)'
  BY <1>1 DEF News, agent
<1> QED BY <1>2, <1>3, <1>4

-----------------------------------------------------------------------------
(* The steps.                                                              *)

\* A pull up to tick q that returns cursor c: the rows it collects are right
\* up to q.
LEMMA PullStep ==
  ASSUME IInv, NEW r \in Resource, run[r].at = "run",
         NEW q \in 0..clock, NEW c \in Cursor, NEW more \in BOOLEAN,
         run[r].token.pos <= q,
         \/ c = DeltaLink(q) /\ Target(run[r].token, clock) <= q
         \/ c = NextLink(q, Target(run[r].token, clock), run[r].token.snap),
         run' = [run EXCEPT ![r] = DrainStep(run[r], Listed(r, run[r].token, q), c, more)],
         UNCHANGED <<folder, agent, phase, faults>>
  PROVE  IInv'
<1> DEFINE d == run[r]
           new == Listed(r, d.token, q)
           e == DrainStep(d, new, c, more)
<1>0. clock \in Tick
  BY DEF IInv, TypeOK
<1>1. /\ d \in Runner /\ clock \in Tick /\ q \in Tick /\ clock \in Nat
      /\ changed \in [Item -> Tick] /\ baseline[r] \in Tick \cup {Never}
      /\ tokens[r] \in Cursor /\ \A s \in Resource : run[s] \in Runner
  BY <1>0 DEF IInv, TypeOK, Tick
<1>2. DrainCursors(d, r) /\ d.n < MaxInternalPages
  BY DEF IInv, DrainInv, DrainCursors
<1>3. new \in SUBSET Item
  BY ItemFacts DEF Listed
<1>4. d.token \in Cursor /\ d.last \in Cursor /\ d.token.target \in Tick /\ d.token.snap \in BOOLEAN
      /\ d.token.pos \in Tick /\ d.rows \in [Item -> Tick \cup {NoRow}]
  BY <1>1 DEF Runner, Cursor
<1>5. Target(d.token, clock) \in Tick
  BY <1>1, <1>4 DEF Target
<1>6. /\ c.link \in {"next", "delta"} /\ c.pos = q /\ (c.link = "delta" => ~c.snap)
      /\ c.link = "next" => c.target = Target(d.token, clock) /\ c.snap = d.token.snap
      /\ c.link = "delta" => Target(d.token, clock) <= q
      /\ c # NoToken
  <2>1. CASE c = DeltaLink(q) /\ Target(d.token, clock) <= q
    BY <2>1 DEF DeltaLink, NoToken
  <2>2. CASE c = NextLink(q, Target(d.token, clock), d.token.snap)
    BY <2>2 DEF NextLink, NoToken
  <2> QED BY <2>1, <2>2
<1>7. /\ e \in Runner
      /\ e.at \in {"run", "done"}
      /\ e.windowed = d.windowed /\ e.resynced = d.resynced
      /\ e.last = c
      /\ e.at = "run" => e.token = c /\ e.n < MaxInternalPages
      /\ e.rows = Collect(d.rows, new)
  BY <1>1, <1>2, <1>3, <1>6, StepFields, VersionType DEF IInv
<1>8. run'[r] = e /\ run' \in [Resource -> Runner]
      /\ \A s \in Resource \ {r} : run'[s] = run[s]
  BY <1>7 DEF IInv, TypeOK
<1> HIDE DEF e
<1>9. ASSUME NEW s \in Resource \ {r}, run'[s].at \in {"run", "done"}
      PROVE  DrainCursors(run[s], s)' /\ Told(s)' /\ News(s)'
  BY <1>8, <1>9, OtherKept
<1>10. DrainCursors(e, r)
  <2>1. e.last.link \in {"next", "delta"} /\ e.last.pos <= clock /\ e.last # NoToken
        /\ (e.last.link = "delta" => ~e.last.snap)
    BY <1>1, <1>6, <1>7
  <2>2. e.at = "run" => e.n < MaxInternalPages /\ e.token = e.last
    BY <1>7
  <2>3. e.windowed <=> tokens[r] = NoToken \/ e.resynced
    BY <1>2, <1>7 DEF DrainCursors
  <2>4. ASSUME ~d.windowed
        PROVE  /\ tokens[r].pos <= d.token.pos
               /\ d.token.link = "next" /\ d.token.snap => d.token.target <= baseline[r]
               /\ d.token.link \in {"next", "delta"}
               /\ baseline[r] <= Founded(d.token)
    <3>1. CASE d.last # NoToken
      BY <1>2, <2>4, <3>1 DEF DrainCursors
    <3>2. CASE d.last = NoToken
      <4>1. d.token = tokens[r] /\ tokens[r] # NoToken
        BY <1>2, <2>4, <3>2 DEF DrainCursors
      <4>2. tokens[r].link \in {"next", "delta"}
        BY <1>1, <4>1 DEF IInv, CursorInv, Cursor
      <4> QED BY <1>1, <4>1, <4>2 DEF IInv, CursorInv, Cursor, Tick
    <3> QED BY <3>1, <3>2
  <2>5. ~d.windowed => tokens[r].pos <= e.last.pos
    BY <1>1, <1>4, <1>6, <1>7, <2>4 DEF Cursor, Tick
  <2>6. ~d.windowed /\ e.last.link = "next" /\ e.last.snap => e.last.target <= baseline[r]
    <3> SUFFICES ASSUME ~d.windowed, e.last.link = "next", e.last.snap
                 PROVE  e.last.target <= baseline[r]
      OBVIOUS
    <3>1. d.token.snap /\ e.last.target = Target(d.token, clock)
      BY <1>6, <1>7
    <3>2. d.token.link = "next"
      <4>1. d.token.link = "delta" => ~d.token.snap
        BY <1>2 DEF DrainCursors, IInv, CursorInv
      <4> QED BY <2>4, <3>1, <4>1
    <3> QED BY <2>4, <3>1, <3>2 DEF Target
  <2>7. e.windowed <=> d.windowed
    BY <1>7
  <2>8. ~d.windowed => baseline[r] <= Founded(e.last)
    <3> SUFFICES ASSUME ~d.windowed PROVE baseline[r] <= Founded(c)
      BY <1>7
    <3>1. d.token.link \in {"next", "delta"} /\ baseline[r] <= Founded(d.token)
      BY <2>4
    <3>2. baseline[r] \in Int /\ d.token.pos \in Nat /\ d.token.target \in Nat /\ q \in Nat
      BY <1>1, <1>4 DEF Tick, Never
    <3>3. CASE c.link = "delta"
      BY <1>1, <1>6, <3>1, <3>2, <3>3 DEF Founded, Midway, Target
    <3>4. CASE c.link = "next"
      BY <1>1, <1>6, <3>1, <3>2, <3>4 DEF Founded, Midway, Target
    <3> QED BY <1>6, <3>3, <3>4
  <2>9. ~e.windowed =>
          /\ tokens[r].pos <= e.last.pos
          /\ e.last.link = "next" /\ e.last.snap => e.last.target <= baseline[r]
          /\ baseline[r] <= Founded(e.last)
    BY <2>5, <2>6, <2>7, <2>8
  <2> QED BY <2>1, <2>2, <2>3, <2>9 DEF DrainCursors
<1>11. ASSUME NEW i \in ItemsOf[r], Due(r, i)', changed[i] <= q
       PROVE  Reported(r, i)' = Version(i)
  <2>1. i \in Item /\ Version(i) \in Tick /\ changed[i] \in Tick
    BY <1>1, ItemFacts, VersionType DEF IInv
  <2>2. Reported(r, i)' = IF e.rows[i] # NoRow THEN e.rows[i] ELSE told[i]
    BY <1>8 DEF Reported, agent
  <2>3. e.rows[i] = IF i \in new THEN Version(i) ELSE d.rows[i]
    BY <1>7, <2>1 DEF Collect
  <2>4. Due(r, i)
    BY <1>7, <1>8, <1>11 DEF Due, folder, agent
  <2>5. CASE i \in new
    BY <2>1, <2>2, <2>3, <2>5 DEF NoRow, Tick
  <2>6. CASE i \notin new
    <3>1. ~(d.token.pos < changed[i]) \/ (d.token.snap /\ ~alive[i]
                                          /\ ~(changed[i] > Target(d.token, clock)))
      BY <1>11, <2>6 DEF Listed, Lists
    <3>2. CASE d.token.pos < changed[i]
      <4>1. d.token.snap /\ ~alive[i] /\ changed[i] <= Target(d.token, clock)
        BY <1>5, <2>1, <3>1, <3>2 DEF Tick
      <4>2. ~d.windowed /\ baseline[r] < changed[i]
        BY <2>4, <4>1 DEF Due
      <4>3. d.token.link = "next" /\ d.token.target <= baseline[r]
        <5>1. d.token = IF d.last # NoToken THEN d.last ELSE tokens[r]
          BY <1>2, <4>2 DEF DrainCursors
        <5>2. tokens[r] # NoToken
          BY <1>2, <4>2 DEF DrainCursors
        <5>3. CASE d.last # NoToken
          BY <1>2, <4>1, <4>2, <5>1, <5>3 DEF DrainCursors
        <5>4. CASE d.last = NoToken
          BY <1>1, <4>1, <5>1, <5>2, <5>4 DEF IInv, CursorInv, Cursor
        <5> QED BY <5>3, <5>4
      <4> QED BY <1>1, <1>4, <2>1, <4>1, <4>2, <4>3 DEF Target, Tick, Never
    <3>3. CASE ~(d.token.pos < changed[i])
      <4>1. changed[i] <= d.token.pos
        BY <1>4, <2>1, <3>3 DEF Tick
      <4>2. d.token = Seen(r)
        <5>1. CASE d.windowed /\ d.last = NoToken
          <6>1. d.token.pos = 0 /\ alive[i]
            BY <1>2, <2>4, <5>1 DEF DrainCursors, Due, NoToken
          <6> QED BY <2>1, <4>1, <6>1 DEF IInv, ClockInv, Tick
        <5>2. CASE ~d.windowed \/ d.last # NoToken
          BY <1>2, <5>2 DEF DrainCursors, Seen
        <5> QED BY <5>1, <5>2
      <4>3. Told(r)
        BY DEF IInv, DrainInv
      <4>4. Reported(r, i) = Version(i)
        BY <2>4, <4>1, <4>2, <4>3 DEF Told
      <4> QED BY <2>2, <2>3, <2>6, <4>4 DEF Reported
    <3> QED BY <3>2, <3>3
  <2> QED BY <2>5, <2>6
<1>12. Told(r)'
  <2>1. Seen(r)'.pos = q
    BY <1>6, <1>7, <1>8 DEF Seen
  <2>2. \A i \in ItemsOf[r] : Version(i)' = Version(i) /\ changed'[i] = changed[i]
    BY DEF Version, folder
  <2> QED BY <1>11, <2>1, <2>2 DEF Told
<1>13. News(r)'
  <2> SUFFICES ASSUME ~d.windowed, NEW i \in ItemsOf[r], e.rows[i] \notin {NoRow, 0}
               PROVE  tokens[r].pos < e.rows[i]
    BY <1>7, <1>8 DEF News, agent
  <2>0. i \in Item
    BY <1>1, ItemFacts
  <2>1. changed[i] \in Nat /\ e.rows[i] = IF i \in new THEN Version(i) ELSE d.rows[i]
    <3>1. changed[i] \in Tick
      BY <1>1, <2>0
    <3>2. e.rows[i] = IF i \in new THEN Version(i) ELSE d.rows[i]
      BY <1>7, <2>0 DEF Collect
    <3> QED BY <3>1, <3>2 DEF Tick
  <2>2. CASE i \in new
    <3>1. Version(i) = changed[i] /\ d.token.pos < changed[i]
      BY <2>1, <2>2 DEF Version, Listed, Lists
    <3>2. tokens[r].pos <= d.token.pos
      <4>1. tokens[r].pos \in Nat
        BY <1>1 DEF Cursor, Tick
      <4> QED BY <1>2, <4>1 DEF DrainCursors
    <3> QED BY <1>1, <1>4, <2>1, <2>2, <3>1, <3>2 DEF Cursor, Tick
  <2>3. CASE i \notin new
    BY <2>1, <2>3 DEF IInv, DrainInv, News
  <2> QED BY <2>2, <2>3
<1>14. DrainInv'
  <2>1. DrainCursors(run[r], r)'
    BY <1>8, <1>10 DEF DrainCursors, folder, agent
  <2> QED BY <1>9, <1>12, <1>13, <2>1 DEF DrainInv
<1>15. TypeOK'
  BY <1>8 DEF IInv, TypeOK, folder, agent
<1> QED BY <1>14, <1>15, AgentKept DEF IInv

\* A pull that returns no cursor leaves what was collected.
\* The fields of a drain after a pull without rows or a link.
LEMMA EmptyFields ==
  ASSUME NEW d \in Runner, d.n < MaxInternalPages, d.at = "run",
         \A i \in Item : Version(i) \in Tick
  PROVE  LET e == DrainStep(d, {}, NoToken, FALSE) IN
         /\ e \in Runner /\ e.at = "done" /\ e.windowed = d.windowed /\ e.resynced = d.resynced
         /\ e.last = d.last /\ e.rows = d.rows
<1> DEFINE more == FALSE
           new == {}
           e == DrainStep(d, new, NoToken, more)
<1>1. new \in SUBSET Item /\ more \in BOOLEAN /\ ~more /\ NoToken.link = "none" /\ NoToken \in Cursor
  BY DEF NoToken, Cursor, Tick
<1>2. Collect(d.rows, new) = d.rows
  <2>1. d.rows \in [Item -> Tick \cup {NoRow}]
    BY DEF Runner
  <2> QED BY <2>1 DEF Collect
<1> HIDE DEF more, new
<1>3. /\ e \in Runner /\ e.at \in {"run", "done"} /\ (e.at = "run" => more)
      /\ e.windowed = d.windowed /\ e.resynced = d.resynced
      /\ e.last = (IF NoToken.link = "none" THEN d.last ELSE NoToken)
      /\ e.rows = Collect(d.rows, new)
  BY <1>1, StepFields
<1> HIDE DEF e
<1>4. /\ e \in Runner /\ e.at = "done" /\ e.windowed = d.windowed /\ e.resynced = d.resynced
      /\ e.last = d.last /\ e.rows = d.rows
  BY <1>1, <1>2, <1>3
<1> QED BY <1>4 DEF e, more, new

LEMMA NoLinkStep == IInv /\ (\E r \in Resource : PullNoLink(r)) => IInv'
<1> SUFFICES ASSUME IInv, NEW r \in Resource, PullNoLink(r) PROVE IInv'
  OBVIOUS
<1> DEFINE d == run[r]
           e == DrainStep(d, {}, NoToken, FALSE)
<1>1. /\ d.at = "run" /\ d.token.link = "delta" /\ run' = [run EXCEPT ![r] = e]
      /\ UNCHANGED <<folder, agent, phase, faults>>
  BY DEF PullNoLink
<1>2. d \in Runner /\ DrainCursors(d, r) /\ d.n < MaxInternalPages
      /\ NoToken \in Cursor /\ NoToken.link = "none" /\ \A i \in Item : Version(i) \in Tick
  BY <1>1, VersionType DEF IInv, TypeOK, DrainInv, DrainCursors, NoToken, Cursor, Tick
<1>3. /\ e \in Runner /\ e.at = "done" /\ e.windowed = d.windowed /\ e.resynced = d.resynced
      /\ e.last = d.last /\ e.rows = d.rows
  BY <1>1, <1>2, EmptyFields
<1> HIDE DEF e
<1>4. run'[r] = e /\ run' \in [Resource -> Runner]
      /\ \A s \in Resource \ {r} : run'[s] = run[s]
  BY <1>1, <1>3 DEF IInv, TypeOK
<1>5. d.windowed => d.last # NoToken
  BY <1>1, <1>2 DEF DrainCursors
<1>6. DrainInv'
  <2>1. DrainCursors(run[r], r) /\ Told(r) /\ News(r)
    BY <1>1 DEF IInv, DrainInv
  <2>2. DrainCursors(run[r], r)'
    BY <1>1, <1>2, <1>3, <1>4, <1>5 DEF DrainCursors, folder, agent
  <2>3. Told(r)'
    BY <1>1, <1>3, <1>4, <2>1 DEF Told, Due, Seen, Reported, Version, folder, agent
  <2>4. News(r)'
    BY <1>1, <1>3, <1>4, <2>1 DEF News, agent
  <2>5. ASSUME NEW s \in Resource \ {r}, run'[s].at \in {"run", "done"}
        PROVE  DrainCursors(run[s], s)' /\ Told(s)' /\ News(s)'
    BY <1>1, <1>4, <2>5, OtherKept
  <2> QED BY <2>2, <2>3, <2>4, <2>5 DEF DrainInv
<1>7. TypeOK'
  BY <1>1, <1>4 DEF IInv, TypeOK, folder, agent
<1> QED BY <1>1, <1>6, <1>7, AgentKept DEF IInv

\* A resync begins the drain again from nothing, any other failure ends it.
LEMMA FailStep == IInv /\ (\E r \in Resource : PullGone(r) \/ PullFails(r)) => IInv'
<1> SUFFICES ASSUME IInv, NEW r \in Resource, PullGone(r) \/ PullFails(r) PROVE IInv'
  OBVIOUS
<1> DEFINE a == Drain(NoToken)
           e == [a EXCEPT !.resynced = TRUE]
           f == [Off EXCEPT !.at = "failed"]
<1>1. /\ \/ run' = [run EXCEPT ![r] = e] /\ UNCHANGED phase
         \/ run' = [run EXCEPT ![r] = f] /\ phase' = "raised"
      /\ UNCHANGED <<folder, agent>> /\ faults' = faults + 1 /\ faults < MaxFaults
  BY DEF PullGone, PullFails, Raise, Fault
<1>2. NoToken \in Cursor /\ NoToken.link = "none" /\ NoToken.pos = 0
  BY DEF NoToken, Cursor, Tick
<1>3. a \in Runner /\ a.at = "run" /\ a.windowed /\ a.token = NoToken /\ a.last = NoToken /\ a.n = 0
      /\ a.rows = Nothing
  BY <1>2, DrainFields
<1> HIDE DEF a
<1>4. /\ e \in Runner /\ e.at = "run" /\ e.windowed /\ e.resynced /\ e.token = NoToken
      /\ e.last = NoToken /\ e.n = 0 /\ e.rows = Nothing
  BY <1>3 DEF Runner
<1>5. f \in Runner /\ f.at = "failed"
  BY OffType DEF Off, Runner
<1> HIDE DEF e, f
<1>6. run'[r] \in {e, f} /\ run' \in [Resource -> Runner]
      /\ \A s \in Resource \ {r} : run'[s] = run[s]
  BY <1>1, <1>4, <1>5 DEF IInv, TypeOK
<1>7. DrainCursors(e, r)
  <2>1. clock \in Nat /\ 0 < MaxInternalPages
    BY DEF IInv, TypeOK, Tick
  <2> QED BY <1>2, <1>4, <2>1 DEF DrainCursors
<1>8. ASSUME run'[r] = e PROVE DrainCursors(run[r], r)' /\ Told(r)' /\ News(r)'
  <2>1. DrainCursors(run[r], r)'
    BY <1>1, <1>7, <1>8 DEF DrainCursors, folder, agent
  <2>2. Told(r)'
    <3> SUFFICES ASSUME NEW i \in ItemsOf[r], alive[i], i \notin Old, changed[i] <= tokens[r].pos
                 PROVE  told[i] = Version(i)
      <4>1. \A i \in ItemsOf[r] : e.rows[i] = NoRow
        BY <1>4, ItemFacts DEF Nothing
      <4> QED BY <1>1, <1>4, <1>8, <4>1
            DEF Told, Due, Seen, Reported, Version, folder, agent
    <3> QED BY DEF IInv, NothingRecentIsLost, Version
  <2>3. News(r)'
    BY <1>4, <1>8 DEF News
  <2> QED BY <2>1, <2>2, <2>3
<1>9. DrainInv'
  <2>1. run'[r].at \in {"run", "done"} => run'[r] = e
    BY <1>5, <1>6
  <2>2. ASSUME NEW s \in Resource \ {r}, run'[s].at \in {"run", "done"}
        PROVE  DrainCursors(run[s], s)' /\ Told(s)' /\ News(s)'
    BY <1>1, <1>6, <2>2, OtherKept
  <2> QED BY <1>8, <2>1, <2>2 DEF DrainInv
<1>10. TypeOK'
  <2>1. phase' \in {"idle", "running", "raised"} /\ faults' \in 0..MaxFaults
    BY <1>1 DEF IInv, TypeOK
  <2> QED BY <1>1, <1>6, <2>1 DEF IInv, TypeOK, folder, agent
<1> QED BY <1>1, <1>9, <1>10, AgentKept DEF IInv

\* A change is later than every cursor and baseline.
LEMMA ChangeStep == IInv /\ (\E i \in Item : Change(i)) => IInv'
<1> SUFFICES ASSUME IInv, NEW j \in Item, Change(j) PROVE IInv'
  OBVIOUS
<1>1. /\ clock < MaxClock /\ clock' = clock + 1
      /\ changed' = [changed EXCEPT ![j] = clock + 1]
      /\ UNCHANGED <<agent, run, phase, faults>>
      /\ \/ alive' = [alive EXCEPT ![j] = TRUE] \/ alive' = [alive EXCEPT ![j] = FALSE]
  BY DEF Change
<1>2. clock \in Tick /\ changed \in [Item -> Tick] /\ alive \in [Item -> BOOLEAN]
  BY DEF IInv, TypeOK
<1>3. clock' \in Tick /\ changed' \in [Item -> Tick] /\ alive' \in [Item -> BOOLEAN]
  <2>1. clock + 1 \in Tick
    BY <1>1, <1>2 DEF Tick
  <2>2. changed' \in [Item -> Tick]
    BY <1>1, <1>2, <2>1
  <2>3. alive' \in [Item -> BOOLEAN]
    BY <1>1, <1>2
  <2> QED BY <1>1, <2>1, <2>2, <2>3
<1>4. \A i \in Item : i # j => /\ changed'[i] = changed[i] /\ alive'[i] = alive[i]
                                /\ Version(i)' = Version(i)
  BY <1>1, <1>2 DEF Version
<1>5. changed'[j] = clock + 1
  BY <1>1, <1>2
<1>6. \A c \in Cursor : c.pos <= clock => ~(changed'[j] <= c.pos)
  BY <1>2, <1>5 DEF Cursor, Tick
<1>7. \A r \in Resource : tokens[r] \in Cursor /\ run[r] \in Runner /\ run[r].last \in Cursor
  BY DEF IInv, TypeOK, Runner
<1>8. TypeOK'
  BY <1>1, <1>3 DEF IInv, TypeOK, agent
<1>9. ClockInv'
  BY <1>1, <1>2, <1>4, <1>5 DEF IInv, ClockInv, Tick
<1>10. CursorInv'
  BY <1>1, <1>2, <1>7 DEF IInv, CursorInv, agent, Cursor, Tick
<1>11. \A r \in Resource : \A i \in ItemsOf[r] : i \in Item
  BY ItemFacts
<1>12. DrainInv'
  <2> SUFFICES ASSUME NEW r \in Resource, run[r].at \in {"run", "done"}
               PROVE  DrainCursors(run[r], r)' /\ Told(r)' /\ News(r)'
    BY <1>1 DEF DrainInv
  <2>1. DrainCursors(run[r], r) /\ Told(r) /\ News(r) /\ tokens[r].pos <= clock
    BY DEF IInv, DrainInv, CursorInv
  <2>2. Seen(r)' = Seen(r) /\ Seen(r) \in Cursor /\ Seen(r).pos <= clock
    BY <1>1, <1>7, <2>1 DEF Seen, agent, DrainCursors
  <2>3. run[r].last.pos <= clock'
    BY <1>1, <1>2, <1>7, <2>1 DEF DrainCursors, Cursor, Tick
  <2>4. DrainCursors(run[r], r)'
    BY <1>1, <2>1, <2>3 DEF DrainCursors, agent
  <2>5. Told(r)'
    <3> SUFFICES ASSUME NEW i \in ItemsOf[r], Due(r, i)', changed'[i] <= Seen(r).pos
                 PROVE  Reported(r, i)' = Version(i)'
      BY <2>2 DEF Told
    <3>1. i # j /\ i \in Item
      BY <1>6, <1>11, <2>2
    <3>2. Due(r, i) /\ Reported(r, i)' = Reported(r, i) /\ Version(i)' = Version(i)
      BY <1>1, <1>4, <3>1 DEF Due, Reported, agent
    <3> QED BY <1>4, <2>1, <3>1, <3>2 DEF Told
  <2>6. News(r)'
    BY <1>1, <2>1 DEF News, agent
  <2> QED BY <2>4, <2>5, <2>6
<1>13. ASSUME NEW r \in Resource, NEW i \in ItemsOf[r], changed'[i] <= tokens[r].pos
       PROVE  i # j /\ i \in Item
  BY <1>6, <1>7, <1>11, <1>13 DEF IInv, CursorInv
<1>14. NoSilentLoss'
  <2> SUFFICES ASSUME NEW r \in Resource, NEW i \in ItemsOf[r], Never < baseline[r],
                      baseline[r] < changed'[i], changed'[i] <= tokens[r].pos
               PROVE  told[i] = Version(i)'
    BY <1>1 DEF NoSilentLoss, agent
  <2> QED BY <1>4, <1>13 DEF IInv, NoSilentLoss
<1>15. NothingRecentIsLost'
  <2> SUFFICES ASSUME NEW r \in Resource, NEW i \in ItemsOf[r] \ Old,
                      alive'[i], changed'[i] <= tokens[r].pos
               PROVE  told[i] = changed'[i]
    BY <1>1 DEF NothingRecentIsLost, agent
  <2> QED BY <1>4, <1>13 DEF IInv, NothingRecentIsLost
<1> QED BY <1>8, <1>9, <1>10, <1>12, <1>14, <1>15 DEF IInv

\* The first drain of a digest has the agent's cursor.
LEMMA StartStep == IInv /\ StartDigest => IInv'
<1> SUFFICES ASSUME IInv, StartDigest PROVE IInv'
  OBVIOUS
<1>1. /\ phase' = "running" /\ run' = [r \in Resource |-> Drain(tokens[r])]
      /\ UNCHANGED <<folder, agent, faults>>
  BY DEF StartDigest
<1>2. \A r \in Resource : tokens[r] \in Cursor /\ run'[r] = Drain(tokens[r])
  BY <1>1 DEF IInv, TypeOK
<1>3. \A r \in Resource :
        /\ run'[r] \in Runner /\ (run'[r].windowed <=> tokens[r].link = "none") /\ ~run'[r].resynced
        /\ run'[r].token = tokens[r] /\ run'[r].last = NoToken /\ run'[r].n = 0
        /\ run'[r].rows = Nothing /\ run'[r].at = "run"
  <2> TAKE r \in Resource
  <2> DEFINE c == tokens[r]
             d == Drain(c)
  <2>1. c \in Cursor /\ run'[r] = d
    BY <1>2
  <2> HIDE DEF c
  <2>2. /\ d \in Runner /\ (d.windowed <=> c.link = "none") /\ ~d.resynced
        /\ d.token = c /\ d.last = NoToken /\ d.n = 0
        /\ d.rows = Nothing /\ d.at = "run"
    BY <2>1, DrainFields
  <2> HIDE DEF d
  <2>3. /\ run'[r] \in Runner /\ (run'[r].windowed <=> c.link = "none") /\ ~run'[r].resynced
        /\ run'[r].token = c /\ run'[r].last = NoToken /\ run'[r].n = 0
        /\ run'[r].rows = Nothing /\ run'[r].at = "run"
    BY <2>1, <2>2
  <2> QED BY <2>3 DEF c
<1>4. TypeOK'
  BY <1>1, <1>3 DEF IInv, TypeOK, folder, agent
<1>5. DrainInv'
  <2> SUFFICES ASSUME NEW r \in Resource
               PROVE  DrainCursors(run[r], r)' /\ Told(r)' /\ News(r)'
    BY DEF DrainInv
  <2>1. NoToken.link = "none" /\ NoToken.pos = 0 /\ clock \in Nat /\ 0 < MaxInternalPages
    BY DEF NoToken, IInv, TypeOK, Tick
  <2>2. tokens[r].link = "none" <=> tokens[r] = NoToken
    BY <2>1 DEF IInv, CursorInv
  <2>3. DrainCursors(run[r], r)'
    BY <1>1, <1>3, <2>1, <2>2 DEF DrainCursors, folder, agent
  <2>4. \A i \in ItemsOf[r] : run'[r].rows[i] = NoRow
    BY <1>3, ItemFacts DEF Nothing
  <2>5. ASSUME NEW i \in ItemsOf[r], Due(r, i)', changed[i] <= tokens[r].pos
        PROVE  told[i] = Version(i)
    <3>1. CASE alive[i] /\ i \notin Old
      BY <2>5, <3>1 DEF IInv, NothingRecentIsLost, Version
    <3>2. CASE ~run'[r].windowed /\ baseline[r] < changed[i]
      <4>1. tokens[r] # NoToken /\ baseline[r] \in Tick \cup {Never}
        BY <1>3, <2>2, <3>2 DEF IInv, TypeOK
      <4>2. Never < baseline[r]
        BY <4>1 DEF IInv, CursorInv, Tick, Never
      <4> QED BY <2>5, <3>2, <4>2 DEF IInv, NoSilentLoss
    <3> QED BY <1>1, <2>5, <3>1, <3>2 DEF Due, folder, agent
  <2>6. Told(r)'
    <3>1. Seen(r)' = tokens[r] /\ \A i \in ItemsOf[r] : Reported(r, i)' = told[i]
      BY <1>1, <1>3, <2>4 DEF Seen, Reported, agent
    <3>2. \A i \in ItemsOf[r] : Version(i)' = Version(i) /\ changed'[i] = changed[i]
      BY <1>1 DEF Version, folder
    <3> QED BY <2>5, <3>1, <3>2 DEF Told
  <2>7. News(r)'
    BY <2>4 DEF News
  <2> QED BY <2>3, <2>6, <2>7
<1> QED BY <1>1, <1>4, <1>5, AgentKept DEF IInv

\* The agent takes the rows and cursors over.
LEMMA DeliverStep == IInv /\ Deliver => IInv'
<1> SUFFICES ASSUME IInv, Deliver PROVE IInv'
  OBVIOUS
<1>1. /\ \A r \in Resource : run[r].at = "done"
      /\ tokens' = [r \in Resource |-> run[r].last]
      /\ told' = [i \in Item |->
           IF Counted(ResourceOf(i), i) THEN run[ResourceOf(i)].rows[i] ELSE told[i]]
      /\ baseline' = [r \in Resource |->
           IF tokens[r] = NoToken \/ run[r].resynced THEN Founded(run[r].last) ELSE baseline[r]]
      /\ phase' = "idle" /\ run' = [r \in Resource |-> Off]
      /\ UNCHANGED <<folder, faults>>
  BY DEF Deliver, AllDone
<1>2. \A r \in Resource :
        /\ tokens[r] \in Cursor /\ run[r] \in Runner /\ run[r].last \in Cursor
        /\ baseline[r] \in Tick \cup {Never} /\ DrainCursors(run[r], r) /\ Told(r)
        /\ run[r].rows \in [Item -> Tick \cup {NoRow}]
        /\ run[r].windowed \in BOOLEAN /\ run[r].resynced \in BOOLEAN
  BY <1>1 DEF IInv, TypeOK, Runner, DrainInv
<1>3. \A r \in Resource : Founded(run[r].last) \in Tick /\ run[r].last.pos <= Founded(run[r].last)
  BY <1>2 DEF Founded, Midway, Cursor, Tick
<1>4. told' \in [Item -> Tick]
  <2>1. ASSUME NEW i \in Item PROVE told'[i] \in Tick
    <3>1. PICK r \in Resource : i \in ItemsOf[r]
      BY DEF Item
    <3>2. ResourceOf(i) = r
      BY <3>1, ItemFacts
    <3>3. run[r].rows[i] # NoRow => run[r].rows[i] \in Tick
      BY <1>2
    <3> QED BY <1>1, <3>2, <3>3 DEF Counted, IInv, TypeOK
  <2> QED BY <1>1, <2>1
<1>5. TypeOK'
  <2>1. run' \in [Resource -> Runner]
    BY <1>1, OffType
  <2>2. baseline' \in [Resource -> Tick \cup {Never}] /\ tokens' \in [Resource -> Cursor]
    BY <1>1, <1>2, <1>3
  <2> QED BY <1>1, <1>4, <2>1, <2>2 DEF IInv, TypeOK, folder
<1>6. ClockInv' /\ DrainInv'
  <2>1. Off.at = "off"
    BY DEF Off
  <2> QED BY <1>1, <2>1 DEF IInv, ClockInv, DrainInv, folder
<1>7. ASSUME NEW r \in Resource, run[r].windowed
      PROVE  baseline'[r] = Founded(run[r].last) /\ run[r].last # NoToken
  BY <1>1, <1>2, <1>7 DEF DrainCursors
<1>8. ASSUME NEW r \in Resource, ~run[r].windowed
      PROVE  baseline'[r] = baseline[r] /\ tokens[r] # NoToken
  BY <1>1, <1>2, <1>8 DEF DrainCursors
<1>9. CursorInv'
  <2> SUFFICES ASSUME NEW r \in Resource
               PROVE  LET c == run[r].last IN
                      /\ c.link = "none" => c = NoToken
                      /\ c.pos <= clock
                      /\ c.link = "next" /\ c.snap => c.target <= baseline'[r]
                      /\ c.link = "delta" => ~c.snap
                      /\ c # NoToken => baseline'[r] # Never /\ baseline'[r] <= Founded(c)
    BY <1>1 DEF CursorInv, folder, Founded, Midway
  <2> DEFINE c == run[r].last
  <2>1. /\ c.link = "none" => c = NoToken
        /\ c.pos <= clock
        /\ c.link = "delta" => ~c.snap
    BY <1>2 DEF DrainCursors
  <2>2. CASE run[r].windowed
    <3>1. baseline'[r] = Founded(c) /\ Founded(c) \in Tick
      BY <1>3, <1>7, <2>2
    <3>2. c.link = "next" => c.target <= Founded(c)
      BY <1>2 DEF Founded, Midway, Cursor, Tick
    <3>3. baseline'[r] # Never /\ baseline'[r] <= Founded(c)
      BY <3>1 DEF Never, Tick
    <3> QED BY <2>1, <3>1, <3>2, <3>3
  <2>3. CASE ~run[r].windowed
    <3>1. baseline'[r] = baseline[r] /\ baseline[r] # Never
      BY <1>8, <2>3 DEF IInv, CursorInv
    <3>2. CASE c = NoToken
      BY <2>1, <3>2 DEF NoToken
    <3>3. CASE c # NoToken
      BY <1>2, <2>1, <2>3, <3>1, <3>3 DEF DrainCursors
    <3> QED BY <3>2, <3>3
  <2> QED BY <2>2, <2>3
<1>10. ASSUME NEW r \in Resource, NEW i \in ItemsOf[r], Due(r, i), changed[i] <= tokens'[r].pos,
              i \notin Old \/ ~run[r].windowed
       PROVE  told'[i] = Version(i)
  <2>1. i \in Item /\ ResourceOf(i) = r /\ changed[i] \in Tick
    BY ItemFacts DEF IInv, TypeOK
  <2>2. told'[i] = Reported(r, i)
    BY <1>1, <1>10, <2>1 DEF Counted, Reported
  <2>3. run[r].last # NoToken
    <3> SUFFICES ASSUME run[r].last = NoToken PROVE FALSE
      OBVIOUS
    <3>1. changed[i] = 0
      BY <1>1, <1>10, <2>1 DEF NoToken, Tick
    <3>2. ~alive[i]
      BY <2>1, <3>1 DEF IInv, ClockInv
    <3>3. ~run[r].windowed /\ baseline[r] < 0
      BY <1>10, <3>1, <3>2 DEF Due
    <3>4. baseline[r] = Never
      <4>1. baseline[r] \in Tick \cup {Never}
        BY <1>2
      <4> QED BY <3>3, <4>1 DEF Tick
    <3> QED BY <1>8, <3>3, <3>4 DEF IInv, CursorInv
  <2>4. changed[i] <= Seen(r).pos
    BY <1>1, <1>10, <2>3 DEF Seen
  <2> QED BY <1>2, <1>10, <2>2, <2>4 DEF Told
<1>11. NoSilentLoss'
  <2> SUFFICES ASSUME NEW r \in Resource, NEW i \in ItemsOf[r], Never < baseline'[r],
                      baseline'[r] < changed[i], changed[i] <= tokens'[r].pos
               PROVE  told'[i] = Version(i)
    BY <1>1 DEF NoSilentLoss, Version, folder
  <2>1. changed[i] \in Tick
    BY ItemFacts DEF IInv, TypeOK
  <2>2. CASE run[r].windowed
    BY <1>1, <1>2, <1>3, <1>7, <2>1, <2>2 DEF Cursor, Tick
  <2>3. CASE ~run[r].windowed
    BY <1>8, <1>10, <2>3 DEF Due
  <2> QED BY <2>2, <2>3
<1>12. NothingRecentIsLost'
  <2> SUFFICES ASSUME NEW r \in Resource, NEW i \in ItemsOf[r] \ Old,
                      alive[i], changed[i] <= tokens'[r].pos
               PROVE  told'[i] = changed[i]
    BY <1>1 DEF NothingRecentIsLost, folder
  <2>1. told'[i] = Version(i)
    BY <1>10 DEF Due
  <2> QED BY <2>1 DEF Version
<1> QED BY <1>5, <1>6, <1>9, <1>11, <1>12 DEF IInv

LEMMA StepInv == IInv /\ [Next]_vars => IInv'
<1> SUFFICES ASSUME IInv, [Next]_vars PROVE IInv'
  OBVIOUS
<1>1. (\E i \in Item : Change(i)) => IInv'
  BY ChangeStep
<1>2. StartDigest => IInv'
  BY StartStep
<1>3. ASSUME NEW r \in Resource, Pull(r) PROVE IInv'
  <2>1. UNCHANGED <<folder, agent, phase, faults>> /\ run[r].at = "run"
    BY <1>3 DEF Pull, PullDone, PullMore, PullNoLink
  <2>3. clock \in Tick
    BY DEF IInv, TypeOK
  <2>4. run[r].token \in Cursor
    BY DEF IInv, TypeOK, Runner
  <2>5. ASSUME NEW q \in 0..clock, PullDone(r, q) PROVE IInv'
    <3>1. q \in Tick
      BY <2>3 DEF Tick
    <3>2. DeltaLink(q) \in Cursor
      BY <3>1 DEF DeltaLink, Cursor, Tick
    <3>3. /\ run[r].token.pos <= q /\ Target(run[r].token, clock) <= q
          /\ run' = [run EXCEPT ![r] =
               DrainStep(run[r], Listed(r, run[r].token, q), DeltaLink(q), FALSE)]
      BY <2>5 DEF PullDone
    <3> QED BY <2>1, <3>2, <3>3, PullStep
  <2>6. ASSUME NEW q \in 0..clock, PullMore(r, q) PROVE IInv'
    <3> DEFINE new == Listed(r, run[r].token, q)
               c == NextLink(q, Target(run[r].token, clock), run[r].token.snap)
    <3>1. q \in Tick /\ Target(run[r].token, clock) \in Tick /\ run[r].token.snap \in BOOLEAN
      BY <2>3, <2>4 DEF Tick, Target, Cursor
    <3>2. c \in Cursor
      BY <3>1, LinkTypes
    <3>3. new # {}
      <4>1. Cardinality(new) >= 1
        BY <2>6 DEF PullMore
      <4>2. Cardinality({}) = 0
        BY FS_EmptySet
      <4> QED BY <4>1, <4>2
    <3>4. run[r].token.pos <= q
      <4>1. PICK i \in ItemsOf[r] : run[r].token.pos < changed[i] /\ changed[i] <= q
        BY <3>3 DEF Listed, Lists
      <4>2. changed[i] \in Tick
        BY <4>1, ItemFacts DEF IInv, TypeOK
      <4> QED BY <2>4, <3>1, <4>1, <4>2 DEF Cursor, Tick
    <3>5. run' = [run EXCEPT ![r] = DrainStep(run[r], new, c, TRUE)]
      BY <2>6 DEF PullMore
    <3> QED BY <2>1, <3>2, <3>4, <3>5, PullStep
  <2>7. PullNoLink(r) => IInv'
    BY NoLinkStep
  <2> QED BY <1>3, <2>5, <2>6, <2>7 DEF Pull
<1>4. (\E r \in Resource : PullGone(r) \/ PullFails(r)) => IInv'
  BY FailStep
<1>5. Deliver => IInv'
  BY DeliverStep
<1>6. CASE ReplyLost \/ SeeError
  <2>1. /\ phase' = "idle" /\ run' = [r \in Resource |-> Off] /\ UNCHANGED <<folder, agent>>
        /\ faults' \in 0..MaxFaults
    BY <1>6 DEF ReplyLost, SeeError, Fault, IInv, TypeOK
  <2>2. Off.at = "off"
    BY DEF Off
  <2>3. TypeOK'
    BY <2>1, OffType DEF IInv, TypeOK, folder, agent
  <2>4. DrainInv'
    BY <2>1, <2>2 DEF DrainInv
  <2> QED BY <2>1, <2>3, <2>4, AgentKept DEF IInv
<1>7. CASE UNCHANGED vars
  <2>1. UNCHANGED <<folder, agent>>
    BY <1>7 DEF vars, folder, agent
  <2>2. TypeOK'
    BY <1>7 DEF vars, IInv, TypeOK
  <2>3. DrainInv'
    BY <1>7, <2>1, OtherKept DEF vars, DrainInv
  <2> QED BY <2>1, <2>2, <2>3, AgentKept DEF IInv
<1> QED BY <1>1, <1>2, <1>3, <1>4, <1>5, <1>6, <1>7 DEF Next

-----------------------------------------------------------------------------
(* What a digest does to the agent's cursors and reports.                  *)

Rewinds ==
  \A r \in Resource : tokens'[r].pos < tokens[r].pos => run[r].resynced \/ tokens'[r] = NoToken

NewsOnly ==
  \A r \in Resource : \A i \in Old \cap ItemsOf[r] :
    told'[i] \notin {0, told[i]} => baseline'[r] < told'[i] \/ Midway(tokens[r])

\* Only Deliver changes what the agent holds.
LEMMA AgentSteps ==
  ASSUME [Next]_vars, ~Deliver
  PROVE  UNCHANGED agent
BY DEF Next, vars, agent, Change, StartDigest, Pull, PullDone, PullMore, PullNoLink,
       PullGone, PullFails, ReplyLost, SeeError

LEMMA DeliverRewinds == IInv /\ Deliver => Rewinds
<1> SUFFICES ASSUME IInv, Deliver, NEW r \in Resource, tokens'[r].pos < tokens[r].pos,
                    tokens'[r] # NoToken
             PROVE  run[r].resynced
  BY DEF Rewinds
<1>1. tokens'[r] = run[r].last /\ run[r].at = "done"
  BY DEF Deliver, AllDone
<1>2. DrainCursors(run[r], r) /\ tokens[r].pos \in Nat /\ run[r].last.pos \in Nat
  BY <1>1 DEF IInv, DrainInv, TypeOK, Runner, Cursor, Tick
<1>3. run[r].windowed
  BY <1>1, <1>2 DEF DrainCursors
<1>4. tokens[r] # NoToken
  BY <1>1, <1>2 DEF NoToken
<1> QED BY <1>2, <1>3, <1>4 DEF DrainCursors

LEMMA DeliverNews == IInv /\ Deliver => NewsOnly
<1> SUFFICES ASSUME IInv, Deliver, NEW r \in Resource, NEW i \in Old \cap ItemsOf[r],
                    told'[i] \notin {0, told[i]}, ~Midway(tokens[r])
             PROVE  baseline'[r] < told'[i]
  BY DEF NewsOnly
<1>1. i \in Item /\ ResourceOf(i) = r /\ run[r].at = "done"
  BY ItemFacts DEF Deliver, AllDone
<1>2. told'[i] = IF Counted(r, i) THEN run[r].rows[i] ELSE told[i]
  BY <1>1 DEF Deliver
<1>3. told'[i] = run[r].rows[i] /\ run[r].rows[i] \notin {NoRow, 0} /\ ~run[r].windowed
  BY <1>2 DEF Counted
<1>4. DrainCursors(run[r], r) /\ News(r)
  BY <1>1 DEF IInv, DrainInv
<1>5. tokens[r].pos < told'[i] /\ tokens[r] # NoToken /\ ~run[r].resynced
  BY <1>3, <1>4 DEF News, DrainCursors
<1>6. baseline'[r] = baseline[r]
  BY <1>5 DEF Deliver
<1>7. baseline[r] <= tokens[r].pos
  BY <1>5 DEF IInv, CursorInv, Founded
<1>8. baseline[r] \in Int /\ tokens[r].pos \in Nat /\ run[r].rows[i] \in Int
  <2>1. baseline[r] \in Tick \cup {Never} /\ tokens[r] \in Cursor /\ run[r] \in Runner
    BY DEF IInv, TypeOK
  <2>2. run[r].rows[i] \in Tick \cup {NoRow}
    BY <1>1, <2>1 DEF Runner
  <2>3. Tick \subseteq Nat /\ Tick \cup {Never} \subseteq Int /\ Tick \cup {NoRow} \subseteq Int
    BY DEF Tick, Never, NoRow
  <2>4. tokens[r].pos \in Tick
    BY <2>1 DEF Cursor
  <2> QED BY <2>1, <2>2, <2>3, <2>4
<1> QED BY <1>3, <1>5, <1>6, <1>7, <1>8

LEMMA DeliverOnly == IInv /\ [Next]_vars => Rewinds /\ NewsOnly
<1> SUFFICES ASSUME IInv, [Next]_vars PROVE Rewinds /\ NewsOnly
  OBVIOUS
<1>1. CASE Deliver
  BY <1>1, DeliverRewinds, DeliverNews
<1>2. CASE ~Deliver
  <2>1. tokens' = tokens /\ told' = told /\ \A r \in Resource : tokens[r].pos \in Nat
    BY <1>2, AgentSteps DEF agent, IInv, TypeOK, Cursor, Tick
  <2> QED BY <2>1 DEF Rewinds, NewsOnly
<1> QED BY <1>1, <1>2

-----------------------------------------------------------------------------
\* IInv holds in every reachable state.
THEOREM InductiveInvariant == Spec => []IInv
BY InitInv, StepInv, PTL DEF Spec

\* Types; a drain pulls at most _MAX_INTERNAL_PAGES times.
THEOREM TypeCorrect == Spec => []TypeOK
<1>1. IInv => TypeOK
  BY DEF IInv
<1> QED BY <1>1, InductiveInvariant, PTL

\* changes_since loses no change between the last snapshot the agent can tell
\* and its cursors, for any interleaving of its runners, resyncs and errors, and
\* for an agent that stores whatever delta_tokens holds.
THEOREM NothingIsLostSilently == Spec => []NoSilentLoss
<1>1. IInv => NoSilentLoss
  BY DEF IInv
<1> QED BY <1>1, InductiveInvariant, PTL

\* No resync and no cursor of None loses an event, a contact or a recent
\* message that still exists.
THEOREM NothingRecentIsEverLost == Spec => []NothingRecentIsLost
<1>1. IInv => NothingRecentIsLost
  BY DEF IInv
<1> QED BY <1>1, InductiveInvariant, PTL

\* A cursor goes back only for a resource that was resynced or handed None.
THEOREM RewindsAreAnnounced == Spec => NoSilentRewind
<1>1. IInv /\ [Next]_vars =>
        [\A r \in Resource : tokens'[r].pos < tokens[r].pos
           => run[r].resynced \/ tokens'[r] = NoToken]_vars
  BY DeliverOnly DEF Rewinds
<1> QED BY <1>1, InductiveInvariant, PTL DEF Spec, NoSilentRewind

\* A mailbox of any size: mail from before the window is reported only for what
\* happened to it after the snapshot, unless the digest goes on inside a snapshot.
THEOREM HistoryIsNoNews == Spec => HistoryNotCounted
<1>1. IInv /\ [Next]_vars =>
        [\A r \in Resource : \A i \in Old \cap ItemsOf[r] :
           told'[i] \notin {0, told[i]} => baseline'[r] < told'[i] \/ Midway(tokens[r])]_vars
  BY DeliverOnly DEF NewsOnly
<1> QED BY <1>1, InductiveInvariant, PTL DEF Spec, HistoryNotCounted
=============================================================================
