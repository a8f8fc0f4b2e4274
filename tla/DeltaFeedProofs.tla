--------------------------- MODULE DeltaFeedProofs ---------------------------
(***************************************************************************)
(* Proofs about DeltaFeed: its inductive invariant, the safety properties  *)
(* that follow from it, and that it implements ChangeFeed.                 *)
(***************************************************************************)
EXTENDS DeltaFeed, FiniteSetTheorems, TLAPS

\* The agent sees absence as version 0, and versions are ticks.
LEMMA VersionType == TypeOK => \A i \in Item : Version(i) \in Tick
BY DeltaAssumption DEF TypeOK, Version, Tick

\* The rows of a page are a finite number.
LEMMA RowsCount ==
  ASSUME NEW c, NEW q
  PROVE  Cardinality(Rows(c, q)) \in Nat
<1>1. IsFiniteSet(Rows(c, q))
  BY DeltaAssumption, FS_Subset DEF Rows, Lists, DeltaAssumption
<1>2. QED BY <1>1, FS_CardinalityType

LEMMA CapType == Cap \in Nat /\ Cap >= 1
<1>1. \A m, n \in Nat \ {0} : m * n \in Nat /\ m * n >= 1
  OBVIOUS
<1>2. QED BY <1>1, DeltaAssumption DEF Cap, DeltaAssumption

\* Links carry cursors.
LEMMA LinkTypes ==
  ASSUME NEW q \in Tick, NEW t \in Tick, NEW s \in BOOLEAN
  PROVE  DeltaLink(q) \in Cursor /\ NextLink(q, t, s) \in Cursor /\ NoToken \in Cursor
BY DeltaAssumption DEF DeltaLink, NextLink, NoToken, Cursor, Tick, DeltaAssumption

(***************************************************************************)
(* The heart of the argument: after a page up to tick q the agent would    *)
(* be right up to q, and still has none of the items that the rest of a    *)
(* snapshot will pass over.                                                *)
(***************************************************************************)
LEMMA PageServes ==
  ASSUME IInv, pc = "get",
         NEW q \in Tick, url.pos <= q,
         got' = Extend(Rows(url, q)),
         UNCHANGED <<folder, agent>>
  PROVE  /\ \A i \in Item : changed'[i] <= q => Merged'[i] = Version(i)'
         /\ url.snap =>
              \A i \in Item : ~alive'[i] /\ changed'[i] <= RoundTarget(url) => Merged'[i] = 0
<1> USE DEF folder, agent
<1>1. ASSUME NEW i \in Item, i \in Rows(url, q)
      PROVE  Merged'[i] = Version(i)'
  BY <1>1, VersionType DEF Merged, Extend, IInv, TypeOK, NoRow, Tick, Version
<1>2. ASSUME NEW i \in Item, i \notin Rows(url, q)
      PROVE  Merged'[i] = Merged[i]
  BY <1>2 DEF Merged, Extend, IInv, TypeOK
<1>3. ASSUME NEW i \in Item, url.snap, ~alive[i], changed[i] <= RoundTarget(url)
      PROVE  Merged[i] = 0
  <2>1. CASE url.link = "next"
    BY <2>1, <1>3 DEF IInv, GetInv, Serves, RoundTarget, Target
  <2>2. CASE url.link # "next"
    <3>1. url = token /\ got = Nothing /\ CursorOK(url)
      BY <2>2 DEF IInv, GetInv
    <3>2. token.link = "none"
      BY <3>1, <2>2, <1>3 DEF CursorOK, IInv, TypeOK, Cursor
    <3>3. QED BY <3>1, <3>2 DEF Merged, Nothing
  <2>3. QED BY <2>1, <2>2
<1>4. ASSUME NEW i \in Item, changed[i] <= q, i \notin Rows(url, q)
      PROVE  Merged[i] = Version(i)
  <2>1. CASE changed[i] <= url.pos
    BY <2>1 DEF IInv, GetInv, Serves
  <2>2. CASE ~(changed[i] <= url.pos)
    <3>1. url.snap /\ ~alive[i] /\ ~(changed[i] > RoundTarget(url))
      BY <2>2, <1>4 DEF Rows, Lists, RoundTarget, IInv, TypeOK, Cursor, Tick
    <3>2. changed[i] <= RoundTarget(url)
      BY <3>1, DeltaAssumption DEF IInv, TypeOK, Cursor, Tick, RoundTarget, Target, DeltaAssumption
    <3>3. Merged[i] = 0
      BY <3>1, <3>2, <1>3
    <3>4. QED BY <3>1, <3>3 DEF Version
  <2>3. QED BY <2>1, <2>2
<1>5. ASSUME NEW i \in Item PROVE Version(i)' = Version(i)
  BY DEF Version
<1>6. \A i \in Item : changed'[i] <= q => Merged'[i] = Version(i)'
  BY <1>1, <1>2, <1>4, <1>5
<1>7. ASSUME url.snap, NEW i \in Item, ~alive'[i], changed'[i] <= RoundTarget(url)
      PROVE  Merged'[i] = 0
  <2>1. CASE i \in Rows(url, q)
    BY <2>1, <1>1, <1>7 DEF Version
  <2>2. CASE i \notin Rows(url, q)
    BY <2>2, <1>2, <1>3, <1>7
  <2>3. QED BY <2>1, <2>2
<1>8. QED BY <1>6, <1>7

(***************************************************************************)
(* Each action preserves the inductive invariant.                          *)
(***************************************************************************)
LEMMA ChangeStep ==
  ASSUME IInv, NEW j \in Item, Change(j)
  PROVE  IInv'
<1> USE DEF agent, call
<1>1. clock \in Tick /\ clock' = clock + 1 /\ clock' \in Tick /\ clock \in Nat
  BY DeltaAssumption DEF IInv, TypeOK, Change, Tick, DeltaAssumption
<1>2. /\ changed' \in [Item -> Tick]
      /\ \A i \in Item : changed'[i] = IF i = j THEN clock + 1 ELSE changed[i]
      /\ alive' \in [Item -> BOOLEAN]
      /\ \A i \in Item : i # j => alive'[i] = alive[i]
  BY <1>1 DEF IInv, TypeOK, Change
<1>3. TypeOK'
  BY <1>1, <1>2 DEF IInv, TypeOK, Change
<1>4. FolderInv'
  <2>1. UNCHANGED <<view, got, asked>>
    BY DEF Change
  <2>2. \A i \in Item :
          changed[i] \in Nat /\ view[i] \in Nat /\ (got[i] \in Nat \/ got[i] = -1)
    BY DEF IInv, TypeOK, Tick, NoRow
  <2>3. asked \in Nat /\ asked <= clock
    BY DEF IInv, TypeOK, FolderInv, Tick
  <2>4. \A i \in Item : changed[i] <= clock /\ view[i] <= changed[i] /\ got[i] <= changed[i]
    BY DEF IInv, FolderInv
  <2>5. asked' <= clock'
    BY <1>1, <2>1, <2>3
  <2>6. ASSUME NEW i \in Item
        PROVE  changed'[i] <= clock' /\ view'[i] <= changed'[i] /\ got'[i] <= changed'[i]
    <3>1. CASE i = j
      BY <3>1, <1>1, <1>2, <2>1, <2>2, <2>4
    <3>2. CASE i # j
      BY <3>2, <1>1, <1>2, <2>1, <2>2, <2>4
    <3>3. QED BY <3>1, <3>2
  <2>7. QED BY <2>5, <2>6 DEF FolderInv
<1>5. ASSUME NEW c \in Cursor, CursorOK(c)
      PROVE  CursorOK(c)'
  BY <1>1, <1>5 DEF CursorOK, Change, Cursor, Tick
<1>6. ASSUME NEW c \in Cursor, CursorOK(c), NEW v, Serves(c, v)
      PROVE  /\ \A i \in Item : changed'[i] <= c.pos => v[i] = Version(i)'
             /\ c.link = "next" /\ c.snap =>
                  \A i \in Item : ~alive'[i] /\ changed'[i] <= c.target => v[i] = 0
  <2>1. ASSUME NEW i \in Item, changed'[i] <= clock
        PROVE  i # j /\ changed'[i] = changed[i] /\ alive'[i] = alive[i]
    BY <2>1, <1>1, <1>2
  <2>2. c.pos <= clock /\ c.target <= clock /\ c.pos \in Nat /\ c.target \in Nat
    BY <1>6 DEF CursorOK, Cursor, Tick
  <2>3. \A i \in Item : changed'[i] \in Nat
    BY <1>2 DEF Tick
  <2>4. QED
    BY <1>1, <1>6, <2>1, <2>2, <2>3 DEF Serves, Version
<1>7. Merged' = Merged
  BY DEF Merged, Change
<1>8. AgentInv'
  BY <1>5, <1>6 DEF AgentInv, IInv, TypeOK, Change, Serves
<1>9. GetInv'
  BY <1>5, <1>6, <1>7 DEF GetInv, IInv, TypeOK, Change, Serves
<1>10. ReplyInv'
  <2>1. SUFFICES ASSUME pc = "replied" PROVE ReplyInv'
    BY DEF ReplyInv, Change
  <2>2. reply.token \in Cursor
    BY DEF IInv, TypeOK, Reply
  <2>3. CASE reply.token.link # "none"
    BY <2>1, <2>2, <2>3, <1>5, <1>6, <1>7 DEF ReplyInv, IInv, Change, Serves
  <2>4. CASE reply.token.link = "none"
    <3>1. asked < clock + 1
      BY <1>1 DEF IInv, FolderInv, TypeOK, Tick
    <3>2. QED
      BY <2>1, <2>4, <3>1, <1>1, <1>2 DEF ReplyInv, IInv, Change
  <2>5. QED BY <2>3, <2>4
<1>11. CountInv'
  BY DEF CountInv, IInv, Change
<1>12. QED BY <1>3, <1>4, <1>8, <1>9, <1>10, <1>11 DEF IInv

LEMMA StartStep ==
  ASSUME IInv, Start
  PROVE  IInv'
<1> USE DEF folder, agent
<1>1. TypeOK'
  BY DeltaAssumption DEF IInv, TypeOK, Start, Nothing, NoRow, Tick, DeltaAssumption
<1>2. FolderInv'
  BY DEF IInv, TypeOK, FolderInv, Start, Nothing, NoRow, Tick
<1>3. CursorOK(token)'
  BY DEF IInv, AgentInv, CursorOK, Start
<1>4. AgentInv'
  BY <1>3 DEF IInv, AgentInv, Serves, Version, Start
<1>5. \A i \in Item : Merged'[i] = IF token.link = "none" THEN 0 ELSE view[i]
  BY DEF Merged, Start, Nothing
<1>6. Serves(token, Merged)'
  <2>1. CASE token.link = "none"
    <3>1. token = NoToken
      BY <2>1 DEF IInv, AgentInv, CursorOK
    <3>2. \A i \in Item : changed[i] <= 0 => Version(i) = 0
      BY DEF IInv, TypeOK, Version, Tick
    <3>3. QED BY <2>1, <3>1, <3>2, <1>5 DEF Serves, Version, NoToken, Start
  <2>2. CASE token.link # "none"
    BY <2>2, <1>5 DEF IInv, AgentInv, Serves, Version, Start
  <2>3. QED BY <2>1, <2>2
<1>7. GetInv'
  BY <1>3, <1>6, CapType DEF GetInv, Serves, CursorOK, Start, IInv, TypeOK, Cursor, Tick
<1>8. ReplyInv'
  BY DEF ReplyInv, Start
<1>9. CountInv'
  BY CapType, DeltaAssumption DEF CountInv, Start, DeltaAssumption
<1>10. QED BY <1>1, <1>2, <1>4, <1>7, <1>8, <1>9 DEF IInv

\* What every page does to the rows collected and to the folder's bounds.
LEMMA PageFrame ==
  ASSUME IInv, pc = "get", NEW q \in 0..clock, url.pos <= q,
         got' = Extend(Rows(url, q)),
         count' = count + Cardinality(Rows(url, q)),
         Cardinality(Rows(url, q)) <= PageSize,
         UNCHANGED <<folder, agent, asked>>
  PROVE  /\ q \in Tick /\ RoundTarget(url) \in Tick /\ RoundTarget(url) <= clock
         /\ url.link = "next" \/ RoundTarget(url) = clock
         /\ asked <= RoundTarget(url)
         /\ got' \in [Item -> Tick \cup {NoRow}]
         /\ count' \in Nat /\ CountInv'
         /\ FolderInv'
         /\ AgentInv'
<1> USE DEF folder, agent
<1>1. q \in Tick /\ q \in Nat
  BY DeltaAssumption DEF IInv, TypeOK, Tick, DeltaAssumption
<1>2. /\ RoundTarget(url) \in Tick /\ RoundTarget(url) <= clock
      /\ url.link = "next" \/ RoundTarget(url) = clock
  BY DEF IInv, TypeOK, Cursor, GetInv, CursorOK, RoundTarget, Target, Tick
<1>3. asked <= RoundTarget(url)
  BY DEF IInv, FolderInv, GetInv, CursorOK, RoundTarget, Target
<1>4. got' \in [Item -> Tick \cup {NoRow}]
  BY VersionType DEF IInv, TypeOK, Extend
<1>5. count' \in Nat /\ CountInv'
  BY RowsCount, CapType, DeltaAssumption
     DEF IInv, TypeOK, GetInv, CountInv, DeltaAssumption
<1>6. FolderInv'
  BY DEF IInv, TypeOK, FolderInv, Extend, Version, Tick
<1>7. AgentInv'
  BY DEF IInv, AgentInv, CursorOK, Serves, Version
<1>8. QED BY <1>1, <1>2, <1>3, <1>4, <1>5, <1>6, <1>7

LEMMA DeltaLinkStep ==
  ASSUME IInv, NEW q \in 0..clock, DeltaLinkPage(q)
  PROVE  IInv'
<1> USE DEF folder, agent, Return
<1>1. /\ pc = "get" /\ url.pos <= q /\ RoundTarget(url) <= q
      /\ got' = Extend(Rows(url, q)) /\ count' = count + Cardinality(Rows(url, q))
      /\ Cardinality(Rows(url, q)) <= PageSize /\ attempt' = 0
      /\ pc' = "replied" /\ url' = url
      /\ reply' = [token |-> DeltaLink(q), more |-> FALSE]
      /\ UNCHANGED <<folder, agent, asked, faults>>
  BY DEF DeltaLinkPage
<1>2. /\ q \in Tick /\ RoundTarget(url) \in Tick /\ RoundTarget(url) <= clock
      /\ asked <= RoundTarget(url)
      /\ got' \in [Item -> Tick \cup {NoRow}]
      /\ count' \in Nat /\ CountInv' /\ FolderInv' /\ AgentInv'
  BY <1>1, PageFrame
<1>3. DeltaLink(q) \in Cursor
  BY <1>2, LinkTypes DEF IInv, TypeOK, Cursor
<1>4. TypeOK'
  BY <1>1, <1>2, <1>3, DeltaAssumption DEF IInv, TypeOK, Reply, DeltaAssumption
<1>5. \A i \in Item : changed'[i] <= q => Merged'[i] = Version(i)'
  BY <1>1, <1>2, PageServes
<1>6. CursorOK(DeltaLink(q))' /\ Serves(DeltaLink(q), Merged)'
  BY <1>1, <1>2, <1>5 DEF CursorOK, Serves, DeltaLink, IInv, TypeOK, Tick
<1>7. token.pos <= q /\ asked <= q
  BY <1>1, <1>2 DEF IInv, GetInv, TypeOK, Cursor, Tick
<1>8. ReplyInv'
  BY <1>1, <1>6, <1>7 DEF ReplyInv, DeltaLink
<1>9. GetInv'
  BY <1>1 DEF GetInv
<1>10. QED BY <1>2, <1>4, <1>8, <1>9 DEF IInv

LEMMA NextLinkStep ==
  ASSUME IInv, NEW q \in 0..clock, NextLinkPage(q)
  PROVE  IInv'
<1> USE DEF folder, agent
<1>1. /\ pc = "get" /\ url.pos <= q
      /\ got' = Extend(Rows(url, q)) /\ count' = count + Cardinality(Rows(url, q))
      /\ Cardinality(Rows(url, q)) <= PageSize /\ attempt' = 0
      /\ FollowOrStop(count', NextLink(q, RoundTarget(url), url.snap))
      /\ UNCHANGED <<folder, agent, asked, faults>>
  BY DEF NextLinkPage
<1>2. /\ q \in Tick /\ RoundTarget(url) \in Tick /\ RoundTarget(url) <= clock
      /\ asked <= RoundTarget(url)
      /\ got' \in [Item -> Tick \cup {NoRow}]
      /\ count' \in Nat /\ CountInv' /\ FolderInv' /\ AgentInv'
  BY <1>1, PageFrame
<1>3. PICK t \in Tick, s \in BOOLEAN : t = RoundTarget(url) /\ s = url.snap
  BY <1>2 DEF IInv, TypeOK, Cursor
<1>4. PICK l \in Cursor : l = NextLink(q, t, s)
  BY <1>2, <1>3, LinkTypes
<1>5. l.link = "next" /\ l.pos = q /\ l.target = t /\ l.snap = s
  BY <1>4 DEF NextLink
<1>6. /\ \A i \in Item : changed'[i] <= q => Merged'[i] = Version(i)'
      /\ s => \A i \in Item : ~alive'[i] /\ changed'[i] <= t => Merged'[i] = 0
  BY <1>1, <1>2, <1>3, PageServes
<1>7. CursorOK(l)' /\ Serves(l, Merged)'
  <2>1. q <= clock' /\ t <= clock' /\ asked' <= t
    BY <1>1, <1>2, <1>3
  <2>2. QED
    BY <1>5, <1>6, <2>1 DEF CursorOK, Serves
<1>8. token.pos <= q
  BY <1>1, <1>2 DEF IInv, GetInv, TypeOK, Cursor, Tick
<1>9. CASE count' >= Cap
  <2>1. pc' = "replied" /\ reply' = [token |-> l, more |-> TRUE] /\ url' = url
    BY <1>1, <1>3, <1>4, <1>9 DEF FollowOrStop, Return
  <2>2. TypeOK'
    BY <1>1, <1>2, <2>1, DeltaAssumption DEF IInv, TypeOK, Reply, DeltaAssumption
  <2>3. GetInv'
    BY <2>1 DEF GetInv
  <2>4. ReplyInv'
    <3>1. reply'.token = l /\ reply'.more /\ token' = token
      BY <1>1, <2>1
    <3>2. QED BY <1>5, <1>7, <1>8, <2>1, <3>1 DEF ReplyInv, CursorOK, Serves
  <2>5. QED BY <1>2, <2>2, <2>3, <2>4 DEF IInv
<1>10. CASE ~(count' >= Cap)
  <2>1. pc' = "get" /\ reply' = reply /\ url' = l
    BY <1>1, <1>3, <1>4, <1>10 DEF FollowOrStop
  <2>2. TypeOK'
    BY <1>1, <1>2, <2>1, DeltaAssumption DEF IInv, TypeOK, DeltaAssumption
  <2>3. count' < Cap
    BY <1>2, <1>10, CapType
  <2>4. GetInv'
    <3>1. token' = token
      BY <1>1
    <3>2. CursorOK(url)' /\ Serves(url, Merged)'
      BY <1>7, <2>1 DEF CursorOK, Serves
    <3>3. QED BY <1>5, <1>8, <2>1, <2>3, <3>1, <3>2 DEF GetInv
  <2>5. ReplyInv'
    BY <2>1 DEF ReplyInv
  <2>6. QED BY <1>2, <2>2, <2>4, <2>5 DEF IInv
<1>11. QED BY <1>9, <1>10

LEMMA NoLinkStep ==
  ASSUME IInv, NoLinkPage
  PROVE  IInv'
<1> USE DEF folder, agent, Return
<1>1. TypeOK'
  BY DeltaAssumption DEF IInv, TypeOK, NoLinkPage, Reply, NoReply, NoToken, Cursor, Tick,
                         DeltaAssumption
<1>2. FolderInv' /\ AgentInv' /\ GetInv' /\ CountInv'
  BY DEF IInv, FolderInv, AgentInv, CursorOK, Serves, Version, GetInv, CountInv, NoLinkPage
<1>3. url = token /\ got = Nothing
  BY DEF IInv, GetInv, NoLinkPage
<1>4. ReplyInv'
  BY <1>3 DEF ReplyInv, NoLinkPage, NoReply, NoToken
<1>5. QED BY <1>1, <1>2, <1>4 DEF IInv

\* A failing request touches neither what was collected nor the agent.
LEMMA FailureStep ==
  ASSUME IInv, Throttled \/ Fails \/ Expires
  PROVE  IInv'
<1> USE DEF folder, agent, Fault
<1>1. /\ UNCHANGED <<folder, agent, url, got, count, reply, asked>>
      /\ pc = "get" /\ pc' \in {"get", "failed", "gone"}
      /\ attempt' \in 0..MaxRetries
      /\ faults' \in 0..MaxFaults
  BY DeltaAssumption DEF Throttled, Fails, Expires, IInv, TypeOK, DeltaAssumption
<1>2. TypeOK'
  BY <1>1 DEF IInv, TypeOK
<1>3. Merged' = Merged
  BY <1>1 DEF Merged
<1>4. QED
  BY <1>1, <1>2, <1>3 DEF IInv, FolderInv, AgentInv, CursorOK, Serves, Version, GetInv,
                          ReplyInv, CountInv

\* The agent has taken in a reply, lost it or seen an error: its cursor is
\* its old one, none, or the reply's, with the rows that go with it.
LEMMA OverStep ==
  ASSUME IInv, CallOver, UNCHANGED <<folder, asked>>, faults' \in 0..MaxFaults,
         token' \in Cursor, view' \in [Item -> Tick],
         \A i \in Item : view'[i] <= changed[i],
         CursorOK(token)', Serves(token, view)'
  PROVE  IInv'
<1>1. TypeOK'
  BY DeltaAssumption DEF IInv, TypeOK, CallOver, folder, NoToken, Cursor, Reply, NoReply,
                         Nothing, NoRow, Tick, DeltaAssumption
<1>2. FolderInv'
  BY DEF IInv, TypeOK, FolderInv, CallOver, folder, Nothing, NoRow, Tick
<1>3. AgentInv' /\ GetInv' /\ ReplyInv'
  BY DEF AgentInv, GetInv, ReplyInv, CallOver
<1>4. CountInv'
  BY CapType, DeltaAssumption DEF CountInv, CallOver, DeltaAssumption
<1>5. QED BY <1>1, <1>2, <1>3, <1>4 DEF IInv

\* What the agent holds after a reply is well-typed and not from the future.
LEMMA MergedType ==
  ASSUME IInv
  PROVE  Merged \in [Item -> Tick] /\ \A i \in Item : Merged[i] <= changed[i]
BY DeltaAssumption DEF IInv, TypeOK, FolderInv, Merged, NoRow, Tick, DeltaAssumption

LEMMA AdoptStep ==
  ASSUME IInv, Adopt
  PROVE  IInv'
<1> USE DEF folder
<1>1. /\ pc = "replied" /\ view' = Merged /\ UNCHANGED <<folder, asked, faults>> /\ CallOver
      /\ token' = IF reply.token.link = "none" THEN token ELSE reply.token
  BY DEF Adopt
<1>2. view' \in [Item -> Tick] /\ \A i \in Item : view'[i] <= changed[i]
  BY <1>1, MergedType
<1>3. CASE reply.token.link # "none"
  <2>1. CursorOK(token)' /\ Serves(token, view)'
    BY <1>1, <1>3 DEF IInv, ReplyInv, CursorOK, Serves, Version
  <2>2. token' \in Cursor
    BY <1>1, <1>3 DEF IInv, TypeOK, Reply
  <2>3. QED BY <1>1, <1>2, <2>1, <2>2, OverStep DEF IInv, TypeOK
<1>4. CASE reply.token.link = "none"
  <2>1. \A i \in Item : Merged[i] = view[i]
    BY <1>1, <1>4 DEF IInv, ReplyInv, Merged, Nothing
  <2>2. CursorOK(token)' /\ Serves(token, view)'
    BY <1>1, <1>4, <2>1 DEF IInv, AgentInv, CursorOK, Serves, Version
  <2>3. QED BY <1>1, <1>2, <1>4, <2>2, OverStep DEF IInv, TypeOK
<1>5. QED BY <1>3, <1>4

LEMMA DropStep ==
  ASSUME IInv, ReplyLost \/ SeeError
  PROVE  IInv'
<1> USE DEF folder, agent, Fault
<1>1. /\ UNCHANGED <<folder, view, asked>> /\ CallOver /\ faults' \in 0..MaxFaults
      /\ token' \in {token, NoToken}
  <2>1. CASE ReplyLost
    BY <2>1, DeltaAssumption DEF ReplyLost, IInv, TypeOK, DeltaAssumption
  <2>2. CASE SeeError
    BY <2>2 DEF SeeError, IInv, TypeOK
  <2>3. QED BY <2>1, <2>2
<1>2. CASE token' = token
  <2>1. CursorOK(token)' /\ Serves(token, view)'
    BY <1>1, <1>2 DEF IInv, AgentInv, CursorOK, Serves, Version
  <2>2. QED BY <1>1, <1>2, <2>1, OverStep DEF IInv, TypeOK, FolderInv
<1>3. CASE token' = NoToken
  <2>1. NoToken \in Cursor
    BY DeltaAssumption DEF NoToken, Cursor, Tick, DeltaAssumption
  <2>2. \A i \in Item : changed[i] <= 0 => view[i] = 0 /\ Version(i) = 0
    BY DEF IInv, TypeOK, FolderInv, Version, Tick
  <2>3. CursorOK(token)' /\ Serves(token, view)'
    BY <1>1, <1>3, <2>2 DEF CursorOK, Serves, Version, NoToken, IInv, TypeOK, Tick
  <2>4. QED BY <1>1, <1>3, <2>1, <2>3, OverStep DEF IInv, TypeOK, FolderInv
<1>4. QED BY <1>1, <1>2, <1>3

LEMMA InitInv == Init => IInv
<1>1. SUFFICES ASSUME Init PROVE IInv
  OBVIOUS
<1>2. /\ clock \in Tick
      /\ changed \in [Item -> 0..clock] /\ alive \in [Item -> BOOLEAN]
      /\ token = NoToken /\ view = [i \in Item |-> 0]
      /\ pc = "idle" /\ url = NoToken /\ got = Nothing /\ count = 0 /\ attempt = 0
      /\ reply = NoReply /\ asked = 0 /\ faults = 0
  BY <1>1 DEF Init
<1>3. clock \in Nat /\ 0 \in Tick /\ \A n \in 0..clock : n \in Tick
  BY <1>2, DeltaAssumption DEF Tick, DeltaAssumption
<1>4. NoToken \in Cursor
  BY <1>3 DEF NoToken, Cursor
<1>5. changed \in [Item -> Tick] /\ view \in [Item -> Tick]
  BY <1>2, <1>3
<1>6. got \in [Item -> Tick \cup {NoRow}]
  BY <1>2 DEF Nothing
<1>7. reply \in Reply
  BY <1>2, <1>4 DEF NoReply, Reply
<1>8. TypeOK
  BY <1>2, <1>3, <1>4, <1>5, <1>6, <1>7, DeltaAssumption DEF TypeOK, DeltaAssumption
<1>9. \A i \in Item : changed[i] \in 0..clock /\ view[i] = 0 /\ got[i] = -1
  BY <1>2 DEF Nothing, NoRow
<1>10. FolderInv
  BY <1>2, <1>3, <1>9 DEF FolderInv
<1>11. AgentInv
  BY <1>2, <1>3, <1>9 DEF AgentInv, CursorOK, Serves, Version, NoToken
<1>12. GetInv /\ ReplyInv
  BY <1>2 DEF GetInv, ReplyInv
<1>13. CountInv
  <2>1. PageSize \in Nat /\ Cap \in Nat /\ Cap >= 1
    BY CapType, DeltaAssumption DEF DeltaAssumption
  <2>2. count = 0
    BY <1>2
  <2>3. QED BY <2>1, <2>2 DEF CountInv
<1>14. QED BY <1>8, <1>10, <1>11, <1>12, <1>13 DEF IInv

LEMMA NextInv == IInv /\ [Next]_vars => IInv'
<1>1. SUFFICES ASSUME IInv, [Next]_vars PROVE IInv'
  OBVIOUS
<1>2. CASE \E i \in Item : Change(i)
  BY <1>1, <1>2, ChangeStep
<1>3. CASE Start
  BY <1>1, <1>3, StartStep
<1>4. CASE Answer
  BY <1>1, <1>4, DeltaLinkStep, NextLinkStep, NoLinkStep DEF Answer
<1>5. CASE Throttled \/ Fails \/ Expires
  BY <1>1, <1>5, FailureStep
<1>6. CASE Adopt
  BY <1>1, <1>6, AdoptStep
<1>7. CASE ReplyLost \/ SeeError
  BY <1>1, <1>7, DropStep
<1>8. CASE UNCHANGED vars
  <2>1. Merged' = Merged
    BY <1>8 DEF vars, Merged
  <2>2. QED
    BY <1>1, <1>8, <2>1 DEF vars, IInv, TypeOK, FolderInv, AgentInv, CursorOK, Serves, Version,
                       GetInv, ReplyInv, CountInv
<1>9. QED BY <1>1, <1>2, <1>3, <1>4, <1>5, <1>6, <1>7, <1>8 DEF Next

\* The inductive invariant holds in every state of every behaviour of a
\* delta tool and its agent, for every folder, page size, cap and retry bound.
THEOREM InductiveInvariant == Spec => []IInv
BY InitInv, NextInv, PTL DEF Spec

\* Type correctness of fetch_delta_pages' state and of the agent's.
THEOREM TypeCorrect == Spec => []TypeOK
<1>1. IInv => TypeOK
  BY DEF IInv
<1>2. QED BY <1>1, InductiveInvariant, PTL

\* The cursor an agent holds never runs ahead of what it was told.
THEOREM NoChangeIsLost == Spec => []NoLostChange
<1>1. IInv => NoLostChange
  BY DEF IInv, AgentInv, Serves, NoLostChange
<1>2. QED BY <1>1, InductiveInvariant, PTL

\* A call that says has_more = False has brought everything that last changed
\* before the agent began the round.
THEOREM RoundsAreComplete == Spec => []RoundComplete
<1>1. IInv => RoundComplete
  <2>1. SUFFICES ASSUME IInv, pc = "replied", ~reply.more, NEW i \in Item, changed[i] <= asked
                 PROVE  Merged[i] = Version(i)
    BY DEF RoundComplete
  <2>2. changed[i] \in Nat /\ asked \in Nat /\ token.pos \in Nat /\ reply.token.pos \in Nat
    BY <2>1 DEF IInv, TypeOK, Cursor, Reply, Tick
  <2>3. CASE reply.token.link # "none"
    BY <2>1, <2>2, <2>3 DEF IInv, ReplyInv, Serves
  <2>4. CASE reply.token.link = "none"
    <3>1. changed[i] <= token.pos /\ got = Nothing /\ token.link = "delta"
      BY <2>1, <2>2, <2>4 DEF IInv, ReplyInv
    <3>2. Merged[i] = view[i]
      BY <3>1 DEF Merged, Nothing
    <3>3. QED BY <2>1, <3>1, <3>2 DEF IInv, AgentInv, Serves
  <2>5. QED BY <2>3, <2>4
<1>2. QED BY <1>1, InductiveInvariant, PTL

\* A call returns more rows than the cap by less than a page.  The constant's
\* comment, and the docstring, have it bound a call "to at most this many"; the
\* loop tests it only when a page that may go beyond it is in.
THEOREM OvershootIsUnderAPage == Spec => [](count < Cap + PageSize)
<1>1. IInv => count < Cap + PageSize
  BY DEF IInv, CountInv
<1>2. QED BY <1>1, InductiveInvariant, PTL

(***************************************************************************)
(* The calls, retries and failures of a delta tool and its agent, seen     *)
(* through the agent's view and the tick of its cursor, are the steps of a *)
(* follower of ChangeFeed: a stored reply is an Advance, dropping an       *)
(* expired cursor a Forget, all else within a call a stutter.              *)
(***************************************************************************)
LEMMA InitRefines == Init => Feed!Init
<1>1. SUFFICES ASSUME Init PROVE Feed!Init
  OBVIOUS
<1>2. clock \in Nat
  BY <1>1, DeltaAssumption DEF Init, Tick, DeltaAssumption
<1>3. QED BY <1>1, <1>2 DEF Init, Feed!Init, NoToken

LEMMA AdoptRefines ==
  ASSUME IInv, Adopt
  PROVE  [Feed!Next]_(Feed!feedVars)
<1>1. /\ pc = "replied" /\ view' = Merged /\ UNCHANGED <<clock, changed, alive>>
      /\ token' = IF reply.token.link = "none" THEN token ELSE reply.token
  BY DEF Adopt, folder
<1>2. CASE reply.token.link # "none"
  <2>1. PICK q \in Nat : q = reply.token.pos
    BY <1>1, DeltaAssumption DEF IInv, TypeOK, Reply, Cursor, Tick, DeltaAssumption
  <2>2. token.pos <= q /\ q \in 0..clock /\ token'.pos = q
    BY <1>1, <1>2, <2>1 DEF IInv, ReplyInv, CursorOK, TypeOK, Tick
  <2>3. view' \in [Item -> Nat] /\ \A i \in Item : view'[i] <= changed[i]
    BY <1>1, MergedType DEF Tick
  <2>4. \A i \in Item : changed[i] <= q => view'[i] = Feed!Version(i)
    BY <1>1, <1>2, <2>1 DEF IInv, ReplyInv, Serves, Version, Feed!Version
  <2>5. Feed!Advance(q)
    BY <1>1, <2>2, <2>3, <2>4 DEF Feed!Advance, Feed!UpToDate
  <2>6. QED BY <2>2, <2>5 DEF Feed!Next
<1>3. CASE reply.token.link = "none"
  <2>1. \A i \in Item : Merged[i] = view[i]
    BY <1>1, <1>3 DEF IInv, ReplyInv, Merged, Nothing
  <2>2. view' = view
    BY <1>1, <2>1 DEF IInv, TypeOK, Merged
  <2>3. QED BY <1>1, <1>3, <2>2 DEF Feed!feedVars
<1>4. QED BY <1>2, <1>3

LEMMA StepRefines == IInv /\ [Next]_vars => [Feed!Next]_(Feed!feedVars)
<1>1. SUFFICES ASSUME IInv, [Next]_vars PROVE [Feed!Next]_(Feed!feedVars)
  OBVIOUS
<1> USE DEF folder, agent, call
<1>2. ASSUME NEW i \in Item, Change(i) PROVE Feed!Next
  BY <1>2 DEF Change, Feed!Change, Feed!Next
<1>3. CASE Start \/ Answer \/ Throttled \/ Fails \/ Expires \/ ReplyLost \/ UNCHANGED vars
  BY <1>3 DEF Start, Answer, DeltaLinkPage, NextLinkPage, NoLinkPage, Throttled, Fails, Expires,
              ReplyLost, vars, Feed!feedVars
<1>4. CASE Adopt
  BY <1>1, <1>4, AdoptRefines
<1>5. CASE SeeError
  <2>1. token' = NoToken \/ token' = token
    BY <1>5 DEF SeeError
  <2>2. UNCHANGED <<clock, changed, alive, view>>
    BY <1>5 DEF SeeError
  <2>3. CASE token' = NoToken
    BY <2>2, <2>3 DEF NoToken, Feed!Forget, Feed!Next
  <2>4. CASE token' = token
    BY <2>2, <2>4 DEF Feed!feedVars
  <2>5. QED BY <2>1, <2>3, <2>4
<1>6. QED BY <1>1, <1>2, <1>3, <1>4, <1>5 DEF Next

THEOREM ImplementsChangeFeed == Spec => FollowsFeed
<1>1. QED
  BY InitRefines, StepRefines, InductiveInvariant, PTL DEF Spec, FollowsFeed, Feed!Spec
=============================================================================
