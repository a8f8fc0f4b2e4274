-------------------------------- MODULE Digest --------------------------------
(***************************************************************************)
(* changes_since: one call that runs the delta tools of mail, events and   *)
(* contacts side by side (asyncio.gather), drains each of them for at most *)
(* MaxInternalPages pulls, starts a resource over when Graph has forgotten *)
(* its cursor (410), and hands the agent a dict of cursors to pass back.   *)
(* The agent stores that dict as it is, a cursor of None included.         *)
(*                                                                         *)
(* A pull is one call of a delta tool.  DeltaFeed takes it apart; here it  *)
(* is one step that lists what the tool's reply lists.  The runners share  *)
(* no state, and they interleave at their pulls.                           *)
(***************************************************************************)
EXTENDS DeltaCursor, FiniteSets

CONSTANTS
  Resource,          \* of "mail", "events", "contacts", the ones in the model
  ItemsOf,           \* ItemsOf[r]: the items of resource r
  Old,               \* mail received before fallback_window_hours ago
  PageSize,          \* _PAGE_SIZE
  Cap,               \* rows after which a delta tool stops, PageSize times 4
  MaxInternalPages,  \* _MAX_INTERNAL_PAGES
  MaxFaults          \* bound: errors, expiries and lost replies

ASSUME DigestAssumption ==
  /\ Resource \subseteq {"mail", "events", "contacts"}
  /\ \A r, s \in Resource : r # s => ItemsOf[r] \cap ItemsOf[s] = {}
  /\ \A r \in Resource : Old \cap ItemsOf[r] # {} => r = "mail"
  /\ {PageSize, Cap, MaxInternalPages} \subseteq Nat \ {0}
  /\ {MaxClock, MaxFaults} \subseteq Nat

Item == UNION {ItemsOf[r] : r \in Resource}

VARIABLES
  clock, changed, alive,  \* the three folders at Graph
  tokens,                 \* delta_tokens, kept by the agent between calls
  told,                   \* told[i]: the state of i the digests reported last
  baseline,               \* history: the tick of the last snapshot of r the agent can tell
  run,                    \* run[r]: the runner of r and its drain
  phase,                  \* of changes_since: "idle", "running", "raised"
  faults

folder == <<clock, changed, alive>>
agent  == <<tokens, told, baseline>>
vars   == <<clock, changed, alive, tokens, told, baseline, run, phase, faults>>

Never == -1
Nothing == [i \in Item |-> NoRow]

Version(i) == IF alive[i] THEN changed[i] ELSE 0

\* A runner; windowed: bootstrap_window is set, n, token, last and rows:
\* the drain's locals.
Runner == [at : {"off", "run", "done", "failed"}, windowed : BOOLEAN, resynced : BOOLEAN,
           token : Cursor, last : Cursor, n : 0..MaxInternalPages,
           rows : [Item -> Tick \cup {NoRow}]]

Off == [at |-> "off", windowed |-> FALSE, resynced |-> FALSE, token |-> NoToken,
        last |-> NoToken, n |-> 0, rows |-> Nothing]

\* A drain from cursor c.
Drain(c) == [Off EXCEPT !.at = "run", !.windowed = (c.link = "none"), !.token = c]

Listed(r, c, q) == {i \in ItemsOf[r] : Lists(c, q, clock, changed[i], alive[i])}

Collect(rows, new) == [i \in Item |-> IF i \in new THEN Version(i) ELSE rows[i]]

\* The holder of c has not seen its round to the end.
Midway(c) == c.link = "next" /\ c.pos < c.target

\* The tick a cursor's holder can count on having a baseline of: that of the
\* whole snapshot it belongs to.
Founded(c) == IF Midway(c) THEN c.target ELSE c.pos

-----------------------------------------------------------------------------
Init ==
  /\ clock \in Tick
  /\ changed \in [Item -> 0..clock]
  /\ alive \in [Item -> BOOLEAN]
  /\ \A i \in Item : alive[i] => changed[i] > 0
  /\ \A i, j \in Item : changed[i] = changed[j] => i = j \/ changed[i] = 0
  /\ tokens = [r \in Resource |-> NoToken]
  /\ told = [i \in Item |-> 0]
  /\ baseline = [r \in Resource |-> Never]
  /\ run = [r \in Resource |-> Off]
  /\ phase = "idle"
  /\ faults = 0

Change(i) ==
  /\ clock < MaxClock
  /\ clock' = clock + 1
  /\ changed' = [changed EXCEPT ![i] = clock + 1]
  /\ \/ alive' = [alive EXCEPT ![i] = TRUE]
     \/ alive[i] /\ alive' = [alive EXCEPT ![i] = FALSE]
  /\ UNCHANGED <<agent, run, phase, faults>>

\* changes_since begins: gather starts one runner per resource.
StartDigest ==
  /\ phase = "idle"
  /\ phase' = "running"
  /\ run' = [r \in Resource |-> Drain(tokens[r])]
  /\ UNCHANGED <<folder, agent, faults>>

\* Where the drain is after its next pull: over, or at the cursor it got.
Onward(d, c, over) ==
  [d EXCEPT !.at = IF over THEN "done" ELSE "run",
            !.token = IF over THEN NoToken ELSE c,
            !.n = @ + 1]

DrainStepLastPageOnly(d, new, c, more) ==
  [Onward(d, c, d.n + 1 = MaxInternalPages \/ ~more)
    EXCEPT !.last = IF c.link = "none" THEN @ ELSE c, !.rows = Collect(Nothing, new)]

DrainStepKeepsDeltaLinkOnly(d, new, c, more) ==
  [Onward(d, c, d.n + 1 = MaxInternalPages \/ ~more)
    EXCEPT !.last = IF c.link = "delta" THEN c ELSE @, !.rows = Collect(@, new)]

\* The loop's body after a pull with rows new that returned cursor c.
DrainStep(d, new, c, more) ==
  [Onward(d, c, d.n + 1 = MaxInternalPages \/ ~more)
    EXCEPT !.last = IF c.link = "none" THEN @ ELSE c, !.rows = Collect(@, new)]

\* The tool reached a deltaLink.
PullDone(r, q) ==
  LET d == run[r]  new == Listed(r, d.token, q) IN
  /\ d.at = "run"
  /\ d.token.pos <= q /\ Target(d.token, clock) <= q
  /\ Cardinality(new) < Cap + PageSize
  /\ run' = [run EXCEPT ![r] = DrainStep(d, new, DeltaLink(q), FALSE)]
  /\ UNCHANGED <<folder, agent, phase, faults>>

\* The tool stopped at its cap, in the middle of the round.
PullMore(r, q) ==
  LET d == run[r]  new == Listed(r, d.token, q) IN
  /\ d.at = "run"
  /\ Cardinality(new) \in Cap..(Cap + PageSize - 1)
  /\ run' = [run EXCEPT ![r] =
       DrainStep(d, new, NextLink(q, Target(d.token, clock), d.token.snap), TRUE)]
  /\ UNCHANGED <<folder, agent, phase, faults>>

\* Nothing changed and Graph sent neither link: the tool's token is None.
PullNoLink(r) ==
  LET d == run[r] IN
  /\ d.at = "run"
  /\ d.token.link = "delta"
  /\ \A i \in ItemsOf[r] : changed[i] <= d.token.pos
  /\ run' = [run EXCEPT ![r] = DrainStep(d, {}, NoToken, FALSE)]
  /\ UNCHANGED <<folder, agent, phase, faults>>

Fault == faults < MaxFaults /\ faults' = faults + 1

\* A runner raises: gather raises at once, and its siblings run on.
Raise(r) == run' = [run EXCEPT ![r] = [Off EXCEPT !.at = "failed"]] /\ phase' = "raised"

PullGoneUnreported(r) ==
  LET d == run[r] IN
  /\ d.at = "run" /\ d.token.link # "none"
  /\ Fault
  /\ IF tokens[r].link # "none" /\ ~d.resynced
     THEN run' = [run EXCEPT ![r] = Drain(NoToken)] /\ UNCHANGED phase
     ELSE Raise(r)
  /\ UNCHANGED <<folder, agent>>

PullGoneUnwindowed(r) ==
  LET d == run[r] IN
  /\ d.at = "run" /\ d.token.link # "none"
  /\ Fault
  /\ IF tokens[r].link # "none" /\ ~d.resynced
     THEN /\ run' = [run EXCEPT ![r] =
               [Drain(NoToken) EXCEPT !.windowed = FALSE, !.resynced = TRUE]]
          /\ UNCHANGED phase
     ELSE Raise(r)
  /\ UNCHANGED <<folder, agent>>

\* Graph answers 410.  The runner drains once more, from nothing, if it was
\* given a token and has not done so before; what it had collected is dropped.
PullGone(r) ==
  LET d == run[r] IN
  /\ d.at = "run" /\ d.token.link # "none"
  /\ Fault
  /\ IF tokens[r].link # "none" /\ ~d.resynced
     THEN /\ run' = [run EXCEPT ![r] = [Drain(NoToken) EXCEPT !.resynced = TRUE]]
          /\ UNCHANGED phase
     ELSE Raise(r)
  /\ UNCHANGED <<folder, agent>>

\* Any other failure of a pull.
PullFails(r) ==
  /\ run[r].at = "run"
  /\ Fault
  /\ Raise(r)
  /\ UNCHANGED <<folder, agent>>

AllDone == phase = "running" /\ \A r \in Resource : run[r].at = "done"

\* The classifiers count a row, except that mail from before the window is
\* left out of a windowed digest; a tombstone is counted first of all.
Counted(r, i) ==
  LET d == run[r] IN
  /\ d.rows[i] # NoRow
  /\ d.windowed /\ i \in Old => d.rows[i] = 0

ResourceOf(i) == CHOOSE r \in Resource : i \in ItemsOf[r]

\* Every runner is done: the agent reads the digest and stores delta_tokens as
\* they are.  It can tell a snapshot of r, which is a new baseline to it: it had
\* no cursor for r to pass, or _meta.resync names r.
Deliver ==
  /\ AllDone
  /\ tokens' = [r \in Resource |-> run[r].last]
  /\ told' = [i \in Item |->
       IF Counted(ResourceOf(i), i) THEN run[ResourceOf(i)].rows[i] ELSE told[i]]
  /\ baseline' = [r \in Resource |->
       IF tokens[r] = NoToken \/ run[r].resynced THEN Founded(run[r].last) ELSE baseline[r]]
  /\ phase' = "idle"
  /\ run' = [r \in Resource |-> Off]
  /\ UNCHANGED <<folder, faults>>

\* The digest is lost on the way, and the agent still has its old cursors.
ReplyLost ==
  /\ AllDone
  /\ Fault
  /\ phase' = "idle"
  /\ run' = [r \in Resource |-> Off]
  /\ UNCHANGED <<folder, agent>>

\* The agent sees the error; whatever a sibling still fetches is dropped.
SeeError ==
  /\ phase = "raised"
  /\ phase' = "idle"
  /\ run' = [r \in Resource |-> Off]
  /\ UNCHANGED <<folder, agent, faults>>

Pull(r) ==
  \/ \E q \in 0..clock : PullDone(r, q)
  \/ \E q \in 0..clock : PullMore(r, q)
  \/ PullNoLink(r)

Next ==
  \/ \E i \in Item : Change(i)
  \/ StartDigest
  \/ \E r \in Resource : Pull(r)
  \/ \E r \in Resource : PullGone(r)
  \/ \E r \in Resource : PullFails(r)
  \/ Deliver
  \/ ReplyLost
  \/ SeeError

\* The agent calls the digest again and again, and Graph answers every pull.
Fairness ==
  /\ WF_vars(StartDigest) /\ WF_vars(Deliver) /\ WF_vars(SeeError)
  /\ \A r \in Resource : WF_vars(Pull(r))

Spec == Init /\ [][Next]_vars /\ Fairness

-----------------------------------------------------------------------------
\* Types of all variables; a drain pulls at most MaxInternalPages times.
TypeOK ==
  /\ clock \in Tick
  /\ changed \in [Item -> Tick]
  /\ alive \in [Item -> BOOLEAN]
  /\ tokens \in [Resource -> Cursor]
  /\ told \in [Item -> Tick]
  /\ baseline \in [Resource -> Tick \cup {Never}]
  /\ run \in [Resource -> Runner]
  /\ phase \in {"idle", "running", "raised"}
  /\ faults \in 0..MaxFaults

\* An agent that passes its cursors back misses no change: whatever happened
\* to an item after the last snapshot it can tell, and before its cursor, was
\* in some digest.
NoSilentLoss ==
  \A r \in Resource : \A i \in ItemsOf[r] :
    Never < baseline[r] /\ baseline[r] < changed[i] /\ changed[i] <= tokens[r].pos
      => told[i] = Version(i)

\* Whatever starts the agent over (410, a cursor of None), it never loses an item
\* that exists: each event, contact and recent message that changed before its
\* cursor was reported as it is now, by a snapshot or by a delta.
NothingRecentIsLost ==
  \A r \in Resource : \A i \in ItemsOf[r] \ Old :
    alive[i] /\ changed[i] <= tokens[r].pos => told[i] = changed[i]

\* Mail from before the window is reported only for what happened to it after
\* the snapshot, except by a digest that goes on inside a snapshot: it has a
\* cursor, so it knows no window, and counts the rest of the snapshot as new.
HistoryNotCounted ==
  [][\A r \in Resource : \A i \in Old \cap ItemsOf[r] :
       told'[i] \notin {0, told[i]} => baseline'[r] < told'[i] \/ Midway(tokens[r])]_vars

\* A cursor goes back only where the digest says _meta.resync, and for that
\* resource alone, or where the digest hands out None for it.
NoSilentRewind ==
  [][\A r \in Resource : tokens'[r].pos < tokens[r].pos
       => run[r].resynced \/ tokens'[r] = NoToken]_vars

\* Once changes and faults stop, the agent gets to know every item that exists
\* and is not old, and its cursors reach the last change again and again.
EventuallyCaughtUp ==
  /\ <>[](\A r \in Resource : \A i \in ItemsOf[r] \ Old : alive[i] => told[i] = changed[i])
  /\ \A r \in Resource : []<>(\A i \in ItemsOf[r] : changed[i] <= tokens[r].pos)
=============================================================================
