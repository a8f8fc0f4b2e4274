---------------------------- MODULE FolderLookup ----------------------------
(***************************************************************************)
(* move_message to a folder given by its display name: the walk over the   *)
(* folder tree in _lookup_display_name, one listing per request, and the   *)
(* move that follows it.  list_inbox, search_mail, copy_message and the    *)
(* batch tool look a folder up in the same way.                            *)
(*                                                                         *)
(* Between two requests folders are created, renamed, deleted and moved,   *)
(* by the folder tools of another conversation or by the user in Outlook.  *)
(* A listing of up to a hundred folders is one request.                    *)
(***************************************************************************)
EXTENDS Integers, SequencesExt

CONSTANTS
  Folder,    \* ids, the ones not in use yet included
  MaxEdits   \* bound: changes of the tree

Top  == "top"
Gone == "gone"
None == "none"

ASSUME FolderLookupAssumption ==
  IsFiniteSet(Folder) /\ {Top, Gone, None} \cap Folder = {} /\ MaxEdits \in Nat

VARIABLES
  parent,   \* parent[f]: the folder f is in, Top, or Gone
  named,    \* the folders whose display name is the wanted one, in any case
  pc,       \* the request that is out, or how the call ended
  queue,    \* of the walk: what the listings said of the folders to visit
  matches,  \* of the walk
  target,   \* the id that goes into the move
  moved,    \* where the message went
  still,    \* history: folders that have stayed where and what they were, with
            \* all their ancestors, since the call began
  edits

tree == <<parent, named>>
walk == <<queue, matches, target, moved>>
vars == <<tree, pc, walk, still, edits>>

Children(p) == {f \in Folder : parent[f] = p}
Exists(f)   == parent[f] # Gone

\* The ancestors of f, and f: those in every set that has f and, of each
\* folder in it, the parent.
Lineage(f) == {g \in Folder : \A S \in SUBSET Folder :
                 f \in S /\ (\A h \in S : parent[h] \in Folder => parent[h] \in S) => g \in S}

Entry == [id : Folder, match : BOOLEAN, children : BOOLEAN]

EntryOf(f) == [id |-> f, match |-> f \in named, children |-> Children(f) # {}]

\* A listing of folder p, in whatever order Graph returns it.
Listings(p) == {[i \in DOMAIN o |-> EntryOf(o[i])] : o \in SetToSeqs(Children(p))}

Matching(s) == {s[i].id : i \in {j \in DOMAIN s : s[j].match}}

-----------------------------------------------------------------------------
Init ==
  /\ parent \in [Folder -> Folder \cup {Top, Gone}]
  /\ named \in SUBSET Folder
  /\ \A f \in Folder : parent[f] # f /\ (parent[f] \in Folder => Exists(parent[f]))
  /\ \A f \in Folder : Exists(f) => \E g \in Lineage(f) : parent[g] = Top
  /\ pc = "top"
  /\ queue = <<>> /\ matches = <<>> /\ target = None /\ moved = None
  /\ still = {f \in Folder : Exists(f)}
  /\ edits = 0

\* f changes: nothing under it has stayed where it was.
Edit(f) ==
  /\ edits < MaxEdits /\ edits' = edits + 1
  /\ still' = {g \in still : f \notin Lineage(g)}
  /\ UNCHANGED <<pc, walk>>

\* create_folder: at the top, or in a folder.
CreateFolder(f) ==
  /\ Edit(f) /\ ~Exists(f) /\ (\A g \in Folder : parent[g] # f)
  /\ \E p \in {Top} \cup {g \in Folder : Exists(g)} : parent' = [parent EXCEPT ![f] = p]
  /\ \E n \in {named \cup {f}, named \ {f}} : named' = n

\* rename_folder.
RenameFolder(f) ==
  /\ Edit(f) /\ Exists(f)
  /\ named' = IF f \in named THEN named \ {f} ELSE named \cup {f}
  /\ UNCHANGED parent

\* delete_folder, with all that is in it.
DeleteFolder(f) ==
  /\ Edit(f) /\ Exists(f)
  /\ parent' = [g \in Folder |-> IF Exists(g) /\ f \in Lineage(g) THEN Gone ELSE parent[g]]
  /\ UNCHANGED named

\* The user drags a folder elsewhere.
MoveFolder(f) ==
  /\ Edit(f) /\ Exists(f)
  /\ \E p \in {Top} \cup {g \in Folder : Exists(g) /\ f \notin Lineage(g)} :
       p # parent[f] /\ parent' = [parent EXCEPT ![f] = p]
  /\ UNCHANGED named

-----------------------------------------------------------------------------
Found(id) == pc' = "move" /\ target' = id

EndOfWalkTakesFirst(m) ==
  IF m = <<>> THEN pc' = "not found" /\ UNCHANGED target ELSE Found(m[1].id)

\* One match is needed, the first of several is not good enough.
EndOfWalk(m) ==
  IF m = <<>> THEN pc' = "not found" /\ UNCHANGED target
  ELSE IF Len(m) > 1 THEN pc' = "ambiguous" /\ UNCHANGED target
  ELSE Found(m[1].id)

\* fetch_all_top_level_folders: a single top-level match wins, whatever there
\* is further down.
ListTop ==
  /\ pc = "top"
  /\ \E top \in Listings(Top) :
       LET m == Matching(top) IN
       IF Cardinality(m) = 1 THEN (\E id \in m : Found(id)) /\ UNCHANGED queue
       ELSE IF Cardinality(m) > 1 THEN pc' = "ambiguous" /\ UNCHANGED <<target, queue>>
       ELSE IF top = <<>> THEN EndOfWalk(<<>>) /\ UNCHANGED queue
       ELSE pc' = "walk" /\ queue' = top /\ UNCHANGED target
  /\ UNCHANGED <<tree, matches, moved, still, edits>>

VisitTopOnly(children) ==
  LET m == IF queue[1].match THEN Append(matches, queue[1]) ELSE matches
      q == Tail(queue) IN
  /\ queue' = q /\ matches' = m
  /\ IF q = <<>> THEN EndOfWalk(m) ELSE UNCHANGED <<pc, target>>

VisitWithoutPop(children) ==
  LET done == children = <<>>
      m == IF done /\ queue[1].match THEN Append(matches, queue[1]) ELSE matches
      q == IF done THEN Tail(queue) ELSE queue IN
  /\ queue' = q /\ matches' = m
  /\ IF q = <<>> THEN EndOfWalk(m) ELSE UNCHANGED <<pc, target>>

\* The loop body: the head of the queue is compared, as it was when it was
\* listed, and its children take their place at the end.
Visit(children) ==
  LET m == IF queue[1].match THEN Append(matches, queue[1]) ELSE matches
      q == Tail(queue) \o children IN
  /\ queue' = q /\ matches' = m
  /\ IF q = <<>> THEN EndOfWalk(m) ELSE UNCHANGED <<pc, target>>

\* The next folder with children costs a request; Graph answers 404 when it
\* has gone.
ListChildren ==
  /\ pc = "walk" /\ queue[1].children
  /\ IF Exists(queue[1].id)
     THEN \E children \in Listings(queue[1].id) : Visit(children)
     ELSE pc' = "failed" /\ UNCHANGED <<queue, matches, target>>
  /\ UNCHANGED <<tree, moved, still, edits>>

\* One without is passed in the same turn.
PassLeaf ==
  /\ pc = "walk" /\ ~queue[1].children
  /\ Visit(<<>>)
  /\ UNCHANGED <<tree, moved, still, edits>>

\* move_message: POST /messages/{id}/move.
MoveMessage ==
  /\ pc = "move"
  /\ IF Exists(target) THEN pc' = "moved" /\ moved' = target
                       ELSE pc' = "failed" /\ UNCHANGED moved
  /\ UNCHANGED <<tree, queue, matches, target, still, edits>>

Call == ListTop \/ ListChildren \/ PassLeaf \/ MoveMessage

Next ==
  \/ \E f \in Folder : CreateFolder(f) \/ RenameFolder(f) \/ DeleteFolder(f) \/ MoveFolder(f)
  \/ Call

\* The call goes on as long as it can.
Spec == Init /\ [][Next]_vars /\ WF_vars(Call)

-----------------------------------------------------------------------------
Ended == {"moved", "not found", "ambiguous", "failed"}

\* Types; the queue is empty except during the walk, and at most one match is
\* what a call goes on with.
TypeOK ==
  /\ parent \in [Folder -> Folder \cup {Top, Gone}] /\ named \subseteq Folder
  /\ pc \in {"top", "walk", "move"} \cup Ended
  /\ queue \in Seq(Entry) /\ matches \in Seq(Entry)
  /\ (pc = "walk" => queue # <<>>) /\ (pc \in {"move", "moved"} => Len(matches) <= 1)
  /\ target \in Folder \cup {None} /\ (pc \in {"move", "moved"} => target \in Folder)
  /\ moved \in {None, target}
  /\ still \subseteq Folder /\ edits \in 0..MaxEdits

\* Folders that have stayed, and bear the wanted name.
Standing == still \cap named

\* A folder of the wanted name that stays where it is during the call is never
\* overlooked, whatever is created, renamed, moved and deleted around it: the
\* call does not say "not found", and does not move the message to another
\* folder, unless that one was the only top-level match.
NothingStandingIsOverlooked ==
  /\ pc = "not found" => Standing = {}
  /\ pc \in {"move", "moved"} => \A f \in Standing : f = target \/ (parent[f] # Top /\ matches = <<>>)

\* What the docstring promises of a tree at rest: the top-level match if there
\* is one, else the match further down if there is only one, else an error.
Reference ==
  LET top == {f \in named : parent[f] = Top}
      all == {f \in named : Exists(f)}
      one == IF top # {} THEN top ELSE all IN
  IF Cardinality(one) = 1 THEN one ELSE {}

TreeAtRestIsSearched ==
  edits = 0 => /\ pc \in {"move", "moved"} => Reference = {target}
               /\ pc \in {"not found", "ambiguous", "failed"} => Reference = {}
               /\ pc = "ambiguous" => Cardinality({f \in named : Exists(f)}) > 1

\* The walk ends, although moves can put folders before it again.
CallEnds == <>(pc \in Ended)
=============================================================================
