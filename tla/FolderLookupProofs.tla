-------------------------- MODULE FolderLookupProofs --------------------------
(***************************************************************************)
(* Proofs about FolderLookup, for any set of folders and number of edits.  *)
(*                                                                         *)
(* The argument: a folder that stays has kept its ancestors, too, so what  *)
(* the listings said of any of them is still so.  During the walk such a   *)
(* folder of the wanted name is among the matches, or it or an ancestor of *)
(* it is in the queue and will lead to it (CoverInv).  In a tree at rest   *)
(* no folder of the queue is an ancestor of another or of a match, so none *)
(* is visited twice, and the matches are counted right (RestInv).          *)
(***************************************************************************)
EXTENDS FolderLookup, SequenceTheorems, FiniteSetTheorems, TLAPS

USE FolderLookupAssumption DEF FolderLookupAssumption, Top, Gone, None

Tree == [Folder -> Folder \cup {Top, Gone}]

\* Folders that stay hang from the top.
Hangs(f) == \E g \in Lineage(f) : parent[g] = Top
StillInv == \A f \in still : Exists(f) /\ Hangs(f)

\* A visit of e leads to f.
Covers(e, f) == e.id \in Lineage(f) /\ IF e.id = f THEN e.match ELSE e.children

CoverInv ==
  /\ pc = "top" => matches = <<>>
  /\ pc \in {"top", "walk"} => moved = None
  /\ pc = "walk" => \A f \in Standing :
       \/ \E i \in DOMAIN matches : matches[i].id = f
       \/ \E i \in DOMAIN queue : Covers(queue[i], f)

Here == {f \in Folder : Exists(f)}

RestInv ==
  edits = 0 =>
    /\ still = Here
    /\ pc = "walk" =>
         /\ \A f \in named : parent[f] # Top
         /\ \A i \in DOMAIN queue : Exists(queue[i].id) /\ (queue[i].match => queue[i].id \in named)
         /\ \A i, j \in DOMAIN queue : queue[i].id \in Lineage(queue[j].id) => i = j
         /\ \A i \in DOMAIN queue, m \in DOMAIN matches : queue[i].id \notin Lineage(matches[m].id)
         /\ \A m \in DOMAIN matches : Exists(matches[m].id) /\ matches[m].id \in named
         /\ \A m, n \in DOMAIN matches : matches[m].id = matches[n].id => m = n

IInv == /\ TypeOK /\ StillInv /\ CoverInv /\ NothingStandingIsOverlooked
        /\ RestInv /\ TreeAtRestIsSearched


-----------------------------------------------------------------------------
(* Lineages.                                                               *)

\* A set that has f and every parent in it has the lineage of f.
LEMMA LineageWithin ==
  ASSUME NEW f \in Folder, NEW S \in SUBSET Folder, f \in S,
         \A h \in S : parent[h] \in Folder => parent[h] \in S
  PROVE  Lineage(f) \subseteq S
  BY DEF Lineage

LEMMA LineageSelf ==
  ASSUME NEW f \in Folder
  PROVE  f \in Lineage(f) /\ Lineage(f) \subseteq Folder
  BY DEF Lineage

LEMMA LineageUp ==
  ASSUME NEW f \in Folder, NEW g \in Lineage(f), parent[g] \in Folder
  PROVE  parent[g] \in Lineage(f)
  BY DEF Lineage

\* The ancestors of an ancestor are ancestors.
LEMMA LineageOfAncestor ==
  ASSUME NEW f \in Folder, NEW g \in Lineage(f)
  PROVE  Lineage(g) \subseteq Lineage(f)
<1>1. g \in Folder /\ Lineage(f) \in SUBSET Folder
  BY LineageSelf
<1>2. \A h \in Lineage(f) : parent[h] \in Folder => parent[h] \in Lineage(f)
  BY LineageUp
<1> QED BY <1>1, <1>2, LineageWithin

\* A folder's ancestors are its parent's, and itself.
LEMMA LineageOfChild ==
  ASSUME NEW f \in Folder, NEW g \in Lineage(f), g # f
  PROVE  parent[f] \in Folder /\ g \in Lineage(parent[f])
<1>1. CASE parent[f] \in Folder
  <2> DEFINE S == {f} \cup Lineage(parent[f])
  <2>1. S \in SUBSET Folder /\ f \in S
    BY <1>1, LineageSelf
  <2>2. ASSUME NEW h \in S, parent[h] \in Folder PROVE parent[h] \in S
    <3>1. CASE h = f
      BY <1>1, <3>1, LineageSelf
    <3>2. CASE h \in Lineage(parent[f])
      BY <1>1, <2>2, <3>2, LineageUp
    <3> QED BY <3>1, <3>2
  <2>3. Lineage(f) \subseteq S
    BY <2>1, <2>2, LineageWithin
  <2> QED BY <1>1, <2>3
<1>2. CASE parent[f] \notin Folder
  <2>1. Lineage(f) \subseteq {f}
    BY <1>2, LineageWithin
  <2> QED BY <2>1
<1> QED BY <1>1, <1>2

\* Below an ancestor there is another one, or the folder itself.
LEMMA LineageDown ==
  ASSUME NEW f \in Folder, NEW g \in Lineage(f), g # f
  PROVE  \E c \in Lineage(f) : parent[c] = g
<1>1. SUFFICES ASSUME \A c \in Lineage(f) : parent[c] # g PROVE FALSE
  OBVIOUS
<1> DEFINE S == Lineage(f) \ {g}
<1>2. S \in SUBSET Folder /\ f \in S
  BY LineageSelf
<1>3. \A h \in S : parent[h] \in Folder => parent[h] \in S
  BY <1>1, LineageUp
<1>4. Lineage(f) \subseteq S
  BY <1>2, <1>3, LineageWithin
<1> QED BY <1>4

\* What hangs from the top is no ancestor of its parent.
LEMMA NoCycle ==
  ASSUME NEW c \in Folder, Hangs(c), parent[c] \in Folder
  PROVE  c \notin Lineage(parent[c])
<1>1. SUFFICES ASSUME c \in Lineage(parent[c]) PROVE FALSE
  OBVIOUS
<1> DEFINE S == {x \in Lineage(c) : parent[x] \in Folder /\ c \in Lineage(parent[x])}
<1>2. S \in SUBSET Folder /\ c \in S
  BY <1>1, LineageSelf
<1>3. ASSUME NEW x \in S PROVE parent[x] \in S
  <2>1. parent[x] \in Folder /\ parent[x] \in Lineage(c) /\ c \in Lineage(parent[x])
    BY LineageUp
  <2>2. CASE parent[x] = c
    BY <1>2, <2>2
  <2>3. CASE parent[x] # c
    BY <2>1, <2>3, LineageOfChild
  <2> QED BY <2>2, <2>3
<1>4. Lineage(c) \subseteq S
  BY <1>2, <1>3, LineageWithin
<1> QED BY <1>4 DEF Hangs

\* A change outside the lineage of f leaves it as it is.
LEMMA LineageStays ==
  ASSUME NEW f \in Folder, \A g \in Lineage(f) : parent'[g] = parent[g]
  PROVE  Lineage(f)' = Lineage(f)
<1>1. Lineage(f)' = {g \in Folder : \A S \in SUBSET Folder :
                       f \in S /\ (\A h \in S : parent'[h] \in Folder => parent'[h] \in S) => g \in S}
  BY DEF Lineage
<1>2. f \in Lineage(f) /\ Lineage(f) \in SUBSET Folder
  BY LineageSelf
<1>3. \A h \in Lineage(f) : parent'[h] \in Folder => parent'[h] \in Lineage(f)
  BY LineageUp
<1>4. Lineage(f)' \subseteq Lineage(f)
  BY <1>1, <1>2, <1>3
<1>5. Lineage(f)' \in SUBSET Folder /\ f \in Lineage(f)'
  BY <1>1
<1>6. \A h \in Lineage(f)' : parent'[h] \in Folder => parent'[h] \in Lineage(f)'
  BY <1>1
<1>7. \A h \in Lineage(f)' : parent[h] \in Folder => parent[h] \in Lineage(f)'
  BY <1>4, <1>6
<1>8. Lineage(f) \subseteq Lineage(f)'
  BY <1>5, <1>7, LineageWithin
<1> QED BY <1>4, <1>8

-----------------------------------------------------------------------------
(* Listings.                                                               *)

\* A listing has every child once, as it is.
LEMMA ListingHasChildren ==
  ASSUME NEW p, NEW s \in Listings(p), named \subseteq Folder
  PROVE  /\ s \in Seq(Entry)
         /\ \A i \in DOMAIN s : s[i].id \in Children(p) /\ s[i] = EntryOf(s[i].id)
         /\ \A i, j \in DOMAIN s : s[i].id = s[j].id => i = j
         /\ \A c \in Children(p) : \E i \in DOMAIN s : s[i].id = c
<1> DEFINE n == Cardinality(Children(p))
<1>1. PICK o \in SetToSeqs(Children(p)) : s = [i \in DOMAIN o |-> EntryOf(o[i])]
  BY DEF Listings
<1>2. Children(p) \in SUBSET Folder /\ IsFiniteSet(Children(p)) /\ n \in Nat
  <2>1. Children(p) \in SUBSET Folder
    BY DEF Children
  <2> QED BY <2>1, FS_Subset, FS_CardinalityType
<1>3. /\ o \in [1..n -> Children(p)]
      /\ \A i, j \in 1..n : i # j => o[i] # o[j]
  BY DEF SetToSeqs
<1>4. DOMAIN o = 1..n /\ DOMAIN s = 1..n
  BY <1>1, <1>3
<1>5. \A c \in Children(p) : \E i \in 1..n : o[i] = c
  <2>1. o \in Injection(1..n, Children(p))
    BY <1>3 DEF Injection, IsInjective
  <2>2. Cardinality(1..n) = n
    BY <1>2, FS_Interval
  <2>3. o \in Surjection(1..n, Children(p))
    BY <1>2, <2>1, <2>2, FS_Injection
  <2> QED BY <2>3 DEF Surjection
<1>6. \A i \in 1..n : s[i] = EntryOf(o[i]) /\ o[i] \in Children(p)
  BY <1>1, <1>3, <1>4
<1>7. \A f \in Folder : EntryOf(f) \in Entry /\ EntryOf(f).id = f
  BY DEF EntryOf, Entry
<1>8. \A i \in 1..n : s[i] \in Entry /\ s[i].id = o[i]
  BY <1>2, <1>6, <1>7
<1>9. s \in Seq(Entry)
  BY <1>1, <1>2, <1>4, <1>8
<1> QED BY <1>3, <1>4, <1>5, <1>6, <1>8, <1>9

\* The entry of an ancestor leads to the folder.
LEMMA EntryCovers ==
  ASSUME NEW f \in named, f \in Folder, NEW g \in Lineage(f)
  PROVE  Covers(EntryOf(g), f)
<1>1. CASE g = f
  BY <1>1, LineageSelf DEF Covers, EntryOf
<1>2. CASE g # f
  <2>1. PICK c \in Lineage(f) : parent[c] = g
    BY <1>2, LineageDown
  <2>2. c \in Children(g)
    BY <2>1, LineageSelf DEF Children
  <2> QED BY <1>2, <2>2 DEF Covers, EntryOf
<1> QED BY <1>1, <1>2

\* What a visit makes of the queue and the matches.
LEMMA VisitSequences ==
  ASSUME queue \in Seq(Entry), queue # <<>>, matches \in Seq(Entry),
         NEW children \in Seq(Entry), Visit(children)
  PROVE  LET k == Len(queue) - 1 IN
         /\ k \in Nat /\ 1 \in DOMAIN queue /\ queue[1] \in Entry
         /\ queue' \in Seq(Entry) /\ matches' \in Seq(Entry)
         /\ \A i \in DOMAIN queue' : i \in Nat /\
              \/ i + 1 \in DOMAIN queue /\ i + 1 # 1 /\ queue'[i] = queue[i + 1]
              \/ i - k \in DOMAIN children /\ queue'[i] = children[i - k]
         /\ \A i \in DOMAIN queue : i = 1 \/ \E j \in DOMAIN queue' : queue'[j] = queue[i]
         /\ \A i \in DOMAIN children : \E j \in DOMAIN queue' : queue'[j] = children[i]
         /\ \A i \in DOMAIN matches : i \in DOMAIN matches' /\ matches'[i] = matches[i]
         /\ \A i \in DOMAIN matches' :
              \/ i \in DOMAIN matches
              \/ queue[1].match /\ i = Len(matches) + 1 /\ matches'[i] = queue[1]
         /\ queue[1].match => \E i \in DOMAIN matches' : matches'[i] = queue[1]
<1> DEFINE k == Len(queue) - 1
           t == Tail(queue)
<1>1. /\ Len(queue) \in Nat \ {0} /\ k \in Nat /\ 1 \in DOMAIN queue
      /\ DOMAIN queue = 1..(k + 1) /\ queue[1] \in Entry
  BY EmptySeq, LenProperties, ElementOfSeq
<1>2. /\ t \in Seq(Entry) /\ Len(t) = k /\ \A i \in 1..k : t[i] = queue[i + 1]
  BY <1>1, HeadTailProperties
<1>3. queue' = t \o children
  BY DEF Visit
<1>4. /\ queue' \in Seq(Entry) /\ Len(queue') = k + Len(children)
      /\ \A i \in 1..(k + Len(children)) :
           queue'[i] = IF i <= k THEN t[i] ELSE children[i - k]
  BY <1>2, <1>3, ConcatProperties
<1>5. /\ DOMAIN queue' = 1..(k + Len(children))
      /\ DOMAIN children = 1..Len(children) /\ Len(children) \in Nat
  BY <1>4, LenProperties
<1>6. \A i \in DOMAIN queue' : i \in Nat /\
        \/ i + 1 \in DOMAIN queue /\ i + 1 # 1 /\ queue'[i] = queue[i + 1]
        \/ i - k \in DOMAIN children /\ queue'[i] = children[i - k]
  <2> TAKE i \in DOMAIN queue'
  <2>1. CASE i <= k
    BY <1>1, <1>2, <1>4, <1>5, <2>1
  <2>2. CASE i > k
    <3>1. i \in 1..(k + Len(children)) /\ ~(i <= k) /\ i - k \in 1..Len(children)
      BY <1>1, <1>5, <2>2
    <3>2. queue'[i] = children[i - k]
      BY <1>4, <3>1
    <3> QED BY <1>5, <3>1, <3>2
  <2> QED BY <1>1, <1>5, <2>1, <2>2
<1>7. ASSUME NEW i \in DOMAIN queue, i # 1 PROVE \E j \in DOMAIN queue' : queue'[j] = queue[i]
  <2>1. i - 1 \in 1..k /\ i - 1 \in DOMAIN queue' /\ (i - 1) + 1 = i
    BY <1>1, <1>5, <1>7
  <2> QED BY <1>1, <1>2, <1>4, <1>5, <2>1
<1>8. ASSUME NEW i \in DOMAIN children PROVE \E j \in DOMAIN queue' : queue'[j] = children[i]
  <2>1. k + i \in DOMAIN queue' /\ ~(k + i <= k) /\ (k + i) - k = i
    BY <1>1, <1>5
  <2> QED BY <1>4, <1>5, <2>1
<1>9. /\ matches' \in Seq(Entry)
      /\ \A i \in DOMAIN matches : i \in DOMAIN matches' /\ matches'[i] = matches[i]
      /\ \A i \in DOMAIN matches' :
           \/ i \in DOMAIN matches
           \/ queue[1].match /\ i = Len(matches) + 1 /\ matches'[i] = queue[1]
      /\ queue[1].match => \E i \in DOMAIN matches' : matches'[i] = queue[1]
  <2>1. CASE queue[1].match
    <3>1. matches' = Append(matches, queue[1])
      BY <2>1 DEF Visit
    <3>2. /\ matches' \in Seq(Entry) /\ Len(matches') = Len(matches) + 1
          /\ \A i \in 1..Len(matches) : matches'[i] = matches[i]
          /\ matches'[Len(matches) + 1] = queue[1]
      BY <1>1, <3>1, AppendProperties
    <3>3. /\ Len(matches) \in Nat /\ DOMAIN matches = 1..Len(matches)
          /\ DOMAIN matches' = 1..(Len(matches) + 1)
      BY <3>2, LenProperties
    <3> QED BY <2>1, <3>2, <3>3
  <2>2. CASE ~queue[1].match
    <3>1. matches' = matches
      BY <2>2 DEF Visit
    <3> QED BY <2>2, <3>1
  <2> QED BY <2>1, <2>2
<1> QED BY <1>1, <1>4, <1>6, <1>7, <1>8, <1>9

-----------------------------------------------------------------------------
(* Changes of the tree.                                                    *)

LEMMA InitInv == Init => IInv
<1> SUFFICES ASSUME Init PROVE IInv
  OBVIOUS
<1>1. TypeOK
  BY EmptySeq DEF Init, TypeOK, Ended
<1>2. StillInv
  BY DEF Init, StillInv, Hangs, Exists
<1> QED BY <1>1, <1>2 DEF Init, IInv, CoverInv, NothingStandingIsOverlooked, RestInv,
           TreeAtRestIsSearched, Here

\* An edit of e leaves what has stayed where it was.
LEMMA EditStep ==
  ASSUME IInv, NEW e \in Folder, Edit(e), parent' \in Tree, named' \subseteq Folder,
         \A g \in Folder : g # e => (g \in named' <=> g \in named),
         \A g \in Folder : e \notin Lineage(g) => parent'[g] = parent[g]
  PROVE  IInv'
<1>1. edits \in Nat /\ edits' = edits + 1 /\ edits' \in 0..MaxEdits
  BY DEF IInv, TypeOK, Edit
<1>2. ASSUME NEW f \in still'
      PROVE  /\ f \in still /\ f \in Folder /\ f # e
             /\ \A g \in Lineage(f) : parent'[g] = parent[g]
             /\ Lineage(f)' = Lineage(f)
  <2>1. f \in still /\ f \in Folder /\ e \notin Lineage(f)
    BY DEF Edit, IInv, TypeOK
  <2>2. \A g \in Lineage(f) : g \in Folder /\ e \notin Lineage(g)
    BY <2>1, LineageSelf, LineageOfAncestor
  <2>3. \A g \in Lineage(f) : parent'[g] = parent[g]
    BY <2>2
  <2> QED BY <2>1, <2>3, LineageSelf, LineageStays
<1>3. TypeOK'
  BY <1>1 DEF IInv, TypeOK, Edit, walk, Tree
<1>4. StillInv'
  BY <1>2, LineageSelf DEF IInv, StillInv, Exists, Hangs
<1>5. \A f \in Standing' : f \in Standing /\ f \in still'
  BY <1>2 DEF Standing
<1>6. CoverInv'
  BY <1>2, <1>5 DEF IInv, CoverInv, Covers, Edit, walk
<1>7. NothingStandingIsOverlooked'
  <2>1. \A f \in Standing' : parent'[f] = parent[f]
    BY <1>2, <1>5, LineageSelf
  <2> QED BY <1>5, <2>1 DEF IInv, NothingStandingIsOverlooked, Edit, walk
<1>8. edits' # 0
  BY <1>1
<1> QED BY <1>3, <1>4, <1>6, <1>7, <1>8 DEF IInv, RestInv, TreeAtRestIsSearched

LEMMA TreeStep ==
  ASSUME IInv, NEW f \in Folder,
         CreateFolder(f) \/ RenameFolder(f) \/ DeleteFolder(f) \/ MoveFolder(f)
  PROVE  IInv'
<1>1. parent \in Tree /\ named \subseteq Folder
  BY DEF IInv, TypeOK, Tree
<1>2. \A g \in Folder : f \notin Lineage(g) => g # f
  BY LineageSelf
<1>3. CASE CreateFolder(f)
  <2>1. PICK p \in {Top} \cup Folder : parent' = [parent EXCEPT ![f] = p]
    BY <1>3 DEF CreateFolder
  <2>2. Edit(f) /\ parent' \in Tree
    BY <1>1, <1>3, <2>1 DEF CreateFolder, Tree
  <2>3. /\ named' \subseteq Folder
        /\ \A g \in Folder : g # f => (g \in named' <=> g \in named)
    BY <1>1, <1>3 DEF CreateFolder
  <2>4. \A g \in Folder : f \notin Lineage(g) => parent'[g] = parent[g]
    BY <1>1, <1>2, <2>1 DEF Tree
  <2> QED BY <2>2, <2>3, <2>4, EditStep
<1>4. CASE RenameFolder(f)
  <2>1. Edit(f) /\ parent' = parent /\ named' \in {named \cup {f}, named \ {f}}
    BY <1>1, <1>4 DEF RenameFolder
  <2> QED BY <1>1, <2>1, EditStep
<1>5. CASE DeleteFolder(f)
  <2>1. /\ Edit(f) /\ named' = named
        /\ parent' = [g \in Folder |-> IF Exists(g) /\ f \in Lineage(g) THEN Gone ELSE parent[g]]
    BY <1>5 DEF DeleteFolder
  <2>2. parent' \in Tree
    BY <1>1, <2>1 DEF Tree
  <2> QED BY <1>1, <2>1, <2>2, EditStep
<1>6. CASE MoveFolder(f)
  <2>1. PICK p \in {Top} \cup Folder : parent' = [parent EXCEPT ![f] = p]
    BY <1>6 DEF MoveFolder
  <2>2. Edit(f) /\ named' = named /\ parent' \in Tree
    BY <1>1, <1>6, <2>1 DEF MoveFolder, Tree
  <2>3. \A g \in Folder : f \notin Lineage(g) => parent'[g] = parent[g]
    BY <1>1, <1>2, <2>1 DEF Tree
  <2> QED BY <1>1, <2>2, <2>3, EditStep
<1> QED BY <1>3, <1>4, <1>5, <1>6

-----------------------------------------------------------------------------
(* A visit.  The folder at the head of the queue is listed, or said to     *)
(* have no children.                                                       *)

Listed(children) ==
  \/ queue[1].children /\ Exists(queue[1].id) /\ children \in Listings(queue[1].id)
  \/ ~queue[1].children /\ children = <<>>

\* Its children are in the listing, and only they.
LEMMA ListedChildren ==
  ASSUME IInv, pc = "walk", NEW children, Listed(children)
  PROVE  /\ children \in Seq(Entry)
         /\ \A i \in DOMAIN children : /\ children[i].id \in Children(queue[1].id)
                                       /\ children[i] = EntryOf(children[i].id)
         /\ \A i, j \in DOMAIN children : children[i].id = children[j].id => i = j
         /\ queue[1].children =>
              \A c \in Children(queue[1].id) : \E i \in DOMAIN children : children[i].id = c
<1>1. CASE children \in Listings(queue[1].id)
  <2>1. named \subseteq Folder
    BY DEF IInv, TypeOK
  <2> QED BY <1>1, <2>1, ListingHasChildren
<1>2. CASE ~queue[1].children /\ children = <<>>
  <2>1. children \in Seq(Entry) /\ DOMAIN children = {}
    BY <1>2, EmptySeq
  <2> QED BY <1>2, <2>1
<1> QED BY <1>1, <1>2 DEF Listed

\* What stays and bears the name is found, or will be.
LEMMA VisitCovers ==
  ASSUME IInv, pc = "walk", NEW children, Listed(children), Visit(children)
  PROVE  \A f \in Standing :
           \/ \E i \in DOMAIN matches' : matches'[i].id = f
           \/ \E i \in DOMAIN queue' : Covers(queue'[i], f)
<1>1. queue \in Seq(Entry) /\ queue # <<>> /\ matches \in Seq(Entry) /\ named \subseteq Folder
  BY DEF IInv, TypeOK
<1>2. TAKE f \in Standing
<1>3. f \in named /\ f \in Folder /\ f \in still
  BY <1>1 DEF Standing
<1>4. CASE \E i \in DOMAIN matches : matches[i].id = f
  BY <1>1, <1>4, ListedChildren, VisitSequences
<1>5. CASE \E i \in DOMAIN queue : i # 1 /\ Covers(queue[i], f)
  BY <1>1, <1>5, ListedChildren, VisitSequences
<1>6. CASE Covers(queue[1], f)
  <2> DEFINE g == queue[1].id
  <2>1. g \in Lineage(f) /\ g \in Folder
    BY <1>3, <1>6, LineageSelf DEF Covers
  <2>2. CASE g = f
    <3>1. queue[1].match
      BY <1>6, <2>2 DEF Covers
    <3> QED BY <1>1, <2>2, <3>1, ListedChildren, VisitSequences
  <2>3. CASE g # f
    <3>1. PICK c \in Lineage(f) : parent[c] = g
      BY <1>3, <2>1, <2>3, LineageDown
    <3>2. c \in Children(g) /\ queue[1].children
      BY <1>3, <1>6, <2>3, <3>1, LineageSelf DEF Children, Covers
    <3>3. PICK i \in DOMAIN children : children[i].id = c
      BY <3>2, ListedChildren
    <3>4. Covers(children[i], f)
      BY <1>3, <3>1, <3>3, ListedChildren, EntryCovers
    <3> QED BY <1>1, <3>4, ListedChildren, VisitSequences
  <2> QED BY <2>2, <2>3
<1> QED BY <1>2, <1>4, <1>5, <1>6 DEF IInv, CoverInv

\* In a tree at rest nothing of the queue is above anything else of the queue,
\* or above a match.
LEMMA VisitAtRest ==
  ASSUME IInv, pc = "walk", edits = 0, NEW children, Listed(children), Visit(children)
  PROVE  /\ \A i \in DOMAIN queue' : /\ Exists(queue'[i].id)
                                     /\ queue'[i].match => queue'[i].id \in named
         /\ \A i, j \in DOMAIN queue' : queue'[i].id \in Lineage(queue'[j].id) => i = j
         /\ \A i \in DOMAIN queue', m \in DOMAIN matches' :
              queue'[i].id \notin Lineage(matches'[m].id)
         /\ \A m \in DOMAIN matches' : Exists(matches'[m].id) /\ matches'[m].id \in named
         /\ \A m, n \in DOMAIN matches' : matches'[m].id = matches'[n].id => m = n
<1> DEFINE g == queue[1].id
           k == Len(queue) - 1
<1>1. queue \in Seq(Entry) /\ queue # <<>> /\ matches \in Seq(Entry) /\ named \subseteq Folder
  BY DEF IInv, TypeOK
<1>2. /\ \A i \in DOMAIN queue : Exists(queue[i].id) /\ (queue[i].match => queue[i].id \in named)
      /\ \A i, j \in DOMAIN queue : queue[i].id \in Lineage(queue[j].id) => i = j
      /\ \A i \in DOMAIN queue, m \in DOMAIN matches : queue[i].id \notin Lineage(matches[m].id)
      /\ \A m \in DOMAIN matches : Exists(matches[m].id) /\ matches[m].id \in named
      /\ \A m, n \in DOMAIN matches : matches[m].id = matches[n].id => m = n
      /\ \A f \in Folder : Exists(f) => Hangs(f)
  BY DEF IInv, RestInv, StillInv, Here
<1>3. /\ k \in Nat /\ 1 \in DOMAIN queue /\ queue[1] \in Entry
      /\ \A i \in DOMAIN queue' : i \in Nat /\
           \/ i + 1 \in DOMAIN queue /\ i + 1 # 1 /\ queue'[i] = queue[i + 1]
           \/ i - k \in DOMAIN children /\ queue'[i] = children[i - k]
      /\ \A i \in DOMAIN matches' :
           \/ i \in DOMAIN matches /\ matches'[i] = matches[i]
           \/ queue[1].match /\ i = Len(matches) + 1 /\ matches'[i] = queue[1]
  BY <1>1, ListedChildren, VisitSequences
<1>4. \A i \in DOMAIN children :
        /\ children[i].id \in Folder /\ parent[children[i].id] = g
        /\ children[i].match <=> children[i].id \in named
  <2> TAKE i \in DOMAIN children
  <2>1. children[i].id \in Children(g) /\ children[i] = EntryOf(children[i].id)
    BY ListedChildren
  <2>2. \A f \in Folder : EntryOf(f).match <=> f \in named
    BY DEF EntryOf
  <2>3. children[i].id \in Folder /\ parent[children[i].id] = g
    BY <2>1 DEF Children
  <2> QED BY <2>1, <2>2, <2>3
<1>5. /\ g \in Folder /\ \A i \in DOMAIN queue : queue[i].id \in Folder
      /\ \A m \in DOMAIN matches : matches[m].id \in Folder
  <2>1. \A e \in Entry : e.id \in Folder
    BY DEF Entry
  <2>2. \A i \in DOMAIN queue : queue[i] \in Entry
    BY <1>1, ElementOfSeq, LenProperties
  <2>3. \A m \in DOMAIN matches : matches[m] \in Entry
    BY <1>1, ElementOfSeq, LenProperties
  <2> QED BY <1>3, <2>1, <2>2, <2>3
<1>6. \A i \in DOMAIN children : Exists(children[i].id) /\ Hangs(children[i].id)
  BY <1>2, <1>4, <1>5 DEF Exists
<1>7. \A i \in DOMAIN children : children[i].id \notin Lineage(g)
  BY <1>4, <1>5, <1>6, NoCycle
\* Above what the head is not below, no child of it is.
<1>8. ASSUME NEW f \in Folder, g \notin Lineage(f), NEW i \in DOMAIN children
      PROVE  children[i].id \notin Lineage(f)
  BY <1>4, <1>5, <1>8, LineageUp
<1> HIDE DEF g, k
<1>9. \A i \in DOMAIN queue' : /\ Exists(queue'[i].id)
                               /\ queue'[i].match => queue'[i].id \in named
  BY <1>2, <1>3, <1>4, <1>6
<1>10. ASSUME NEW i \in DOMAIN queue', NEW j \in DOMAIN queue',
              queue'[i].id \in Lineage(queue'[j].id)
       PROVE  i = j
  <2>1. i \in Nat /\ j \in Nat
    BY <1>3
  <2>2. CASE /\ i + 1 \in DOMAIN queue /\ queue'[i] = queue[i + 1]
             /\ j + 1 \in DOMAIN queue /\ queue'[j] = queue[j + 1]
    BY <1>2, <1>10, <2>1, <2>2
  <2>3. CASE /\ i + 1 \in DOMAIN queue /\ i + 1 # 1 /\ queue'[i] = queue[i + 1]
             /\ j - k \in DOMAIN children /\ queue'[j] = children[j - k]
    <3> DEFINE a == queue[i + 1].id
               c == children[j - k].id
    <3>1. a \in Lineage(c) /\ c \in Folder /\ parent[c] = g /\ a \in Folder
      BY <1>4, <1>5, <1>10, <2>3
    <3>2. CASE a = c
      <4>1. g \in Lineage(a)
        BY <1>5, <3>1, <3>2, LineageUp, LineageSelf
      <4> QED BY <1>2, <1>3, <2>3, <4>1 DEF g
    <3>3. CASE a # c
      <4>1. a \in Lineage(g)
        BY <3>1, <3>3, LineageOfChild
      <4> QED BY <1>2, <1>3, <2>3, <4>1 DEF g
    <3> QED BY <3>2, <3>3
  <2>4. CASE /\ i - k \in DOMAIN children /\ queue'[i] = children[i - k]
             /\ j + 1 \in DOMAIN queue /\ j + 1 # 1 /\ queue'[j] = queue[j + 1]
    <3>1. g \notin Lineage(queue[j + 1].id) /\ queue[j + 1].id \in Folder
      BY <1>2, <1>3, <1>5, <2>4 DEF g
    <3> QED BY <1>8, <1>10, <2>4, <3>1
  <2>5. CASE /\ i - k \in DOMAIN children /\ queue'[i] = children[i - k]
             /\ j - k \in DOMAIN children /\ queue'[j] = children[j - k]
    <3> DEFINE a == children[i - k].id
               c == children[j - k].id
    <3>1. a = c
      <4>1. a \in Lineage(c) /\ c \in Folder /\ parent[c] = g
        BY <1>4, <1>10, <2>5
      <4>2. a \notin Lineage(g)
        BY <1>7, <2>5
      <4> QED BY <4>1, <4>2, LineageOfChild
    <3>2. i - k = j - k
      BY <2>5, <3>1, ListedChildren
    <3> QED BY <1>3, <2>1, <3>2
  <2> QED BY <1>3, <2>2, <2>3, <2>4, <2>5
<1>11. ASSUME NEW i \in DOMAIN queue', NEW m \in DOMAIN matches'
       PROVE  queue'[i].id \notin Lineage(matches'[m].id)
  <2>1. CASE m \in DOMAIN matches /\ matches'[m] = matches[m]
    <3>1. g \notin Lineage(matches[m].id) /\ matches[m].id \in Folder
      BY <1>2, <1>3, <1>5, <2>1 DEF g
    <3>2. CASE i + 1 \in DOMAIN queue /\ queue'[i] = queue[i + 1]
      BY <1>2, <2>1, <3>2
    <3>3. CASE i - k \in DOMAIN children /\ queue'[i] = children[i - k]
      BY <1>8, <2>1, <3>1, <3>3
    <3> QED BY <1>3, <3>2, <3>3
  <2>2. CASE matches'[m] = queue[1]
    <3>1. CASE i + 1 \in DOMAIN queue /\ i + 1 # 1 /\ queue'[i] = queue[i + 1]
      BY <1>2, <1>3, <2>2, <3>1
    <3>2. CASE i - k \in DOMAIN children /\ queue'[i] = children[i - k]
      BY <1>7, <2>2, <3>2 DEF g
    <3> QED BY <1>3, <3>1, <3>2
  <2> QED BY <1>3, <2>1, <2>2
<1>12. \A m \in DOMAIN matches' : Exists(matches'[m].id) /\ matches'[m].id \in named
  BY <1>2, <1>3
<1>13. \A m, n \in DOMAIN matches' : matches'[m].id = matches'[n].id => m = n
  <2>1. \A n \in DOMAIN matches : matches[n].id # queue[1].id
    BY <1>2, <1>3, <1>5, LineageSelf
  <2> QED BY <1>2, <1>3, <2>1
<1> QED BY <1>9, <1>10, <1>11, <1>12, <1>13

-----------------------------------------------------------------------------
(* The end of the walk.                                                    *)

NamedAtTop == {f \in named : parent[f] = Top}
NamedHere  == {f \in named : Exists(f)}

LEMMA NamedFinite ==
  ASSUME named \subseteq Folder
  PROVE  /\ IsFiniteSet(NamedAtTop) /\ Cardinality(NamedAtTop) \in Nat
         /\ IsFiniteSet(NamedHere) /\ Cardinality(NamedHere) \in Nat
         /\ NamedAtTop \subseteq NamedHere
         /\ Cardinality(NamedAtTop) <= Cardinality(NamedHere)
<1>1. NamedHere \in SUBSET Folder /\ NamedAtTop \in SUBSET NamedHere
  BY DEF NamedHere, NamedAtTop, Exists
<1>2. IsFiniteSet(NamedHere)
  BY <1>1, FS_Subset
<1>3. IsFiniteSet(NamedAtTop) /\ Cardinality(NamedAtTop) <= Cardinality(NamedHere)
  BY <1>1, <1>2, FS_Subset
<1> QED BY <1>1, <1>2, <1>3, FS_CardinalityType

LEMMA ReferenceIs ==
  /\ NamedAtTop # {} =>
       Reference = IF Cardinality(NamedAtTop) = 1 THEN NamedAtTop ELSE {}
  /\ NamedAtTop = {} =>
       Reference = IF Cardinality(NamedHere) = 1 THEN NamedHere ELSE {}
  BY DEF Reference, NamedAtTop, NamedHere

\* Where the walk of a tree at rest has ended, the matches are the folders of
\* the wanted name, each once.
LEMMA EndAtRest ==
  ASSUME TypeOK, edits = 0, NEW m \in Seq(Entry),
         NamedAtTop = {},
         \A f \in NamedHere : \E i \in DOMAIN m : m[i].id = f,
         \A i \in DOMAIN m : m[i].id \in NamedHere,
         \A i, j \in DOMAIN m : m[i].id = m[j].id => i = j
  PROVE  /\ m = <<>> => Reference = {}
         /\ Len(m) = 1 => Reference = {m[1].id}
         /\ Len(m) > 1 => Reference = {} /\ Cardinality(NamedHere) > 1
<1>1. Len(m) \in Nat /\ DOMAIN m = 1..Len(m)
  BY LenProperties
<1>2. IsFiniteSet(NamedHere) /\ Cardinality(NamedHere) \in Nat
  BY NamedFinite DEF TypeOK
<1>3. Reference = IF Cardinality(NamedHere) = 1 THEN NamedHere ELSE {}
  BY ReferenceIs
<1>4. ASSUME m = <<>> PROVE Reference = {}
  <2>1. NamedHere = {}
    BY <1>1, <1>4, EmptySeq
  <2> QED BY <1>3, <2>1
<1>5. ASSUME Len(m) = 1 PROVE Reference = {m[1].id}
  <2>1. NamedHere = {m[1].id}
    BY <1>1, <1>5
  <2> QED BY <1>3, <2>1, FS_Singleton
<1>6. ASSUME Len(m) > 1 PROVE Reference = {} /\ Cardinality(NamedHere) > 1
  <2>1. 1 \in DOMAIN m /\ 2 \in DOMAIN m
    BY <1>1, <1>6
  <2>2. m[1].id # m[2].id /\ m[1].id \in NamedHere /\ m[2].id \in NamedHere
    BY <2>1
  <2>3. Cardinality(NamedHere) # 1
    BY <1>2, <2>2, FS_Singleton
  <2>4. Cardinality(NamedHere) # 0
    BY <1>2, <2>2, FS_EmptySet
  <2> QED BY <1>2, <1>3, <2>3, <2>4
<1> QED BY <1>4, <1>5, <1>6

\* Steps of the walk leave the tree as it is.
LEMMA TreeStays ==
  ASSUME UNCHANGED <<tree, still, edits>>
  PROVE  /\ parent' = parent /\ named' = named /\ still' = still /\ edits' = edits
         /\ Standing' = Standing /\ Here' = Here /\ Reference' = Reference
         /\ NamedHere' = NamedHere
         /\ \A f : Lineage(f)' = Lineage(f)
  BY DEF tree, Standing, Here, Exists, Reference, NamedHere, Lineage

LEMMA VisitStep ==
  ASSUME IInv, pc = "walk", NEW children, Listed(children), Visit(children),
         UNCHANGED <<tree, moved, still, edits>>
  PROVE  IInv'
<1> DEFINE m == matches'
<1>1. queue \in Seq(Entry) /\ queue # <<>> /\ matches \in Seq(Entry) /\ named \subseteq Folder
  BY DEF IInv, TypeOK
<1>2. queue' \in Seq(Entry) /\ m \in Seq(Entry) /\ Len(m) \in Nat /\ DOMAIN m = 1..Len(m)
  BY <1>1, ListedChildren, VisitSequences, LenProperties
<1>3. /\ parent' = parent /\ named' = named /\ still' = still /\ edits' = edits
      /\ Standing' = Standing /\ Here' = Here /\ Reference' = Reference
      /\ NamedHere' = NamedHere /\ moved' = moved
      /\ \A f : Lineage(f)' = Lineage(f)
  BY TreeStays
<1>4. moved = None /\ target \in Folder \cup {None}
  BY DEF IInv, CoverInv, TypeOK
<1>5. \A i \in DOMAIN m : m[i].id \in Folder
  <2>1. \A e \in Entry : e.id \in Folder
    BY DEF Entry
  <2> QED BY <1>2, <2>1, ElementOfSeq
<1>6. IF queue' = <<>> THEN EndOfWalk(m) ELSE UNCHANGED <<pc, target>>
  BY DEF Visit
<1>7. CASE queue' # <<>>
  <2>1. pc' = "walk" /\ target' = target
    BY <1>6, <1>7
  <2>2. TypeOK'
    BY <1>2, <1>3, <1>4, <1>7, <2>1 DEF IInv, TypeOK, Ended
  <2>3. CoverInv'
    <3>1. \A f \in Standing : \/ \E i \in DOMAIN m : m[i].id = f
                              \/ \E i \in DOMAIN queue' : Covers(queue'[i], f)
      BY VisitCovers
    <3>2. \A i \in DOMAIN queue', f \in Standing : Covers(queue'[i], f) => Covers(queue[i], f)'
      BY <1>3 DEF Covers
    <3> QED BY <1>3, <1>4, <2>1, <3>1, <3>2 DEF CoverInv
  <2>4. RestInv'
    <3>1. SUFFICES ASSUME edits = 0 PROVE RestInv'
      BY <1>3 DEF RestInv
    <3>2. still = Here /\ \A f \in named : parent[f] # Top
      BY <3>1 DEF IInv, RestInv
    <3> QED BY <1>3, <3>1, <3>2, VisitAtRest DEF RestInv, Exists
  <2>5. StillInv' /\ NothingStandingIsOverlooked' /\ TreeAtRestIsSearched'
    BY <1>3, <2>1 DEF IInv, StillInv, Hangs, Exists, NothingStandingIsOverlooked,
       TreeAtRestIsSearched
  <2> QED BY <2>2, <2>3, <2>4, <2>5 DEF IInv
<1>8. CASE queue' = <<>>
  <2>1. EndOfWalk(m)
    BY <1>6, <1>8
  <2>2. pc' \in {"not found", "ambiguous", "move"}
    BY <2>1 DEF EndOfWalk, Found
  <2>3. /\ pc' = "move" => Len(m) = 1 /\ target' = m[1].id /\ target' \in Folder
        /\ pc' # "move" => target' = target
        /\ pc' = "not found" => m = <<>>
        /\ pc' = "ambiguous" => Len(m) > 1
    <3>1. m # <<>> => Len(m) > 0
      BY <1>2, EmptySeq
    <3>2. CASE m = <<>>
      BY <2>1, <3>2 DEF EndOfWalk
    <3>3. CASE Len(m) > 1
      BY <2>1, <3>3, <1>2, EmptySeq DEF EndOfWalk
    <3>4. CASE m # <<>> /\ ~(Len(m) > 1)
      <4>1. Len(m) = 1 /\ 1 \in DOMAIN m
        BY <1>2, <3>1, <3>4
      <4>2. pc' = "move" /\ target' = m[1].id
        BY <2>1, <3>4 DEF EndOfWalk, Found
      <4> QED BY <1>5, <4>1, <4>2
    <3> QED BY <3>2, <3>3, <3>4
  <2>4. TypeOK'
    <3>1. target' \in Folder \cup {None} /\ (pc' = "move" => target' \in Folder /\ Len(m) <= 1)
      <4>1. CASE pc' = "move"
        <5>1. Len(m) = 1 /\ target' \in Folder
          BY <2>3, <4>1
        <5> QED BY <5>1
      <4>2. CASE pc' # "move"
        BY <1>4, <2>3, <4>2
      <4> QED BY <4>1, <4>2
    <3>2. pc' \notin {"walk", "moved"}
      BY <2>2
    <3> QED BY <1>2, <1>3, <1>4, <2>2, <3>1, <3>2 DEF IInv, TypeOK, Ended
  <2>5. \A f \in Standing : \E i \in DOMAIN m : m[i].id = f
    BY <1>8, <1>2, VisitCovers, EmptySeq, LenProperties
  <2>6. NothingStandingIsOverlooked'
    <3>1. m = <<>> => Standing = {}
      BY <1>2, <2>5, EmptySeq
    <3>2. Len(m) = 1 => \A f \in Standing : f = m[1].id
      BY <1>2, <2>5
    <3> QED BY <1>3, <2>2, <2>3, <3>1, <3>2 DEF NothingStandingIsOverlooked
  <2>7. TreeAtRestIsSearched'
    <3>1. SUFFICES ASSUME edits = 0 PROVE TreeAtRestIsSearched'
      BY <1>3 DEF TreeAtRestIsSearched
    <3>2. still = Here /\ NamedAtTop = {}
      BY <3>1 DEF IInv, RestInv, NamedAtTop
    <3>3. \A f \in NamedHere : \E i \in DOMAIN m : m[i].id = f
      BY <1>1, <2>5, <3>2 DEF NamedHere, Here, Standing
    <3>4. /\ \A i \in DOMAIN m : m[i].id \in NamedHere
          /\ \A i, j \in DOMAIN m : m[i].id = m[j].id => i = j
      BY <3>1, VisitAtRest DEF NamedHere
    <3>5. /\ m = <<>> => Reference = {}
          /\ Len(m) = 1 => Reference = {m[1].id}
          /\ Len(m) > 1 => Reference = {} /\ Cardinality(NamedHere) > 1
      BY <1>2, <3>1, <3>2, <3>3, <3>4, EndAtRest DEF IInv
    <3> QED BY <1>3, <2>2, <2>3, <3>5 DEF TreeAtRestIsSearched, NamedHere
  <2>8. StillInv' /\ CoverInv' /\ RestInv'
    BY <1>3, <2>2 DEF IInv, StillInv, Hangs, Exists, CoverInv, RestInv
  <2> QED BY <2>4, <2>6, <2>7, <2>8 DEF IInv
<1> QED BY <1>7, <1>8

-----------------------------------------------------------------------------
(* The other steps of the call.                                            *)

LEMMA ListTopStep == IInv /\ ListTop => IInv'
<1> SUFFICES ASSUME IInv, ListTop PROVE IInv'
  OBVIOUS
<1>1. /\ TypeOK /\ named \subseteq Folder /\ matches = <<>> /\ moved = None
      /\ target \in Folder \cup {None} /\ pc = "top" /\ matches \in Seq(Entry)
      /\ matches' = matches /\ moved' = moved /\ UNCHANGED <<tree, still, edits>>
      /\ queue \in Seq(Entry)
  BY DEF IInv, TypeOK, CoverInv, ListTop
<1>2. /\ parent' = parent /\ named' = named /\ still' = still /\ edits' = edits
      /\ Standing' = Standing /\ Here' = Here /\ Reference' = Reference
      /\ NamedHere' = NamedHere
      /\ \A f : Lineage(f)' = Lineage(f)
  BY <1>1, TreeStays
<1>3. PICK top \in Listings(Top) :
         LET m == Matching(top) IN
         IF Cardinality(m) = 1 THEN (\E id \in m : Found(id)) /\ UNCHANGED queue
         ELSE IF Cardinality(m) > 1 THEN pc' = "ambiguous" /\ UNCHANGED <<target, queue>>
         ELSE IF top = <<>> THEN EndOfWalk(<<>>) /\ UNCHANGED queue
         ELSE pc' = "walk" /\ queue' = top /\ UNCHANGED target
  BY DEF ListTop
<1>4. /\ top \in Seq(Entry)
      /\ \A i \in DOMAIN top : top[i].id \in Children(Top) /\ top[i] = EntryOf(top[i].id)
      /\ \A i, j \in DOMAIN top : top[i].id = top[j].id => i = j
      /\ \A c \in Children(Top) : \E i \in DOMAIN top : top[i].id = c
  BY <1>1, ListingHasChildren
<1>5. Matching(top) = NamedAtTop
  <2>1. \A f \in Folder : EntryOf(f).match <=> f \in named
    BY DEF EntryOf
  <2>2. \A i \in DOMAIN top : top[i].match <=> top[i].id \in named
    BY <1>4, <2>1 DEF Children
  <2>3. \A f : f \in NamedAtTop <=> f \in Children(Top) /\ f \in named
    BY <1>1 DEF NamedAtTop, Children
  <2>4. \A f : f \in Matching(top) <=> \E i \in DOMAIN top : top[i].match /\ top[i].id = f
    BY DEF Matching
  <2>5. \A f : f \in Matching(top) <=> f \in NamedAtTop
    BY <1>4, <2>2, <2>3, <2>4
  <2> QED BY <2>5
<1>6. /\ IsFiniteSet(NamedAtTop) /\ Cardinality(NamedAtTop) \in Nat
      /\ IsFiniteSet(NamedHere) /\ Cardinality(NamedHere) \in Nat
      /\ Cardinality(NamedAtTop) <= Cardinality(NamedHere)
      /\ NamedAtTop \subseteq Folder
  BY <1>1, NamedFinite DEF NamedAtTop
<1>7. \A f \in Standing : f \in Folder /\ f \in named /\ Hangs(f) /\ Exists(f)
  BY <1>1 DEF IInv, StillInv, Standing
<1>8. CASE Cardinality(NamedAtTop) = 1
  <2>1. PICK id \in NamedAtTop : pc' = "move" /\ target' = id /\ queue' = queue
    BY <1>3, <1>5, <1>8 DEF Found
  <2>2. NamedAtTop = {id}
    BY <1>6, <1>8, <2>1, FS_Singleton
  <2>3. Len(matches) = 0
    BY <1>1, EmptySeq
  <2>4. TypeOK'
    BY <1>1, <1>2, <1>6, <2>1, <2>3 DEF TypeOK, Ended
  <2>5. NothingStandingIsOverlooked'
    BY <1>1, <1>2, <2>1, <2>2 DEF NothingStandingIsOverlooked, Standing, NamedAtTop
  <2>6. Reference = {id}
    BY <1>8, <2>2, ReferenceIs
  <2> QED BY <1>2, <2>1, <2>4, <2>5, <2>6
      DEF IInv, StillInv, Hangs, Exists, CoverInv, RestInv, TreeAtRestIsSearched
<1>9. CASE Cardinality(NamedAtTop) > 1
  <2>1. pc' = "ambiguous" /\ target' = target /\ queue' = queue
    BY <1>3, <1>5, <1>6, <1>9
  <2>2. Reference = {} /\ Cardinality(NamedHere) > 1
    <3>1. NamedAtTop # {}
      BY <1>6, <1>9, FS_EmptySet
    <3>2. Cardinality(NamedAtTop) # 1 /\ Cardinality(NamedHere) > 1
      BY <1>6, <1>9
    <3> QED BY <3>1, <3>2, ReferenceIs
  <2>3. TypeOK'
    BY <1>1, <1>2, <2>1 DEF TypeOK, Ended
  <2> QED BY <1>2, <2>1, <2>2, <2>3 DEF IInv, StillInv, Hangs, Exists, CoverInv, RestInv,
      TreeAtRestIsSearched, NothingStandingIsOverlooked, NamedHere
<1>10. CASE ~(Cardinality(NamedAtTop) = 1) /\ ~(Cardinality(NamedAtTop) > 1)
  <2>1. NamedAtTop = {}
    BY <1>6, <1>10, FS_EmptySet
  <2>2. CASE top = <<>>
    <3>1. pc' = "not found" /\ target' = target /\ queue' = queue
      BY <1>3, <1>5, <1>10, <2>2 DEF EndOfWalk
    <3>2. \A f \in Folder : ~Hangs(f)
      <4>1. Children(Top) = {}
        BY <1>4, <2>2, EmptySeq
      <4> QED BY <4>1, LineageSelf DEF Hangs, Children
    <3>3. Standing = {}
      BY <1>7, <3>2
    <3>4. edits = 0 => Reference = {}
      <4>1. SUFFICES ASSUME edits = 0 PROVE Reference = {}
        OBVIOUS
      <4>2. NamedHere = {}
        BY <1>1, <1>7, <3>3, <4>1 DEF IInv, RestInv, Standing, Here, NamedHere
      <4> QED BY <2>1, <4>2, ReferenceIs
    <3>5. TypeOK'
      BY <1>1, <1>2, <3>1 DEF TypeOK, Ended
    <3> QED BY <1>2, <3>1, <3>3, <3>4, <3>5 DEF IInv, StillInv, Hangs, Exists, CoverInv,
        RestInv, TreeAtRestIsSearched, NothingStandingIsOverlooked
  <2>3. CASE top # <<>>
    <3>1. pc' = "walk" /\ queue' = top /\ target' = target
      BY <1>3, <1>5, <1>10, <2>3
    <3>2. TypeOK'
      BY <1>1, <1>2, <1>4, <2>3, <3>1 DEF TypeOK, Ended
    <3>3. \A f \in Standing : \E i \in DOMAIN top : Covers(top[i], f)
      <4> TAKE f \in Standing
      <4>1. PICK g \in Lineage(f) : parent[g] = Top
        BY <1>7 DEF Hangs
      <4>2. g \in Children(Top)
        BY <1>7, <4>1, LineageSelf DEF Children
      <4>3. PICK i \in DOMAIN top : top[i].id = g
        BY <1>4, <4>2
      <4> QED BY <1>4, <1>7, <4>3, EntryCovers
    <3>4. CoverInv'
      <4>1. \A i \in DOMAIN queue', f \in Standing : Covers(top[i], f) => Covers(queue[i], f)'
        BY <1>2, <3>1 DEF Covers
      <4> QED BY <1>1, <1>2, <3>1, <3>3, <4>1 DEF CoverInv
    <3>5. RestInv'
      <4>1. SUFFICES ASSUME edits = 0 PROVE RestInv'
        BY <1>2 DEF RestInv
      <4>2. still = Here /\ \A f \in named : parent[f] # Top
        BY <2>1, <4>1 DEF IInv, RestInv, NamedAtTop
      <4>3. \A i \in DOMAIN top : /\ top[i].id \in Folder /\ parent[top[i].id] = Top
                                  /\ top[i].match => top[i].id \in named
        <5>1. \A f \in Folder : EntryOf(f).match <=> f \in named
          BY DEF EntryOf
        <5> QED BY <1>4, <5>1 DEF Children
      <4>4. \A i, j \in DOMAIN top : top[i].id \in Lineage(top[j].id) => i = j
        BY <1>4, <4>3, LineageOfChild
      <4>5. DOMAIN matches = {}
        BY <1>1
      <4> QED BY <1>1, <1>2, <3>1, <4>2, <4>3, <4>4, <4>5 DEF RestInv, Exists
    <3> QED BY <1>2, <3>1, <3>2, <3>4, <3>5 DEF IInv, StillInv, Hangs, Exists,
        TreeAtRestIsSearched, NothingStandingIsOverlooked
  <2> QED BY <2>2, <2>3
<1> QED BY <1>8, <1>9, <1>10

LEMMA MoveMessageStep == IInv /\ MoveMessage => IInv'
<1> SUFFICES ASSUME IInv, MoveMessage PROVE IInv'
  OBVIOUS
<1>1. /\ pc = "move" /\ UNCHANGED <<tree, still, edits>>
      /\ queue' = queue /\ matches' = matches /\ target' = target
      /\ IF Exists(target) THEN pc' = "moved" /\ moved' = target
                           ELSE pc' = "failed" /\ moved' = moved
  BY DEF MoveMessage
<1>2. /\ parent' = parent /\ named' = named /\ still' = still /\ edits' = edits
      /\ Standing' = Standing /\ Here' = Here /\ Reference' = Reference
      /\ NamedHere' = NamedHere
      /\ \A f : Lineage(f)' = Lineage(f)
  BY <1>1, TreeStays
<1>3. TypeOK'
  BY <1>1, <1>2 DEF IInv, TypeOK, Ended
<1>4. edits = 0 => Exists(target)
  <2>1. Reference \subseteq NamedHere
    BY ReferenceIs, NamedFinite DEF IInv, TypeOK
  <2> QED BY <1>1, <2>1 DEF IInv, TreeAtRestIsSearched, NamedHere
<1> QED BY <1>1, <1>2, <1>3, <1>4 DEF IInv, StillInv, Hangs, Exists, CoverInv, RestInv,
    TreeAtRestIsSearched, NothingStandingIsOverlooked

LEMMA ListChildrenStep == IInv /\ ListChildren => IInv'
<1> SUFFICES ASSUME IInv, ListChildren PROVE IInv'
  OBVIOUS
<1>1. pc = "walk" /\ queue[1].children /\ UNCHANGED <<tree, moved, still, edits>>
  BY DEF ListChildren
<1>2. CASE Exists(queue[1].id)
  <2>1. PICK children \in Listings(queue[1].id) : Visit(children)
    BY <1>2 DEF ListChildren
  <2> QED BY <1>1, <1>2, <2>1, VisitStep DEF Listed
<1>3. CASE ~Exists(queue[1].id)
  <2>1. pc' = "failed" /\ UNCHANGED <<queue, matches, target>>
    BY <1>3 DEF ListChildren
  <2>2. /\ parent' = parent /\ named' = named /\ still' = still /\ edits' = edits
        /\ Standing' = Standing /\ Here' = Here
        /\ \A f : Lineage(f)' = Lineage(f)
    BY <1>1, TreeStays
  <2>3. TypeOK'
    BY <1>1, <2>1, <2>2 DEF IInv, TypeOK, Ended
  <2>4. edits # 0
    <3>1. 1 \in DOMAIN queue
      BY <1>1, EmptySeq, LenProperties DEF IInv, TypeOK
    <3> QED BY <1>1, <1>3, <3>1 DEF IInv, RestInv
  <2> QED BY <2>1, <2>2, <2>3, <2>4 DEF IInv, StillInv, Hangs, Exists, CoverInv, RestInv,
      TreeAtRestIsSearched, NothingStandingIsOverlooked
<1> QED BY <1>2, <1>3

LEMMA StepInv == IInv /\ [Next]_vars => IInv'
<1> SUFFICES ASSUME IInv, [Next]_vars PROVE IInv'
  OBVIOUS
<1>1. ASSUME NEW f \in Folder,
             CreateFolder(f) \/ RenameFolder(f) \/ DeleteFolder(f) \/ MoveFolder(f)
      PROVE  IInv'
  BY <1>1, TreeStep
<1>2. CASE PassLeaf
  <2>1. Listed(<<>>) /\ Visit(<<>>) /\ pc = "walk" /\ UNCHANGED <<tree, moved, still, edits>>
    BY <1>2 DEF PassLeaf, Listed
  <2> QED BY <2>1, VisitStep
<1>3. CASE ListTop \/ ListChildren \/ MoveMessage
  BY <1>3, ListTopStep, ListChildrenStep, MoveMessageStep
<1>4. CASE UNCHANGED vars
  <2>1. /\ parent' = parent /\ named' = named /\ still' = still /\ edits' = edits
        /\ Standing' = Standing /\ Here' = Here /\ Reference' = Reference
        /\ \A f : Lineage(f)' = Lineage(f)
    BY <1>4, TreeStays DEF vars
  <2>2. /\ pc' = pc /\ queue' = queue /\ matches' = matches /\ target' = target
        /\ moved' = moved
    BY <1>4 DEF vars, walk
  <2>3. TypeOK' /\ StillInv'
    BY <2>1, <2>2 DEF IInv, TypeOK, StillInv, Hangs, Exists
  <2>4. CoverInv'
    <3>1. \A i \in DOMAIN queue, f \in Standing : Covers(queue[i], f) => Covers(queue[i], f)'
      BY <2>1, <2>2 DEF Covers
    <3> QED BY <2>1, <2>2, <3>1 DEF IInv, CoverInv
  <2>5. RestInv'
    BY <2>1, <2>2 DEF IInv, RestInv, Exists
  <2>6. NothingStandingIsOverlooked' /\ TreeAtRestIsSearched'
    BY <2>1, <2>2 DEF IInv, NothingStandingIsOverlooked, TreeAtRestIsSearched, Exists
  <2> QED BY <2>3, <2>4, <2>5, <2>6 DEF IInv
<1> QED BY <1>1, <1>2, <1>3, <1>4 DEF Next, Call

-----------------------------------------------------------------------------
\* IInv, on which the properties rest, holds in every reachable state.
THEOREM InductiveInvariant == Spec => []IInv
  BY InitInv, StepInv, PTL DEF Spec

\* Every variable keeps its type; the move has a target, and the walk a folder
\* to visit.
THEOREM TypeCorrect == Spec => []TypeOK
<1>1. IInv => TypeOK
  BY DEF IInv
<1> QED BY <1>1, InductiveInvariant, PTL

\* A folder that stays and bears the wanted name is not overlooked by the walk,
\* for any tree and any number of edits around it.
THEOREM StandingFoldersAreFound == Spec => []NothingStandingIsOverlooked
<1>1. IInv => NothingStandingIsOverlooked
  BY DEF IInv
<1> QED BY <1>1, InductiveInvariant, PTL

\* A tree nobody touches is searched as the docstring has it.
THEOREM LookupsAreRightAtRest == Spec => []TreeAtRestIsSearched
<1>1. IInv => TreeAtRestIsSearched
  BY DEF IInv
<1> QED BY <1>1, InductiveInvariant, PTL

=============================================================================
