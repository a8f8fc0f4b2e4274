--------------------------- MODULE MailReadProofs ---------------------------
(***************************************************************************)
(* Proofs about the two ways mail is read: page by page (Paging) and many  *)
(* messages at a time (BatchRead).  The modules have no name in common, so *)
(* one module extends both.                                                *)
(*                                                                         *)
(* Paging, for any entries, places, page sizes and edits.  A cursor is a   *)
(* number k of entries to skip.  What counts is what the agent will never  *)
(* be shown, Missed(p, k): entries it has not seen before position k; and  *)
(* what it has been or will be shown twice, Again(p, k): entries it has    *)
(* seen after position k.  A removal moves one entry to the front of k, at *)
(* most, an arrival one behind it; a page of n entries adds to neither     *)
(* when the next cursor skips k + n, which is what wrap_nextlink writes.   *)
(* A $search has no such cursor: it is sent without its $skiptoken and     *)
(* starts over, which repeats entries but never misses one.                *)
(*                                                                         *)
(* BatchRead, for any sub-requests, retries and waits.  While a $batch is  *)
(* out, what is in it has no result and has been answered once per attempt *)
(* (PendingInv), and what is no longer in it was kept as it was answered   *)
(* last (KeptInv).  A sub-request waits for the largest wait of the        *)
(* throttled set, which exists because the set is finite (MaxWaitBounds).  *)
(***************************************************************************)
EXTENDS Paging, BatchRead, SequenceTheorems, FiniteSetTheorems, WellFoundedInduction,
        TLAPS

-----------------------------------------------------------------------------
(* Paging: the invariant.                                                  *)

USE PagingAssumption DEF PagingAssumption

\* What the agent will not be shown, although it was there all the time: the
\* entries it has been past without seeing them.
Missed(p, k) == {i \in stayed : listed[i] = 0 /\ \E j \in DOMAIN held[p] : j <= k /\ held[p][j] = i}

\* What the agent is or will be shown twice.
Again(p, k) == {i \in Item : \/ listed[i] > 1
                             \/ listed[i] = 1 /\ \E j \in DOMAIN held[p] : j > k /\ held[p][j] = i}

OnPage == cursor \notin {NoCursor, AtEnd}

PlacesInv ==
  /\ IsFiniteSet(from)
  /\ cursor = NoCursor <=> from = {}
  /\ cursor = NoCursor => listed = [i \in Item |-> 0]
  /\ tool = "list_events" /\ OnPage => cursor.place \in Place

MissesInv ==
  \A p \in Place : from = {p} =>
    /\ stayed \subseteq ToSet(held[p])
    /\ OnPage => Cardinality(Missed(p, Skipped(cursor))) <= removed

RepeatsInv ==
  \A p \in Place : from = {p} /\ OnPage => Cardinality(Again(p, Skipped(cursor))) <= inserted

IInv == TypeOK /\ PlacesInv /\ OneCalendar /\ MissesInv /\ MissesAtMostTheRemoved

RInv == RepeatsInv /\ RepeatsAtMostTheInserted

-----------------------------------------------------------------------------
(* Sequences and counts.                                                   *)

LEMMA EntryRemoved ==
  ASSUME NEW s \in Seq(Item), NEW x \in DOMAIN s
  PROVE  LET t == RemoveAt(s, x) IN
         /\ t \in Seq(Item) /\ DOMAIN s = 1..Len(s) /\ Len(s) \in Nat
         /\ DOMAIN t = 1..(Len(s) - 1)
         /\ \A j \in DOMAIN t : t[j] = IF j < x THEN s[j] ELSE s[j + 1]
<1> DEFINE a == SubSeq(s, 1, x - 1)
           b == SubSeq(s, x + 1, Len(s))
           t == RemoveAt(s, x)
<1>1. Len(s) \in Nat /\ DOMAIN s = 1..Len(s) /\ \A i \in 1..Len(s) : s[i] \in Item
  BY LenProperties, ElementOfSeq
<1>2. x \in Nat /\ x >= 1 /\ x <= Len(s)
  BY <1>1
<1>3. a \in Seq(Item) /\ Len(a) = x - 1 /\ \A i \in 1..(x - 1) : a[i] = s[i]
  <2>1. \A i \in 1..(x - 1) : s[i] \in Item
    BY <1>1, <1>2
  <2>2. /\ a \in Seq(Item) /\ Len(a) = IF 1 <= x - 1 THEN x - 1 - 1 + 1 ELSE 0
        /\ \A i \in 1..(x - 1 - 1 + 1) : a[i] = s[1 + i - 1]
    BY <1>2, <2>1, SubSeqProperties
  <2>3. \A i \in 1..(x - 1) : 1 + i - 1 = i /\ i \in 1..(x - 1 - 1 + 1)
    BY <1>2
  <2> QED BY <1>2, <2>2, <2>3
<1>4. b \in Seq(Item) /\ Len(b) = Len(s) - x /\ \A i \in 1..(Len(s) - x) : b[i] = s[x + i]
  <2>1. \A i \in (x + 1)..Len(s) : s[i] \in Item
    BY <1>1, <1>2
  <2>2. /\ b \in Seq(Item) /\ Len(b) = IF x + 1 <= Len(s) THEN Len(s) - (x + 1) + 1 ELSE 0
        /\ \A i \in 1..(Len(s) - (x + 1) + 1) : b[i] = s[x + 1 + i - 1]
    BY <1>1, <1>2, <2>1, SubSeqProperties
  <2>3. \A i \in 1..(Len(s) - x) : x + 1 + i - 1 = x + i /\ i \in 1..(Len(s) - (x + 1) + 1)
    BY <1>1, <1>2
  <2> QED BY <1>1, <1>2, <2>2, <2>3
<1>5. t = a \o b
  BY DEF RemoveAt
<1> HIDE DEF a, b, t
<1>6. /\ t \in Seq(Item) /\ Len(t) = Len(a) + Len(b)
      /\ \A i \in 1..(Len(a) + Len(b)) : t[i] = IF i <= Len(a) THEN a[i] ELSE b[i - Len(a)]
  BY <1>3, <1>4, <1>5, ConcatProperties
<1>7. Len(a) + Len(b) = Len(s) - 1 /\ DOMAIN t = 1..(Len(s) - 1)
  BY <1>1, <1>2, <1>3, <1>4, <1>6, LenProperties
<1>8. ASSUME NEW j \in 1..(Len(s) - 1) PROVE t[j] = IF j < x THEN s[j] ELSE s[j + 1]
  <2>1. CASE j < x
    <3>1. j <= Len(a) /\ j \in 1..(x - 1)
      BY <1>2, <1>3, <2>1
    <3> QED BY <1>3, <1>6, <1>7, <2>1, <3>1
  <2>2. CASE ~(j < x)
    <3>1. ~(j <= Len(a)) /\ j - Len(a) \in 1..(Len(s) - x) /\ x + (j - Len(a)) = j + 1
      BY <1>1, <1>2, <1>3, <2>2
    <3> QED BY <1>4, <1>6, <1>7, <2>2, <3>1
  <2> QED BY <2>1, <2>2
<1> QED BY <1>1, <1>6, <1>7, <1>8 DEF t

LEMMA EntryInserted ==
  ASSUME NEW s \in Seq(Item), NEW x \in 1..(Len(s) + 1), NEW e \in Item
  PROVE  LET t == InsertAt(s, x, e) IN
         /\ t \in Seq(Item) /\ DOMAIN s = 1..Len(s) /\ Len(s) \in Nat
         /\ DOMAIN t = 1..(Len(s) + 1)
         /\ \A j \in DOMAIN t : t[j] = IF j < x THEN s[j] ELSE IF j = x THEN e ELSE s[j - 1]
<1> DEFINE a == SubSeq(s, 1, x - 1)
           b == SubSeq(s, x, Len(s))
           c == a \o <<e>>
           t == InsertAt(s, x, e)
<1>1. Len(s) \in Nat /\ DOMAIN s = 1..Len(s) /\ \A i \in 1..Len(s) : s[i] \in Item
  BY LenProperties, ElementOfSeq
<1>2. x \in Nat /\ x >= 1 /\ x <= Len(s) + 1
  BY <1>1
<1>3. a \in Seq(Item) /\ Len(a) = x - 1 /\ \A i \in 1..(x - 1) : a[i] = s[i]
  <2>1. \A i \in 1..(x - 1) : s[i] \in Item
    BY <1>1, <1>2
  <2>2. /\ a \in Seq(Item) /\ Len(a) = IF 1 <= x - 1 THEN x - 1 - 1 + 1 ELSE 0
        /\ \A i \in 1..(x - 1 - 1 + 1) : a[i] = s[1 + i - 1]
    BY <1>2, <2>1, SubSeqProperties
  <2>3. \A i \in 1..(x - 1) : 1 + i - 1 = i /\ i \in 1..(x - 1 - 1 + 1)
    BY <1>2
  <2> QED BY <1>2, <2>2, <2>3
<1>4. /\ b \in Seq(Item) /\ Len(b) = Len(s) - x + 1
      /\ \A i \in 1..(Len(s) - x + 1) : b[i] = s[x + i - 1]
  <2>1. \A i \in x..Len(s) : s[i] \in Item
    BY <1>1, <1>2
  <2>2. /\ b \in Seq(Item) /\ Len(b) = IF x <= Len(s) THEN Len(s) - x + 1 ELSE 0
        /\ \A i \in 1..(Len(s) - x + 1) : b[i] = s[x + i - 1]
    BY <1>1, <1>2, <2>1, SubSeqProperties
  <2> QED BY <1>1, <1>2, <2>2
<1>5. t = c \o b
  BY DEF InsertAt
<1>6. c = Append(a, e)
  BY <1>3, AppendIsConcat
<1> HIDE DEF a, b, c, t
<1>7. c \in Seq(Item) /\ Len(c) = x /\ c[x] = e /\ \A i \in 1..(x - 1) : c[i] = s[i]
  <2>1. x - 1 + 1 = x
    BY <1>2
  <2> QED BY <1>3, <1>6, <2>1, AppendProperties
<1>8. /\ t \in Seq(Item) /\ Len(t) = Len(c) + Len(b)
      /\ \A i \in 1..(Len(c) + Len(b)) : t[i] = IF i <= Len(c) THEN c[i] ELSE b[i - Len(c)]
  BY <1>4, <1>5, <1>7, ConcatProperties
<1>9. Len(c) + Len(b) = Len(s) + 1 /\ DOMAIN t = 1..(Len(s) + 1)
  BY <1>1, <1>2, <1>4, <1>7, <1>8, LenProperties
<1>10. ASSUME NEW j \in 1..(Len(s) + 1)
       PROVE  t[j] = IF j < x THEN s[j] ELSE IF j = x THEN e ELSE s[j - 1]
  <2>1. CASE j < x
    <3>1. j <= Len(c) /\ j \in 1..(x - 1)
      BY <1>2, <1>7, <2>1
    <3> QED BY <1>7, <1>8, <1>9, <2>1, <3>1
  <2>2. CASE j = x
    <3>1. j <= Len(c) /\ ~(j < x)
      BY <1>2, <1>7, <2>2
    <3> QED BY <1>7, <1>8, <1>9, <2>2, <3>1
  <2>3. CASE j > x
    <3>1. ~(j <= Len(c)) /\ j - Len(c) \in 1..(Len(s) - x + 1) /\ x + (j - Len(c)) - 1 = j - 1
      BY <1>1, <1>2, <1>7, <2>3
    <3>2. ~(j < x) /\ j # x
      BY <1>2, <2>3
    <3> QED BY <1>4, <1>8, <1>9, <3>1, <3>2
  <2> QED BY <1>2, <2>1, <2>2, <2>3
<1> QED BY <1>1, <1>8, <1>9, <1>10 DEF t

\* A page has the entries after the skipped ones, up to its count.
LEMMA PageEntries ==
  ASSUME NEW s \in Seq(Item), NEW k \in Nat, NEW n \in Nat
  PROVE  \A e : e \in ToSet(PageOf(s, k, n)) <=>
                  \E j \in DOMAIN s : j > k /\ j <= k + n /\ s[j] = e
<1> DEFINE m == IF k + n < Len(s) THEN k + n ELSE Len(s)
           t == SubSeq(s, k + 1, m)
<1>1. Len(s) \in Nat /\ DOMAIN s = 1..Len(s) /\ \A i \in 1..Len(s) : s[i] \in Item
  BY LenProperties, ElementOfSeq
<1>2. m \in Nat /\ m <= Len(s) /\ \A j \in DOMAIN s : j <= k + n <=> j <= m
  BY <1>1
<1>3. PageOf(s, k, n) = t
  BY DEF PageOf
<1> HIDE DEF m
<1>4. /\ t \in Seq(Item) /\ Len(t) = IF k + 1 <= m THEN m - (k + 1) + 1 ELSE 0
      /\ \A i \in 1..(m - (k + 1) + 1) : t[i] = s[k + 1 + i - 1]
  <2>1. \A i \in (k + 1)..m : s[i] \in Item
    BY <1>1, <1>2
  <2> QED BY <1>2, <2>1, SubSeqProperties
<1> HIDE DEF t
<1>5. DOMAIN t = 1..(m - k) /\ \A i \in 1..(m - k) : t[i] = s[k + i]
  <2>1. DOMAIN t = 1..Len(t)
    BY <1>4, LenProperties
  <2>2. 1..Len(t) = 1..(m - k)
    BY <1>2, <1>4
  <2>3. \A i \in 1..(m - k) : k + 1 + i - 1 = k + i /\ i \in 1..(m - (k + 1) + 1)
    BY <1>2
  <2> QED BY <1>4, <2>1, <2>2, <2>3
<1>6. ASSUME NEW e, e \in ToSet(t)
      PROVE  \E j \in DOMAIN s : j > k /\ j <= k + n /\ s[j] = e
  <2>1. PICK i \in 1..(m - k) : t[i] = e
    BY <1>5, <1>6 DEF ToSet
  <2>2. k + i \in DOMAIN s /\ k + i > k /\ k + i <= m
    BY <1>1, <1>2
  <2> QED BY <1>2, <1>5, <2>1, <2>2
<1>7. ASSUME NEW j \in DOMAIN s, j > k, j <= k + n PROVE s[j] \in ToSet(t)
  <2>1. j - k \in 1..(m - k) /\ k + (j - k) = j
    BY <1>1, <1>2, <1>7
  <2> QED BY <1>5, <2>1 DEF ToSet
<1> QED BY <1>3, <1>6, <1>7

LEMMA CountAtMost ==
  ASSUME NEW T \in SUBSET Item, NEW S
  PROVE  /\ Cardinality(T) \in Nat
         /\ S \subseteq T => Cardinality(S) <= Cardinality(T)
         /\ \A x : S \subseteq T \cup {x} => Cardinality(S) <= Cardinality(T) + 1
<1>1. IsFiniteSet(T) /\ Cardinality(T) \in Nat
  BY FS_Subset, FS_CardinalityType
<1>2. S \subseteq T => Cardinality(S) <= Cardinality(T)
  BY <1>1, FS_Subset
<1>3. ASSUME NEW x, S \subseteq T \cup {x} PROVE Cardinality(S) <= Cardinality(T) + 1
  <2>1. /\ IsFiniteSet(T \cup {x})
        /\ Cardinality(T \cup {x}) = IF x \in T THEN Cardinality(T) ELSE Cardinality(T) + 1
    BY <1>1, FS_AddElement
  <2>2. Cardinality(S) <= Cardinality(T \cup {x}) /\ Cardinality(S) \in Nat
    BY <1>3, <2>1, FS_Subset, FS_CardinalityType
  <2> QED BY <1>1, <2>1, <2>2
<1> QED BY <1>1, <1>2, <1>3
-----------------------------------------------------------------------------
(* The edits.                                                              *)

PageCursor == [at : {"page"}, key : {"skip", "skiptoken"}, skip : Nat,
               place : Place \cup {AnyPlace}]

LEMMA CursorKinds ==
  ASSUME TypeOK
  PROVE  /\ OnPage => cursor \in PageCursor
         /\ \A c \in PageCursor : c \notin {NoCursor, AtEnd} /\ Skipped(c) \in Nat
         /\ Skipped(NoCursor) = 0
         /\ NoCursor # AtEnd
<1>1. OnPage => cursor \in PageCursor
  BY DEF TypeOK, OnPage, PageCursor
<1>2. ASSUME NEW c \in PageCursor PROVE c \notin {NoCursor, AtEnd} /\ Skipped(c) \in Nat
  <2>1. c.at = "page" /\ c.skip \in Nat
    BY DEF PageCursor
  <2>2. NoCursor.at = "start" /\ AtEnd.at = "end"
    BY DEF NoCursor, AtEnd
  <2> QED BY <2>1, <2>2 DEF Skipped
<1>3. NoCursor # AtEnd
  <2>1. NoCursor.at = "start" /\ AtEnd.at = "end"
    BY DEF NoCursor, AtEnd
  <2> QED BY <2>1
<1> QED BY <1>1, <1>2, <1>3 DEF Skipped

\* A listing is emptied by one entry.
LEMMA LeaveListing ==
  ASSUME TypeOK, NEW p \in Place, Leave(p)
  PROVE  /\ held' \in [Place -> Seq(Item)] /\ Distinct(held')
         /\ \A q \in Place : q # p => held'[q] = held[q]
         /\ \E x \in DOMAIN held[p] :
              /\ stayed' = stayed \ {held[p][x]}
              /\ \A j \in DOMAIN held'[p] : j \in Nat /\
                   \E i \in DOMAIN held[p] : /\ i \in {j, j + 1} /\ held'[p][j] = held[p][i]
              /\ \A i \in DOMAIN held[p] : i # x =>
                   \E j \in DOMAIN held'[p] : held'[p][j] = held[p][i]
<1>1. held \in [Place -> Seq(Item)] /\ Distinct(held) /\ held[p] \in Seq(Item)
  BY DEF TypeOK
<1>2. PICK x \in DOMAIN held[p] : /\ held' = [held EXCEPT ![p] = RemoveAt(@, x)]
                                  /\ stayed' = stayed \ {held[p][x]}
  BY DEF Leave
<1>3. held'[p] = RemoveAt(held[p], x) /\ \A q \in Place : q # p => held'[q] = held[q]
  BY <1>1, <1>2
<1>4. /\ held'[p] \in Seq(Item) /\ DOMAIN held[p] = 1..Len(held[p]) /\ Len(held[p]) \in Nat
      /\ DOMAIN held'[p] = 1..(Len(held[p]) - 1)
      /\ \A j \in DOMAIN held'[p] : held'[p][j] = IF j < x THEN held[p][j] ELSE held[p][j + 1]
  BY <1>1, <1>3, EntryRemoved
<1>5. held' \in [Place -> Seq(Item)]
  BY <1>1, <1>2, <1>3, <1>4
<1> DEFINE Old(q, j) == IF q # p \/ j < x THEN j ELSE j + 1
<1>6. ASSUME NEW q \in Place, NEW j \in DOMAIN held'[q]
      PROVE  Old(q, j) \in DOMAIN held[q] /\ held'[q][j] = held[q][Old(q, j)]
  <2>1. CASE q # p
    BY <1>3, <2>1
  <2>2. CASE q = p /\ j < x
    <3>1. j \in 1..Len(held[p])
      BY <1>4, <1>6, <2>2
    <3> QED BY <1>4, <1>6, <2>2, <3>1
  <2>3. CASE q = p /\ ~(j < x)
    <3>1. j + 1 \in 1..Len(held[p])
      BY <1>4, <1>6, <2>3
    <3> QED BY <1>4, <1>6, <2>3, <3>1
  <2> QED BY <2>1, <2>2, <2>3
<1>7. \A q \in Place : \A i, j \in DOMAIN held'[q] : Old(q, i) = Old(q, j) => i = j
  <2> TAKE q \in Place
  <2>1. CASE q # p
    BY <2>1
  <2>2. CASE q = p
    <3>1. x \in Int /\ \A i \in DOMAIN held'[q] : i \in Int
      BY <1>4, <2>2
    <3> QED BY <2>2, <3>1
  <2> QED BY <2>1, <2>2
<1>8. Distinct(held')
  <2>1. ASSUME NEW q \in Place, NEW r \in Place, NEW i \in DOMAIN held'[q],
               NEW j \in DOMAIN held'[r], held'[q][i] = held'[r][j]
        PROVE  q = r /\ i = j
    <3>1. held[q][Old(q, i)] = held[r][Old(r, j)]
      BY <1>6, <2>1
    <3> HIDE DEF Old
    <3>2. q = r /\ Old(q, i) = Old(r, j)
      BY <1>1, <1>6, <2>1, <3>1 DEF Distinct
    <3> QED BY <1>7, <3>2
  <2> QED BY <2>1 DEF Distinct
<1>9. \A j \in DOMAIN held'[p] : j \in Nat /\
        \E i \in DOMAIN held[p] : i \in {j, j + 1} /\ held'[p][j] = held[p][i]
  <2> TAKE j \in DOMAIN held'[p]
  <2>1. Old(p, j) \in {j, j + 1} /\ j \in Nat
    BY <1>4
  <2> HIDE DEF Old
  <2> QED BY <1>6, <2>1
<1>10. ASSUME NEW i \in DOMAIN held[p], i # x
       PROVE  \E j \in DOMAIN held'[p] : held'[p][j] = held[p][i]
  <2>1. CASE i < x
    <3>1. i \in DOMAIN held'[p]
      BY <1>4, <2>1
    <3> QED BY <1>4, <2>1, <3>1
  <2>2. CASE i > x
    <3>1. i - 1 \in DOMAIN held'[p] /\ ~(i - 1 < x) /\ (i - 1) + 1 = i
      BY <1>4, <2>2
    <3> QED BY <1>4, <3>1
  <2> QED BY <1>4, <1>10, <2>1, <2>2
<1> QED BY <1>2, <1>3, <1>5, <1>8, <1>9, <1>10

\* A listing is filled by one entry, which is in no other.
LEMMA ArriveListing ==
  ASSUME TypeOK, NEW p \in Place, Arrive(p)
  PROVE  /\ held' \in [Place -> Seq(Item)] /\ Distinct(held')
         /\ \A q \in Place : q # p => held'[q] = held[q]
         /\ \E e \in Item, x \in Nat :
              /\ \A q \in Place : e \notin ToSet(held[q])
              /\ \A j \in DOMAIN held'[p] : j \in Nat /\
                   \/ j = x /\ held'[p][j] = e
                   \/ j < x /\ j \in DOMAIN held[p] /\ held'[p][j] = held[p][j]
                   \/ j > x /\ j - 1 \in DOMAIN held[p] /\ held'[p][j] = held[p][j - 1]
              /\ \A i \in DOMAIN held[p] : \E j \in DOMAIN held'[p] : held'[p][j] = held[p][i]
<1>1. held \in [Place -> Seq(Item)] /\ Distinct(held) /\ held[p] \in Seq(Item)
  BY DEF TypeOK
<1>2. PICK e \in Item, x \in 1..(Len(held[p]) + 1) :
        /\ \A q \in Place : e \notin ToSet(held[q])
        /\ held' = [held EXCEPT ![p] = InsertAt(@, x, e)]
  BY DEF Arrive
<1>3. held'[p] = InsertAt(held[p], x, e) /\ \A q \in Place : q # p => held'[q] = held[q]
  BY <1>1, <1>2
<1>4. /\ held'[p] \in Seq(Item) /\ DOMAIN held[p] = 1..Len(held[p]) /\ Len(held[p]) \in Nat
      /\ DOMAIN held'[p] = 1..(Len(held[p]) + 1)
      /\ \A j \in DOMAIN held'[p] :
           held'[p][j] = IF j < x THEN held[p][j] ELSE IF j = x THEN e ELSE held[p][j - 1]
  BY <1>1, <1>3, EntryInserted
<1>5. held' \in [Place -> Seq(Item)]
  BY <1>1, <1>2, <1>3, <1>4
<1>6. x \in Nat
  BY <1>4
<1>7. \A j \in DOMAIN held'[p] : j \in Nat /\
        \/ j = x /\ held'[p][j] = e
        \/ j < x /\ j \in DOMAIN held[p] /\ held'[p][j] = held[p][j]
        \/ j > x /\ j - 1 \in DOMAIN held[p] /\ held'[p][j] = held[p][j - 1]
  <2> TAKE j \in DOMAIN held'[p]
  <2>1. CASE j < x
    <3>1. j \in DOMAIN held[p] /\ j \in Nat
      BY <1>2, <1>4, <2>1
    <3> QED BY <1>4, <2>1, <3>1
  <2>2. CASE j = x
    BY <1>4, <1>6, <2>2
  <2>3. CASE j > x
    <3>1. j - 1 \in DOMAIN held[p] /\ ~(j < x) /\ j # x /\ j \in Nat
      BY <1>4, <1>6, <2>3
    <3> QED BY <1>4, <2>3, <3>1
  <2> QED BY <1>4, <1>6, <2>1, <2>2, <2>3
<1>8. ASSUME NEW i \in DOMAIN held[p]
      PROVE  \E j \in DOMAIN held'[p] : held'[p][j] = held[p][i]
  <2>1. CASE i < x
    <3>1. i \in DOMAIN held'[p]
      BY <1>4, <2>1
    <3> QED BY <1>4, <2>1, <3>1
  <2>2. CASE ~(i < x)
    <3>1. i + 1 \in DOMAIN held'[p] /\ ~(i + 1 < x) /\ i + 1 # x /\ (i + 1) - 1 = i
      BY <1>4, <1>6, <2>2
    <3> QED BY <1>4, <3>1
  <2> QED BY <2>1, <2>2
<1> DEFINE Old(q, j) == IF q # p \/ j < x THEN j ELSE j - 1
<1>9. ASSUME NEW q \in Place, NEW j \in DOMAIN held'[q], ~(q = p /\ j = x)
      PROVE  /\ Old(q, j) \in DOMAIN held[q] /\ held'[q][j] = held[q][Old(q, j)]
             /\ held'[q][j] # e
  <2>1. Old(q, j) \in DOMAIN held[q] /\ held'[q][j] = held[q][Old(q, j)]
    <3>1. CASE q # p
      BY <1>3, <3>1
    <3>2. CASE q = p
      BY <1>6, <1>7, <1>9, <3>2
    <3> QED BY <3>1, <3>2
  <2> QED BY <1>2, <2>1 DEF ToSet
<1>10. \A q \in Place : \A i, j \in DOMAIN held'[q] :
         ~(q = p /\ (i = x \/ j = x)) /\ Old(q, i) = Old(q, j) => i = j
  <2> TAKE q \in Place
  <2>1. CASE q # p
    BY <2>1
  <2>2. CASE q = p
    <3>1. x \in Int /\ \A i \in DOMAIN held'[q] : i \in Int
      BY <1>4, <2>2
    <3> QED BY <2>2, <3>1
  <2> QED BY <2>1, <2>2
<1>11. Distinct(held')
  <2>1. ASSUME NEW q \in Place, NEW r \in Place, NEW i \in DOMAIN held'[q],
               NEW j \in DOMAIN held'[r], held'[q][i] = held'[r][j]
        PROVE  q = r /\ i = j
    <3> HIDE DEF Old
    <3>1. CASE (q = p /\ i = x) \/ (r = p /\ j = x)
      <4>1. (q = p /\ i = x) => held'[q][i] = e
        BY <1>6, <1>7
      <4>2. (r = p /\ j = x) => held'[r][j] = e
        BY <1>6, <1>7
      <4> QED BY <1>9, <2>1, <3>1, <4>1, <4>2
    <3>2. CASE ~(q = p /\ i = x) /\ ~(r = p /\ j = x)
      <4>1. q = r /\ Old(q, i) = Old(r, j)
        BY <1>1, <1>9, <2>1, <3>2 DEF Distinct
      <4> QED BY <1>10, <3>2, <4>1
    <3> QED BY <3>1, <3>2
  <2> QED BY <2>1 DEF Distinct
<1> QED BY <1>2, <1>3, <1>5, <1>6, <1>7, <1>8, <1>11


-----------------------------------------------------------------------------
(* The invariant.                                                          *)

LEMMA InitInv == Init => IInv
<1> SUFFICES ASSUME Init PROVE IInv
  OBVIOUS
<1> DEFINE n == Cardinality(Item)
<1>1. n \in Nat /\ SetToSeq(Item) \in [1..n -> Item]
  <2>1. n \in Nat /\ ExistsBijection(1..n, Item)
    BY FS_CardinalityType
  <2>2. \E f \in [1..n -> Item] : IsInjective(f)
    BY <2>1 DEF ExistsBijection, Bijection, Injection
  <2> QED BY <2>1, <2>2 DEF SetToSeq
<1>2. \A a, b \in 1..n : SubSeq(SetToSeq(Item), a, b) \in Seq(Item)
  <2> TAKE a, b \in 1..n
  <2>1. a \in Int /\ b \in Int /\ \A i \in a..b : i \in 1..n
    BY <1>1
  <2>2. \A i \in a..b : SetToSeq(Item)[i] \in Item
    BY <1>1, <2>1
  <2> QED BY <2>1, <2>2, SubSeqProperties
<1>3. held \in [Place -> Seq(Item)]
  <2> DEFINE Piece(a, b) == SubSeq(SetToSeq(Item), a, b)
  <2>1. \A a, b \in 1..n : Piece(a, b) \in Seq(Item)
    BY <1>2
  <2>2. held \in [Place -> {Piece(a, b) : a, b \in 1..n}]
    BY DEF Init
  <2> HIDE DEF n, Piece
  <2>3. {Piece(a, b) : a, b \in 1..n} \subseteq Seq(Item)
    BY <2>1
  <2> QED BY <2>2, <2>3
<1>4. TypeOK
  BY <1>3 DEF Init, TypeOK
<1>5. ~OnPage /\ cursor # AtEnd /\ from = {} /\ cursor = NoCursor
  BY <1>4, CursorKinds DEF Init, OnPage
<1>6. IsFiniteSet(from) /\ Cardinality(from) = 0
  BY <1>5, FS_EmptySet
<1>7. PlacesInv
  BY <1>5, <1>6 DEF Init, PlacesInv
<1>8. OneCalendar /\ MissesAtMostTheRemoved /\ MissesInv
  BY <1>5, <1>6 DEF OneCalendar, MissesAtMostTheRemoved, MissesInv
<1> QED BY <1>4, <1>7, <1>8 DEF IInv

\* An edit leaves what the agent has read.
LEMMA EditKeeps ==
  ASSUME IInv, Edit, UNCHANGED reading
  PROVE  /\ OnPage /\ cursor # AtEnd /\ cursor' = cursor /\ OnPage' /\ from' = from
         /\ tool' = tool /\ listed' = listed /\ Skipped(cursor)' = Skipped(cursor)
         /\ Skipped(cursor) \in Nat
         /\ edits \in Nat /\ edits' = edits + 1 /\ edits' \in 0..MaxEdits
         /\ PlacesInv' /\ OneCalendar' /\ MissesAtMostTheRemoved'
<1>1. TypeOK /\ PlacesInv /\ OneCalendar
  BY DEF IInv
<1>2. /\ OnPage /\ cursor # AtEnd /\ cursor' = cursor /\ from' = from
      /\ tool' = tool /\ listed' = listed
  BY DEF Edit, OnPage, reading
<1>3. Skipped(cursor) \in Nat
  BY <1>1, <1>2, CursorKinds
<1>4. OnPage' /\ Skipped(cursor)' = Skipped(cursor)
  BY <1>2 DEF OnPage, Skipped
<1>5. edits \in Nat /\ edits' = edits + 1 /\ edits' \in 0..MaxEdits
  BY <1>1 DEF TypeOK, Edit
<1>6. PlacesInv' /\ OneCalendar' /\ MissesAtMostTheRemoved'
  BY <1>1, <1>2, <1>4 DEF PlacesInv, OneCalendar, MissesAtMostTheRemoved
<1> QED BY <1>2, <1>3, <1>4, <1>5, <1>6

\* An entry that leaves moves one that the agent has not seen before its
\* cursor, at most.
LEMMA LeaveStep ==
  ASSUME IInv, NEW p \in Place, Leave(p)
  PROVE  IInv' /\ (RInv => RInv')
<1> DEFINE k == Skipped(cursor)
<1>1. /\ TypeOK /\ MissesInv /\ Edit /\ UNCHANGED reading /\ called' = called
      /\ inserted' = inserted
      /\ removed' = IF p \in from THEN removed + 1 ELSE removed
  BY DEF IInv, Leave
<1>2. /\ OnPage /\ cursor # AtEnd /\ cursor' = cursor /\ OnPage' /\ from' = from
      /\ tool' = tool /\ listed' = listed /\ Skipped(cursor)' = k /\ k \in Nat
      /\ edits \in Nat /\ edits' = edits + 1 /\ edits' \in 0..MaxEdits
      /\ PlacesInv' /\ OneCalendar' /\ MissesAtMostTheRemoved'
  BY <1>1, EditKeeps
<1>3. /\ held' \in [Place -> Seq(Item)] /\ Distinct(held')
      /\ \A q \in Place : q # p => held'[q] = held[q]
  BY <1>1, LeaveListing
<1>4. PICK x \in DOMAIN held[p] :
        /\ stayed' = stayed \ {held[p][x]}
        /\ \A j \in DOMAIN held'[p] : j \in Nat /\
             \E i \in DOMAIN held[p] : /\ i \in {j, j + 1} /\ held'[p][j] = held[p][i]
        /\ \A i \in DOMAIN held[p] : i # x =>
             \E j \in DOMAIN held'[p] : held'[p][j] = held[p][i]
  BY <1>1, LeaveListing
<1>5. removed \in 0..edits /\ removed' \in 0..edits' /\ removed' \in Nat /\ removed \in Nat
  BY <1>1, <1>2 DEF TypeOK
<1>6. TypeOK'
  <2>1. (Distinct(held))'
    BY <1>3 DEF Distinct
  <2>2. inserted' \in 0..edits' /\ stayed' \subseteq Item
    BY <1>1, <1>2, <1>4 DEF TypeOK
  <2> QED BY <1>1, <1>2, <1>3, <1>5, <2>1, <2>2 DEF TypeOK
<1>7. ASSUME NEW r \in Place, from = {r}
      PROVE  /\ stayed' \subseteq ToSet(held'[r])
             /\ Cardinality(Missed(r, k)') <= removed'
  <2>1. stayed \subseteq ToSet(held[r]) /\ Cardinality(Missed(r, k)) <= removed
    BY <1>1, <1>2, <1>7 DEF MissesInv
  <2>2. Missed(r, k) \in SUBSET Item
    BY <1>1 DEF TypeOK, Missed
  <2>3. CASE r # p
    <3>1. stayed' \subseteq ToSet(held'[r])
      BY <1>3, <1>4, <2>1, <2>3
    <3>2. Missed(r, k)' \subseteq Missed(r, k)
      BY <1>2, <1>3, <1>4, <2>3 DEF Missed
    <3>3. Cardinality(Missed(r, k)') <= Cardinality(Missed(r, k)) /\ Cardinality(Missed(r, k)) \in Nat
           /\ Cardinality(Missed(r, k)') \in Nat
      BY <2>2, <3>2, CountAtMost
    <3>4. removed' = removed
      BY <1>1, <1>7, <2>3
    <3> QED BY <1>5, <2>1, <3>1, <3>3, <3>4
  <2>4. CASE r = p
    <3>1. ASSUME NEW e \in stayed' PROVE e \in ToSet(held'[p])
      <4>1. e \in ToSet(held[p]) /\ e # held[p][x]
        BY <1>4, <2>1, <2>4, <3>1
      <4>2. PICK i \in DOMAIN held[p] : held[p][i] = e
        BY <4>1 DEF ToSet
      <4> QED BY <1>4, <4>1, <4>2 DEF ToSet
    <3>2. Missed(p, k)' \subseteq Missed(p, k) \cup {held[p][k + 1]}
      <4> SUFFICES ASSUME NEW e \in Missed(p, k)', e # held[p][k + 1] PROVE e \in Missed(p, k)
        OBVIOUS
      <4>1. /\ e \in stayed /\ listed[e] = 0
            /\ \E j \in DOMAIN held'[p] : j <= k /\ held'[p][j] = e
        BY <1>2, <1>4 DEF Missed
      <4>2. PICK j \in DOMAIN held'[p] : j <= k /\ held'[p][j] = e
        BY <4>1
      <4>3. PICK i \in DOMAIN held[p] : i \in {j, j + 1} /\ held[p][i] = e
        BY <1>4, <4>2
      <4>4. i <= k
        <5>1. j \in Nat /\ i # k + 1
          BY <1>4, <4>3
        <5> QED BY <1>2, <4>2, <4>3, <5>1
      <4> QED BY <4>1, <4>3, <4>4 DEF Missed
    <3>3. /\ Cardinality(Missed(p, k)') <= Cardinality(Missed(p, k)) + 1
          /\ Cardinality(Missed(p, k)) \in Nat
      BY <2>2, <2>4, <3>2, CountAtMost
    <3>4. Cardinality(Missed(p, k)') \in Nat
      <4>1. Missed(p, k)' \in SUBSET Item
        BY <1>6 DEF TypeOK, Missed
      <4> QED BY <4>1, CountAtMost
    <3>5. removed' = removed + 1
      BY <1>1, <1>7, <2>4
    <3> QED BY <1>5, <2>1, <2>4, <3>1, <3>3, <3>4, <3>5
  <2> QED BY <2>3, <2>4
<1>8. MissesInv'
  BY <1>2, <1>7 DEF MissesInv
<1>9. ASSUME RInv PROVE RInv'
  <2>1. ASSUME NEW r \in Place, from = {r} PROVE Cardinality(Again(r, k)') <= inserted'
    <3>1. Cardinality(Again(r, k)) <= inserted
      BY <1>2, <1>9, <2>1 DEF RInv, RepeatsInv
    <3>2. Again(r, k)' \subseteq Again(r, k)
      <4> SUFFICES ASSUME NEW e \in Again(r, k)' PROVE e \in Again(r, k)
        OBVIOUS
      <4>1. /\ e \in Item
            /\ \/ listed[e] > 1
               \/ listed[e] = 1 /\ \E j \in DOMAIN held'[r] : j > k /\ held'[r][j] = e
        BY <1>2 DEF Again
      <4>2. ASSUME NEW j \in DOMAIN held'[r], j > k
            PROVE  \E i \in DOMAIN held[r] : i > k /\ held[r][i] = held'[r][j]
        <5>1. CASE r # p
          BY <1>3, <4>2, <5>1
        <5>2. CASE r = p
          <6>1. j \in Nat
            BY <1>4, <4>2, <5>2
          <6>2. PICK i \in DOMAIN held[p] : i \in {j, j + 1} /\ held'[p][j] = held[p][i]
            BY <1>4, <4>2, <5>2
          <6>3. i > k
            BY <1>2, <4>2, <6>1, <6>2
          <6> QED BY <5>2, <6>2, <6>3
        <5> QED BY <5>1, <5>2
      <4> QED BY <4>1, <4>2 DEF Again
    <3>3. Again(r, k) \in SUBSET Item
      BY DEF Again
    <3>4. /\ Cardinality(Again(r, k)') <= Cardinality(Again(r, k))
          /\ Cardinality(Again(r, k)) \in Nat /\ Cardinality(Again(r, k)') \in Nat
      BY <3>2, <3>3, CountAtMost
    <3> QED BY <1>1, <3>1, <3>4 DEF TypeOK
  <2>2. RepeatsAtMostTheInserted'
    BY <1>1, <1>2, <1>9 DEF RInv, RepeatsAtMostTheInserted
  <2>3. RepeatsInv'
    BY <1>2, <2>1 DEF RepeatsInv
  <2> QED BY <2>2, <2>3 DEF RInv
<1> QED BY <1>2, <1>6, <1>8, <1>9 DEF IInv

\* One that comes moves one that the agent has seen behind its cursor, at most,
\* or is one that it has seen.
LEMMA ArriveStep ==
  ASSUME IInv, NEW p \in Place, Arrive(p)
  PROVE  IInv' /\ (RInv => RInv')
<1> DEFINE k == Skipped(cursor)
<1>1. /\ TypeOK /\ MissesInv /\ Edit /\ UNCHANGED reading /\ called' = called
      /\ removed' = removed /\ stayed' = stayed
      /\ inserted' = IF p \in from THEN inserted + 1 ELSE inserted
  BY DEF IInv, Arrive
<1>2. /\ OnPage /\ cursor # AtEnd /\ cursor' = cursor /\ OnPage' /\ from' = from
      /\ tool' = tool /\ listed' = listed /\ Skipped(cursor)' = k /\ k \in Nat
      /\ edits \in Nat /\ edits' = edits + 1 /\ edits' \in 0..MaxEdits
      /\ PlacesInv' /\ OneCalendar' /\ MissesAtMostTheRemoved'
  BY <1>1, EditKeeps
<1>3. /\ held' \in [Place -> Seq(Item)] /\ Distinct(held')
      /\ \A q \in Place : q # p => held'[q] = held[q]
  BY <1>1, ArriveListing
<1>4. PICK e \in Item, x \in Nat :
        /\ \A q \in Place : e \notin ToSet(held[q])
        /\ \A j \in DOMAIN held'[p] : j \in Nat /\
             \/ j = x /\ held'[p][j] = e
             \/ j < x /\ j \in DOMAIN held[p] /\ held'[p][j] = held[p][j]
             \/ j > x /\ j - 1 \in DOMAIN held[p] /\ held'[p][j] = held[p][j - 1]
        /\ \A i \in DOMAIN held[p] : \E j \in DOMAIN held'[p] : held'[p][j] = held[p][i]
  BY <1>1, ArriveListing
<1>5. inserted \in Nat /\ inserted' \in 0..edits' /\ inserted' \in Nat
  BY <1>1, <1>2 DEF TypeOK
<1>6. TypeOK'
  <2>1. (Distinct(held))'
    BY <1>3 DEF Distinct
  <2>2. removed' \in 0..edits'
    BY <1>1, <1>2 DEF TypeOK
  <2> QED BY <1>1, <1>2, <1>3, <1>5, <2>1, <2>2 DEF TypeOK
<1>7. ASSUME NEW r \in Place, from = {r}
      PROVE  /\ stayed' \subseteq ToSet(held'[r])
             /\ Cardinality(Missed(r, k)') <= removed'
  <2>1. stayed \subseteq ToSet(held[r]) /\ Cardinality(Missed(r, k)) <= removed
    BY <1>1, <1>2, <1>7 DEF MissesInv
  <2>2. stayed' \subseteq ToSet(held'[r])
    <3>1. CASE r # p
      BY <1>1, <1>3, <2>1, <3>1
    <3>2. CASE r = p
      BY <1>1, <1>4, <2>1, <3>2 DEF ToSet
    <3> QED BY <3>1, <3>2
  <2>3. Missed(r, k)' \subseteq Missed(r, k)
    <3> SUFFICES ASSUME NEW i \in Missed(r, k)' PROVE i \in Missed(r, k)
      OBVIOUS
    <3>1. i \in stayed /\ listed[i] = 0 /\ i # e
      BY <1>1, <1>2, <1>4, <2>1 DEF Missed
    <3>2. PICK j \in DOMAIN held'[r] : j <= k /\ held'[r][j] = i
      <4>1. \E j \in DOMAIN held'[r] : j <= k /\ held'[r][j] = i
        BY <1>2 DEF Missed
      <4> QED BY <4>1
    <3>3. \E l \in DOMAIN held[r] : l <= k /\ held[r][l] = i
      <4>1. CASE r # p
        BY <1>3, <3>2, <4>1
      <4>2. CASE r = p
        <5>1. j \in Nat
          BY <1>4, <3>2, <4>2
        <5>2. CASE j \in DOMAIN held[p] /\ held'[p][j] = held[p][j]
          BY <3>2, <4>2, <5>2
        <5>3. CASE j - 1 \in DOMAIN held[p] /\ held'[p][j] = held[p][j - 1]
          <6>1. j - 1 <= k
            BY <1>2, <3>2, <5>1
          <6> QED BY <3>2, <4>2, <5>3, <6>1
        <5> QED BY <1>4, <3>1, <3>2, <4>2, <5>2, <5>3
      <4> QED BY <4>1, <4>2
    <3> QED BY <3>1, <3>3 DEF Missed
  <2>4. Missed(r, k) \in SUBSET Item
    BY <1>1 DEF TypeOK, Missed
  <2>5. /\ Cardinality(Missed(r, k)') <= Cardinality(Missed(r, k))
        /\ Cardinality(Missed(r, k)) \in Nat /\ Cardinality(Missed(r, k)') \in Nat
    BY <2>3, <2>4, CountAtMost
  <2> QED BY <1>1, <2>1, <2>2, <2>5 DEF TypeOK
<1>8. MissesInv'
  BY <1>2, <1>7 DEF MissesInv
<1>9. ASSUME RInv PROVE RInv'
  <2>1. ASSUME NEW r \in Place, from = {r} PROVE Cardinality(Again(r, k)') <= inserted'
    <3>1. Cardinality(Again(r, k)) <= inserted
      BY <1>2, <1>9, <2>1 DEF RInv, RepeatsInv
    <3>2. Again(r, k) \in SUBSET Item /\ Again(r, k)' \in SUBSET Item
      BY DEF Again
    <3>3. CASE r # p
      <4>1. Again(r, k)' \subseteq Again(r, k) /\ inserted' = inserted
        BY <1>1, <1>2, <1>3, <2>1, <3>3 DEF Again
      <4>2. Cardinality(Again(r, k)') <= Cardinality(Again(r, k))
        BY <3>2, <4>1, CountAtMost
      <4> QED BY <1>5, <3>1, <3>2, <4>1, <4>2, CountAtMost
    <3>4. CASE r = p
      <4> DEFINE new == IF x <= k THEN held[p][k] ELSE e
      <4>1. Again(p, k)' \subseteq Again(p, k) \cup {new}
        <5> SUFFICES ASSUME NEW i \in Again(p, k)', i # new PROVE i \in Again(p, k)
          OBVIOUS
        <5>1. /\ i \in Item
              /\ \/ listed[i] > 1
                 \/ listed[i] = 1 /\ \E j \in DOMAIN held'[p] : j > k /\ held'[p][j] = i
          BY <1>2 DEF Again
        <5>2. ASSUME NEW j \in DOMAIN held'[p], j > k, held'[p][j] = i
              PROVE  \E l \in DOMAIN held[p] : l > k /\ held[p][l] = i
          <6>1. j \in Nat
            BY <1>4
          <6>2. CASE j = x /\ held'[p][j] = e
            BY <1>2, <5>2, <6>1, <6>2
          <6>3. CASE j < x /\ j \in DOMAIN held[p] /\ held'[p][j] = held[p][j]
            BY <5>2, <6>3
          <6>4. CASE j > x /\ j - 1 \in DOMAIN held[p] /\ held'[p][j] = held[p][j - 1]
            <7>1. j - 1 # k
              <8>1. SUFFICES ASSUME j - 1 = k PROVE FALSE
                OBVIOUS
              <8>2. x <= k
                BY <1>4, <6>1, <6>4, <8>1
              <8> QED BY <5>2, <6>4, <8>1, <8>2
            <7>2. j - 1 > k
              BY <1>2, <5>2, <6>1, <7>1
            <7> QED BY <5>2, <6>4, <7>2
          <6> QED BY <1>4, <6>2, <6>3, <6>4
        <5> QED BY <5>1, <5>2 DEF Again
      <4> HIDE DEF new
      <4>2. Cardinality(Again(p, k)') <= Cardinality(Again(p, k)) + 1
        BY <3>2, <3>4, <4>1, CountAtMost
      <4>3. Cardinality(Again(p, k)) \in Nat /\ Cardinality(Again(p, k)') \in Nat
        BY <3>2, <3>4, CountAtMost
      <4>4. inserted' = inserted + 1
        BY <1>1, <2>1, <3>4
      <4> QED BY <1>5, <3>1, <3>4, <4>2, <4>3, <4>4
    <3> QED BY <3>3, <3>4
  <2>2. RepeatsAtMostTheInserted'
    <3>1. inserted <= inserted'
      BY <1>1, <1>5
    <3>2. {i \in Item : listed[i] > 1} \in SUBSET Item
      OBVIOUS
    <3>3. Cardinality({i \in Item : listed[i] > 1}) \in Nat
      BY <3>2, CountAtMost
    <3> QED BY <1>2, <1>5, <1>9, <3>1, <3>3 DEF RInv, RepeatsAtMostTheInserted
  <2>3. RepeatsInv'
    BY <1>2, <2>1 DEF RepeatsInv
  <2> QED BY <2>2, <2>3 DEF RInv
<1> QED BY <1>2, <1>6, <1>8, <1>9 DEF IInv

LEMMA RenameStep ==
  ASSUME IInv, Rename
  PROVE  IInv' /\ (RInv => RInv')
<1>1. /\ TypeOK /\ MissesInv /\ Edit /\ UNCHANGED <<held, reading, stayed, removed, inserted>>
      /\ called' \in Place
  BY DEF IInv, Rename
<1>2. /\ OnPage /\ cursor' = cursor /\ OnPage' /\ from' = from /\ tool' = tool /\ listed' = listed
      /\ Skipped(cursor)' = Skipped(cursor)
      /\ edits \in Nat /\ edits' = edits + 1 /\ edits' \in 0..MaxEdits
      /\ PlacesInv' /\ OneCalendar' /\ MissesAtMostTheRemoved'
  BY <1>1, EditKeeps
<1>3. TypeOK'
  <2>1. (Distinct(held))'
    BY <1>1 DEF Distinct, TypeOK
  <2>2. removed' \in 0..edits' /\ inserted' \in 0..edits'
    BY <1>1, <1>2 DEF TypeOK
  <2> QED BY <1>1, <1>2, <2>1, <2>2 DEF TypeOK
<1>4. MissesInv'
  BY <1>1, <1>2 DEF MissesInv, Missed
<1>5. RInv => RInv'
  BY <1>1, <1>2 DEF RInv, RepeatsInv, Again, RepeatsAtMostTheInserted
<1> QED BY <1>2, <1>3, <1>4, <1>5 DEF IInv

-----------------------------------------------------------------------------
(* The pages.                                                              *)

\* What one call does: the place, the entries shown, and the next cursor.
LEMMA OnePage ==
  ASSUME TypeOK, PlacesInv, NEW count \in 0..(MaxCount + 1), ListPage(count)
  PROVE  \E p \in Place, n \in Nat : LET k == Skipped(cursor) IN
         /\ k \in Nat /\ n >= 1
         /\ OnPage /\ cursor.place \in Place => p = cursor.place
         /\ \A i \in Item :
              LET shown == \E j \in DOMAIN held[p] : j > k /\ j <= k + n /\ held[p][j] = i IN
              listed'[i] = IF shown /\ listed[i] < 2 THEN listed[i] + 1 ELSE listed[i]
         /\ listed' \in [Item -> 0..2]
         /\ from' = from \cup {p}
         /\ \/ cursor' = AtEnd /\ Len(held[p]) <= k + n
            \/ /\ cursor' \in PageCursor /\ cursor'.place = Pinned(p)
               /\ Skipped(cursor)' = IF tool = "search_mail" THEN 0 ELSE k + n
         /\ stayed' = IF cursor = NoCursor THEN ToSet(held[p]) ELSE stayed
         /\ cursor # AtEnd
         /\ UNCHANGED <<held, called, tool, removed, inserted, edits>>
<1> DEFINE p == IF cursor # NoCursor /\ cursor.place # AnyPlace THEN cursor.place ELSE called
           n == Clamped(count)
           k == Skipped(cursor)
           page == PageOf(held[p], k, n)
<1>1. /\ cursor # AtEnd
      /\ cursor' = Wrapped(NextLink(held[p], k, n), p)
      /\ listed' = [i \in Item |-> IF i \in ToSet(page) /\ listed[i] < 2 THEN listed[i] + 1
                                                                       ELSE listed[i]]
      /\ from' = from \cup {p}
      /\ stayed' = IF cursor = NoCursor THEN ToSet(held[p]) ELSE stayed
      /\ UNCHANGED <<held, called, tool, removed, inserted, edits>>
  BY DEF ListPage
<1>2. p \in Place /\ (OnPage /\ cursor.place \in Place => p = cursor.place)
  <2>1. CASE cursor = NoCursor
    BY <2>1 DEF TypeOK, OnPage
  <2>2. CASE cursor # NoCursor
    <3>1. OnPage /\ cursor \in PageCursor
      BY <1>1, <2>2, CursorKinds DEF OnPage
    <3>2. cursor.place \in Place \cup {AnyPlace}
      BY <3>1 DEF PageCursor
    <3> QED BY <2>2, <3>2 DEF TypeOK
  <2> QED BY <2>1, <2>2
<1>3. n \in Nat /\ n >= 1
  BY DEF Clamped
<1>4. k \in Nat
  BY <1>1, CursorKinds DEF OnPage
<1>5. held[p] \in Seq(Item) /\ Len(held[p]) \in Nat
  BY <1>2, LenProperties DEF TypeOK
<1> HIDE DEF p, n
<1>6. \A i : i \in ToSet(page) <=> \E j \in DOMAIN held[p] : j > k /\ j <= k + n /\ held[p][j] = i
  BY <1>3, <1>4, <1>5, PageEntries
<1> HIDE DEF page
<1>7. \A i \in Item :
        LET shown == \E j \in DOMAIN held[p] : j > k /\ j <= k + n /\ held[p][j] = i IN
        listed'[i] = IF shown /\ listed[i] < 2 THEN listed[i] + 1 ELSE listed[i]
  BY <1>1, <1>6
<1>8. listed' \in [Item -> 0..2]
  BY <1>1 DEF TypeOK
<1>9. \/ cursor' = AtEnd /\ Len(held[p]) <= k + n
      \/ /\ cursor' \in PageCursor /\ cursor'.place = Pinned(p)
         /\ Skipped(cursor)' = IF tool = "search_mail" THEN 0 ELSE k + n
  <2>1. CASE k + n >= Len(held[p])
    <3>1. NextLink(held[p], k, n) = AtEnd
      BY <2>1 DEF NextLink
    <3> QED BY <1>1, <1>3, <1>4, <1>5, <2>1, <3>1 DEF Wrapped
  <2>2. CASE ~(k + n >= Len(held[p]))
    <3> DEFINE key == IF tool = "search_mail" THEN "skiptoken" ELSE "skip"
               link == [at |-> "page", skip |-> k + n, key |-> key]
               next == [at |-> "page", key |-> key, skip |-> k + n, place |-> Pinned(p)]
    <3>1. NextLink(held[p], k, n) = link
      BY <2>2 DEF NextLink
    <3>2. link.at = "page" /\ link.key = key /\ link.skip = k + n /\ AtEnd.at = "end"
      BY DEF AtEnd
    <3>3. cursor' = next
      BY <1>1, <3>1, <3>2 DEF Wrapped
    <3>4. next \in PageCursor
      <4>1. Pinned(p) \in Place \cup {AnyPlace} /\ key \in {"skip", "skiptoken"} /\ k + n \in Nat
        BY <1>2, <1>3, <1>4 DEF Pinned
      <4> HIDE DEF key, k
      <4> QED BY <4>1 DEF PageCursor
    <3>5. next # NoCursor
      BY <3>4, CursorKinds
    <3>6. next.place = Pinned(p) /\ next.key = key /\ next.skip = k + n
      OBVIOUS
    <3>7. Skipped(cursor)' = IF tool = "search_mail" THEN 0 ELSE k + n
      <4> HIDE DEF next, k
      <4> QED BY <3>3, <3>5, <3>6 DEF Skipped, Sendable
    <3> HIDE DEF next
    <3> QED BY <3>3, <3>4, <3>6, <3>7
  <2> QED BY <2>1, <2>2
<1> HIDE DEF k
<1> QED BY <1>1, <1>2, <1>3, <1>4, <1>7, <1>8, <1>9 DEF k

LEMMA ReadStep ==
  ASSUME IInv, Read
  PROVE  IInv' /\ (RInv /\ "search_mail" \notin Tool => RInv')
<1> DEFINE k == Skipped(cursor)
<1>1. TypeOK /\ PlacesInv /\ MissesInv
  BY DEF IInv
<1>2. PICK p \in Place, n \in Nat :
        /\ k \in Nat /\ n >= 1
        /\ OnPage /\ cursor.place \in Place => p = cursor.place
        /\ \A i \in Item :
             LET shown == \E j \in DOMAIN held[p] : j > k /\ j <= k + n /\ held[p][j] = i IN
             listed'[i] = IF shown /\ listed[i] < 2 THEN listed[i] + 1 ELSE listed[i]
        /\ listed' \in [Item -> 0..2]
        /\ from' = from \cup {p}
        /\ \/ cursor' = AtEnd /\ Len(held[p]) <= k + n
           \/ /\ cursor' \in PageCursor /\ cursor'.place = Pinned(p)
              /\ Skipped(cursor)' = IF tool = "search_mail" THEN 0 ELSE k + n
        /\ stayed' = IF cursor = NoCursor THEN ToSet(held[p]) ELSE stayed
        /\ cursor # AtEnd
        /\ UNCHANGED <<held, called, tool, removed, inserted, edits>>
  <2>1. PICK count \in 0..(MaxCount + 1) : ListPage(count)
    BY DEF Read
  <2> HIDE DEF k
  <2> QED BY <1>1, <2>1, OnePage DEF k
<1> DEFINE Shown(i) == \E j \in DOMAIN held[p] : j > k /\ j <= k + n /\ held[p][j] = i
<1>3. /\ held[p] \in Seq(Item) /\ Len(held[p]) \in Nat /\ DOMAIN held[p] = 1..Len(held[p])
      /\ ToSet(held[p]) \subseteq Item /\ removed \in Nat /\ inserted \in Nat
      /\ \A i \in Item : listed[i] \in 0..2
      /\ \A j, l \in DOMAIN held[p] : held[p][j] = held[p][l] => j = l
  <2>1. held[p] \in Seq(Item)
    BY <1>1 DEF TypeOK
  <2>2. /\ Len(held[p]) \in Nat /\ DOMAIN held[p] = 1..Len(held[p])
        /\ \A j \in 1..Len(held[p]) : held[p][j] \in Item
    BY <2>1, LenProperties, ElementOfSeq
  <2>3. removed \in Nat /\ inserted \in Nat /\ \A i \in Item : listed[i] \in 0..2
    BY <1>1 DEF TypeOK
  <2>4. \A j, l \in DOMAIN held[p] : held[p][j] = held[p][l] => j = l
    BY <1>1 DEF TypeOK, Distinct
  <2> QED BY <2>1, <2>2, <2>3, <2>4 DEF ToSet
<1>4. cursor' # NoCursor /\ (OnPage' <=> cursor' # AtEnd) /\ (cursor = NoCursor => k = 0)
  BY <1>1, <1>2, CursorKinds DEF OnPage
<1>5. from = {} \/ OnPage
  BY <1>1, <1>2 DEF PlacesInv, OnPage
<1>6. tool = "list_events" => from' = {p}
  <2>1. CASE OnPage
    BY <1>1, <1>2, <2>1 DEF TypeOK, PlacesInv, OnPage
  <2> QED BY <1>2, <1>5, <2>1
<1>7. TypeOK'
  <2>1. (Distinct(held))'
    BY <1>1, <1>2 DEF Distinct, TypeOK
  <2>2. stayed' \subseteq Item /\ from' \subseteq Place
    BY <1>1, <1>2, <1>3 DEF TypeOK
  <2>3. cursor' = AtEnd \/ (cursor' \in PageCursor /\ (cursor'.place \in Place => from' = {cursor'.place}))
    BY <1>2, <1>6 DEF Pinned
  <2> QED BY <1>1, <1>2, <2>1, <2>2, <2>3 DEF TypeOK, PageCursor
<1>8. PlacesInv'
  <2>1. IsFiniteSet(from')
    BY <1>1, <1>2, FS_AddElement DEF PlacesInv
  <2>2. from' # {}
    BY <1>2
  <2>3. tool' = "list_events" /\ OnPage' => cursor'.place \in Place
    BY <1>2, <1>4 DEF Pinned
  <2> QED BY <1>4, <2>1, <2>2, <2>3 DEF PlacesInv
<1>9. OneCalendar'
  <2>1. Cardinality({p}) = 1
    BY FS_Singleton
  <2>2. tool' = tool
    BY <1>2
  <2>3. tool = "list_events" => Cardinality(from') <= 1
    BY <1>6, <2>1
  <2> QED BY <2>2, <2>3 DEF OneCalendar
<1>10. ASSUME NEW r, from' = {r} PROVE r = p /\ (cursor = NoCursor \/ from = {p})
  BY <1>1, <1>2, <1>10 DEF PlacesInv
<1>11. \A i \in Item : listed'[i] = 0 => listed[i] = 0 /\ ~Shown(i)
  <2> TAKE i \in Item
  <2> HIDE DEF Shown, k
  <2>1. listed'[i] = IF Shown(i) /\ listed[i] < 2 THEN listed[i] + 1 ELSE listed[i]
    BY <1>2 DEF Shown
  <2> QED BY <1>3, <2>1
<1>12. ASSUME from' = {p} PROVE stayed' \subseteq ToSet(held'[p])
  BY <1>1, <1>2, <1>10, <1>12 DEF MissesInv
<1>13. ASSUME from' = {p}, NEW S, S \subseteq stayed',
              \A i \in S : listed'[i] = 0 /\ \E j \in DOMAIN held[p] : j <= k + n /\ held[p][j] = i
       PROVE  Cardinality(S) <= removed
  <2>1. \A i \in S : i \in Item /\ listed[i] = 0 /\ \E j \in DOMAIN held[p] : j <= k /\ held[p][j] = i
    <3> TAKE i \in S
    <3>1. i \in Item
      BY <1>7, <1>13 DEF TypeOK
    <3>2. listed[i] = 0 /\ ~Shown(i)
      BY <1>11, <1>13, <3>1
    <3>3. PICK j \in DOMAIN held[p] : j <= k + n /\ held[p][j] = i
      BY <1>13
    <3>4. j <= k
      BY <1>2, <1>3, <3>2, <3>3
    <3> QED BY <3>1, <3>2, <3>3, <3>4
  <2>2. CASE cursor = NoCursor
    <3>1. S = {}
      BY <1>3, <1>4, <2>1, <2>2
    <3> QED BY <1>3, <3>1, FS_EmptySet
  <2>3. CASE cursor # NoCursor
    <3>1. S \subseteq Missed(p, k)
      BY <1>2, <1>13, <2>1, <2>3 DEF Missed
    <3>2. Missed(p, k) \in SUBSET Item /\ S \in SUBSET Item
      BY <1>1, <2>1 DEF TypeOK, Missed
    <3>3. OnPage /\ from = {p}
      BY <1>5, <1>10, <1>13, <2>3
    <3>4. Cardinality(Missed(p, k)) <= removed
      BY <1>1, <3>3 DEF MissesInv
    <3>5. /\ Cardinality(S) <= Cardinality(Missed(p, k)) /\ Cardinality(S) \in Nat
          /\ Cardinality(Missed(p, k)) \in Nat
      BY <3>1, <3>2, CountAtMost
    <3> QED BY <1>3, <3>4, <3>5
  <2> QED BY <2>2, <2>3
<1>14. MissesInv'
  <2> SUFFICES ASSUME NEW r \in Place, from' = {r}
               PROVE  /\ stayed' \subseteq ToSet(held'[r])
                      /\ OnPage' => Cardinality(Missed(r, Skipped(cursor))') <= removed'
    BY DEF MissesInv
  <2>1. r = p
    BY <1>10
  <2>2. ASSUME OnPage' PROVE Cardinality(Missed(p, Skipped(cursor))') <= removed
    <3> DEFINE S == Missed(p, Skipped(cursor))'
    <3>1. Skipped(cursor)' <= k + n
      BY <1>2, <1>4, <2>2
    <3>2. \A i \in S : /\ i \in stayed' /\ listed'[i] = 0
                       /\ \E j \in DOMAIN held[p] : j <= Skipped(cursor)' /\ held[p][j] = i
      BY <1>2 DEF Missed
    <3>3. Skipped(cursor)' \in Nat
      BY <1>2, <1>4, <2>2
    <3>4. \A i \in S : \E j \in DOMAIN held[p] : j <= k + n /\ held[p][j] = i
      BY <1>2, <1>3, <3>1, <3>2, <3>3
    <3> HIDE DEF S, k
    <3>5. Cardinality(S) <= removed
      BY <1>13, <2>1, <3>2, <3>4
    <3> QED BY <3>5 DEF S
  <2> QED BY <1>2, <1>12, <2>1, <2>2
<1>15. MissesAtMostTheRemoved'
  <2> SUFFICES ASSUME cursor' = AtEnd, Cardinality(from') = 1
               PROVE  Cardinality({i \in stayed' : listed'[i] = 0}) <= removed
    BY <1>2 DEF MissesAtMostTheRemoved
  <2> DEFINE S == {i \in stayed' : listed'[i] = 0}
  <2>1. from' = {p}
    <3>1. \E x : from' = {x}
      BY <1>8, FS_Singleton DEF PlacesInv
    <3> QED BY <1>2, <3>1
  <2>2. Len(held[p]) <= k + n
    BY <1>1, <1>2, CursorKinds
  <2>3. \A i \in S : \E j \in DOMAIN held[p] : j <= k + n /\ held[p][j] = i
    <3> TAKE i \in S
    <3>1. PICK j \in DOMAIN held[p] : held[p][j] = i
      BY <1>2, <1>12, <2>1 DEF ToSet
    <3> QED BY <1>2, <1>3, <2>2, <3>1
  <2>4. S \subseteq stayed' /\ \A i \in S : listed'[i] = 0
    OBVIOUS
  <2> HIDE DEF S, k
  <2>5. Cardinality(S) <= removed
    BY <1>13, <2>1, <2>3, <2>4
  <2> QED BY <2>5 DEF S
<1>16. ASSUME RInv, "search_mail" \notin Tool PROVE RInv'
  <2> DEFINE Later(i) == \E j \in DOMAIN held[p] : j > k + n /\ held[p][j] = i
             Twice == {i \in Item : listed'[i] > 1 \/ (listed'[i] = 1 /\ Later(i))}
  <2>1. Twice \subseteq Again(p, k)
    <3> SUFFICES ASSUME NEW i \in Twice PROVE i \in Again(p, k)
      OBVIOUS
    <3>1. i \in Item /\ listed[i] \in 0..2
      BY <1>3
    <3>2. listed'[i] = IF Shown(i) /\ listed[i] < 2 THEN listed[i] + 1 ELSE listed[i]
      BY <1>2, <3>1
    <3>3. CASE Shown(i)
      <4>1. \E j \in DOMAIN held[p] : j > k /\ held[p][j] = i
        BY <3>3
      <4>2. ~\E j \in DOMAIN held[p] : j > k + n /\ held[p][j] = i
        BY <1>2, <1>3, <3>3
      <4>3. listed'[i] > 1
        BY <4>2
      <4>4. listed[i] >= 1
        BY <3>1, <3>2, <4>3
      <4> QED BY <3>1, <4>1, <4>4 DEF Again
    <3>4. CASE ~Shown(i)
      <4>1. listed'[i] = listed[i]
        BY <3>2, <3>4
      <4>2. ASSUME NEW j \in DOMAIN held[p], j > k + n PROVE j > k
        BY <1>2, <1>3, <4>2
      <4> QED BY <3>1, <4>1, <4>2 DEF Again
    <3> QED BY <3>3, <3>4
  <2>2. Twice \in SUBSET Item /\ Again(p, k) \in SUBSET Item
    BY DEF Again
  <2>3. ASSUME from' = {p} PROVE Cardinality(Twice) <= inserted /\ Cardinality(Twice) \in Nat
    <3>1. CASE cursor = NoCursor
      <4>1. Again(p, k) = {}
        BY <1>1, <3>1 DEF PlacesInv, Again
      <4> HIDE DEF Twice
      <4>2. Twice = {}
        BY <2>1, <4>1
      <4> QED BY <1>3, <4>2, FS_EmptySet
    <3>2. CASE cursor # NoCursor
      <4>1. from = {p} /\ OnPage
        BY <1>5, <1>10, <2>3, <3>2
      <4>2. Cardinality(Again(p, k)) <= inserted
        BY <1>16, <4>1 DEF RInv, RepeatsInv
      <4> HIDE DEF Twice
      <4>3. /\ Cardinality(Twice) <= Cardinality(Again(p, k)) /\ Cardinality(Twice) \in Nat
            /\ Cardinality(Again(p, k)) \in Nat
        BY <2>1, <2>2, CountAtMost
      <4> QED BY <1>3, <4>2, <4>3
    <3> QED BY <3>1, <3>2
  <2>4. RepeatsInv'
    <3> SUFFICES ASSUME NEW r \in Place, from' = {r}, OnPage'
                 PROVE  Cardinality(Again(r, Skipped(cursor))') <= inserted'
      BY DEF RepeatsInv
    <3>1. r = p
      BY <1>10
    <3>2. Skipped(cursor)' = k + n
      BY <1>1, <1>2, <1>4, <1>16 DEF TypeOK
    <3> DEFINE S == Again(p, Skipped(cursor))'
    <3>3. ASSUME NEW i \in S PROVE i \in Twice
      <4>1. held' = held
        BY <1>2
      <4>2. i \in Item /\ (listed'[i] > 1 \/ (listed'[i] = 1
              /\ \E j \in DOMAIN held'[p] : j > Skipped(cursor)' /\ held'[p][j] = i))
        BY DEF Again
      <4> HIDE DEF k, S
      <4>3. listed'[i] > 1 \/ (listed'[i] = 1 /\ Later(i))
        BY <3>2, <4>1, <4>2
      <4> HIDE DEF Later
      <4> QED BY <4>2, <4>3
    <3> HIDE DEF Twice, S
    <3>4. S \subseteq Twice
      BY <3>3
    <3>5. Cardinality(S) <= Cardinality(Twice) /\ Cardinality(S) \in Nat
      BY <2>2, <3>4, CountAtMost
    <3>6. Cardinality(S) <= inserted'
      BY <1>2, <1>3, <2>3, <3>1, <3>5
    <3> QED BY <3>1, <3>6 DEF S
  <2>5. RepeatsAtMostTheInserted'
    <3> SUFFICES ASSUME Cardinality(from') = 1
                 PROVE  Cardinality({i \in Item : listed'[i] > 1}) <= inserted
      BY <1>2 DEF RepeatsAtMostTheInserted
    <3>1. from' = {p}
      <4>1. \E x : from' = {x}
        BY <1>8, FS_Singleton DEF PlacesInv
      <4> QED BY <1>2, <4>1
    <3> DEFINE S == {i \in Item : listed'[i] > 1}
    <3> HIDE DEF Later
    <3>2. \A i \in S : i \in Item /\ i \in Twice
      OBVIOUS
    <3> HIDE DEF S, Twice
    <3>3. S \in SUBSET Item /\ S \subseteq Twice
      BY <3>2
    <3>4. Cardinality(S) \in Nat /\ Cardinality(S) <= Cardinality(Twice)
      BY <2>2, <3>3, CountAtMost
    <3>5. Cardinality(S) <= inserted
      BY <1>3, <2>3, <3>1, <3>4
    <3> QED BY <3>5 DEF S
  <2> QED BY <2>4, <2>5 DEF RInv
<1> QED BY <1>7, <1>8, <1>9, <1>14, <1>15, <1>16 DEF IInv

-----------------------------------------------------------------------------
(* The theorems.                                                           *)

LEMMA PagingStep ==
  ASSUME IInv, [Next]_vars
  PROVE  IInv' /\ (RInv /\ "search_mail" \notin Tool => RInv')
<1>1. CASE \E p \in Place : Leave(p)
  BY <1>1, LeaveStep
<1>2. CASE \E p \in Place : Arrive(p)
  BY <1>2, ArriveStep
<1>3. CASE Rename
  BY <1>3, RenameStep
<1>4. CASE Read
  BY <1>4, ReadStep
<1>5. CASE UNCHANGED vars
  <2>1. /\ held' = held /\ called' = called /\ tool' = tool /\ cursor' = cursor /\ listed' = listed
        /\ from' = from /\ stayed' = stayed /\ removed' = removed /\ inserted' = inserted
        /\ edits' = edits
    BY <1>5 DEF vars, reading
  <2>2. TypeOK' <=> TypeOK
    BY <2>1 DEF TypeOK, Distinct
  <2>3. (OnPage' <=> OnPage) /\ Skipped(cursor)' = Skipped(cursor)
    BY <2>1 DEF OnPage, Skipped
  <2>4. (PlacesInv' <=> PlacesInv) /\ (OneCalendar' <=> OneCalendar)
    BY <2>1, <2>3 DEF PlacesInv, OneCalendar
  <2>5. MissesAtMostTheRemoved' <=> MissesAtMostTheRemoved
    BY <2>1 DEF MissesAtMostTheRemoved
  <2>6. MissesInv' <=> MissesInv
    BY <2>1, <2>3 DEF MissesInv, Missed
  <2>7. RInv' <=> RInv
    BY <2>1, <2>3 DEF RInv, RepeatsInv, Again, RepeatsAtMostTheInserted
  <2> QED BY <2>2, <2>4, <2>5, <2>6, <2>7 DEF IInv
<1> QED BY <1>1, <1>2, <1>3, <1>4, <1>5 DEF Next

LEMMA RepeatsInit == Init => RInv
<1> SUFFICES ASSUME Init PROVE RInv
  OBVIOUS
<1>1. from = {} /\ Cardinality(from) = 0
  BY FS_EmptySet DEF Init
<1> QED BY <1>1 DEF RInv, RepeatsInv, RepeatsAtMostTheInserted

\* IInv holds in every state of the reading.
THEOREM PagingInvariant == Spec => []IInv
<1>1. IInv /\ [Next]_vars => IInv'
  BY PagingStep
<1> QED BY InitInv, <1>1, PTL DEF Spec

\* Types; the cursor of list_events names the one calendar that was read.
THEOREM PagingTypeCorrect == Spec => []TypeOK
<1>1. IInv => TypeOK
  BY DEF IInv
<1> QED BY <1>1, PagingInvariant, PTL

\* list_events pins the calendar of its first page into its cursors: whatever
\* the names are given to, the pages are of one calendar.
THEOREM PagesAreOfOneCalendar == Spec => []OneCalendar
<1>1. IInv => OneCalendar
  BY DEF IInv
<1> QED BY <1>1, PagingInvariant, PTL

\* The cursors of wrap_nextlink skip nothing: a listing read to the end misses
\* an entry for each that was removed, at most.
THEOREM MissedForRemoved == Spec => []MissesAtMostTheRemoved
<1>1. IInv => MissesAtMostTheRemoved
  BY DEF IInv
<1> QED BY <1>1, PagingInvariant, PTL

\* Where $skip is followed, a listing repeats an entry for each that came, at
\* most.  The cursors of search_mail start over: of them it is not true.
THEOREM RepeatedForInserted ==
  ASSUME "search_mail" \notin Tool
  PROVE  Spec => []RepeatsAtMostTheInserted
<1>1. Init => IInv /\ RInv
  BY InitInv, RepeatsInit
<1>2. IInv /\ RInv /\ [Next]_vars => (IInv /\ RInv)'
  BY PagingStep
<1>3. RInv => RepeatsAtMostTheInserted
  BY DEF RInv
<1> QED BY <1>1, <1>2, <1>3, PTL DEF Spec

-----------------------------------------------------------------------------
(* BatchRead: the invariant.                                               *)

HIDE PagingAssumption DEF PagingAssumption
USE BatchAssumption DEF BatchAssumption

PendingInv == pc = "post" => \A i \in pending : sent[i] = attempt

KeptInv ==
  /\ pc = "post" => \A i \in asked \ pending : merged[i] = answered[i].status
  /\ \A i \in Request : merged[i] = "throttled" => sent[i] = MaxRetries + 1

BatchInv == BatchTypeOK /\ ReportsLastAnswer /\ RetryAfterHonoured /\ PendingInv /\ KeptInv

-----------------------------------------------------------------------------
(* The largest of finitely many numbers.                                   *)

\* A finite set of numbers with 0 in it has a largest one: of the sets without,
\* a smallest one would have a smaller one.
LEMMA MaxExists ==
  ASSUME NEW S \in SUBSET Nat, IsFiniteSet(S), 0 \in S
  PROVE  \E m \in S : \A x \in S : m >= x
<1> DEFINE Largest(T) == \E m \in T : \A x \in T : m >= x
           Bad == {n \in Nat : \E T \in SUBSET Nat :
                     IsFiniteSet(T) /\ Cardinality(T) = n /\ 0 \in T /\ ~Largest(T)}
<1>1. SUFFICES ASSUME ~Largest(S) PROVE FALSE
  OBVIOUS
<1>2. Cardinality(S) \in Bad
  BY <1>1, FS_CardinalityType
<1>3. PICK n \in Bad : \A k \in Bad : ~(<<k, n>> \in OpToRel(<, Nat))
  BY <1>2, NatLessThanWellFounded, WFMin, Bad \subseteq Nat
<1>4. PICK T \in SUBSET Nat : IsFiniteSet(T) /\ Cardinality(T) = n /\ 0 \in T /\ ~Largest(T)
  BY <1>3
<1>5. PICK y \in T : y # 0
  BY <1>4
<1>6. IsFiniteSet(T \ {y}) /\ Cardinality(T \ {y}) = n - 1
  BY <1>4, <1>5, FS_RemoveElement
<1>7. n - 1 \in Nat
  BY <1>6, FS_CardinalityType
<1>8. n - 1 \notin Bad
  <2>1. <<n - 1, n>> \in OpToRel(<, Nat)
    BY <1>7, n - 1 < n, n \in Nat DEF OpToRel
  <2> QED BY <1>3, <2>1
<1>9. Largest(T \ {y})
  BY <1>4, <1>5, <1>6, <1>7, <1>8
<1>10. PICK m \in T \ {y} : \A x \in T \ {y} : m >= x
  BY <1>9
<1>11. Largest(T)
  <2>1. CASE m >= y
    BY <1>10, <2>1
  <2>2. CASE y >= m
    <3>1. \A x \in T : y >= x
      BY <1>10, <2>2
    <3> QED BY <3>1, <1>5
  <2> QED BY <1>5, <1>10, <2>1, <2>2
<1> QED BY <1>4, <1>11

\* No sub-request waits longer than max_wait.
LEMMA MaxWaitBounds ==
  ASSUME BatchTypeOK, NEW ids \in SUBSET pending, NEW ans \in [pending -> Answer]
  PROVE  /\ MaxWait(ans, ids) \in Nat
         /\ \A i \in ids : Wait(ans[i].after, attempt) <= MaxWait(ans, ids)
<1> DEFINE f == [i \in ids |-> Wait(ans[i].after, attempt)]
           W == {f[i] : i \in ids}
<1>1. \A i \in ids : f[i] = Wait(ans[i].after, attempt) /\ f[i] \in Nat
  <2> TAKE i \in ids
  <2>1. ans[i].after \in Nat \cup {NoHeader} /\ attempt \in 0..MaxRetries
    BY DEF BatchTypeOK, Answer
  <2> QED BY <2>1 DEF Wait, NoHeader
<1>2. IsFiniteSet(ids)
  <2>1. ids \in SUBSET Request
    BY DEF BatchTypeOK
  <2> QED BY <2>1, FS_Subset
<1>3. IsFiniteSet(W)
  <2>1. f \in Surjection(ids, W)
    BY DEF Surjection
  <2> HIDE DEF f, W
  <2> QED BY <1>2, <2>1, FS_Surjection
<1>4. IsFiniteSet({0} \cup W)
  <2> HIDE DEF W
  <2>1. W \cup {0} = {0} \cup W
    OBVIOUS
  <2> QED BY <1>3, <2>1, FS_AddElement
<1>5. {0} \cup W \in SUBSET Nat
  BY <1>1
<1>6. \E m \in {0} \cup W : \A x \in {0} \cup W : m >= x
  <2> HIDE DEF W
  <2> QED BY <1>4, <1>5, MaxExists
<1>7. MaxWait(ans, ids) = Max({0} \cup W)
  <2>1. W = {Wait(ans[i].after, attempt) : i \in ids}
    BY <1>1
  <2> QED BY <2>1 DEF MaxWait
<1>8. MaxWait(ans, ids) \in {0} \cup W /\ \A x \in {0} \cup W : MaxWait(ans, ids) >= x
  <2> HIDE DEF W
  <2> QED BY <1>6, <1>7 DEF Max
<1>9. \A i \in ids : f[i] \in W
  OBVIOUS
<1> QED
  <2> HIDE DEF f
  <2> QED BY <1>1, <1>5, <1>8, <1>9

-----------------------------------------------------------------------------
LEMMA BatchInitInv == BatchInit => BatchInv
<1> SUFFICES ASSUME BatchInit PROVE BatchInv
  OBVIOUS
<1>1. BatchTypeOK
  BY DEF BatchInit, BatchTypeOK, Answer, Absent, NoHeader, Status
<1> QED BY <1>1 DEF BatchInit, BatchInv, ReportsLastAnswer, RetryAfterHonoured, PendingInv, KeptInv

\* The answer to a $batch: what is not sent again is kept, the rest waits.
LEMMA AnsweredStep ==
  ASSUME BatchInv, EnvelopeAnswered
  PROVE  BatchInv'
<1> USE DEF BatchInv
<1>1. PICK ans \in [pending -> Answer] :
       /\ merged' = Keep(ans)
       /\ IF RetryNext(ans) = {}
          THEN pc' = "returned" /\ UNCHANGED <<pending, attempt, tries, now>>
          ELSE /\ pending' = RetryNext(ans)
               /\ attempt' = attempt + 1
               /\ tries' = 0
               /\ now' = now + MaxWait(ans, RetryNext(ans))
               /\ UNCHANGED pc
       /\ answered' = [i \in Request |-> IF i \in pending THEN ans[i] ELSE answered[i]]
       /\ sent' = [i \in Request |-> IF i \in pending THEN sent[i] + 1 ELSE sent[i]]
       /\ notBefore' = [i \in Request |->
            IF i \in pending /\ ans[i].after # NoHeader THEN now + ans[i].after
                                                        ELSE notBefore[i]]
  BY DEF EnvelopeAnswered
<1>2. pc = "post" /\ asked' = asked /\ refusals' = refusals
  BY DEF EnvelopeAnswered
<1> DEFINE R == RetryNext(ans)
<1>3. R \in SUBSET pending /\ (R # {} => attempt < MaxRetries)
  BY DEF RetryNext
<1>4. /\ MaxWait(ans, R) \in Nat
      /\ \A i \in R : Wait(ans[i].after, attempt) <= MaxWait(ans, R)
  BY <1>3, MaxWaitBounds
<1>5. \A i \in pending : ans[i] \in Answer /\ ans[i].status \in Status
                         /\ ans[i].after \in Nat \cup {NoHeader}
  BY DEF Answer, Status
<1>6. /\ pending \subseteq asked /\ asked \subseteq Request /\ attempt \in 0..MaxRetries
      /\ now \in Nat /\ sent \in [Request -> 0..(MaxRetries + 1)]
      /\ merged \in [Request -> Status] /\ answered \in [Request -> Answer]
      /\ notBefore \in [Request -> Nat] /\ tries \in 0..MaxRetries
  BY DEF BatchTypeOK
<1>7. \A i \in Request : merged'[i] = IF i \in pending \ R THEN ans[i].status ELSE merged[i]
  BY <1>1 DEF Keep
<1>8. \A i \in pending : sent[i] = attempt /\ sent'[i] = attempt + 1
  BY <1>1, <1>2, <1>6 DEF PendingInv
<1>9. \A i \in pending \ R : ans[i].status = "throttled" => attempt = MaxRetries
  <2>1. \A i \in pending \ R : ans[i].status = "throttled" => ~(attempt < MaxRetries)
    BY DEF RetryNext
  <2>2. attempt \in Nat /\ attempt <= MaxRetries /\ MaxRetries \in Nat
    BY <1>6
  <2> QED BY <2>1, <2>2
<1>10. pc' = "post" => pending' = R /\ attempt' = attempt + 1 /\ R # {}
                       /\ now' = now + MaxWait(ans, R)
  BY <1>1
<1> HIDE DEF R
<1>11. BatchTypeOK'
  <2>1. merged' \in [Request -> Status]
    BY <1>1, <1>5, <1>6 DEF Keep
  <2>2. answered' \in [Request -> Answer]
    BY <1>1, <1>5, <1>6
  <2>3. sent' \in [Request -> 0..(MaxRetries + 1)]
    <3>1. ASSUME NEW i \in Request PROVE sent'[i] \in 0..(MaxRetries + 1)
      <4>1. CASE i \in pending
        BY <1>6, <1>8, <4>1
      <4>2. CASE i \notin pending
        <5>1. sent'[i] = sent[i]
          BY <1>1, <4>2
        <5> QED BY <1>6, <5>1
      <4> QED BY <4>1, <4>2
    <3> QED BY <1>1, <3>1
  <2>4. notBefore' \in [Request -> Nat]
    <3>1. \A i \in Request : notBefore'[i] \in Nat
      BY <1>1, <1>5, <1>6
    <3> QED BY <1>1, <3>1
  <2>5. /\ pending' \subseteq asked' /\ attempt' \in 0..MaxRetries /\ tries' \in 0..MaxRetries
        /\ now' \in Nat
    BY <1>1, <1>2, <1>3, <1>4, <1>6 DEF R
  <2>6. pc' \in {"post", "returned", "raised"} /\ asked' \subseteq Request
        /\ refusals' \in 0..MaxRefusals
    BY <1>1, <1>2 DEF BatchTypeOK
  <2> QED BY <2>1, <2>2, <2>3, <2>4, <2>5, <2>6 DEF BatchTypeOK
<1>12. ReportsLastAnswer'
  <2>1. ASSUME pc' = "returned", NEW i \in asked PROVE merged'[i] = answered'[i].status
    <3>1. R = {}
      BY <1>1, <1>2, <2>1 DEF R
    <3>2. CASE i \in pending
      BY <1>1, <1>6, <1>7, <3>1, <3>2
    <3>3. CASE i \notin pending
      BY <1>1, <1>2, <1>6, <1>7, <3>3 DEF KeptInv
    <3> QED BY <3>2, <3>3
  <2>2. ASSUME pc' = "post", NEW i \in R PROVE merged'[i] = "absent"
    BY <1>2, <1>3, <1>6, <1>7 DEF ReportsLastAnswer
  <2> QED BY <1>2, <1>10, <2>1, <2>2 DEF ReportsLastAnswer
<1>13. RetryAfterHonoured'
  <2>1. ASSUME NEW i \in R, pc' = "post" PROVE notBefore'[i] <= now'
    <3>1. CASE ans[i].after = NoHeader
      BY <1>1, <1>2, <1>3, <1>4, <1>6, <1>10, <2>1, <3>1 DEF RetryAfterHonoured
    <3>2. CASE ans[i].after # NoHeader
      <4>1. ans[i].after <= MaxWait(ans, R)
        BY <1>4, <3>2 DEF Wait
      <4>2. notBefore'[i] = now + ans[i].after
        BY <1>1, <1>3, <1>6, <3>2
      <4> QED BY <1>3, <1>4, <1>5, <1>6, <1>10, <2>1, <3>2, <4>1, <4>2
    <3> QED BY <3>1, <3>2
  <2> QED BY <1>10, <2>1 DEF RetryAfterHonoured
<1>14. PendingInv'
  BY <1>3, <1>8, <1>10 DEF PendingInv
<1>15. KeptInv'
  <2>1. ASSUME pc' = "post", NEW i \in asked \ R PROVE merged'[i] = answered'[i].status
    <3>1. CASE i \in pending
      BY <1>1, <1>6, <1>7, <2>1, <3>1
    <3>2. CASE i \notin pending
      BY <1>1, <1>2, <1>6, <1>7, <3>2 DEF KeptInv
    <3> QED BY <3>1, <3>2
  <2>2. ASSUME NEW i \in Request, merged'[i] = "throttled" PROVE sent'[i] = MaxRetries + 1
    <3>1. CASE i \in pending \ R
      BY <1>7, <1>8, <1>9, <2>2, <3>1
    <3>2. CASE i \in R
      BY <1>2, <1>3, <1>7, <2>2, <3>2 DEF ReportsLastAnswer
    <3>3. CASE i \notin pending
      BY <1>1, <1>3, <1>7, <2>2, <3>3 DEF KeptInv
    <3> QED BY <1>3, <3>1, <3>2, <3>3
  <2> QED BY <1>2, <1>10, <2>1, <2>2 DEF KeptInv
<1> QED BY <1>11, <1>12, <1>13, <1>14, <1>15

LEMMA BatchStepInv == BatchInv /\ [BatchNext]_batchVars => BatchInv'
<1> SUFFICES ASSUME BatchInv, [BatchNext]_batchVars PROVE BatchInv'
  OBVIOUS
<1> USE DEF BatchInv
<1>1. CASE EnvelopeThrottled
  <2>1. PICK after \in RetryAfter \cup {NoHeader} : SendAgain(after)
    BY <1>1 DEF EnvelopeThrottled
  <2>2. /\ UNCHANGED <<asked, pending, merged, attempt, answered, sent, notBefore>>
        /\ refusals < MaxRefusals /\ refusals' = refusals + 1 /\ pc = "post"
    BY <1>1 DEF EnvelopeThrottled
  <2>3. now \in Nat /\ tries \in 0..MaxRetries /\ refusals \in 0..MaxRefusals
    BY DEF BatchTypeOK
  <2>4. Wait(after, tries) \in Nat
    BY <2>3 DEF Wait, NoHeader
  <2>5. /\ now' \in Nat /\ now <= now' /\ tries' \in 0..MaxRetries /\ pc' \in {"post", "raised"}
    BY <2>1, <2>2, <2>3, <2>4 DEF SendAgain
  <2>6. BatchTypeOK'
    BY <2>2, <2>3, <2>5 DEF BatchTypeOK
  <2>7. RetryAfterHonoured'
    BY <2>2, <2>3, <2>5 DEF RetryAfterHonoured, BatchTypeOK
  <2> QED BY <2>2, <2>5, <2>6, <2>7 DEF ReportsLastAnswer, PendingInv, KeptInv
<1>2. CASE EnvelopeFails
  BY <1>2 DEF EnvelopeFails, BatchTypeOK, ReportsLastAnswer, RetryAfterHonoured, PendingInv, KeptInv
<1>3. CASE EnvelopeAnswered
  BY <1>3, AnsweredStep
<1>4. CASE UNCHANGED batchVars
  BY <1>4 DEF batchVars, BatchTypeOK, ReportsLastAnswer, RetryAfterHonoured, PendingInv, KeptInv
<1> QED BY <1>1, <1>2, <1>3, <1>4 DEF BatchNext

\* IInv holds in every state of the call.
THEOREM BatchInvariant == BatchSpec => []BatchInv
  BY BatchInitInv, BatchStepInv, PTL DEF BatchSpec

\* Types, and neither loop of throttle.py exceeds max_retries.
THEOREM BatchTypeCorrect == BatchSpec => []BatchTypeOK
<1>1. BatchInv => BatchTypeOK
  BY DEF BatchInv
<1> QED BY <1>1, BatchInvariant, PTL

\* read_messages reports each message as Graph answered it last.
THEOREM LastAnswersAreReported == BatchSpec => []ReportsLastAnswer
<1>1. BatchInv => ReportsLastAnswer
  BY DEF BatchInv
<1> QED BY <1>1, BatchInvariant, PTL

\* No sub-request is sent again before its Retry-After has passed.
THEOREM WaitsAreLongEnough == BatchSpec => []RetryAfterHonoured
<1>1. BatchInv => RetryAfterHonoured
  BY DEF BatchInv
<1> QED BY <1>1, BatchInvariant, PTL

\* Only what was throttled max_retries + 1 times is given up.
THEOREM GivenUpLast == BatchSpec => []GivesUpLast
<1>1. BatchInv => GivesUpLast
  BY DEF BatchInv, GivesUpLast, KeptInv, BatchTypeOK, Failures
<1> QED BY <1>1, BatchInvariant, PTL
=============================================================================
