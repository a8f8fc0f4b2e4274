----------------------------- MODULE WritesProofs -----------------------------
(***************************************************************************)
(* Proofs about Writes, for any policies, retries, calls and changes by    *)
(* others.                                                                 *)
(*                                                                         *)
(* The argument: no tool writes to others unless its category or its       *)
(* arguments say so (Sound, from the table of tools); an object never      *)
(* becomes a draft or an override it was not (Grows), so what a lookup     *)
(* found is still so, or the object is gone (LookInv); the list that is    *)
(* the default all along is ahead of the walk, and the only one (ListInv); *)
(* and what took effect once leaves the requests after it nothing to do    *)
(* (SettledInv).                                                           *)
(***************************************************************************)
EXTENDS Writes, SequenceTheorems, TLAPS

USE WritesAssumption DEF WritesAssumption

Kinds == {"draft", "message", "event", "override", "item", "task", "part", "gone"}
Obj == [kind : Kinds, list : Nat, people : BOOLEAN, value : Nat]
ListObj == [default : BOOLEAN, gone : BOOLEAN]
Deeds == {"patch", "reword", "stamp", "invite", "delete", "move", "copy", "send", "post",
          "mail", "respond"}
Looks == {"draft", "override", "guests", "list"}
Answers == {"none", "error", "success", "unknown"}

\* What the argument uses of the tables of tools.
SoundRow(name, category, do, on, makes, look, writesTo) ==
  /\ do \in Deeds /\ makes \in Kinds \cup {"none"} /\ look \in Looks \cup {"none"}
  /\ writesTo \in BOOLEAN
  /\ do = "post" => makes \in Kinds /\ on # "batch"
  /\ on = "none" => do \in {"post", "mail"} \/ look = "override"
  /\ do = "copy" => on = "mail"
  /\ makes = "override" <=> look = "override"
  /\ look = "override" => on = "none" /\ do = "patch" /\ ~writesTo
  /\ look # "none" => on # "batch"
  /\ look = "draft" => on = "mail" /\ do \in {"patch", "delete"}
  /\ look = "guests" <=> do = "reword"
  /\ look = "guests" => on = "event" /\ ~writesTo
  /\ look = "list" => do \in {"post", "patch", "stamp", "delete"}
  /\ category = "mail_drafts" => look = "draft" \/ (do = "post" /\ look = "none" /\ on = "none")
  /\ do \in {"mail", "send"} => category = "mail_send" \/ writesTo
  /\ name \in Idempotent =>
       /\ do = "patch" /\ on # "batch" /\ name \notin SentOnce
       /\ look = "override" \/ (on # "none" /\ look \in {"none", "list"})

Sound(t) == SoundRow(t.name, t.category, t.do, t.on, t.makes, t.look, t.writesTo)

-----------------------------------------------------------------------------
(***************************************************************************)
(* The table of tools.                                                     *)
(***************************************************************************)
LEMMA SoundTool ==
  \A name, category, do, on, makes, look, writesTo :
    SoundRow(name, category, do, on, makes, look, writesTo)
      => Sound(Tool(name, category, do, on, makes, look, writesTo))
  BY DEF Tool, Sound, SoundRow

LEMMA SoundPlain ==
  \A name, category, do, on, makes :
    SoundRow(name, category, do, on, makes, "none", FALSE)
      => Sound(Plain(name, category, do, on, makes))
  BY DEF Plain, Tool, Sound, SoundRow

LEMMA MailWritesAreSound == \A t \in MailWrites : Sound(t)
  <1>1. /\ SoundRow("send_message", "mail_send", "mail", "none", "none", "none", FALSE)
        /\ SoundRow("reply", "mail_send", "mail", "mail", "none", "none", FALSE)
        /\ SoundRow("forward", "mail_send", "mail", "mail", "none", "none", FALSE)
    BY DEF SoundRow, Deeds, Kinds, Looks, Idempotent, SentOnce
  <1> QED
    BY <1>1, SoundPlain, SoundTool DEF MailWrites

LEMMA DraftsAreSound == \A t \in Drafts : Sound(t)
  <1>1. /\ SoundRow("create_draft", "mail_drafts", "post", "none", "draft", "none", FALSE)
        /\ SoundRow("update_draft", "mail_drafts", "patch", "mail", "none", "draft", FALSE)
        /\ SoundRow("delete_draft", "mail_drafts", "delete", "mail", "none", "draft", FALSE)
        /\ SoundRow("send_draft", "mail_send", "send", "mail", "none", "none", FALSE)
    BY DEF SoundRow, Deeds, Kinds, Looks, Idempotent, SentOnce
  <1> QED
    BY <1>1, SoundPlain, SoundTool DEF Drafts

LEMMA DraftAttachmentsAreSound == \A t \in DraftAttachments : Sound(t)
  <1>1. SoundRow("remove_draft_attachment", "mail_drafts", "patch", "mail", "none",
                 "draft", FALSE)
    BY DEF SoundRow, Deeds, Kinds, Looks, Idempotent, SentOnce
  <1> QED
    BY <1>1, SoundPlain, SoundTool DEF DraftAttachments

LEMMA TriageAreSound == \A t \in Triage : Sound(t)
  <1>1. /\ SoundRow("move_message", "mail_triage", "move", "mail", "none", "none", FALSE)
        /\ SoundRow("delete_message", "mail_triage", "move", "mail", "none", "none", FALSE)
        /\ SoundRow("delete_message_permanent", "mail_triage", "delete", "mail", "none",
                    "none", FALSE)
        /\ SoundRow("flag_message", "mail_triage", "patch", "mail", "none", "none", FALSE)
        /\ SoundRow("categorize_message", "mail_triage", "patch", "mail", "none", "none", FALSE)
        /\ SoundRow("mark_read", "mail_triage", "patch", "mail", "none", "none", FALSE)
        /\ SoundRow("reclassify_message", "mail_triage", "patch", "mail", "none", "none", FALSE)
    BY DEF SoundRow, Deeds, Kinds, Looks, Idempotent, SentOnce
  <1> QED
    BY <1>1, SoundPlain, SoundTool DEF Triage

LEMMA CopyMessageAreSound == \A t \in CopyMessage : Sound(t)
  <1>1. SoundRow("copy_message", "mail_triage", "copy", "mail", "none", "none", FALSE)
    BY DEF SoundRow, Deeds, Kinds, Looks, Idempotent, SentOnce
  <1> QED
    BY <1>1, SoundPlain, SoundTool DEF CopyMessage

LEMMA BatchTriageAreSound == \A t \in BatchTriage : Sound(t)
  <1>1. /\ SoundRow("batch_triage_move", "mail_triage", "move", "batch", "none", "none", FALSE)
        /\ SoundRow("batch_triage_other", "mail_triage", "patch", "batch", "none",
                    "none", FALSE)
    BY DEF SoundRow, Deeds, Kinds, Looks, Idempotent, SentOnce
  <1> QED
    BY <1>1, SoundPlain, SoundTool DEF BatchTriage

LEMMA OverridesAreSound == \A t \in Overrides : Sound(t)
  <1>1. /\ SoundRow("set_inbox_override", "mail_triage", "patch", "none", "override",
                    "override", FALSE)
        /\ SoundRow("delete_inbox_override", "mail_triage", "delete", "override", "none",
                    "none", FALSE)
    BY DEF SoundRow, Deeds, Kinds, Looks, Idempotent, SentOnce
  <1> QED
    BY <1>1, SoundPlain, SoundTool DEF Overrides

LEMMA FoldersAreSound == \A t \in Folders : Sound(t)
  <1>1. /\ SoundRow("create_folder", "mail_folders", "post", "none", "item", "none", FALSE)
        /\ SoundRow("rename_folder", "mail_folders", "patch", "item", "none", "none", FALSE)
        /\ SoundRow("delete_folder", "mail_folders", "delete", "item", "none", "none", FALSE)
    BY DEF SoundRow, Deeds, Kinds, Looks, Idempotent, SentOnce
  <1> QED
    BY <1>1, SoundPlain, SoundTool DEF Folders

LEMMA CreateEventAreSound == \A t \in CreateEvent : Sound(t)
  <1>1. /\ SoundRow("create_event", "calendar_write", "post", "none", "event", "none", FALSE)
        /\ SoundRow("create_event_attendees", "calendar_write", "post", "none", "event",
                    "none", TRUE)
    BY DEF SoundRow, Deeds, Kinds, Looks, Idempotent, SentOnce
  <1> QED
    BY <1>1, SoundPlain, SoundTool DEF CreateEvent

LEMMA UpdateEventAreSound == \A t \in UpdateEvent : Sound(t)
  <1>1. /\ SoundRow("update_event_times", "calendar_write", "patch", "event", "none",
                    "none", FALSE)
        /\ SoundRow("update_event_words", "calendar_write", "reword", "event", "none",
                    "guests", FALSE)
        /\ SoundRow("update_event_attendees", "calendar_write", "invite", "event", "none",
                    "none", TRUE)
    BY DEF SoundRow, Deeds, Kinds, Looks, Idempotent, SentOnce
  <1> QED
    BY <1>1, SoundPlain, SoundTool DEF UpdateEvent

LEMMA DeleteOrAnswerEventAreSound == \A t \in DeleteOrAnswerEvent : Sound(t)
  <1>1. /\ SoundRow("delete_event", "calendar_write", "delete", "event", "none", "none", FALSE)
        /\ SoundRow("rsvp", "calendar_write", "respond", "event", "none", "none", FALSE)
        /\ SoundRow("rsvp_message", "calendar_write", "mail", "event", "none", "none", TRUE)
    BY DEF SoundRow, Deeds, Kinds, Looks, Idempotent, SentOnce
  <1> QED
    BY <1>1, SoundPlain, SoundTool DEF DeleteOrAnswerEvent

LEMMA ContactsAreSound == \A t \in Contacts : Sound(t)
  <1>1. /\ SoundRow("create_contact", "contacts_write", "post", "none", "item", "none", FALSE)
        /\ SoundRow("update_contact", "contacts_write", "patch", "item", "none", "none", FALSE)
        /\ SoundRow("delete_contact", "contacts_write", "delete", "item", "none", "none", FALSE)
    BY DEF SoundRow, Deeds, Kinds, Looks, Idempotent, SentOnce
  <1> QED
    BY <1>1, SoundPlain, SoundTool DEF Contacts

LEMMA TasksAreSound == \A t \in Tasks : Sound(t)
  <1>1. /\ SoundRow("create_task", "todo_write", "post", "none", "task", "list", FALSE)
        /\ SoundRow("update_task", "todo_write", "patch", "task", "none", "list", FALSE)
        /\ SoundRow("complete_task", "todo_write", "stamp", "task", "none", "list", FALSE)
        /\ SoundRow("delete_task", "todo_write", "delete", "task", "none", "list", FALSE)
    BY DEF SoundRow, Deeds, Kinds, Looks, Idempotent, SentOnce
  <1> QED
    BY <1>1, SoundPlain, SoundTool DEF Tasks, InList

LEMMA ChecklistAreSound == \A t \in Checklist : Sound(t)
  <1>1. /\ SoundRow("add_checklist_item", "todo_write", "post", "task", "part", "list", FALSE)
        /\ SoundRow("update_checklist_item", "todo_write", "patch", "part", "none",
                    "list", FALSE)
        /\ SoundRow("delete_checklist_item", "todo_write", "delete", "part", "none",
                    "list", FALSE)
    BY DEF SoundRow, Deeds, Kinds, Looks, Idempotent, SentOnce
  <1> QED
    BY <1>1, SoundPlain, SoundTool DEF Checklist, InList

LEMMA TaskAttachmentsAreSound == \A t \in TaskAttachments : Sound(t)
  <1>1. /\ SoundRow("upload_task_attachment", "todo_write", "post", "task", "part",
                    "list", FALSE)
        /\ SoundRow("delete_task_attachment", "todo_write", "delete", "part", "none",
                    "list", FALSE)
    BY DEF SoundRow, Deeds, Kinds, Looks, Idempotent, SentOnce
  <1> QED
    BY <1>1, SoundPlain, SoundTool DEF TaskAttachments, InList

LEMMA ToolsAreSound == \A t \in Tools : Sound(t)
  BY MailWritesAreSound, DraftsAreSound, DraftAttachmentsAreSound, TriageAreSound,
     CopyMessageAreSound, BatchTriageAreSound, OverridesAreSound, FoldersAreSound,
     CreateEventAreSound, UpdateEventAreSound, DeleteOrAnswerEventAreSound,
     ContactsAreSound, TasksAreSound, ChecklistAreSound, TaskAttachmentsAreSound DEF Tools

-----------------------------------------------------------------------------
(***************************************************************************)
(* The invariant.                                                          *)
(***************************************************************************)
\* An object changes its kind only when it goes.
Grows(s, t) ==
  /\ Len(s) <= Len(t)
  /\ \A i \in 1..Len(s) : t[i].kind \in {s[i].kind, "gone"}

OneOverride(s) ==
  \A i, j \in 1..Len(s) : s[i].kind = "override" /\ s[j].kind = "override" => i = j

TypeInv ==
  /\ allow \in [readOnly : BOOLEAN, categories : Policy]
  /\ store \in Seq(Obj) /\ lists \in Seq(ListObj)
  /\ cached \in 0..Len(lists) /\ kept \in 0..Len(lists)
  /\ pc \in {"idle", "told", "draft", "override", "guests", "list", "write"}
  /\ walk.at \in 0..Len(lists) /\ walk.first \in 0..Len(lists) /\ walk.pages \in 1..PageCap
  /\ sends \in 0..MaxSends /\ (pc = "write" => sends < MaxSends)
  /\ answer \in Seq(Answers)
  /\ calls \in Nat /\ edits \in Nat /\ mailed \in Nat

\* The arguments of a call: ids of things of the kind that the tool is for.
ArgumentsOf(c) ==
  /\ Sound(c.tool) /\ Permitted(c.tool)
  /\ c.ids \in Seq(Nat) /\ Len(c.ids) = IF c.tool.on = "batch" THEN 2 ELSE 1
  /\ \A k \in 1..Len(c.ids) :
       IF c.tool.on = "none" THEN c.ids[k] = 0
       ELSE /\ c.ids[k] \in 1..Len(store)
            /\ c.tool.on = "mail" => store[c.ids[k]].kind \in {"draft", "message", "gone"}
  /\ c.list \in 0..Len(lists)

Arguments == ArgumentsOf(call)

\* The request asks for what the call asks for; only set_inbox_override makes
\* it another one, on an override that it found or on none.
Requested ==
  /\ request \in [do : Deeds, makes : Kinds \cup {"none"}, list : Nat, ids : Seq(Nat)]
  /\ request.makes = call.tool.makes
  /\ request.list \in 0..Len(lists)
  /\ Len(request.ids) = Len(call.ids)
  /\ call.tool.look # "override" => request.do = call.tool.do /\ request.ids = call.ids
  /\ pc = "override" => request.do = "patch" /\ request.ids[1] = 0
  /\ call.tool.look = "override" =>
       \/ request.do = "post" /\ request.ids[1] = 0
       \/ request.do = "patch" /\ pc # "write"
       \/ /\ request.do = "patch" /\ request.ids[1] \in 1..Len(store)
          /\ store[request.ids[1]].kind \in {"override", "gone"}
  /\ pc \in Looks => call.tool.look = pc

CallInv ==
  /\ pc # "idle" => Arguments /\ Requested
  /\ pc = "idle" => settled = NotSettled
  /\ pc \notin {"write", "told"} => sends = 0
  /\ pc # "told" /\ sends = 0 => applied = {}

\* What a lookup found is so, or was undone in a way that does no harm.
LookInv ==
  /\ pc = "write" /\ call.tool.look = "draft" => store[call.ids[1]].kind \in {"draft", "gone"}
  /\ pc = "write" /\ call.tool.look = "guests" /\ MailSendWithheld =>
       (store[call.ids[1]].people => call.ids[1] \in invited)

ListInv ==
  /\ cached # NoList => lists[cached].default
  /\ \A l, m \in 1..Len(lists) : Default(l) /\ Default(m) => l = m
  /\ kept # NoList => Default(kept)
  /\ kept # NoList /\ pc = "list" => kept > walk.at
  /\ kept # NoList /\ pc = "write" /\ call.tool.look = "list" /\ call.list = NoList =>
       \/ request.list = kept
       \/ request.list # NoList /\ lists[request.list].gone

\* What is settled: the object, or the override, has the value asked for.
Asserted == IF call.tool.look = "override"
            THEN \E i \in Ids : store[i].kind = "override" /\ store[i].value = Asked
            ELSE store[call.ids[1]].value = Asked

SettledInv ==
  /\ OneOverride(store)
  /\ settled # NotSettled =>
       /\ store = settled
       /\ call.tool.name \in Idempotent \cup SentOnce
       /\ call.tool.name \in SentOnce => pc = "told"
       /\ call.tool.name \in Idempotent => Asserted

IInv == TypeInv /\ CallInv /\ LookInv /\ ListInv /\ SettledInv /\ AnswersAreTrue

-----------------------------------------------------------------------------
(***************************************************************************)
(* What a request does to the store.                                       *)
(***************************************************************************)
LEMMA EditObject ==
  ASSUME NEW s \in Seq(Obj), NEW i \in 1..Len(s), NEW o \in Obj, o.kind \in {s[i].kind, "gone"},
         NEW t, t = [s EXCEPT ![i] = o]
  PROVE  /\ t \in Seq(Obj) /\ Len(t) = Len(s) /\ t[i] = o
         /\ \A j \in 1..Len(s) : j # i => t[j] = s[j]
         /\ Grows(s, t)
         /\ OneOverride(s) => OneOverride(t)
  BY DEF Grows, OneOverride

LEMMA AddObject ==
  ASSUME NEW s \in Seq(Obj), NEW o \in Obj, NEW t, t = Append(s, o)
  PROVE  /\ t \in Seq(Obj) /\ Len(t) = Len(s) + 1 /\ t[Len(t)] = o
         /\ \A j \in 1..Len(s) : t[j] = s[j]
         /\ Grows(s, t)
  BY DEF Grows, Obj, Kinds

LEMMA GrowsOn ==
  ASSUME NEW s \in Seq(Obj), NEW t \in Seq(Obj), NEW u \in Seq(Obj), Grows(s, t), Grows(t, u)
  PROVE  Grows(s, u)
  <1>1. Len(s) \in Nat /\ Len(t) \in Nat /\ Len(u) \in Nat
    OBVIOUS
  <1>2. ASSUME NEW i \in 1..Len(s) PROVE u[i].kind \in {s[i].kind, "gone"}
    <2>1. i \in 1..Len(t)
      BY <1>1 DEF Grows
    <2> QED
      BY <2>1 DEF Grows
  <1> QED
    BY <1>1, <1>2 DEF Grows

\* A request that Graph can carry out on object i of s.
Fits(s, i) ==
  /\ request.do \in Deeds /\ (request.do = "post" => request.makes \in Kinds)
  /\ request.list \in Nat /\ call.tool.writesTo \in BOOLEAN /\ calls \in Nat
  /\ i \in 0..Len(s) /\ (i = 0 => request.do \in {"post", "mail"})
  /\ request.do = "copy" => s[i].kind # "override"

LEMMA CarriedKeeps ==
  ASSUME NEW s \in Seq(Obj), NEW i, Fits(s, i), Acceptable(s, i)
  PROVE  /\ Carried(s, i) \in Seq(Obj)
         /\ Grows(s, Carried(s, i))
         /\ OneOverride(s) => OneOverride(Carried(s, i))
  <1> DEFINE t == Carried(s, i)
  <1>1. CASE request.do \in {"mail", "respond"}
    BY <1>1 DEF Carried, Grows, Obj
  <1>2. CASE request.do = "post"
    <2> DEFINE o == [Object(request.makes, request.list, call.tool.writesTo) EXCEPT !.value = Asked]
    <2>1. o \in Obj /\ o.kind = request.makes /\ t = Append(s, o)
      BY <1>2 DEF Fits, Carried, Object, Obj, Asked, Old
    <2> HIDE DEF o, t
    <2>2. request.makes = "override" => \A j \in 1..Len(s) : s[j].kind # "override"
      BY <1>2 DEF Acceptable
    <2>3. OneOverride(s) => OneOverride(t)
      BY <2>1, <2>2, AddObject DEF OneOverride
    <2>4. t \in Seq(Obj) /\ Grows(s, t)
      BY <2>1, AddObject
    <2> QED
      BY <2>3, <2>4 DEF t
  <1>3. CASE request.do \in {"patch", "reword", "stamp", "invite", "delete"}
    <2>1. i \in 1..Len(s) /\ s[i] \in Obj
      BY <1>3 DEF Fits
    <2>2. PICK o \in Obj : o.kind \in {s[i].kind, "gone"} /\ t = [s EXCEPT ![i] = o]
      <3>1. CASE request.do \in {"patch", "reword"}
        BY <3>1, <2>1 DEF Carried, Obj, Asked
      <3>2. CASE request.do = "stamp"
        <4> DEFINE o == [s[i] EXCEPT !.value = Edited + calls]
        <4>1. Edited + calls \in Nat
          BY DEF Fits, Edited
        <4>2. o \in Obj /\ o.kind = s[i].kind
          BY <4>1, <2>1 DEF Obj
        <4>3. t = [s EXCEPT ![i] = o]
          BY <3>2, <2>1 DEF Carried
        <4> QED
          BY <4>2, <4>3
      <3>3. CASE request.do = "invite"
        BY <3>3, <2>1 DEF Carried, Obj
      <3>4. CASE request.do = "delete"
        BY <3>4, <2>1 DEF Carried, Removed, Obj, Kinds
      <3> QED
        BY <1>3, <3>1, <3>2, <3>3, <3>4
    <2> HIDE DEF t
    <2>3. t \in Seq(Obj) /\ Grows(s, t) /\ (OneOverride(s) => OneOverride(t))
      BY <2>1, <2>2, EditObject
    <2> QED
      BY <2>3 DEF t
  <1>4. CASE request.do \in {"move", "send", "copy"}
    <2>1. i \in 1..Len(s) /\ s[i] \in Obj
      BY <1>4 DEF Fits
    <2> DEFINE r == IF request.do = "copy" THEN s ELSE Removed(s, i)
               o == IF request.do = "send" THEN [s[i] EXCEPT !.kind = "message"] ELSE s[i]
    <2>2. o \in Obj /\ t = Append(r, o)
      BY <1>4, <2>1 DEF Carried, Obj, Kinds
    <2>3. /\ r \in Seq(Obj) /\ Len(r) = Len(s) /\ Grows(s, r)
          /\ \A j \in 1..Len(s) : r[j].kind = "override" => s[j].kind = "override"
          /\ r[i].kind = "override" => request.do = "copy"
      <3>1. CASE request.do = "copy"
        BY <3>1, <2>1 DEF Grows, Obj
      <3>2. CASE request.do # "copy"
        <4>1. PICK g \in Obj : /\ g.kind = "gone" /\ g.kind \in {s[i].kind, "gone"}
                              /\ r = [s EXCEPT ![i] = g]
          <5> DEFINE g == [s[i] EXCEPT !.kind = "gone"]
          <5>1. g \in Obj /\ g.kind = "gone" /\ r = [s EXCEPT ![i] = g]
            BY <3>2, <2>1 DEF Removed, Obj, Kinds
          <5> QED
            BY <5>1
        <4> HIDE DEF r, o, t
        <4>2. r \in Seq(Obj) /\ Grows(s, r)
          BY <4>1, <2>1, EditObject
        <4>3. Len(r) = Len(s) /\ r[i] = g
          BY <4>1, <2>1, EditObject
        <4>4. \A j \in 1..Len(s) : j # i => r[j] = s[j]
          BY <4>1, <2>1, EditObject
        <4> QED
          BY <4>1, <4>2, <4>3, <4>4, <2>1
      <3> QED
        BY <3>1, <3>2
    <2>4. o.kind = "override" => s[i].kind = "override" /\ request.do # "copy"
      BY <2>1 DEF Fits, Obj, Kinds
    <2> HIDE DEF r, o, t
    <2>5. t \in Seq(Obj) /\ Grows(s, t)
      BY <2>2, <2>3, AddObject, GrowsOn
    <2>6. OneOverride(s) => OneOverride(t)
      BY <2>1, <2>2, <2>3, <2>4, AddObject DEF OneOverride
    <2> QED
      BY <2>5, <2>6 DEF t
  <1> QED
    BY <1>1, <1>2, <1>3, <1>4 DEF Fits, Deeds

\* The request of a call fits the store, and fits it however it has grown.
LEMMA RequestFits ==
  ASSUME TypeInv, Arguments, Requested, pc = "write",
         NEW k \in Parts, NEW s \in Seq(Obj), Grows(store, s)
  PROVE  Fits(s, request.ids[k])
  <1> DEFINE i == request.ids[k]
             t == call.tool
  <1>1. k \in 1..Len(call.ids) /\ i \in Nat /\ Len(store) <= Len(s)
    BY DEF Parts, Arguments, ArgumentsOf, Requested, Grows
  <1>2. CASE t.look = "override"
    <2>1. k = 1
      BY <1>1, <1>2 DEF Arguments, ArgumentsOf, Sound, SoundRow
    <2>2. i \in 0..Len(s) /\ (request.do = "post" \/ (request.do = "patch" /\ i # 0))
      BY <1>1, <1>2, <2>1 DEF Requested, TypeInv
    <2> QED
      BY <1>2, <2>2 DEF Fits, Requested, Arguments, ArgumentsOf, Sound, SoundRow, Deeds, Kinds, TypeInv
  <1>3. CASE t.look # "override"
    <2>1. request.do = t.do /\ i = call.ids[k] /\ request.makes = t.makes
      BY <1>3 DEF Requested
    <2>2. i \in 0..Len(s) /\ (i = 0 => t.on = "none")
      <3>1. Len(store) \in Nat /\ Len(s) \in Nat
        BY DEF TypeInv
      <3>2. IF t.on = "none" THEN i = 0 ELSE i \in 1..Len(store)
        BY <1>1, <2>1 DEF Arguments, ArgumentsOf
      <3> QED
        BY <1>1, <3>1, <3>2
    <2>3. t.do = "copy" => s[i].kind # "override"
      BY <1>1, <2>1 DEF Arguments, ArgumentsOf, Sound, SoundRow, Grows
    <2>4. /\ t.do \in Deeds /\ t.writesTo \in BOOLEAN
          /\ t.do = "post" => t.makes \in Kinds
          /\ t.on = "none" => t.do \in {"post", "mail"}
      BY <1>3 DEF Arguments, ArgumentsOf, Sound, SoundRow
    <2>5. request.list \in Nat /\ calls \in Nat
      BY DEF Requested, TypeInv
    <2> QED
      BY <2>1, <2>2, <2>3, <2>4, <2>5 DEF Fits
  <1> QED
    BY <1>2, <1>3

LEMMA ReachKeeps ==
  ASSUME TypeInv, Arguments, Requested, pc = "write", OneOverride(store),
         NEW S \in SUBSET Parts
  PROVE  After(S) \in Seq(Obj) /\ Grows(store, After(S)) /\ OneOverride(After(S))
  <1>1. ASSUME NEW k \in Nat, NEW s \in Seq(Obj), Grows(store, s), OneOverride(s)
        PROVE  /\ Part(s, k, S) \in Seq(Obj) /\ Grows(store, Part(s, k, S))
               /\ OneOverride(Part(s, k, S))
    <2>1. CASE ~Does(s, k, S)
      BY <1>1, <2>1 DEF Part
    <2>2. CASE Does(s, k, S)
      <3>1. k \in Parts /\ Acceptable(s, request.ids[k]) /\ Part(s, k, S) = Carried(s, request.ids[k])
        BY <2>2 DEF Does, Part
      <3>2. Fits(s, request.ids[k])
        BY <1>1, <3>1, RequestFits
      <3> DEFINE u == Carried(s, request.ids[k])
      <3>3. u \in Seq(Obj) /\ Grows(s, u) /\ OneOverride(u)
        BY <1>1, <3>1, <3>2, CarriedKeeps
      <3> HIDE DEF u
      <3>4. Grows(store, u)
        BY <1>1, <3>3, GrowsOn DEF TypeInv
      <3> QED
        BY <3>1, <3>3, <3>4 DEF u
    <2> QED
      BY <2>1, <2>2
  <1>2. Grows(store, store) /\ store \in Seq(Obj)
    BY DEF Grows, TypeInv
  <1>3. First(S) \in Seq(Obj) /\ Grows(store, First(S)) /\ OneOverride(First(S))
    BY <1>1, <1>2 DEF First
  <1> QED
    BY <1>1, <1>3 DEF After

\* A call with one id sends a request with one part.
LEMMA OnePart ==
  ASSUME Arguments, Requested, call.tool.on # "batch", NEW S \in SUBSET Parts
  PROVE  /\ Parts = {1}
         /\ After(S) = First(S)
         /\ Done(S) = IF Does(store, 1, S) THEN {1} ELSE {}
         /\ First(S) = IF Does(store, 1, S) THEN Carried(store, request.ids[1]) ELSE store
  <1>1. Parts = {1}
    BY DEF Arguments, ArgumentsOf, Requested, Parts
  <1>2. ~Does(First(S), 2, S)
    BY <1>1 DEF Does
  <1>3. Done(S) = IF Does(store, 1, S) THEN {1} ELSE {}
    <2>1. \A k \in S : k = 1
      BY <1>1
    <2>2. Does(store, 1, S) => 1 \in S
      BY DEF Does
    <2> QED
      BY <2>1, <2>2 DEF Done
  <1> QED
    BY <1>1, <1>2, <1>3 DEF After, First, Part

-----------------------------------------------------------------------------
(***************************************************************************)
(* The steps of a call but its request.                                    *)
(***************************************************************************)
LEMMA ArgumentsKept ==
  ASSUME TypeInv, Arguments, UNCHANGED <<allow, call>>,
         store' \in Seq(Obj), Grows(store, store'), Len(lists) <= Len(lists'), Len(lists') \in Nat
  PROVE  Arguments'
  <1>1. Sound(call.tool) /\ Permitted(call.tool)
    BY DEF Arguments, ArgumentsOf
  <1>2. (Sound(call.tool) /\ Permitted(call.tool))'
    BY <1>1 DEF Sound, Permitted, MailSendWithheld
  <1>3. /\ call.ids \in Seq(Nat) /\ Len(call.ids) = IF call.tool.on = "batch" THEN 2 ELSE 1
        /\ call.list \in 0..Len(lists')
    BY DEF Arguments, ArgumentsOf, TypeInv
  <1>4. ASSUME NEW k \in 1..Len(call.ids), call.tool.on # "none"
        PROVE  /\ call.ids[k] \in 1..Len(store')
               /\ call.tool.on = "mail" => store'[call.ids[k]].kind \in {"draft", "message", "gone"}
    <2>1. /\ call.ids[k] \in 1..Len(store)
          /\ call.tool.on = "mail" => store[call.ids[k]].kind \in {"draft", "message", "gone"}
      BY <1>4 DEF Arguments, ArgumentsOf
    <2>2. Len(store) \in Nat /\ Len(store') \in Nat /\ Len(store) <= Len(store')
      BY DEF Grows, TypeInv
    <2>3. call.ids[k] \in 1..Len(store')
      BY <2>1, <2>2
    <2>4. store'[call.ids[k]].kind \in {store[call.ids[k]].kind, "gone"}
      BY <2>1 DEF Grows
    <2> QED
      BY <2>1, <2>3, <2>4
  <1>5. \A k \in 1..Len(call.ids) : call.tool.on = "none" => call.ids[k] = 0
    BY DEF Arguments, ArgumentsOf
  <1> QED
    BY <1>2, <1>3, <1>4, <1>5 DEF Arguments, ArgumentsOf

LEMMA RequestedKept ==
  ASSUME TypeInv, Arguments, Requested, UNCHANGED <<call, request>>,
         store' \in Seq(Obj), Grows(store, store'), Len(lists) <= Len(lists'), Len(lists') \in Nat,
         pc' \in {pc, "told"} \/ (pc' = "write" /\ call.tool.look # "override")
  PROVE  Requested'
  <1>1. request.list \in 0..Len(lists')
    BY DEF Requested, TypeInv
  <1>2. pc' \in Looks => call.tool.look = pc'
    BY DEF Requested, Looks
  <1>3. request.ids[1] \in 1..Len(store) /\ store[request.ids[1]].kind \in {"override", "gone"}
          => request.ids[1] \in 1..Len(store') /\ store'[request.ids[1]].kind \in {"override", "gone"}
    <2>1. Len(store) \in Nat /\ Len(store') \in Nat
      BY DEF TypeInv
    <2>2. \A i \in 1..Len(store) :
            i \in 1..Len(store') /\ store'[i].kind \in {store[i].kind, "gone"}
      BY <2>1 DEF Grows
    <2> QED
      BY <2>2
  <1>4. call.tool.look = "override" =>
          \/ request.do = "post" /\ request.ids[1] = 0
          \/ request.do = "patch" /\ pc' # "write"
          \/ /\ request.do = "patch" /\ request.ids[1] \in 1..Len(store')
             /\ store'[request.ids[1]].kind \in {"override", "gone"}
    BY <1>3 DEF Requested
  <1> QED
    BY <1>1, <1>2, <1>4 DEF Requested

LEMMA DefaultIsAList ==
  DefaultList \in 0..Len(lists) /\ (DefaultList # NoList => Default(DefaultList))
  BY DEF DefaultList, NoList

LEMMA StartStep ==
  ASSUME IInv, NEW c, ArgumentsOf(c), Start(c), settled' = settled,
         settled # NotSettled => c = call /\ c.tool.name \in Idempotent
  PROVE  IInv'
  <1> DEFINE t == c.tool
  <1>1. /\ pc' = FirstStep(c) /\ call' = c /\ walk' = NoWalk /\ sends' = 0
        /\ answer' = <<"none">> /\ applied' = {} /\ kept' = DefaultList
        /\ UNCHANGED <<allow, store, lists, cached, mailed, edits>>
        /\ calls' = calls + 1
    BY DEF Start
  <1>2. /\ t.look \in Looks \cup {"none"}
        /\ pc' \in {t.look, "write"}
        /\ t.look \in {"draft", "override"} => pc' = t.look
        /\ t.look = "guests" /\ MailSendWithheld => pc' = "guests"
        /\ t.look = "list" /\ c.list = NoList /\ pc' = "write" => cached # NoList
        /\ t.look = "none" => pc' = "write"
    BY <1>1 DEF ArgumentsOf, Sound, SoundRow, FirstStep, Looks
  <1>3. /\ request'.do = t.do /\ request'.makes = t.makes /\ request'.ids = c.ids
        /\ request'.list = IF t.look # "list" THEN NoList
                           ELSE IF c.list # NoList THEN c.list ELSE cached
    BY DEF Start
  <1>4. TypeInv'
    <2>1. answer' \in Seq(Answers)
      BY <1>1 DEF Answers
    <2>2. walk.at' \in 0..Len(lists) /\ walk.first' \in 0..Len(lists) /\ walk.pages' \in 1..PageCap
      BY <1>1 DEF NoWalk, NoList, IInv, TypeInv
    <2> QED
      BY <1>1, <1>2, <2>1, <2>2, DefaultIsAList DEF IInv, TypeInv, Looks
  <1>5. CallInv'
    <2>1. Arguments'
      BY <1>1 DEF Arguments, ArgumentsOf, Sound, Permitted, MailSendWithheld
    <2>2. request' \in [do : Deeds, makes : Kinds \cup {"none"}, list : Nat, ids : Seq(Nat)]
      <3>1. /\ t.do \in Deeds /\ t.makes \in Kinds \cup {"none"} /\ c.ids \in Seq(Nat)
            /\ (IF t.look # "list" THEN NoList ELSE IF c.list # NoList THEN c.list ELSE cached) \in Nat
        BY DEF ArgumentsOf, Sound, SoundRow, NoList, IInv, TypeInv
      <3> QED
        BY <3>1 DEF Start
    <2>3. t.look = "override" => t.on = "none" /\ t.do = "patch"
      BY DEF ArgumentsOf, Sound, SoundRow
    <2>4. t.on = "none" => c.ids[1] = 0
      BY DEF ArgumentsOf, Sound, SoundRow
    <2>5. Requested'
      BY <1>1, <1>2, <1>3, <2>2, <2>3, <2>4
      DEF Requested, ArgumentsOf, Looks, IInv, TypeInv, NoList
    <2> QED
      BY <1>1, <1>2, <2>1, <2>5 DEF CallInv, Looks
  <1>6. LookInv'
    BY <1>1, <1>2 DEF LookInv, MailSendWithheld
  <1>7. ListInv'
    <2>1. ASSUME kept' # NoList PROVE Default(kept') /\ kept' \in 1..Len(lists)
      BY <2>1, <1>1, DefaultIsAList DEF IInv, TypeInv, NoList
    <2>2. ASSUME kept' # NoList, pc' = "write", t.look = "list", c.list = NoList
          PROVE  request'.list = kept' \/ (request'.list # NoList /\ lists[request'.list].gone)
      <3>1. request'.list = cached /\ cached # NoList /\ lists[cached].default /\ cached \in 1..Len(lists)
        BY <1>2, <1>3, <2>2 DEF IInv, ListInv, TypeInv, NoList
      <3>2. lists[cached].gone \/ Default(cached)
        BY <3>1 DEF Default, IInv, TypeInv
      <3> QED
        BY <3>1, <3>2, <2>1, <2>2 DEF IInv, ListInv
    <2> QED
      BY <1>1, <2>1, <2>2 DEF IInv, ListInv, Default, NoWalk, NoList
  <1>8. SettledInv'
    BY <1>1, <1>2 DEF IInv, SettledInv, Asserted, Ids, ArgumentsOf, Sound, SoundRow
  <1>9. AnswersAreTrue'
    BY <1>1, <1>2 DEF AnswersAreTrue, Looks
  <1> QED
    BY <1>4, <1>5, <1>6, <1>7, <1>8, <1>9 DEF IInv

LEMMA CallStep == ASSUME IInv, Call PROVE IInv'
  <1>a. PICK tool \in Tools : \E ids \in IdsFor(tool.on) :
             \E list \in IF tool.look = "list" THEN 0..Len(lists) ELSE {NoList} :
               Start([tool |-> tool, ids |-> ids, list |-> list])
    BY DEF Call
  <1>b. PICK ids \in IdsFor(tool.on) :
             \E list \in IF tool.look = "list" THEN 0..Len(lists) ELSE {NoList} :
               Start([tool |-> tool, ids |-> ids, list |-> list])
    BY <1>a
  <1>1. PICK list \in IF tool.look = "list" THEN 0..Len(lists) ELSE {NoList} :
               Start([tool |-> tool, ids |-> ids, list |-> list])
    BY <1>b
  <1>2. list \in 0..Len(lists)
    BY <1>1 DEF NoList, IInv, TypeInv
  <1> DEFINE c == [tool |-> tool, ids |-> ids, list |-> list]
  <1>3. Sound(tool)
    BY ToolsAreSound
  <1>4. Permitted(tool)
    BY <1>1 DEF Start
  <1>5. \A i \in Named(tool.on) :
          i \in 1..Len(store) /\ (tool.on = "mail" => store[i].kind \in {"draft", "message", "gone"})
    BY DEF Named, Ids, Takes
  <1>6. /\ ids \in Seq(Nat) /\ Len(ids) = IF tool.on = "batch" THEN 2 ELSE 1
        /\ \A k \in 1..Len(ids) : IF tool.on = "none" THEN ids[k] = 0 ELSE ids[k] \in Named(tool.on)
    <2>1. CASE tool.on = "none"
      <3>1. ids = <<0>>
        BY <2>1 DEF IdsFor
      <3> QED
        BY <2>1, <3>1
    <2>2. CASE tool.on = "batch"
      <3>1. PICK i \in Named(tool.on), j \in Named(tool.on) : ids = <<i, j>>
        BY <2>2 DEF IdsFor
      <3> QED
        BY <2>2, <3>1, <1>5
    <2>3. CASE tool.on \notin {"none", "batch"}
      <3>1. PICK i \in Named(tool.on) : ids = <<i>>
        BY <2>3 DEF IdsFor
      <3> QED
        BY <2>3, <3>1, <1>5
    <2> QED
      BY <2>1, <2>2, <2>3
  <1>7. c.tool = tool /\ c.ids = ids /\ c.list = list
    OBVIOUS
  <1> HIDE DEF c
  <1>8. ArgumentsOf(c)
    BY <1>2, <1>3, <1>4, <1>5, <1>6, <1>7 DEF ArgumentsOf
  <1>9. settled' = settled /\ settled = NotSettled
    BY DEF Call, IInv, CallInv
  <1> QED
    BY <1>1, <1>8, <1>9, StartStep DEF c

LEMMA RepeatStep == ASSUME IInv, Repeat PROVE IInv'
  <1>1. ArgumentsOf(call) /\ Start(call) /\ settled' = settled /\ call.tool.name \in Idempotent
    BY DEF Repeat, IInv, CallInv, Arguments
  <1> QED
    BY <1>1, StartStep

LEMMA ForgetStep == ASSUME IInv, Forget PROVE IInv'
  <1>1. TypeInv'
    BY DEF Forget, IInv, TypeInv, NoWalk, NoList, Answers
  <1>2. CallInv' /\ LookInv' /\ AnswersAreTrue'
    BY DEF Forget, CallInv, LookInv, AnswersAreTrue, Looks
  <1>3. ListInv'
    BY DEF Forget, IInv, ListInv, Default
  <1>4. SettledInv'
    BY DEF Forget, IInv, SettledInv
  <1> QED
    BY <1>1, <1>2, <1>3, <1>4 DEF IInv

LEMMA NewClientStep == ASSUME IInv, NewClient PROVE IInv'
  <1>1. /\ cached' = NoList /\ pc = "idle"
        /\ UNCHANGED <<allow, store, lists, told, history, calls, edits>>
    BY DEF NewClient
  <1>2. TypeInv'
    BY <1>1 DEF IInv, TypeInv, NoList, told, history
  <1>3. CallInv' /\ LookInv' /\ AnswersAreTrue'
    BY <1>1 DEF IInv, CallInv, LookInv, AnswersAreTrue, Looks, told, history
  <1>4. ListInv'
    BY <1>1 DEF IInv, ListInv, Default, told, history
  <1>5. SettledInv'
    BY <1>1 DEF IInv, SettledInv, Asserted, Ids, told, history
  <1> QED
    BY <1>2, <1>3, <1>4, <1>5 DEF IInv

\* A call that ends before its request was sent has done nothing.
LEMMA EarlyErrorIsTrue ==
  ASSUME pc' = "told" => answer' = <<"error">>, applied' = {}
  PROVE  AnswersAreTrue'
  <1> SUFFICES ASSUME pc' = "told", NEW k \in 1..Len(answer')
               PROVE  answer'[k] # "success" /\ call'.ids[k] \notin applied'
    BY DEF AnswersAreTrue
  <1>1. Len(answer') = 1 /\ answer'[1] = "error"
    OBVIOUS
  <1> QED
    BY <1>1

\* A lookup leaves the store alone, and the call goes on or ends.
LEMMA LookupStep ==
  ASSUME IInv, pc \in Looks, Nothing, lists' = lists, call' = call, sends' = sends,
         cached' \in 0..Len(lists), TypeInv', Requested',
         pc' \in {"write", "list", "told"}, pc' = "told" => answer' = <<"error">>,
         LookInv', ListInv'
  PROVE  IInv'
  <1>1. /\ pc \notin {"idle", "write", "told"} /\ pc' # "idle" /\ sends = 0 /\ applied = {}
        /\ UNCHANGED <<allow, store, mailed, applied, settled, kept, invited, calls, edits>>
    BY DEF IInv, CallInv, Looks, Nothing, history
  <1>2. Arguments'
    BY <1>1, ArgumentsKept DEF IInv, CallInv, TypeInv, Grows
  <1>3. CallInv'
    BY <1>1, <1>2 DEF CallInv
  <1>4. SettledInv'
    BY <1>1 DEF IInv, SettledInv, Asserted, Ids
  <1>5. AnswersAreTrue'
    BY <1>1, EarlyErrorIsTrue
  <1> QED
    BY <1>3, <1>4, <1>5 DEF IInv

\* The lookups that leave the lists and the cache alone, too.
LEMMA PlainLookupStep ==
  ASSUME IInv, pc \in Looks, UNCHANGED <<allow, store, mailed, applied, settled, kept, calls, edits>>,
         lists' = lists, call' = call, sends' = sends, cached' = cached, walk' = walk,
         request'.list = request.list,
         \/ pc' = "write" /\ call.tool.look \in Looks \ {"list"} /\ answer' = answer
         \/ pc' = "told" /\ answer' = <<"error">>
  PROVE  TypeInv' /\ ListInv'
  <1>1. sends' < MaxSends /\ sends' \in 0..MaxSends
    BY DEF IInv, CallInv, Looks, TypeInv
  <1>2. answer' \in Seq(Answers)
    <2>1. <<"error">> \in Seq(Answers)
      BY DEF Answers
    <2> QED
      BY <2>1 DEF IInv, TypeInv
  <1>3. TypeInv'
    BY <1>1, <1>2 DEF IInv, TypeInv, Looks
  <1>4. ListInv'
    BY DEF IInv, ListInv, Default, Looks
  <1> QED
    BY <1>3, <1>4

LEMMA RequireDraftStep == ASSUME IInv, RequireDraft PROVE IInv'
  <1>1. /\ pc = "draft" /\ call.tool.look = "draft" /\ Nothing
        /\ UNCHANGED <<lists, cached, call, request, walk, sends>>
        /\ \/ store[call.ids[1]].kind = "draft" /\ pc' = "write" /\ answer' = answer
           \/ pc' = "told" /\ answer' = <<"error">>
    BY DEF RequireDraft, End, IInv, CallInv, Requested, Looks
  <1>2. TypeInv' /\ ListInv'
    BY <1>1, PlainLookupStep DEF Nothing, history, Looks
  <1>3. Requested'
    BY <1>1, RequestedKept DEF IInv, CallInv, TypeInv, Nothing, Grows
  <1>4. LookInv'
    BY <1>1 DEF LookInv, Nothing
  <1> QED
    <2>1. pc \in Looks /\ cached' \in 0..Len(lists)
          /\ pc' \in {"write", "list", "told"} /\ (pc' = "told" => answer' = <<"error">>)
      BY <1>1 DEF IInv, TypeInv, Looks
    <2> QED
      BY <1>1, <1>2, <1>3, <1>4, <2>1, LookupStep

LEMMA ReadAttendeesStep == ASSUME IInv, ReadAttendees PROVE IInv'
  <1>1. /\ pc = "guests" /\ call.tool.look = "guests"
        /\ UNCHANGED <<allow, store, lists, cached, call, request, walk, sends, mailed, applied,
                       settled, kept, calls, edits>>
        /\ \/ ~store[call.ids[1]].people /\ pc' = "write" /\ answer' = answer
           \/ pc' = "told" /\ answer' = <<"error">>
    BY DEF ReadAttendees, End, IInv, CallInv, Requested, Looks
  <1>2. TypeInv' /\ ListInv'
    BY <1>1, PlainLookupStep DEF Looks
  <1>3. Requested'
    BY <1>1, RequestedKept DEF IInv, CallInv, TypeInv, Grows
  <1>4. Arguments'
    BY <1>1, ArgumentsKept DEF IInv, CallInv, TypeInv, Grows
  <1>5. LookInv'
    BY <1>1 DEF LookInv
  <1>6. CallInv'
    BY <1>1, <1>3, <1>4 DEF IInv, CallInv
  <1>7. SettledInv'
    BY <1>1 DEF IInv, SettledInv, Asserted, Ids
  <1>8. AnswersAreTrue'
    <2>1. applied' = {} /\ (pc' = "told" => answer' = <<"error">>)
      BY <1>1 DEF IInv, CallInv
    <2> QED
      BY <2>1, EarlyErrorIsTrue
  <1> QED
    BY <1>2, <1>5, <1>6, <1>7, <1>8 DEF IInv

LEMMA ListOverridesStep == ASSUME IInv, ListOverrides PROVE IInv'
  <1>1. /\ pc = "override" /\ call.tool.look = "override" /\ pc' = "write" /\ Nothing
        /\ UNCHANGED <<lists, cached, call, walk, sends, answer>>
    BY DEF ListOverrides, IInv, CallInv, Requested, Looks
  <1>2. Requested /\ Arguments /\ Len(request.ids) = 1 /\ request.ids \in Seq(Nat)
    BY <1>1 DEF IInv, CallInv, Requested, Arguments, ArgumentsOf, Sound, SoundRow
  <1>3. Requested' /\ request'.list = request.list
    <2>1. CASE \E i \in Ids : store[i].kind = "override" /\ request' = [request EXCEPT !.ids = <<i>>]
      <3>1. PICK i \in Ids : store[i].kind = "override" /\ request' = [request EXCEPT !.ids = <<i>>]
        BY <2>1
      <3>2. /\ request' \in [do : Deeds, makes : Kinds \cup {"none"}, list : Nat, ids : Seq(Nat)]
            /\ request'.ids = <<i>> /\ request'.do = request.do /\ request'.makes = request.makes
            /\ request'.list = request.list
        <4>1. <<i>> \in Seq(Nat)
          BY <3>1 DEF Ids, IInv, TypeInv
        <4> DEFINE r == request
        <4>2. r \in [do : Deeds, makes : Kinds \cup {"none"}, list : Nat, ids : Seq(Nat)]
          BY <1>2 DEF Requested
        <4> QED
          BY <3>1, <4>1, <4>2
      <3> QED
        BY <1>1, <1>2, <3>1, <3>2 DEF Requested, Nothing, Ids, Looks
    <2>2. CASE request' = [request EXCEPT !.do = "post"]
      <3>1. /\ request' \in [do : Deeds, makes : Kinds \cup {"none"}, list : Nat, ids : Seq(Nat)]
            /\ request'.ids = request.ids /\ request'.do = "post" /\ request'.makes = request.makes
            /\ request'.list = request.list
        BY <2>2, <1>2 DEF Requested, Deeds
      <3> QED
        BY <1>1, <1>2, <3>1 DEF Requested, Nothing, Looks
    <2> QED
      BY <2>1, <2>2 DEF ListOverrides
  <1>4. TypeInv' /\ ListInv'
    BY <1>1, <1>3, PlainLookupStep DEF Nothing, history, Looks
  <1>5. LookInv'
    BY <1>1 DEF LookInv
  <1> QED
    <2>1. pc \in Looks /\ cached' \in 0..Len(lists)
          /\ pc' \in {"write", "list", "told"} /\ (pc' = "told" => answer' = <<"error">>)
      BY <1>1 DEF IInv, TypeInv, Looks
    <2> QED
      BY <1>1, <1>3, <1>4, <1>5, <2>1, LookupStep

LEMMA LookupFailsStep == ASSUME IInv, LookupFails PROVE IInv'
  <1>1. /\ pc \in Looks /\ Nothing
        /\ UNCHANGED <<lists, cached, call, request, walk, sends>>
        /\ pc' = "told" /\ answer' = <<"error">>
    BY DEF LookupFails, End, Looks
  <1>2. TypeInv' /\ ListInv'
    BY <1>1, PlainLookupStep DEF Nothing, history
  <1>3. Requested'
    BY <1>1, RequestedKept DEF IInv, CallInv, TypeInv, Nothing, Grows, Looks
  <1>4. LookInv'
    BY <1>1 DEF LookInv
  <1> QED
    BY <1>1, <1>2, <1>3, <1>4, LookupStep DEF IInv, TypeInv

\* The walk ends with list l.
LEMMA WalkEnds ==
  ASSUME IInv, pc = "list", Nothing, UNCHANGED <<lists, call, sends, walk, answer>>,
         NEW l \in 1..Len(lists), request' = [request EXCEPT !.list = l], pc' = "write",
         cached' \in {cached, l}, cached' = l => lists[l].default,
         kept # NoList => l = kept
  PROVE  IInv'
  <1>1. pc \in Looks /\ call.tool.look = "list" /\ sends = 0 /\ Requested
        /\ UNCHANGED <<allow, store, mailed, applied, settled, kept, invited, calls, edits>>
    BY DEF IInv, CallInv, Requested, Looks, Nothing, history
  <1>2. cached' \in 0..Len(lists)
    BY DEF IInv, TypeInv
  <1>3. TypeInv'
    BY <1>1, <1>2 DEF IInv, TypeInv
  <1>4. Requested'
    <2>1. /\ request' \in [do : Deeds, makes : Kinds \cup {"none"}, list : Nat, ids : Seq(Nat)]
          /\ request'.ids = request.ids /\ request'.do = request.do
          /\ request'.makes = request.makes /\ request'.list = l
      <3>1. l \in Nat
        BY DEF IInv, TypeInv
      <3>2. request \in [do : Deeds, makes : Kinds \cup {"none"}, list : Nat, ids : Seq(Nat)]
        BY <1>1 DEF Requested
      <3> QED
        BY <3>1, <3>2
    <2> QED
      BY <1>1, <2>1 DEF Requested, Looks, IInv, TypeInv
  <1>5. LookInv'
    BY <1>1 DEF LookInv
  <1>6. ListInv'
    <2>1. request'.list = l
      BY <1>1 DEF Requested
    <2> QED
      BY <1>1, <2>1 DEF IInv, ListInv, Default
  <1> QED
    BY <1>1, <1>2, <1>3, <1>4, <1>5, <1>6, LookupStep

\* The walk goes on past a list that is not the default one.
LEMMA WalkGoesOn ==
  ASSUME IInv, pc = "list", Nothing, UNCHANGED <<lists, call, sends, pc, answer, cached, request>>,
         NEW next \in 1..Len(lists), NEW first \in 1..Len(lists), NEW pages \in 1..PageCap,
         walk' = [at |-> next, first |-> first, pages |-> pages],
         kept # NoList => next < kept
  PROVE  IInv'
  <1>1. /\ pc \in Looks /\ pc' = pc
        /\ UNCHANGED <<allow, store, mailed, applied, settled, kept, invited, calls, edits>>
    BY DEF Looks, Nothing, history
  <1>2. cached' \in 0..Len(lists)
    BY DEF IInv, TypeInv
  <1>3. TypeInv'
    BY <1>1 DEF IInv, TypeInv
  <1>4. Requested'
    BY <1>1, RequestedKept DEF IInv, CallInv, TypeInv, Grows
  <1>5. LookInv'
    BY <1>1 DEF LookInv
  <1>6. ListInv'
    BY <1>1 DEF IInv, ListInv, Default, TypeInv
  <1> QED
    BY <1>1, <1>2, <1>3, <1>4, <1>5, <1>6, LookupStep

LEMMA WalkListsStep == ASSUME IInv, WalkLists PROVE IInv'
  <1>1. pc = "list" /\ Nothing /\ UNCHANGED <<lists, call, sends>>
    BY DEF WalkLists
  <1>2. kept # NoList => kept \in Left /\ lists[kept].default
    BY <1>1 DEF IInv, ListInv, TypeInv, Default, Left, NoList
  <1>3. \A l \in Left : l \in 1..Len(lists) /\ (lists[l].default => Default(l))
    BY DEF Default, NoList, Left
  <1>4. ASSUME End(<<"error">>), UNCHANGED <<walk, cached, request>>
        PROVE  IInv'
    <2>1. pc \in Looks /\ cached' \in 0..Len(lists) /\ pc' = "told" /\ answer' = <<"error">>
      BY <1>1, <1>4 DEF IInv, TypeInv, Looks, End
    <2>2. TypeInv' /\ ListInv'
      BY <1>1, <1>4, <2>1, PlainLookupStep DEF Nothing, history
    <2>3. Requested'
      BY <1>1, <1>4, <2>1, RequestedKept DEF IInv, CallInv, TypeInv, Nothing, Grows, Looks
    <2>4. LookInv'
      BY <2>1 DEF LookInv
    <2> QED
      BY <1>1, <1>4, <2>1, <2>2, <2>3, <2>4, LookupStep
  <1>5. walk.first # NoList => walk.first \in 1..Len(lists)
    BY DEF IInv, TypeInv, NoList
  <1>6. CASE Left = {} /\ walk.first # NoList /\ Settle(walk.first) /\ UNCHANGED <<walk, answer>>
    BY <1>1, <1>2, <1>5, <1>6, WalkEnds DEF Settle, IInv, ListInv
  <1>7. CASE Left = {} /\ walk.first = NoList /\ End(<<"error">>) /\ UNCHANGED <<walk, cached, request>>
    BY <1>4, <1>7
  <1>8. ASSUME NEW next \in Left, \A l \in Left : next <= l,
               NEW first, first = IF walk.first = NoList THEN next ELSE walk.first,
               \/ /\ lists[next].default
                  /\ Found(next) /\ UNCHANGED <<walk, answer>>
               \/ /\ ~lists[next].default /\ Left = {next}
                  /\ Settle(first) /\ UNCHANGED <<walk, answer>>
               \/ /\ ~lists[next].default
                  /\ IF walk.pages + 1 > PageCap
                     THEN End(<<"error">>) /\ UNCHANGED walk
                     ELSE /\ walk' = [at |-> next, first |-> first, pages |-> walk.pages + 1]
                          /\ UNCHANGED <<pc, answer>>
                  /\ UNCHANGED <<cached, request>>
        PROVE  IInv'
    <2>1. next \in 1..Len(lists) /\ first \in 1..Len(lists)
      BY <1>3, <1>5, <1>8
    <2>2. CASE lists[next].default /\ Found(next) /\ UNCHANGED <<walk, answer>>
      <3>1. kept # NoList => next = kept
        BY <1>2, <1>3, <1>8, <2>1, <2>2 DEF IInv, ListInv
      <3> QED
        BY <1>1, <2>1, <2>2, <3>1, WalkEnds DEF Found
    <2>3. CASE ~lists[next].default /\ Left = {next} /\ Settle(first) /\ UNCHANGED <<walk, answer>>
      <3>1. kept = NoList
        BY <1>2, <2>3
      <3>2. cached' = first => lists[first].default
        BY <2>1, <2>3 DEF Settle, IInv, ListInv, NoList
      <3> QED
        BY <1>1, <2>1, <2>3, <3>1, <3>2, WalkEnds DEF Settle
    <2>4. CASE /\ ~lists[next].default /\ walk.pages + 1 <= PageCap
               /\ walk' = [at |-> next, first |-> first, pages |-> walk.pages + 1]
               /\ UNCHANGED <<pc, answer, cached, request>>
      <3>1. ASSUME kept # NoList PROVE next < kept
        <4>1. next <= kept /\ kept \in 1..Len(lists)
          BY <1>2, <1>3, <1>8, <3>1
        <4>2. next # kept
          BY <1>2, <2>4, <3>1
        <4> QED
          BY <4>1, <4>2, <2>1
      <3>2. walk.pages + 1 \in 1..PageCap
        BY <2>4 DEF IInv, TypeInv
      <3> QED
        BY <1>1, <2>1, <2>4, <3>1, <3>2, WalkGoesOn
    <2>5. CASE End(<<"error">>) /\ UNCHANGED <<walk, cached, request>>
      BY <1>4, <2>5
    <2>6. walk.pages + 1 > PageCap \/ walk.pages + 1 <= PageCap
      BY DEF IInv, TypeInv
    <2> QED
      BY <1>8, <2>2, <2>3, <2>4, <2>5, <2>6
  <1> QED
    BY <1>6, <1>7, <1>8 DEF WalkLists

-----------------------------------------------------------------------------
(***************************************************************************)
(* The request.                                                            *)
(***************************************************************************)
\* A reworded event has the guests it had.
LEMMA RewordedGuests ==
  ASSUME IInv, pc = "write", call.tool.look = "guests", NEW S \in SUBSET Parts
  PROVE  After(S)[call.ids[1]].people = store[call.ids[1]].people
  <1>1. Arguments /\ Requested /\ call.tool.on = "event" /\ call.tool.do = "reword"
    BY DEF IInv, CallInv, Arguments, ArgumentsOf, Sound, SoundRow
  <1>2. request.do = "reword" /\ request.ids = call.ids /\ call.ids[1] \in 1..Len(store)
    BY <1>1 DEF Requested, Arguments, ArgumentsOf
  <1>3. After(S) = IF Does(store, 1, S) THEN Carried(store, call.ids[1]) ELSE store
    BY <1>1, <1>2, OnePart
  <1>4. Carried(store, call.ids[1]) = [store EXCEPT ![call.ids[1]].value = Asked]
    BY <1>2 DEF Carried
  <1>5. store[call.ids[1]] \in Obj
    BY <1>2 DEF IInv, TypeInv
  <1> QED
    BY <1>2, <1>3, <1>4, <1>5 DEF IInv, TypeInv, Obj

\* A patch gives the object the value asked for, and nothing else.
LEMMA Patched ==
  ASSUME NEW s \in Seq(Obj), NEW i \in 1..Len(s), request.do = "patch"
  PROVE  /\ Len(Carried(s, i)) = Len(s)
         /\ Carried(s, i)[i].value = Asked /\ Carried(s, i)[i].kind = s[i].kind
         /\ s[i].value = Asked => Carried(s, i) = s
  <1> DEFINE o == [s[i] EXCEPT !.value = Asked]
  <1>1. s[i] \in Obj
    OBVIOUS
  <1>2. o.value = Asked /\ o.kind = s[i].kind /\ (s[i].value = Asked => o = s[i])
    BY <1>1 DEF Obj
  <1>3. Carried(s, i) = [s EXCEPT ![i] = o]
    BY DEF Carried
  <1> HIDE DEF o
  <1> QED
    BY <1>2, <1>3

\* The part of an idempotent tool that takes effect asserts the value; where
\* the value is asserted already, it changes nothing.
LEMMA EffectAsserts ==
  ASSUME IInv, pc = "write", call.tool.name \in Idempotent,
         NEW S \in SUBSET Parts, Does(store, 1, S), store' = After(S), call' = call
  PROVE  Asserted' /\ (Asserted => After(S) = store)
  <1> DEFINE i == request.ids[1]
  <1>1. /\ Arguments /\ Requested /\ call.tool.on # "batch" /\ call.tool.do = "patch"
        /\ call.tool.look = "override" \/ call.tool.on # "none"
        /\ call.tool.look = "override" => call.tool.makes = "override"
    BY DEF IInv, CallInv, Arguments, ArgumentsOf, Sound, SoundRow
  <1>2. After(S) = Carried(store, i) /\ Acceptable(store, i) /\ store \in Seq(Obj)
    BY <1>1, OnePart DEF Does, IInv, TypeInv
  <1>3. CASE call.tool.look # "override"
    <2>1. request.do = "patch" /\ i = call.ids[1] /\ i \in 1..Len(store)
      BY <1>1, <1>3 DEF Requested, Arguments, ArgumentsOf
    <2> QED
      BY <1>2, <1>3, <2>1, Patched DEF Asserted
  <1>4. CASE call.tool.look = "override" /\ request.do = "patch"
    <2>1. i \in 1..Len(store) /\ store[i].kind = "override"
      BY <1>1, <1>2, <1>4 DEF Requested, Acceptable, Standing
    <2>2. i \in Ids /\ i \in Ids'
      BY <1>2, <2>1, <1>4, Patched DEF Ids
    <2>3. Asserted => store[i].value = Asked
      BY <1>4, <2>1 DEF Asserted, Ids, IInv, SettledInv, OneOverride
    <2> QED
      BY <1>2, <1>4, <2>1, <2>2, <2>3, Patched DEF Asserted
  <1>5. CASE call.tool.look = "override" /\ request.do = "post"
    <2> DEFINE o == [Object(request.makes, request.list, call.tool.writesTo) EXCEPT !.value = Asked]
    <2>1. Carried(store, i) = Append(store, o) /\ o.kind = "override" /\ o.value = Asked
      BY <1>1, <1>5 DEF Carried, Object, Requested
    <2>2. ~Asserted
      BY <1>1, <1>2, <1>5 DEF Asserted, Acceptable, Requested, Ids
    <2> HIDE DEF o
    <2>3. Len(store) + 1 \in Ids' /\ store'[Len(store) + 1] = o
      BY <1>2, <2>1 DEF Ids
    <2> QED
      BY <1>5, <2>1, <2>2, <2>3 DEF Asserted
  <1> QED
    BY <1>1, <1>3, <1>4, <1>5 DEF Requested

LEMMA ReachStep ==
  ASSUME IInv, pc = "write", NEW S \in SUBSET Parts, Reach(S),
         pc' \in {"write", "told"},
         pc' = "write" => sends + 1 < MaxSends /\ call.tool.name \notin SentOnce,
         answer' \in Seq(Answers), AnswersAreTrue'
  PROVE  IInv'
  <1>1. /\ Arguments /\ Requested /\ Sound(call.tool)
        /\ store' = After(S) /\ sends' = sends + 1
        /\ UNCHANGED <<allow, lists, cached, call, request, walk, kept, invited, calls, edits>>
    BY DEF IInv, CallInv, Arguments, ArgumentsOf, Reach
  <1>2. store' \in Seq(Obj) /\ Grows(store, store') /\ OneOverride(store')
    BY <1>1, ReachKeeps DEF IInv, SettledInv
  <1>3. TypeInv'
    <2>1. mailed' \in Nat
      BY DEF Reach, IInv, TypeInv
    <2>2. sends' \in 0..MaxSends /\ (pc' = "write" => sends' < MaxSends)
      BY <1>1 DEF IInv, TypeInv
    <2> QED
      BY <1>1, <1>2, <2>1, <2>2 DEF IInv, TypeInv
  <1>4. CallInv'
    <2>1. Arguments' /\ Requested'
      BY <1>1, <1>2, ArgumentsKept, RequestedKept DEF IInv, TypeInv
    <2>2. sends' # 0
      BY <1>1 DEF IInv, TypeInv
    <2> QED
      BY <2>1, <2>2 DEF CallInv
  <1>5. LookInv'
    <2>1. ASSUME call.tool.look = "draft", store[call.ids[1]].kind \in {"draft", "gone"}
          PROVE  store'[call.ids[1]].kind \in {"draft", "gone"}
      <3>1. call.ids[1] \in 1..Len(store)
        BY <1>1, <2>1 DEF Arguments, ArgumentsOf, Sound, SoundRow
      <3> QED
        BY <1>2, <2>1, <3>1 DEF Grows
    <2>2. call.tool.look = "guests" => store'[call.ids[1]].people = store[call.ids[1]].people
      BY <1>1, RewordedGuests
    <2> QED
      BY <1>1, <2>1, <2>2 DEF IInv, LookInv, MailSendWithheld
  <1>6. ListInv'
    BY <1>1 DEF IInv, ListInv, Default
  <1>7. SettledInv'
    <2>1. CASE settled # NotSettled
      <3>1. /\ call.tool.name \in Idempotent /\ call.tool.on # "batch" /\ settled' = settled
            /\ call.tool.name \notin SentOnce /\ Asserted /\ store = settled
        BY <1>1, <2>1 DEF IInv, SettledInv, Reach, Sound, SoundRow
      <3>2. store' = store
        BY <1>1, <3>1, EffectAsserts, OnePart
      <3> QED
        BY <1>1, <1>2, <3>1, <3>2 DEF SettledInv, Asserted, Ids
    <2>2. CASE settled = NotSettled /\ settled' # NotSettled
      <3>1. /\ settled' = store' /\ Done(S) # {} /\ call.tool.name \in Idempotent \cup SentOnce
        BY <1>1, <2>2 DEF Reach
      <3>2. ASSUME call.tool.name \in Idempotent PROVE Asserted'
        <4>1. call.tool.on # "batch"
          BY <1>1, <3>2 DEF Sound, SoundRow
        <4>2. Does(store, 1, S)
          BY <1>1, <3>1, <4>1, OnePart
        <4> QED
          BY <1>1, <3>2, <4>2, EffectAsserts
      <3>3. call.tool.name \in SentOnce => pc' = "told"
        OBVIOUS
      <3> QED
        BY <1>1, <1>2, <3>1, <3>2, <3>3 DEF SettledInv
    <2>3. CASE settled' = NotSettled
      BY <1>2, <2>3 DEF SettledInv
    <2> QED
      BY <2>1, <2>2, <2>3
  <1> QED
    BY <1>3, <1>4, <1>5, <1>6, <1>7 DEF IInv

\* The result of an id is that of a part for this id, if one came, or an error.
LEMMA ResultIsOfOne ==
  ASSUME NEW S, NEW heard \in SUBSET Parts, NEW last, NEW k \in Parts
  PROVE  \/ ResultOf(k, S, heard, last) = "error" /\ k \notin heard
         \/ \E l \in heard : call.ids[l] = call.ids[k] /\ ResultOf(k, S, heard, last) = Verdict(l, S)
  <1> DEFINE mine == {l \in heard : call.ids[l] = call.ids[k]}
             one  == IF last \in mine THEN last ELSE CHOOSE l \in mine : TRUE
  <1>1. CASE mine = {}
    BY <1>1 DEF ResultOf
  <1>2. CASE mine # {}
    <2>1. one \in mine
      BY <1>2
    <2>2. ResultOf(k, S, heard, last) = Verdict(one, S)
      BY <1>2 DEF ResultOf
    <2> HIDE DEF one
    <2> QED
      BY <2>1, <2>2
  <1> QED
    BY <1>1, <1>2

LEMMA AnsweredStep == ASSUME IInv, Answered PROVE IInv'
  <1>1. PICK S \in SUBSET Parts, last \in Parts :
          \E heard \in SUBSET Parts :
            /\ Reach(S) /\ End([k \in Parts |-> ResultOf(k, S, heard, last)])
            /\ silent' = Parts \ heard
    BY DEF Answered
  <1>2. PICK heard \in SUBSET Parts :
            /\ Reach(S) /\ End([k \in Parts |-> ResultOf(k, S, heard, last)])
            /\ silent' = Parts \ heard
    BY <1>1
  <1>3. /\ pc = "write" /\ pc' = "told" /\ Arguments /\ Requested
        /\ answer' = [k \in Parts |-> ResultOf(k, S, heard, last)]
        /\ applied' = applied \cup {call.ids[k] : k \in Done(S)}
        /\ call' = call /\ sends' = sends + 1
    BY <1>2 DEF Answered, End, Reach, IInv, CallInv
  <1>4. Parts = 1..Len(call.ids) /\ Len(call.ids) \in Nat /\ Done(S) \subseteq Parts
    <2>1. Parts = 1..Len(call.ids) /\ call.ids \in Seq(Nat)
      BY <1>3 DEF Parts, Requested, Arguments, ArgumentsOf
    <2>2. Done(S) \subseteq S
      BY DEF Done
    <2>3. Done(S) \subseteq Parts
      BY <2>2
    <2>4. Len(call.ids) \in Nat
      BY <2>1
    <2> QED
      BY <2>1, <2>3, <2>4
  <1>5. \A k \in Parts : ResultOf(k, S, heard, last) \in {"success", "error"}
    BY ResultIsOfOne DEF Verdict
  <1>6. answer' \in Seq(Answers) /\ Len(answer') = Len(call.ids)
    BY <1>3, <1>4, <1>5 DEF Answers
  <1>7. ASSUME NEW k \in Parts, answer'[k] = "success" PROVE call.ids[k] \in applied'
    <2>1. PICK l \in heard : call.ids[l] = call.ids[k] /\ Verdict(l, S) = "success"
      BY <1>3, <1>7, ResultIsOfOne
    <2> QED
      BY <1>3, <2>1 DEF Verdict
  <1>8. ASSUME NEW k \in Parts, answer'[k] = "error", sends' <= 1, DistinctIds, k \notin silent'
        PROVE  call.ids[k] \notin applied'
    <2>1. PICK l \in heard : call.ids[l] = call.ids[k] /\ Verdict(l, S) = "error"
      BY <1>2, <1>3, <1>8, ResultIsOfOne
    <2>2. l = k /\ k \notin Done(S)
      BY <1>4, <1>8, <2>1 DEF DistinctIds, Verdict
    <2>3. \A m \in Done(S) : call.ids[m] # call.ids[k]
      BY <1>4, <1>8, <2>2 DEF DistinctIds
    <2>4. applied = {}
      BY <1>3, <1>8 DEF IInv, CallInv, TypeInv
    <2> QED
      BY <1>3, <2>3, <2>4
  <1>9. AnswersAreTrue'
    BY <1>3, <1>4, <1>6, <1>7, <1>8 DEF AnswersAreTrue, DistinctIds
  <1> QED
    BY <1>2, <1>3, <1>6, <1>9, ReachStep

\* A call that ends without an answer reports neither success nor error.
LEMMA UnknownStep ==
  ASSUME IInv, pc = "write", NEW S \in SUBSET Parts, Reach(S),
         End([k \in Parts |-> "unknown"])
  PROVE  IInv'
  <1>1. pc' = "told" /\ answer' = [k \in Parts |-> "unknown"] /\ Len(request.ids) \in Nat
    BY DEF End, IInv, CallInv, Requested
  <1>2. answer' \in Seq(Answers) /\ \A k \in 1..Len(answer') : answer'[k] = "unknown"
    BY <1>1 DEF Parts, Answers
  <1>3. AnswersAreTrue'
    BY <1>2 DEF AnswersAreTrue
  <1> QED
    BY <1>1, <1>2, <1>3, ReachStep

LEMMA NoAnswerStep == ASSUME IInv, NoAnswer PROVE IInv'
  BY UnknownStep DEF NoAnswer

LEMMA UnavailableStep == ASSUME IInv, Unavailable PROVE IInv'
  <1>1. PICK S \in SUBSET Parts : Reach(S)
    BY DEF Unavailable
  <1>2. pc = "write"
    BY DEF Unavailable
  <1>3. CASE End([k \in Parts |-> "unknown"])
    BY <1>1, <1>2, <1>3, UnknownStep
  <1>4. CASE sends + 1 < MaxSends /\ call.tool.name \notin SentOnce /\ UNCHANGED <<pc, answer>>
    <2>1. pc' = "write" /\ answer' \in Seq(Answers) /\ AnswersAreTrue'
      BY <1>2, <1>4 DEF IInv, TypeInv, AnswersAreTrue, Unavailable
    <2> QED
      BY <1>1, <1>2, <1>4, <2>1, ReachStep
  <1> QED
    BY <1>3, <1>4 DEF Unavailable

-----------------------------------------------------------------------------
(***************************************************************************)
(* The others.                                                             *)
(***************************************************************************)
LEMMA OthersStep ==
  ASSUME IInv, Others, store' \in Seq(Obj), Grows(store, store'), OneOverride(store'),
         lists' \in Seq(ListObj), Len(lists) <= Len(lists'),
         kept' \in 0..Len(lists'), ListInv', invited \subseteq invited',
         \A i \in 1..Len(store) : store'[i].people => store[i].people \/ i \in invited'
  PROVE  IInv'
  <1>1. /\ UNCHANGED <<allow, cached, pc, call, request, walk, sends, answer, mailed, applied, silent,
                     calls>>
        /\ settled' = NotSettled /\ edits' = edits + 1
    BY DEF Others, told
  <1>2. TypeInv'
    BY <1>1 DEF IInv, TypeInv
  <1>3. CallInv'
    <2>1. pc # "idle" => Arguments' /\ Requested'
      BY <1>1, ArgumentsKept, RequestedKept DEF IInv, CallInv, TypeInv
    <2> QED
      BY <1>1, <2>1 DEF IInv, CallInv
  <1>4. LookInv'
    <2>1. pc = "write" /\ call.tool.look \in {"draft", "guests"} => call.ids[1] \in 1..Len(store)
      BY DEF IInv, CallInv, Arguments, ArgumentsOf, Sound, SoundRow
    <2>2. pc = "write" /\ call.tool.look = "draft"
            => store'[call.ids[1]].kind \in {"draft", "gone"}
      BY <2>1 DEF IInv, LookInv, Grows
    <2>3. pc = "write" /\ call.tool.look = "guests" /\ MailSendWithheld
            => (store'[call.ids[1]].people => call.ids[1] \in invited')
      BY <2>1 DEF IInv, LookInv
    <2> QED
      BY <1>1, <2>2, <2>3 DEF LookInv, MailSendWithheld
  <1>5. SettledInv'
    BY <1>1 DEF SettledInv
  <1>6. AnswersAreTrue'
    BY <1>1 DEF IInv, AnswersAreTrue, DistinctIds
  <1> QED
    BY <1>2, <1>3, <1>4, <1>5, <1>6 DEF IInv

\* A change of the objects alone.
LEMMA ObjectsStep ==
  ASSUME IInv, Others, UNCHANGED <<lists, kept>>, invited \subseteq invited',
         store' \in Seq(Obj), Grows(store, store'), OneOverride(store'),
         \A i \in 1..Len(store) : store'[i].people => store[i].people \/ i \in invited'
  PROVE  IInv'
  <1>1. ListInv'
    BY DEF IInv, ListInv, Default, Others, told
  <1> QED
    BY <1>1, OthersStep DEF IInv, TypeInv

\* One object goes, or changes its value or its people.
LEMMA ObjectStep ==
  ASSUME IInv, Others, UNCHANGED <<lists, kept>>, invited \subseteq invited',
         NEW i \in 1..Len(store), NEW o \in Obj, store' = [store EXCEPT ![i] = o],
         o.kind \in {store[i].kind, "gone"}, o.people => store[i].people \/ i \in invited'
  PROVE  IInv'
  <1>1. store \in Seq(Obj) /\ OneOverride(store)
    BY DEF IInv, TypeInv, SettledInv
  <1>2. store' \in Seq(Obj) /\ Grows(store, store') /\ OneOverride(store')
    BY <1>1, EditObject
  <1>3. store'[i] = o /\ \A j \in 1..Len(store) : j # i => store'[j] = store[j]
    BY <1>1, EditObject
  <1>4. \A j \in 1..Len(store) : store'[j].people => store[j].people \/ j \in invited'
    BY <1>3
  <1> QED
    BY <1>2, <1>4, ObjectsStep

LEMMA OthersDeleteStep == ASSUME IInv, OthersDelete PROVE IInv'
  <1>1. PICK i \in 1..Len(store) : store' = [store EXCEPT ![i].kind = "gone"]
    BY DEF OthersDelete, Ids, Removed
  <1> DEFINE o == [store[i] EXCEPT !.kind = "gone"]
  <1>2. store[i] \in Obj
    BY DEF IInv, TypeInv
  <1>3. o \in Obj /\ o.kind \in {store[i].kind, "gone"} /\ (o.people <=> store[i].people)
        /\ store' = [store EXCEPT ![i] = o]
    BY <1>1, <1>2 DEF Obj, Kinds
  <1> HIDE DEF o
  <1>4. Others /\ UNCHANGED <<lists, kept, invited>>
    BY DEF OthersDelete, Leaves
  <1> QED
    BY <1>3, <1>4, ObjectStep

LEMMA OthersEditStep == ASSUME IInv, OthersEdit PROVE IInv'
  <1>1. PICK i \in 1..Len(store) : store' = [store EXCEPT ![i].value = Edited]
    BY DEF OthersEdit, Ids
  <1> DEFINE o == [store[i] EXCEPT !.value = Edited]
  <1>2. store[i] \in Obj
    BY DEF IInv, TypeInv
  <1>3. o \in Obj /\ o.kind \in {store[i].kind, "gone"} /\ (o.people <=> store[i].people)
        /\ store' = [store EXCEPT ![i] = o]
    BY <1>1, <1>2 DEF Obj, Edited
  <1> HIDE DEF o
  <1>4. Others /\ UNCHANGED <<lists, kept, invited>>
    BY DEF OthersEdit, Leaves
  <1> QED
    BY <1>3, <1>4, ObjectStep

LEMMA OthersInviteStep == ASSUME IInv, OthersInvite PROVE IInv'
  <1>1. PICK i \in 1..Len(store) : /\ store' = [store EXCEPT ![i].people = TRUE]
                                   /\ invited' = invited \cup {i}
    BY DEF OthersInvite, Ids
  <1> DEFINE o == [store[i] EXCEPT !.people = TRUE]
  <1>2. store[i] \in Obj
    BY DEF IInv, TypeInv
  <1>3. o \in Obj /\ o.kind \in {store[i].kind, "gone"} /\ store' = [store EXCEPT ![i] = o]
    BY <1>1, <1>2 DEF Obj
  <1> HIDE DEF o
  <1>4. Others /\ UNCHANGED <<lists, kept>>
    BY DEF OthersInvite
  <1> QED
    BY <1>1, <1>3, <1>4, ObjectStep

LEMMA OthersSendStep == ASSUME IInv, OthersSend PROVE IInv'
  <1>1. PICK i \in 1..Len(store) :
          /\ store[i].kind = "draft"
          /\ store' = Append(Removed(store, i), [store[i] EXCEPT !.kind = "message"])
    BY DEF OthersSend, Ids
  <1> DEFINE gone == [store[i] EXCEPT !.kind = "gone"]
             sent == [store[i] EXCEPT !.kind = "message"]
             rest == Removed(store, i)
  <1>2. store \in Seq(Obj) /\ store[i] \in Obj /\ OneOverride(store)
    BY DEF IInv, TypeInv, SettledInv
  <1>3. /\ gone \in Obj /\ gone.kind \in {store[i].kind, "gone"}
        /\ (gone.people <=> store[i].people)
        /\ rest = [store EXCEPT ![i] = gone]
        /\ sent \in Obj /\ sent.kind = "message" /\ store' = Append(rest, sent)
    BY <1>1, <1>2 DEF Obj, Kinds, Removed
  <1> HIDE DEF gone, sent, rest
  <1>4. rest \in Seq(Obj) /\ Grows(store, rest) /\ OneOverride(rest)
    BY <1>2, <1>3, EditObject
  <1>5. Len(rest) = Len(store) /\ rest[i] = gone
    BY <1>2, <1>3, EditObject
  <1>6. \A j \in 1..Len(store) : j # i => rest[j] = store[j]
    BY <1>2, <1>3, EditObject
  <1>7. /\ store' \in Seq(Obj) /\ Len(store') = Len(rest) + 1 /\ store'[Len(store')] = sent
        /\ \A j \in 1..Len(rest) : store'[j] = rest[j]
    BY <1>3, <1>4, AddObject
  <1>8. Grows(store, store')
    BY <1>2, <1>3, <1>4, <1>7, AddObject, GrowsOn
  <1>9. OneOverride(store')
    BY <1>3, <1>4, <1>7 DEF OneOverride
  <1>10. \A j \in 1..Len(store) : store'[j].people => store[j].people
    BY <1>3, <1>5, <1>6, <1>7
  <1>11. Others /\ UNCHANGED <<lists, kept, invited>>
    BY DEF OthersSend, Leaves
  <1> QED
    BY <1>7, <1>8, <1>9, <1>10, <1>11, ObjectsStep

LEMMA OthersOverrideStep == ASSUME IInv, OthersOverride PROVE IInv'
  <1> DEFINE o == Object("override", NoList, FALSE)
  <1>1. o \in Obj /\ o.kind = "override" /\ store \in Seq(Obj)
    BY DEF Object, Obj, Kinds, NoList, Old, IInv, TypeInv
  <1>2. store' = Append(store, o) /\ \A i \in 1..Len(store) : store[i].kind # "override"
    BY DEF OthersOverride, Ids
  <1> HIDE DEF o
  <1>3. /\ store' \in Seq(Obj) /\ Len(store') = Len(store) + 1
        /\ \A j \in 1..Len(store) : store'[j] = store[j]
    BY <1>1, <1>2, AddObject
  <1>4. Grows(store, store')
    BY <1>1, <1>2, AddObject
  <1>5. OneOverride(store')
    BY <1>1, <1>2, <1>3 DEF OneOverride
  <1>6. Others /\ UNCHANGED <<lists, kept, invited>>
    BY DEF OthersOverride, Leaves
  <1> QED
    BY <1>3, <1>4, <1>5, <1>6, ObjectsStep

LEMMA OthersDropListStep == ASSUME IInv, OthersDropList PROVE IInv'
  <1>1. PICK l \in 1..Len(lists) :
          /\ lists' = [lists EXCEPT ![l].gone = TRUE]
          /\ store' = [i \in Ids |-> IF store[i].list = l THEN [store[i] EXCEPT !.kind = "gone"]
                                     ELSE store[i]]
          /\ kept' = IF kept = l THEN NoList ELSE kept
    BY DEF OthersDropList
  <1>2. /\ lists \in Seq(ListObj) /\ store \in Seq(Obj)
        /\ OneOverride(store) /\ cached \in 0..Len(lists) /\ kept \in 0..Len(lists)
        /\ Len(lists) \in Nat
    BY DEF IInv, TypeInv, SettledInv
  <1>3. /\ lists' \in Seq(ListObj) /\ Len(lists') = Len(lists)
        /\ lists'[l].gone
        /\ \A m \in 1..Len(lists) : /\ lists'[m].default <=> lists[m].default
                                    /\ lists[m].gone => lists'[m].gone
                                    /\ m # l => (lists'[m].gone <=> lists[m].gone)
    <2> DEFINE g == [lists[l] EXCEPT !.gone = TRUE]
    <2>1. lists[l] \in ListObj
      BY <1>2
    <2>2. /\ g \in ListObj /\ g.gone
          /\ (g.default <=> lists[l].default) /\ lists' = [lists EXCEPT ![l] = g]
      BY <1>1, <2>1 DEF ListObj
    <2> HIDE DEF g
    <2>3. /\ lists' \in Seq(ListObj) /\ Len(lists') = Len(lists)
          /\ lists'[l] = g
      BY <1>2, <2>2
    <2>4. \A m \in 1..Len(lists) : m # l => lists'[m] = lists[m]
      BY <1>2, <2>2
    <2> QED
      BY <2>2, <2>3, <2>4
  <1>4. \A i \in 1..Len(store) :
          /\ store'[i] \in Obj /\ store'[i].kind \in {store[i].kind, "gone"}
          /\ (store'[i].people <=> store[i].people)
    <2> TAKE i \in 1..Len(store)
    <2> DEFINE o == [store[i] EXCEPT !.kind = "gone"]
    <2>1. store[i] \in Obj
      BY <1>2
    <2>2. o \in Obj /\ o.kind = "gone" /\ (o.people <=> store[i].people)
      BY <2>1 DEF Obj, Kinds
    <2>3. store'[i] = IF store[i].list = l THEN o ELSE store[i]
      BY <1>1 DEF Ids
    <2> HIDE DEF o
    <2> QED
      BY <2>1, <2>2, <2>3
  <1>5. store' \in Seq(Obj) /\ Len(store') = Len(store)
    BY <1>1, <1>2, <1>4 DEF Ids
  <1>6. Grows(store, store') /\ OneOverride(store')
    <2>1. Len(store) \in Nat
      BY <1>2
    <2>2. Grows(store, store')
      BY <2>1, <1>4, <1>5 DEF Grows
    <2>3. \A i \in 1..Len(store') : store'[i].kind = "override" => store[i].kind = "override"
      BY <1>4, <1>5
    <2>4. OneOverride(store')
      BY <1>2, <1>5, <2>3 DEF OneOverride
    <2> QED
      BY <2>2, <2>4
  <1>7. Others /\ invited' = invited
    BY DEF OthersDropList
  <1>8. ListInv'
    BY <1>1, <1>2, <1>3, <1>7 DEF IInv, ListInv, Default, Others, told, CallInv, Requested, NoList
  <1>9. kept' \in 0..Len(lists')
    BY <1>1, <1>2, <1>3 DEF NoList
  <1> QED
    BY <1>2, <1>3, <1>4, <1>5, <1>6, <1>7, <1>8, <1>9, OthersStep

LEMMA OthersAddDefaultStep == ASSUME IInv, OthersAddDefault PROVE IInv'
  <1>1. /\ Others /\ DefaultList = NoList /\ lists' = Append(lists, ByDefault)
        /\ UNCHANGED <<store, kept, invited>>
    BY DEF OthersAddDefault
  <1>2. /\ lists \in Seq(ListObj) /\ store \in Seq(Obj)
        /\ OneOverride(store) /\ cached \in 0..Len(lists) /\ kept \in 0..Len(lists)
    BY DEF IInv, TypeInv, SettledInv
  <1>3. \A l \in 1..Len(lists) : ~Default(l)
    BY <1>1, <1>2 DEF DefaultList, NoList
  <1>4. kept = NoList
    BY <1>2, <1>3 DEF IInv, ListInv, NoList
  <1>5. /\ lists' \in Seq(ListObj) /\ Len(lists') = Len(lists) + 1
        /\ \A l \in 1..Len(lists) : lists'[l] = lists[l]
    BY <1>1, <1>2 DEF ByDefault, ListObj
  <1>6. ListInv'
    <2>1. cached' # NoList => lists'[cached'].default
      BY <1>1, <1>2, <1>5 DEF IInv, ListInv, Others, NoList
    <2>2. \A l \in 1..Len(lists) : ~Default(l)'
      BY <1>3, <1>5 DEF Default
    <2>3. \A l, m \in 1..Len(lists') : Default(l)' /\ Default(m)' => l = m
      BY <1>2, <1>5, <2>2
    <2> QED
      BY <1>1, <1>4, <2>1, <2>3 DEF ListInv
  <1>7. Grows(store, store') /\ kept' \in 0..Len(lists') /\ Len(lists) <= Len(lists')
    BY <1>1, <1>2, <1>5 DEF Grows
  <1> QED
    BY <1>1, <1>2, <1>5, <1>6, <1>7, OthersStep

-----------------------------------------------------------------------------
(***************************************************************************)
(* The invariant holds.                                                    *)
(***************************************************************************)
LEMMA InitInv == Init => IInv
  <1> SUFFICES ASSUME Init PROVE IInv
    OBVIOUS
  <1>1. /\ Len(store) = 6 /\ store \in Seq(Obj)
        /\ \A i \in 1..6 : store[i].kind # "override"
    BY DEF Init, Object, Obj, Kinds, NoList, Old
  <1>2. /\ lists \in Seq(ListObj) /\ Len(lists) = 2
        /\ ~lists[1].default
    <2>1. Plainly \in ListObj /\ ByDefault \in ListObj /\ ~Plainly.default
      BY DEF Plainly, ByDefault, ListObj
    <2>2. PICK other \in ListObj : lists = <<Plainly, other>>
      BY <2>1 DEF Init
    <2> QED
      BY <2>1, <2>2
  <1>3. answer \in Seq(Answers)
    BY DEF Init, Answers
  <1>4. TypeInv
    <2>1. walk.at \in 0..Len(lists) /\ walk.first \in 0..Len(lists) /\ walk.pages \in 1..PageCap
      BY <1>2 DEF Init, NoWalk, NoList
    <2>2. /\ allow \in [readOnly : BOOLEAN, categories : Policy] /\ pc = "idle"
          /\ cached = 0 /\ kept = 0 /\ sends = 0 /\ calls = 0 /\ edits = 0 /\ mailed = 0
      BY DEF Init, NoList
    <2> QED
      BY <1>1, <1>2, <1>3, <2>1, <2>2 DEF TypeInv
  <1>5. CallInv /\ LookInv /\ AnswersAreTrue
    BY DEF Init, CallInv, LookInv, AnswersAreTrue, Looks
  <1>6. ListInv
    BY <1>2 DEF Init, ListInv, Default
  <1>7. SettledInv
    BY <1>1 DEF Init, SettledInv, OneOverride
  <1> QED
    BY <1>4, <1>5, <1>6, <1>7 DEF IInv

LEMMA StutterStep == ASSUME IInv, UNCHANGED vars PROVE IInv'
  <1>1. TypeInv' /\ LookInv' /\ AnswersAreTrue'
    BY DEF IInv, TypeInv, LookInv, AnswersAreTrue, DistinctIds, MailSendWithheld, vars, told, history
  <1>2. Arguments => Arguments'
    BY DEF Arguments, ArgumentsOf, Sound, Permitted, MailSendWithheld, vars, told
  <1>3. Requested => Requested'
    BY DEF Requested, vars, told
  <1>4. CallInv'
    BY <1>2, <1>3 DEF IInv, CallInv, vars, told, history
  <1>5. ListInv' /\ SettledInv'
    BY DEF IInv, ListInv, Default, SettledInv, Asserted, Ids, vars, told, history
  <1> QED
    BY <1>1, <1>4, <1>5 DEF IInv

LEMMA NextInv == IInv /\ [Next]_vars => IInv'
  <1> SUFFICES ASSUME IInv, [Next]_vars PROVE IInv'
    OBVIOUS
  <1>1. CASE Call \/ Repeat \/ Forget \/ NewClient
    BY <1>1, CallStep, RepeatStep, ForgetStep, NewClientStep
  <1>2. CASE RequireDraft \/ ListOverrides \/ ReadAttendees \/ WalkLists \/ LookupFails
    BY <1>2, RequireDraftStep, ListOverridesStep, ReadAttendeesStep, WalkListsStep, LookupFailsStep
  <1>3. CASE Answered \/ Unavailable \/ NoAnswer
    BY <1>3, AnsweredStep, UnavailableStep, NoAnswerStep
  <1>4. CASE OthersSend \/ OthersDelete \/ OthersEdit \/ OthersInvite
    BY <1>4, OthersSendStep, OthersDeleteStep, OthersEditStep, OthersInviteStep
  <1>5. CASE OthersOverride \/ OthersDropList \/ OthersAddDefault
    BY <1>5, OthersOverrideStep, OthersDropListStep, OthersAddDefaultStep
  <1>6. CASE UNCHANGED vars
    BY <1>6, StutterStep
  <1> QED
    BY <1>1, <1>2, <1>3, <1>4, <1>5, <1>6 DEF Next

\* The invariant the theorems below rest on.
THEOREM Invariant == Spec => []IInv
  BY InitInv, NextInv, PTL DEF Spec

-----------------------------------------------------------------------------
(***************************************************************************)
(* The theorems.                                                           *)
(***************************************************************************)
\* What a client repeats because the tool is called idempotent, and the upload
\* that is sent only once, leave the mailbox as their first effect left it.
THEOREM RepeatsAreHarmless == Spec => []RepeatsChangeNothing
  <1>1. IInv => RepeatsChangeNothing
    BY DEF IInv, SettledInv, RepeatsChangeNothing
  <1> QED
    BY <1>1, Invariant, PTL

\* A call, or an entry of a batch, that reports success took effect, whichever
\* responses are missing and in whatever order they come; an error that Graph
\* responded with, after a single request, did not.  Nothing is claimed of the
\* error that stands for a missing response.
THEOREM AnswersAreTrueAlways == Spec => []AnswersAreTrue
  <1>1. IInv => AnswersAreTrue
    BY DEF IInv
  <1> QED
    BY <1>1, Invariant, PTL

\* A step that sends: what Graph did of it.
LEMMA SendingReaches ==
  ASSUME IInv, Next, Sending
  PROVE  \E S \in SUBSET Parts : Reach(S)
  <1>1. pc = "write" /\ edits' = edits /\ edits \in Nat
    BY DEF Sending, IInv, TypeInv
  <1>2. ~Others
    BY <1>1 DEF Others
  <1>3. Answered \/ Unavailable \/ NoAnswer
    BY <1>1, <1>2
    DEF Next, Call, Repeat, Forget, RequireDraft, ListOverrides, ReadAttendees, WalkLists,
        LookupFails, NewClient, OthersSend, OthersDelete, OthersEdit, OthersInvite,
        OthersOverride, OthersDropList, OthersAddDefault
  <1> QED
    BY <1>3 DEF Answered, Unavailable, NoAnswer

\* A tool of the category mail_drafts changes drafts and nothing else.
THEOREM DraftsOnly == Spec => OnlyDraftsAreTouched
  <1>1. ASSUME IInv, Next, Sending, call.tool.category = "mail_drafts",
               NEW i \in Ids, store'[i] # store[i]
        PROVE  store[i].kind = "draft"
    <2>1. PICK S \in SUBSET Parts : Reach(S)
      BY <1>1, SendingReaches
    <2>2. /\ pc = "write" /\ Arguments /\ Requested /\ store' = After(S)
          /\ store \in Seq(Obj)
      BY <1>1, <2>1 DEF Sending, Reach, IInv, CallInv, TypeInv
    <2>3. /\ call.tool.on # "batch" /\ call.tool.look # "override"
          /\ \/ call.tool.look = "draft" /\ call.tool.on = "mail" /\ call.tool.do \in {"patch", "delete"}
             \/ call.tool.do = "post"
      BY <1>1, <2>2 DEF Arguments, ArgumentsOf, Sound, SoundRow
    <2> DEFINE n == call.ids[1]
    <2>4. Does(store, 1, S) /\ store' = Carried(store, n) /\ request.do = call.tool.do
      BY <1>1, <2>2, <2>3, OnePart DEF Requested
    <2>5. CASE call.tool.do = "post"
      <3>1. PICK o : store' = Append(store, o)
        BY <2>4, <2>5 DEF Carried
      <3> QED
        BY <1>1, <2>2, <3>1 DEF Ids
    <2>6. CASE call.tool.look = "draft" /\ call.tool.do \in {"patch", "delete"}
      <3>1. n \in 1..Len(store) /\ store[n].kind \in {"draft", "gone"}
        BY <1>1, <2>2, <2>3, <2>6 DEF Arguments, ArgumentsOf, IInv, LookInv
      <3>2. store[n].kind # "gone"
        BY <2>2, <2>3, <2>4, <3>1 DEF Does, Acceptable, Standing, Requested
      <3>3. PICK o : store' = [store EXCEPT ![n] = o]
        BY <2>4, <2>6 DEF Carried, Removed
      <3>4. i = n
        BY <1>1, <2>2, <3>3 DEF Ids
      <3> QED
        BY <3>1, <3>2, <3>4
    <2> QED
      BY <2>3, <2>5, <2>6
  <1>2. IInv /\ [Next]_vars =>
          [Sending /\ call.tool.category = "mail_drafts" =>
             \A i \in Ids : store'[i] # store[i] => store[i].kind = "draft"]_vars
    BY <1>1
  <1> QED
    BY <1>2, Invariant, PTL DEF Spec, OnlyDraftsAreTouched

\* Without mail_send nothing the agent wrote goes to other people, but to those
\* who were invited after the call looked.
THEOREM MailNeedsMailSend == Spec => NothingMailedWithoutMailSend
  <1>1. ASSUME IInv, Next, mailed' # mailed, allow.readOnly \/ MailSendWithheld
        PROVE  call.tool.look = "guests" /\ call.ids[1] \in invited
    <2>1. Answered \/ Unavailable \/ NoAnswer
      <3>1. ~(Call \/ Repeat \/ Forget \/ NewClient)
        <4>1. \A c : ~Start(c)
          BY <1>1 DEF Start
        <4>2. ~Call /\ ~Repeat
          BY <4>1 DEF Call, Repeat
        <4>3. ~Forget /\ ~NewClient
          BY <1>1 DEF Forget, NewClient, history
        <4> QED
          BY <4>2, <4>3
      <3>2. ~(RequireDraft \/ ListOverrides \/ ReadAttendees \/ WalkLists \/ LookupFails)
        BY <1>1 DEF RequireDraft, ListOverrides, ReadAttendees, WalkLists, LookupFails, Nothing, history
      <3>3. ~Others
        BY <1>1 DEF Others
      <3>4. ~(\/ OthersSend \/ OthersDelete \/ OthersEdit \/ OthersInvite
              \/ OthersOverride \/ OthersDropList \/ OthersAddDefault)
        BY <3>3 DEF OthersSend, OthersDelete, OthersEdit, OthersInvite,
                    OthersOverride, OthersDropList, OthersAddDefault
      <3> QED
        BY <1>1, <3>1, <3>2, <3>4 DEF Next
    <2>2. PICK S \in SUBSET Parts : Reach(S)
      BY <2>1 DEF Answered, Unavailable, NoAnswer
    <2>3. pc = "write" /\ Arguments /\ Requested /\ LookInv
      BY <1>1, <2>1 DEF Answered, Unavailable, NoAnswer, IInv, CallInv
    <2>4. PICK k \in Done(S) : Mails(store, request.ids[k])
      BY <1>1, <2>2 DEF Reach, IInv, TypeInv
    <2>5. /\ call.tool.do \notin {"mail", "send"} /\ ~call.tool.writesTo
          /\ MailSendWithheld
      BY <1>1, <2>3 DEF Arguments, ArgumentsOf, Permitted, MailSendWithheld, Sound, SoundRow
    <2>6. request.do = "reword" /\ store[request.ids[k]].people
          /\ call.tool.look = "guests" /\ call.tool.on = "event"
      BY <2>3, <2>4, <2>5 DEF Mails, Requested, Arguments, ArgumentsOf, Sound, SoundRow
    <2>7. k = 1 /\ request.ids = call.ids
      BY <2>2, <2>3, <2>4, <2>6, OnePart DEF Requested
    <2> QED
      BY <2>3, <2>5, <2>6, <2>7 DEF LookInv
  <1>2. IInv /\ [Next]_vars =>
          [mailed' # mailed /\ (allow.readOnly \/ MailSendWithheld) =>
             call.tool.look = "guests" /\ call.ids[1] \in invited]_vars
    BY <1>1 DEF vars, history
  <1> QED
    BY <1>2, Invariant, PTL DEF Spec, NothingMailedWithoutMailSend

\* A task created without a list goes to the default list, if that was the
\* default one all along.
THEOREM TasksLandInDefault == Spec => TasksGoToTheDefaultList
  <1>1. ASSUME IInv, Next, Sending, Len(store') > Len(store), call.tool.look = "list",
               call.list = NoList, kept # NoList
        PROVE  store'[Len(store')].list = kept
    <2>1. PICK S \in SUBSET Parts : Reach(S)
      BY <1>1, SendingReaches
    <2>2. /\ pc = "write" /\ Arguments /\ Requested /\ store' = After(S)
          /\ store \in Seq(Obj) /\ call.tool.on # "batch"
          /\ call.tool.do \in {"post", "patch", "stamp", "delete"} /\ call.tool.writesTo \in BOOLEAN
          /\ call.tool.do = "post" => call.tool.makes \in Kinds
      BY <1>1, <2>1
      DEF Sending, Reach, IInv, CallInv, TypeInv, Arguments, ArgumentsOf, Sound, SoundRow
    <2>3. /\ request.do = call.tool.do /\ Does(store, 1, S)
          /\ store' = Carried(store, request.ids[1])
      BY <1>1, <2>2, OnePart DEF Requested, TypeInv
    <2>4. request.list = kept
      <3>1. request.list # NoList => ~lists[request.list].gone
        BY <2>3 DEF Does, Acceptable
      <3> QED
        BY <1>1, <2>2, <3>1 DEF IInv, ListInv
    <2>5. request.do = "post"
      <3>1. ASSUME request.do \in {"patch", "stamp", "delete"} PROVE Len(store') = Len(store)
        <4>1. PICK i, o : store' = [store EXCEPT ![i] = o]
          <5>1. CASE request.do \in {"patch", "stamp"}
            BY <2>3, <5>1 DEF Carried
          <5>2. CASE request.do = "delete"
            BY <2>3, <5>2 DEF Carried, Removed
          <5> QED
            BY <3>1, <5>1, <5>2
        <4> QED
          BY <2>2, <4>1
      <3> QED
        BY <1>1, <2>2, <2>3, <3>1
    <2> DEFINE o == [Object(request.makes, request.list, call.tool.writesTo) EXCEPT !.value = Asked]
    <2>6. store' = Append(store, o) /\ o \in Obj /\ o.list = request.list
      BY <2>2, <2>3, <2>5 DEF Carried, Object, Obj, Asked, Old, Requested
    <2> HIDE DEF o
    <2>7. store'[Len(store')] = o
      BY <2>2, <2>6, AddObject
    <2> QED
      BY <2>4, <2>6, <2>7
  <1>2. IInv /\ [Next]_vars =>
          [Sending /\ Len(store') > Len(store) /\ call.tool.look = "list" /\ call.list = NoList
             /\ kept # NoList
             => store'[Len(store')].list = kept]_vars
    BY <1>1
  <1> QED
    BY <1>2, Invariant, PTL DEF Spec, TasksGoToTheDefaultList
=============================================================================
