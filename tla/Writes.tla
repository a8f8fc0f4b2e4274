------------------------------- MODULE Writes -------------------------------
(***************************************************************************)
(* The tools that change the mailbox, one call at a time, while the user   *)
(* and other clients change it too.                                        *)
(*                                                                         *)
(* A call passes the policy (permissions.py), may look something up first  *)
(* (is it a draft? is there an override? has the event attendees? which    *)
(* list is the default?), and sends one request.  Between the lookup and   *)
(* the request anything can happen.  The SDK sends a request again after   *)
(* 429, 503 and 504, the last of which may come after the request took     *)
(* effect, and a client may repeat a call whose tool is in IDEMPOTENT.     *)
(*                                                                         *)
(* Left out: arguments that are refused before any request, fields of an   *)
(* object (a value stands for them), and what EventUpdate, FolderLookup    *)
(* and Attachments model of update_event, folder names and attaching.      *)
(***************************************************************************)
EXTENDS Integers, Sequences

CONSTANTS
  Policy,    \* values of allow_categories; {} allows all
  PageCap,   \* _PAGE_CAP of the walk over the task lists
  MaxSends,  \* requests the SDK makes of one: 1 + max_retries
  MaxCalls,  \* bound: calls of the agent
  MaxEdits   \* bound: changes by others

ASSUME WritesAssumption ==
  /\ PageCap \in Nat \ {0} /\ MaxSends \in Nat \ {0}
  /\ MaxCalls \in Nat /\ MaxEdits \in Nat

VARIABLES
  allow,     \* the policy: readOnly and allow_categories
  store,     \* the mailbox; an object's id is its index, and ids are not used again
  lists,     \* the task lists, in the order of the listing
  cached,    \* the entry of _DEFAULT_LIST_BY_CLIENT, or NoList
  pc,        \* what the call does next
  call,      \* the tool and its arguments
  request,   \* the request that is sent: what to do, on which object, in which list
  walk,      \* the walk over the lists: how far it is, the first list, the pages read
  sends,     \* times the request was sent
  answer,    \* what the agent was told, for each id of the call
  mailed,    \* history: messages with text of the agent that went to other people
  applied,   \* history: the ids of the call on which it took effect, or {0}
  settled,   \* history: the store after its first effect, while nobody else changes it
  kept,      \* history: the list that was the default since the call began, or NoList
  invited,   \* history: events that got attendees since the call began
  silent,    \* history: the parts of the $batch that Graph answered without a response
  calls, edits

told    == <<pc, call, request, walk, sends, answer>>
history == <<mailed, applied, settled, kept, invited, silent>>
vars    == <<allow, store, lists, cached, told, history, calls, edits>>

NoList == 0
Old == 0   Asked == 1   Edited == 2
NotSettled == <<>>

Object(kind, list, people) == [kind |-> kind, list |-> list, people |-> people, value |-> Old]

-----------------------------------------------------------------------------
(***************************************************************************)
(* The tools: category, what the request does, to what, what it makes,     *)
(* what is looked up before, whether an argument asks to write to others.  *)
(***************************************************************************)
Tool(name, category, do, on, makes, look, writesTo) ==
  [name |-> name, category |-> category, do |-> do, on |-> on, makes |-> makes,
   look |-> look, writesTo |-> writesTo]
Plain(name, category, do, on, makes) == Tool(name, category, do, on, makes, "none", FALSE)

MailWrites ==
  {Plain("send_message", "mail_send", "mail", "none", "none"),
   Plain("reply", "mail_send", "mail", "mail", "none"),
   Plain("forward", "mail_send", "mail", "mail", "none")}

Drafts ==
  {Plain("create_draft", "mail_drafts", "post", "none", "draft"),
   Tool("update_draft", "mail_drafts", "patch", "mail", "none", "draft", FALSE),
   Tool("delete_draft", "mail_drafts", "delete", "mail", "none", "draft", FALSE),
   Plain("send_draft", "mail_send", "send", "mail", "none")}

DraftAttachments ==
  {Tool("remove_draft_attachment", "mail_drafts", "patch", "mail", "none", "draft", FALSE)}

\* delete_message moves the message to Deleted Items unless permanent.
Triage ==
  {Plain("move_message", "mail_triage", "move", "mail", "none"),
   Plain("delete_message", "mail_triage", "move", "mail", "none"),
   Plain("delete_message_permanent", "mail_triage", "delete", "mail", "none"),
   Plain("flag_message", "mail_triage", "patch", "mail", "none"),
   Plain("categorize_message", "mail_triage", "patch", "mail", "none"),
   Plain("mark_read", "mail_triage", "patch", "mail", "none"),
   Plain("reclassify_message", "mail_triage", "patch", "mail", "none")}

CopyMessage == {Plain("copy_message", "mail_triage", "copy", "mail", "none")}

BatchTriage ==
  {Plain("batch_triage_move", "mail_triage", "move", "batch", "none"),
   Plain("batch_triage_other", "mail_triage", "patch", "batch", "none")}

Overrides ==
  {Tool("set_inbox_override", "mail_triage", "patch", "none", "override", "override", FALSE),
   Plain("delete_inbox_override", "mail_triage", "delete", "override", "none")}

Folders ==
  {Plain("create_folder", "mail_folders", "post", "none", "item"),
   Plain("rename_folder", "mail_folders", "patch", "item", "none"),
   Plain("delete_folder", "mail_folders", "delete", "item", "none")}

\* Attendees and a message for the organizer are mail.
CreateEvent ==
  {Plain("create_event", "calendar_write", "post", "none", "event"),
   Tool("create_event_attendees", "calendar_write", "post", "none", "event", "none", TRUE)}

\* New words for an event go to its attendees, if it has any.
UpdateEvent ==
  {Plain("update_event_times", "calendar_write", "patch", "event", "none"),
   Tool("update_event_words", "calendar_write", "reword", "event", "none", "guests", FALSE),
   Tool("update_event_attendees", "calendar_write", "invite", "event", "none", "none", TRUE)}

DeleteOrAnswerEvent ==
  {Plain("delete_event", "calendar_write", "delete", "event", "none"),
   Plain("rsvp", "calendar_write", "respond", "event", "none"),
   Tool("rsvp_message", "calendar_write", "mail", "event", "none", "none", TRUE)}

Contacts ==
  {Plain("create_contact", "contacts_write", "post", "none", "item"),
   Plain("update_contact", "contacts_write", "patch", "item", "none"),
   Plain("delete_contact", "contacts_write", "delete", "item", "none")}

InList(name, do, on, makes) == Tool(name, "todo_write", do, on, makes, "list", FALSE)

\* complete_task writes the time of the call.
Tasks ==
  {InList("create_task", "post", "none", "task"),
   InList("update_task", "patch", "task", "none"),
   InList("complete_task", "stamp", "task", "none"),
   InList("delete_task", "delete", "task", "none")}

Checklist ==
  {InList("add_checklist_item", "post", "task", "part"),
   InList("update_checklist_item", "patch", "part", "none"),
   InList("delete_checklist_item", "delete", "part", "none")}

TaskAttachments ==
  {InList("upload_task_attachment", "post", "task", "part"),
   InList("delete_task_attachment", "delete", "part", "none")}

Tools == MailWrites \cup Drafts \cup DraftAttachments \cup Triage \cup CopyMessage
           \cup BatchTriage \cup Overrides \cup Folders \cup CreateEvent \cup UpdateEvent
           \cup DeleteOrAnswerEvent \cup Contacts \cup Tasks \cup Checklist \cup TaskAttachments

IdempotentAndComplete ==
  {"flag_message", "mark_read", "categorize_message", "rename_folder", "set_inbox_override",
   "update_checklist_item", "complete_task"}

\* The tools a client may repeat; the downloads, which write no mailbox, apart.
Idempotent ==
  {"flag_message", "mark_read", "categorize_message", "rename_folder", "set_inbox_override",
   "update_checklist_item"}

\* The requests for which the SDK's retry is turned off.
SentOnce == {"upload_task_attachment"}

-----------------------------------------------------------------------------
(***************************************************************************)
(* permissions.py.                                                         *)
(***************************************************************************)
MailSendWithheld == allow.categories # {} /\ "mail_send" \notin allow.categories

PermittedByCategory(tool) ==
  /\ ~allow.readOnly
  /\ allow.categories = {} \/ tool.category \in allow.categories

Permitted(tool) ==
  /\ ~allow.readOnly
  /\ allow.categories = {} \/ tool.category \in allow.categories
  /\ tool.writesTo => ~MailSendWithheld

-----------------------------------------------------------------------------
(***************************************************************************)
(* Graph.                                                                  *)
(***************************************************************************)
Ids == 1..Len(store)
DistinctIds == \A k, l \in 1..Len(call.ids) : call.ids[k] = call.ids[l] => k = l
Standing(s, i) == s[i].kind # "gone"
Removed(s, i) == [s EXCEPT ![i].kind = "gone"]
Default(l) == l # NoList /\ lists[l].default /\ ~lists[l].gone
DefaultList == IF \E l \in 1..Len(lists) : Default(l)
               THEN CHOOSE l \in 1..Len(lists) : Default(l) ELSE NoList

\* The kinds of object whose id a tool takes; every message has one.
Takes(on) == IF on \in {"mail", "batch"} THEN {"draft", "message"} ELSE {on}

\* The ids the agent may name: of such objects, and of mail that has gone.
Named(on)  == {i \in Ids : store[i].kind \in Takes(on) \/ (store[i].kind = "gone" /\ on = "mail")}
IdsFor(on) == IF on = "none" THEN {<<0>>}
              ELSE IF on = "batch" THEN {<<i, j>> : i, j \in Named(on)}
              ELSE {<<i>> : i \in Named(on)}

\* Whether Graph takes the request: the object is there, in that list; only
\* a draft can be sent, and a sender has one override.
Acceptable(s, i) ==
  /\ i # 0 => Standing(s, i) /\ s[i].list = request.list
  /\ request.list # NoList => ~lists[request.list].gone
  /\ request.do = "send" => s[i].kind = "draft"
  /\ request.do = "post" /\ request.makes = "override" =>
       \A j \in 1..Len(s) : s[j].kind # "override"

\* The store when Graph has done what the request says to object i.
Carried(s, i) ==
  CASE request.do \in {"patch", "reword"} -> [s EXCEPT ![i].value = Asked]
    [] request.do = "stamp"  -> [s EXCEPT ![i].value = Edited + calls]
    [] request.do = "invite" -> [s EXCEPT ![i].people = TRUE]
    [] request.do = "delete" -> Removed(s, i)
    [] request.do = "move"   -> Append(Removed(s, i), s[i])
    [] request.do = "copy"   -> Append(s, s[i])
    [] request.do = "send"   -> Append(Removed(s, i), [s[i] EXCEPT !.kind = "message"])
    [] request.do = "post"   -> Append(s, [Object(request.makes, request.list, call.tool.writesTo)
                                               EXCEPT !.value = Asked])
    [] request.do \in {"mail", "respond"} -> s

\* Whether text of the agent goes to other people with it.
Mails(s, i) == request.do \in {"mail", "send"} \/ call.tool.writesTo
               \/ (request.do = "reword" /\ s[i].people)

-----------------------------------------------------------------------------
NoCall == [tool |-> Plain("none", "none", "none", "none", "none"), ids |-> <<0>>, list |-> NoList]
NoRequest == [do |-> "none", makes |-> "none", list |-> NoList, ids |-> <<0>>]
NoWalk == [at |-> 0, first |-> NoList, pages |-> 1]

Plainly   == [default |-> FALSE, gone |-> FALSE]
ByDefault == [default |-> TRUE, gone |-> FALSE]

\* A draft, a message, an event of one's own and one with attendees, a folder
\* or contact, a task in the second list, which may be the default one.
Init ==
  /\ allow \in [readOnly : BOOLEAN, categories : Policy]
  /\ store = <<Object("draft", NoList, FALSE), Object("message", NoList, FALSE),
               Object("event", NoList, FALSE), Object("event", NoList, TRUE),
               Object("item", NoList, FALSE), Object("task", 2, FALSE)>>
  /\ lists \in {<<Plainly, ByDefault>>, <<Plainly, Plainly>>}
  /\ cached = NoList
  /\ pc = "idle" /\ call = NoCall /\ request = NoRequest /\ walk = NoWalk
  /\ sends = 0 /\ answer = <<"none">>
  /\ mailed = 0 /\ applied = {} /\ settled = NotSettled /\ kept = NoList /\ invited = {}
  /\ silent = {}
  /\ calls = 0 /\ edits = 0

\* Where a call begins: a list that is given or cached needs no walk, and only
\* a policy that withholds mail_send pays for the look at the attendees.
FirstStep(c) ==
  CASE c.tool.look = "list" -> IF c.list = NoList /\ cached = NoList THEN "list" ELSE "write"
    [] c.tool.look = "guests" -> IF MailSendWithheld THEN "guests" ELSE "write"
    [] c.tool.look = "none" -> "write"
    [] OTHER -> c.tool.look

Start(c) ==
  /\ calls < MaxCalls
  /\ Permitted(c.tool)
  /\ pc' = FirstStep(c)
  /\ call' = c
  /\ request' = [do |-> c.tool.do, makes |-> c.tool.makes, ids |-> c.ids,
                 list |-> IF c.tool.look # "list" THEN NoList
                          ELSE IF c.list # NoList THEN c.list ELSE cached]
  /\ walk' = NoWalk /\ sends' = 0 /\ answer' = <<"none">>
  /\ applied' = {} /\ kept' = DefaultList /\ invited' = {} /\ silent' = {}
  /\ calls' = calls + 1
  /\ UNCHANGED <<allow, store, lists, cached, mailed, edits>>

\* The agent calls a tool; a call that is not permitted changes nothing.
Call ==
  /\ pc = "idle"
  /\ \E tool \in Tools : \E ids \in IdsFor(tool.on) :
     \E list \in IF tool.look = "list" THEN 0..Len(lists) ELSE {NoList} :
       Start([tool |-> tool, ids |-> ids, list |-> list])
  /\ UNCHANGED settled

\* A client repeats a call that did not succeed, as the hint says it may.
Repeat == /\ pc = "told" /\ call.tool.name \in Idempotent
          /\ answer[1] # "success"
          /\ Start(call)
          /\ UNCHANGED settled

\* The agent has read the answer and is done with the call.
Forget == /\ pc = "told"
          /\ pc' = "idle" /\ call' = NoCall /\ request' = NoRequest /\ walk' = NoWalk
          /\ sends' = 0 /\ answer' = <<"none">>
          /\ applied' = {} /\ settled' = NotSettled /\ kept' = NoList /\ invited' = {}
          /\ silent' = {}
          /\ UNCHANGED <<allow, store, lists, cached, mailed, calls, edits>>

End(a) == pc' = "told" /\ answer' = a
Nothing == UNCHANGED <<allow, store, history, calls, edits>>

-----------------------------------------------------------------------------
(***************************************************************************)
(* What is looked up before the request.                                   *)
(***************************************************************************)
RequireDraftUnchecked ==
  /\ pc = "draft"
  /\ pc' = "write"
  /\ Nothing /\ UNCHANGED <<lists, cached, call, request, walk, sends, answer>>

\* require_draft: only an explicit isDraft = True passes.
RequireDraft ==
  /\ pc = "draft"
  /\ IF store[call.ids[1]].kind = "draft" THEN pc' = "write" /\ answer' = answer
     ELSE End(<<"error">>)
  /\ Nothing /\ UNCHANGED <<lists, cached, call, request, walk, sends>>

\* set_inbox_override: PATCH the override of the sender, POST if there is none.
ListOverrides ==
  /\ pc = "override"
  /\ pc' = "write"
  /\ LET existing == {i \in Ids : store[i].kind = "override"} IN
     \/ \E i \in existing : request' = [request EXCEPT !.ids = <<i>>]
     \/ existing = {} /\ request' = [request EXCEPT !.do = "post"]
  /\ Nothing /\ UNCHANGED <<lists, cached, call, walk, sends, answer>>

\* update_event under a policy without mail_send reads the attendees.
ReadAttendees ==
  /\ pc = "guests"
  /\ LET e == store[call.ids[1]] IN
     IF Standing(store, call.ids[1]) /\ ~e.people THEN pc' = "write" /\ answer' = answer
     ELSE End(<<"error">>)
  /\ invited' = {}
  /\ UNCHANGED <<allow, store, lists, cached, call, request, walk, sends, mailed, applied, settled,
                 kept, silent, calls, edits>>

\* _resolve_list_id: a page of the walk over the lists, here one list long.
\* Only a default list that was found is cached.
Found(l)  == cached' = l /\ request' = [request EXCEPT !.list = l] /\ pc' = "write"
SettleAndCache(l) == Found(l)
Settle(l) == cached' = cached /\ request' = [request EXCEPT !.list = l] /\ pc' = "write"

Left == {l \in 1..Len(lists) : l > walk.at /\ ~lists[l].gone}

WalkLists ==
  /\ pc = "list"
  /\ \/ \E next \in Left :
          LET first == IF walk.first = NoList THEN next ELSE walk.first
              more  == Left # {next} IN
          /\ \A l \in Left : next <= l
          /\ \/ /\ lists[next].default
                /\ Found(next) /\ UNCHANGED <<walk, answer>>
             \/ /\ ~lists[next].default /\ ~more
                /\ Settle(first) /\ UNCHANGED <<walk, answer>>
             \/ /\ ~lists[next].default /\ more
                /\ IF walk.pages + 1 > PageCap
                   THEN End(<<"error">>) /\ UNCHANGED walk
                   ELSE /\ walk' = [at |-> next, first |-> first, pages |-> walk.pages + 1]
                        /\ UNCHANGED <<pc, answer>>
                /\ UNCHANGED <<cached, request>>
     \/ /\ Left = {} /\ walk.first # NoList
        /\ Settle(walk.first) /\ UNCHANGED <<walk, answer>>
     \/ /\ Left = {} /\ walk.first = NoList
        /\ End(<<"error">>) /\ UNCHANGED <<walk, cached, request>>
  /\ Nothing /\ UNCHANGED <<lists, call, sends>>

\* A lookup that fails ends the call.
LookupFails ==
  /\ pc \in {"draft", "override", "guests", "list"}
  /\ End(<<"error">>)
  /\ Nothing /\ UNCHANGED <<lists, cached, call, request, walk, sends>>

-----------------------------------------------------------------------------
(***************************************************************************)
(* The request.  A $batch has a part for each of (at most two) ids; Graph  *)
(* does the parts in S, one after the other, and throttles the rest.       *)
(***************************************************************************)
Parts == 1..Len(request.ids)
Does(s, k, S) == k \in S /\ Acceptable(s, request.ids[k])
Part(s, k, S) == IF Does(s, k, S) THEN Carried(s, request.ids[k]) ELSE s
First(S) == Part(store, 1, S)
After(S) == Part(First(S), 2, S)
Done(S)  == {k \in S : Does(IF k = 1 THEN store ELSE First(S), k, S)}

Reach(S) ==
  /\ store' = After(S)
  /\ applied' = applied \cup {call.ids[k] : k \in Done(S)}
  /\ mailed' = mailed + IF \E k \in Done(S) : Mails(store, request.ids[k]) THEN 1 ELSE 0
  /\ settled' = IF /\ settled = NotSettled /\ Done(S) # {}
                   /\ call.tool.name \in Idempotent \cup SentOnce
                THEN After(S) ELSE settled
  /\ sends' = sends + 1
  /\ UNCHANGED <<allow, lists, cached, call, request, walk, kept, invited, calls, edits>>

Verdict(k, S) == IF k \in Done(S) THEN "success" ELSE "error"

ResultByPosition(k, S, heard, last) ==
  IF k \in heard THEN Verdict(last, S) ELSE "error"

\* batch_triage: sub-responses are matched by their id, in any order, and kept
\* by message: of two for one message the last counts.  A message without any
\* is an error, too ("no response from batch").
ResultOf(k, S, heard, last) ==
  LET mine == {l \in heard : call.ids[l] = call.ids[k]} IN
  IF mine = {} THEN "error" ELSE Verdict(IF last \in mine THEN last
                                         ELSE CHOOSE l \in mine : TRUE, S)

Answered ==
  /\ pc = "write"
  /\ \E S \in SUBSET Parts, last \in Parts :
     \E heard \in IF call.tool.on = "batch" THEN SUBSET Parts ELSE {Parts} :
       /\ Reach(S)
       /\ End([k \in Parts |-> ResultOf(k, S, heard, last)])
       /\ silent' = Parts \ heard

\* 429, 503 or 504: the SDK sends the request again, or gives up.
Unavailable ==
  /\ pc = "write"
  /\ \E S \in SUBSET Parts : Reach(S)
  /\ UNCHANGED silent
  /\ IF sends + 1 < MaxSends /\ call.tool.name \notin SentOnce THEN UNCHANGED <<pc, answer>>
     ELSE End([k \in Parts |-> "unknown"])

\* The connection fails, before or after the request got there.
NoAnswer ==
  /\ pc = "write"
  /\ \E S \in SUBSET Parts : Reach(S)
  /\ UNCHANGED silent
  /\ End([k \in Parts |-> "unknown"])

\* The client of Graph is replaced, and the cache with it.
NewClient == /\ pc = "idle" /\ cached # NoList /\ cached' = NoList
             /\ UNCHANGED <<allow, store, lists, told, history, calls, edits>>

-----------------------------------------------------------------------------
(***************************************************************************)
(* The user, other clients, other people.                                  *)
(***************************************************************************)
Others == /\ edits < MaxEdits /\ edits' = edits + 1
          /\ settled' = NotSettled
          /\ UNCHANGED <<allow, cached, told, mailed, applied, silent, calls>>
Leaves == UNCHANGED <<lists, kept, invited>>

OthersSend == /\ Others /\ Leaves
              /\ \E i \in Ids : /\ store[i].kind = "draft"
                               /\ store' = Append(Removed(store, i),
                                                  [store[i] EXCEPT !.kind = "message"])

OthersDelete == /\ Others /\ Leaves
                /\ \E i \in Ids : Standing(store, i) /\ store' = Removed(store, i)

OthersEdit == /\ Others /\ Leaves
              /\ \E i \in Ids : Standing(store, i) /\ store' = [store EXCEPT ![i].value = Edited]

OthersInvite == /\ Others /\ UNCHANGED <<lists, kept>>
                /\ \E i \in Ids : /\ store[i].kind = "event" /\ ~store[i].people
                                 /\ store' = [store EXCEPT ![i].people = TRUE]
                                 /\ invited' = invited \cup {i}

OthersOverride == /\ Others /\ Leaves
                  /\ \A i \in Ids : store[i].kind # "override"
                  /\ store' = Append(store, Object("override", NoList, FALSE))

\* A list goes with its tasks.
OthersDropList ==
  /\ Others
  /\ \E l \in 1..Len(lists) :
       /\ ~lists[l].gone
       /\ lists' = [lists EXCEPT ![l].gone = TRUE]
       /\ store' = [i \in Ids |-> IF store[i].list = l THEN [store[i] EXCEPT !.kind = "gone"]
                                 ELSE store[i]]
       /\ kept' = IF kept = l THEN NoList ELSE kept
  /\ UNCHANGED invited

OthersAddDefault ==
  /\ Others
  /\ DefaultList = NoList
  /\ lists' = Append(lists, ByDefault)
  /\ UNCHANGED <<store, kept, invited>>

Next ==
  \/ Call \/ Repeat \/ Forget
  \/ RequireDraft \/ ListOverrides \/ ReadAttendees \/ WalkLists \/ LookupFails
  \/ Answered \/ Unavailable \/ NoAnswer
  \/ NewClient
  \/ OthersSend \/ OthersDelete \/ OthersEdit \/ OthersInvite \/ OthersOverride
  \/ OthersDropList \/ OthersAddDefault

Spec == Init /\ [][Next]_vars

-----------------------------------------------------------------------------
(***************************************************************************)
(* Properties.                                                             *)
(***************************************************************************)
\* A step that sends the request of the call.
Sending == pc = "write" /\ edits' = edits

\* What a client repeats because the tool is called idempotent, and the upload
\* that is sent only once, leave the mailbox as their first effect left it,
\* however often requests are sent again or lose their answers
\* (toolsets.py:187, todo_attachments.py:299).
RepeatsChangeNothing == settled # NotSettled => store = settled

\* A tool of the category mail_drafts changes drafts and nothing else, whatever
\* id it is given and whatever the user does to the draft meanwhile
\* (mail_drafts.py:40, README "drafts only, no send").
OnlyDraftsAreTouched ==
  [][Sending /\ call.tool.category = "mail_drafts" =>
       \A i \in Ids : store'[i] # store[i] => store[i].kind = "draft"]_vars

\* Without mail_send nothing the agent wrote goes to other people, except to
\* those who were invited after the call looked (permissions.py:74).
NothingMailedWithoutMailSend ==
  [][mailed' # mailed /\ (allow.readOnly \/ MailSendWithheld) =>
       call.tool.look = "guests" /\ call.ids[1] \in invited]_vars

\* A call, or an entry of a batch, that reports success took effect on that id,
\* in whatever order the responses came and whichever are missing.  One that
\* reports an error did not, where Graph's response says so: it was sent once,
\* with each id once, and Graph responded to it.  An entry to which Graph did
\* not respond is an error as well, and may have taken effect (batch.py:113-132).
AnswersAreTrue ==
  pc = "told" =>
    \A k \in 1..Len(answer) :
      /\ answer[k] = "success" => call.ids[k] \in applied
      /\ answer[k] = "error" /\ sends <= 1 /\ DistinctIds /\ k \notin silent
           => call.ids[k] \notin applied

\* A task created without a list goes to the default list, if that was the
\* default one all along, in spite of the cache and of the fallback to the
\* first list (todo.py:123-201).
TasksGoToTheDefaultList ==
  [][/\ Sending /\ Len(store') > Len(store) /\ call.tool.look = "list" /\ call.list = NoList
     /\ kept # NoList
     => store'[Len(store')].list = kept]_vars
=============================================================================
