----------------------------- MODULE Attachments -----------------------------
(***************************************************************************)
(* One call of send_with_attachments or attach_to_draft: the small files   *)
(* travel inside a message or an attachment POST, each large one through   *)
(* an upload session to which _upload_large_file PUTs its chunks in order. *)
(*                                                                         *)
(* Every request is an await: meanwhile the user can edit the files, and   *)
(* in Outlook send or delete the draft.  A request succeeds, fails without *)
(* effect, or takes effect while its answer is lost.                       *)
(***************************************************************************)
EXTENDS Integers, FiniteSets

CONSTANTS
  File,        \* the paths of the call
  Threshold,   \* _LARGE_FILE_THRESHOLD
  Chunk,       \* _UPLOAD_CHUNK_SIZE
  MaxSize,     \* bound: length of a file
  MaxEdits,    \* bound: edits of the files
  MaxFaults    \* bound: requests that fail or are refused

ASSUME AttachmentsAssumption ==
  /\ IsFiniteSet(File) /\ File # {}
  /\ Chunk \in Nat \ {0} /\ Threshold \in Nat
  /\ {MaxSize, MaxEdits, MaxFaults} \subseteq Nat

VARIABLES
  disk,      \* disk[f]: the length of f now
  draft,     \* the message at Graph: "none", "draft", "sent", "deleted"
  attached,  \* the files Graph has on the message
  op,        \* "send" or "attach"
  pc,        \* the request that is out, or how the call ended
  size,      \* size[f]: the length measured when the call began
  small,     \* small files still to POST one by one
  large,     \* large files whose session is still to open
  cur,       \* the file whose chunks are being PUT
  offset,    \* of _upload_large_file
  received,  \* at Graph: the bytes the session has
  refused,   \* history: files of which Graph refused a chunk
  edited,    \* history: files edited since they were measured
  edits, faults

world == <<disk, edited, edits>>
local == <<op, size, small, large, cur, offset>>
vars  == <<disk, draft, attached, op, pc, size, small, large, cur, offset,
           received, refused, edited, edits, faults>>

NoFile == "no file"

SmallOfStrict(s) == {f \in File : s[f] < Threshold}

\* The partition of the files by their length.
LargeOf(s) == {f \in File : s[f] > Threshold}
SmallOf(s) == File \ LargeOf(s)

Least(a, b) == IF a < b THEN a ELSE b

\* What f.read(_UPLOAD_CHUNK_SIZE) returns at offset o: at the end, nothing.
ReadAt(f, o) == IF disk[f] <= o THEN 0 ELSE Least(Chunk, disk[f] - o)

\* The request that follows when n files are still to be POSTed and l to upload.
AfterUpload(n, l) ==
  IF n # {} THEN "inline"
  ELSE IF l # {} THEN "session"
  ELSE IF op = "send" THEN "send" ELSE "returned"

-----------------------------------------------------------------------------
Init ==
  /\ disk \in [File -> 0..MaxSize]
  /\ op \in {"send", "attach"}
  /\ draft \in IF op = "send" THEN {"none"} ELSE {"draft", "sent"}
  /\ attached = {}
  /\ size = disk
  /\ large = LargeOf(disk)
  /\ small = IF op = "attach" THEN SmallOf(disk) ELSE {}
  /\ pc = IF op = "attach" THEN "check" ELSE IF large = {} THEN "sendmail" ELSE "create"
  /\ cur = NoFile /\ offset = 0 /\ received = 0
  /\ refused = {} /\ edited = {} /\ edits = 0 /\ faults = 0

\* Somebody edits a file that is being attached.
Edit(f) ==
  /\ edits < MaxEdits /\ edits' = edits + 1
  /\ \E n \in (0..MaxSize) \ {disk[f]} : disk' = [disk EXCEPT ![f] = n]
  /\ edited' = edited \cup {f}
  /\ UNCHANGED <<draft, attached, local, pc, received, refused, faults>>

\* The user sends or deletes the draft from Outlook.
UserTakesDraft ==
  /\ draft = "draft"
  /\ draft' \in {"sent", "deleted"}
  /\ UNCHANGED <<world, attached, local, pc, received, refused, faults>>

Fault == faults < MaxFaults /\ faults' = faults + 1

\* Any request can fail; the exception ends the call where it is.
Fails ==
  /\ pc \notin {"returned", "raised"}
  /\ \/ Fault
     \/ pc \in {"inline", "session", "send"} /\ draft # "draft" /\ UNCHANGED faults
  /\ pc' = "raised"
  /\ UNCHANGED <<world, draft, attached, local, received, refused>>

\* The answer to a request that took effect is a success, or lost.
Answered(next) ==
  \/ pc' = next /\ UNCHANGED faults
  \/ pc' = "raised" /\ Fault

\* Only small files: POST /sendMail with all of them inline.
SendMail ==
  /\ pc = "sendmail"
  /\ draft' = "sent" /\ attached' = File
  /\ Answered("returned")
  /\ UNCHANGED <<world, local, received, refused>>

\* POST /messages with the small files inline.
CreateDraft ==
  /\ pc = "create"
  /\ draft' = "draft" /\ attached' = SmallOf(size)
  /\ Answered("session")
  /\ UNCHANGED <<world, local, received, refused>>

\* require_draft's GET.
RequireDraft ==
  /\ pc = "check"
  /\ pc' = IF draft = "draft" THEN AfterUpload(small, large) ELSE "raised"
  /\ UNCHANGED <<world, draft, attached, local, received, refused, faults>>

\* attach_to_draft POSTs one small file.
PostInline ==
  /\ pc = "inline" /\ draft = "draft"
  /\ \E f \in small :
       /\ small' = small \ {f}
       /\ attached' = attached \cup {f}
       /\ Answered(AfterUpload(small', large))
  /\ UNCHANGED <<world, draft, op, size, large, cur, offset, received, refused>>

\* createUploadSession for the next large file, which is then opened.
OpenSession ==
  /\ pc = "session" /\ draft = "draft"
  /\ \E f \in large :
       /\ large' = large \ {f}
       /\ cur' = f
       /\ offset' = 0 /\ received' = 0
  /\ Answered("chunk")
  /\ UNCHANGED <<world, draft, attached, op, size, small, refused>>

\* A chunk of n bytes is what the session expects next: it continues the bytes
\* Graph has, and stays within the size the session was opened for.
Fits(n) == n > 0 /\ offset = received /\ offset + n <= size[cur]

OnwardStopsShort(o) ==
  /\ offset' = o
  /\ pc' = IF o + 1 < size[cur] THEN "chunk" ELSE AfterUpload(small, large)

OnwardOneMore(o) ==
  /\ offset' = o
  /\ pc' = IF o <= size[cur] THEN "chunk" ELSE AfterUpload(small, large)

\* offset += chunk_size, and on until offset reaches file_size.
Onward(o) ==
  /\ offset' = o
  /\ pc' = IF o < size[cur] THEN "chunk" ELSE AfterUpload(small, large)

\* PUT of a chunk that Graph takes; the last byte makes the attachment.
ChunkTaken ==
  LET n == ReadAt(cur, offset) IN
  /\ pc = "chunk" /\ draft = "draft" /\ Fits(n)
  /\ received' = received + n
  /\ attached' = IF received' = size[cur] THEN attached \cup {cur} ELSE attached
  /\ Onward(offset + n)
  /\ UNCHANGED <<world, draft, op, size, small, large, cur, refused, faults>>

\* PUT of a chunk that Graph refuses, because it does not fit, the message is
\* gone, or Graph is throttling: nobody reads the response's status.
ChunkRefused ==
  LET n == ReadAt(cur, offset) IN
  /\ pc = "chunk"
  /\ IF draft = "draft" /\ Fits(n) THEN Fault ELSE UNCHANGED faults
  /\ refused' = refused \cup {cur}
  /\ Onward(offset + n)
  /\ UNCHANGED <<world, draft, attached, op, size, small, large, cur, received>>

\* POST /messages/{id}/send.
Send ==
  /\ pc = "send" /\ draft = "draft"
  /\ draft' = "sent"
  /\ Answered("returned")
  /\ UNCHANGED <<world, attached, local, received, refused>>

Step ==
  \/ SendMail \/ CreateDraft \/ RequireDraft \/ PostInline \/ OpenSession
  \/ ChunkTaken \/ ChunkRefused \/ Send \/ Fails

Next == (\E f \in File : Edit(f)) \/ UserTakesDraft \/ Step

\* Graph answers every request or the client gives up on it.
Fairness == WF_vars(Step)

Spec == Init /\ [][Next]_vars /\ Fairness

-----------------------------------------------------------------------------
\* Types of all variables; no offset lies beyond the bytes there are to read.
TypeOK ==
  /\ disk \in [File -> 0..MaxSize] /\ size \in [File -> 0..MaxSize]
  /\ draft \in {"none", "draft", "sent", "deleted"}
  /\ op \in {"send", "attach"}
  /\ pc \in {"check", "sendmail", "create", "inline", "session", "chunk", "send",
             "returned", "raised"}
  /\ attached \cup small \cup large \cup refused \cup edited \subseteq File
  /\ cur \in File \cup {NoFile}
  /\ offset \in 0..MaxSize /\ received \in 0..MaxSize
  /\ edits \in 0..MaxEdits /\ faults \in 0..MaxFaults

\* A call that reports success has put every file on the message, apart from
\* the files edited meanwhile and the ones of which Graph refused a chunk.
SuccessIsComplete == pc = "returned" => File \ (refused \cup edited) \subseteq attached

\* What send_with_attachments and attach_to_draft report: every file is attached.
SuccessAttachesAll == pc = "returned" => File \subseteq attached

\* send_with_attachments sends the message only when the last byte of every
\* large file has been PUT, and attach_to_draft never sends it.
SentLast ==
  [][draft = "draft" /\ draft' = "sent" /\ pc' # pc =>
       op = "send" /\ large = {} /\ offset >= size[cur]]_vars

\* The call ends, as long as no file gets shorter than it was measured.
CallEnds == [](\A f \in File : disk[f] >= size[f]) => <>(pc \in {"returned", "raised"})
=============================================================================
