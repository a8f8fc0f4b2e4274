-------------------------- MODULE AttachmentsProofs --------------------------
(***************************************************************************)
(* Proofs about Attachments, for any files, sizes, edits and faults.       *)
(*                                                                         *)
(* The argument: a file that nobody edits and of which no chunk is refused *)
(* is attached already, or among those still to send, or the one that is   *)
(* being uploaded (AccountedInv), and then the session has exactly the     *)
(* bytes before offset (UploadInv).                                        *)
(***************************************************************************)
EXTENDS Attachments, TLAPS

USE AttachmentsAssumption DEF AttachmentsAssumption

\* Where the call is says what there is still to do.
StageInv ==
  /\ op = "send" => small = {}
  /\ pc = "check" => op = "attach" /\ small = SmallOf(size) /\ large = LargeOf(size)
  /\ pc = "sendmail" => draft = "none" /\ op = "send" /\ large = {}
  /\ pc = "create" => op = "send" /\ large = LargeOf(size)
  /\ pc \in {"session", "chunk", "send", "returned"} => small = {}
  /\ pc = "send" => op = "send" /\ large = {} /\ cur \in File /\ offset >= size[cur]

\* The session has the bytes before offset.
UploadInv ==
  pc = "chunk" => /\ cur \in File
                  /\ cur \notin refused => received = offset

\* No file without an edit or a refusal gets lost.
AccountedInv ==
  /\ \A f \in File \ edited : disk[f] = size[f]
  /\ \A f \in File \ (refused \cup edited) :
       \/ f \in attached \/ f \in large \/ f \in small
       \/ pc \in {"check", "sendmail", "create", "raised"}
       \/ pc = "chunk" /\ f = cur
  /\ pc \in {"returned", "send"} => large = {}

IInv == TypeOK /\ StageInv /\ UploadInv /\ AccountedInv

\* Every file is small or large.
LEMMA Partition ==
  ASSUME NEW s \in [File -> 0..MaxSize]
  PROVE  LargeOf(s) \subseteq File /\ SmallOf(s) \subseteq File
         /\ File = LargeOf(s) \cup SmallOf(s)
  BY DEF LargeOf, SmallOf

\* A read does not go past the end of the file.
LEMMA ReadFits ==
  ASSUME TypeOK, NEW f \in File, offset \in 0..MaxSize
  PROVE  /\ ReadAt(f, offset) \in Nat /\ offset + ReadAt(f, offset) \in 0..MaxSize
         /\ ReadAt(f, offset) = 0 <=> disk[f] <= offset
<1>1. disk[f] \in 0..MaxSize /\ MaxSize \in Nat /\ Chunk \in Nat /\ Chunk > 0
  BY DEF TypeOK
<1> QED BY <1>1 DEF ReadAt, Least

\* Where AfterUpload leads.
LEMMA AfterUploadStage ==
  ASSUME NEW n, NEW l, op \in {"send", "attach"}
  PROVE  /\ AfterUpload(n, l) \in {"inline", "session", "send", "returned"}
         /\ AfterUpload(n, l) # "inline" => n = {}
         /\ AfterUpload(n, l) \in {"send", "returned"} => l = {}
         /\ AfterUpload(n, l) = "send" => op = "send"
  BY DEF AfterUpload

LEMMA InitInv == Init => IInv
<1> SUFFICES ASSUME Init PROVE IInv
  OBVIOUS
<1>1. LargeOf(disk) \subseteq File /\ SmallOf(disk) \subseteq File
      /\ File = LargeOf(disk) \cup SmallOf(disk)
  BY Partition DEF Init
<1>2. TypeOK
  <2>1. /\ disk \in [File -> 0..MaxSize] /\ size = disk
        /\ op \in {"send", "attach"} /\ draft \in {"none", "draft", "sent", "deleted"}
    BY DEF Init
  <2>2. /\ pc \in {"check", "sendmail", "create"}
        /\ attached = {} /\ refused = {} /\ edited = {}
        /\ large \subseteq File /\ small \subseteq File
    BY <1>1 DEF Init
  <2>3. /\ cur = NoFile /\ offset = 0 /\ received = 0 /\ edits = 0 /\ faults = 0
        /\ {MaxSize, MaxEdits, MaxFaults} \subseteq Nat
    BY DEF Init
  <2> QED BY <2>1, <2>2, <2>3 DEF TypeOK
<1>3. StageInv
  <2>1. CASE op = "send"
    <3>1. /\ size = disk /\ small = {} /\ draft = "none" /\ pc \in {"sendmail", "create"}
          /\ large = LargeOf(size) /\ (pc = "sendmail" => large = {})
      BY <2>1 DEF Init
    <3> QED BY <2>1, <3>1 DEF StageInv
  <2>2. CASE op = "attach"
    <3>1. size = disk /\ small = SmallOf(size) /\ pc = "check" /\ large = LargeOf(size)
      BY <2>2 DEF Init
    <3> QED BY <2>2, <3>1 DEF StageInv
  <2> QED BY <2>1, <2>2 DEF Init
<1>4. UploadInv
  BY DEF Init, UploadInv
<1>5. AccountedInv
  BY <1>1 DEF Init, AccountedInv
<1> QED BY <1>2, <1>3, <1>4, <1>5 DEF IInv

-----------------------------------------------------------------------------
(* The steps.                                                              *)
LEMMA ChunkTakenStep == IInv /\ ChunkTaken => IInv'
<1> SUFFICES ASSUME IInv, ChunkTaken PROVE IInv'
  OBVIOUS
<1> DEFINE n == ReadAt(cur, offset)
<1>1. /\ pc = "chunk" /\ draft = "draft" /\ n > 0 /\ offset = received
      /\ offset + n <= size[cur]
      /\ received' = received + n /\ offset' = offset + n
      /\ attached' = IF received' = size[cur] THEN attached \cup {cur} ELSE attached
      /\ pc' = IF offset + n < size[cur] THEN "chunk" ELSE AfterUpload(small, large)
      /\ UNCHANGED <<world, draft, op, size, small, large, cur, refused, faults>>
  BY DEF ChunkTaken, Fits, Onward
<1>2. TypeOK /\ cur \in File
  BY <1>1 DEF IInv, UploadInv
<1>3. /\ offset \in 0..MaxSize /\ size[cur] \in 0..MaxSize /\ op \in {"send", "attach"}
      /\ n \in Nat /\ offset + n \in 0..MaxSize
  BY <1>2, ReadFits DEF TypeOK
<1> HIDE DEF n
<1>4. small = {}
  BY <1>1 DEF IInv, StageInv
<1>5. CASE offset + n < size[cur]
  <2>1. pc' = "chunk" /\ attached' = attached /\ received' = offset' /\ offset' < size[cur]
    BY <1>1, <1>3, <1>5
  <2>2. TypeOK'
    BY <1>1, <1>2, <1>3, <2>1 DEF TypeOK, world
  <2>3. StageInv'
    BY <1>1, <1>4, <2>1 DEF StageInv, IInv, world
  <2>4. UploadInv' /\ AccountedInv'
    BY <1>1, <1>2, <2>1 DEF UploadInv, AccountedInv, IInv, world
  <2> QED BY <2>2, <2>3, <2>4 DEF IInv
<1>6. CASE ~(offset + n < size[cur])
  <2>1. /\ received' = size[cur] /\ offset' = size[cur] /\ attached' = attached \cup {cur}
        /\ pc' = AfterUpload({}, large)
    BY <1>1, <1>3, <1>4, <1>6
  <2>2. /\ pc' \in {"session", "send", "returned"}
        /\ pc' \in {"send", "returned"} => large = {}
        /\ pc' = "send" => op = "send"
    BY <1>3, <2>1, AfterUploadStage DEF AfterUpload
  <2>3. TypeOK'
    BY <1>1, <1>2, <1>3, <2>1, <2>2 DEF TypeOK, world
  <2>4. StageInv'
    BY <1>1, <1>2, <1>3, <1>4, <2>1, <2>2 DEF StageInv, IInv, world
  <2>5. UploadInv' /\ AccountedInv'
    BY <1>1, <1>4, <2>1, <2>2 DEF UploadInv, AccountedInv, IInv, world
  <2> QED BY <2>3, <2>4, <2>5 DEF IInv
<1> QED BY <1>5, <1>6

LEMMA ChunkRefusedStep == IInv /\ ChunkRefused => IInv'
<1> SUFFICES ASSUME IInv, ChunkRefused PROVE IInv'
  OBVIOUS
<1> DEFINE n == ReadAt(cur, offset)
<1>1. /\ pc = "chunk" /\ faults' \in {faults, faults + 1} /\ (faults' # faults => faults < MaxFaults)
      /\ offset' = offset + n /\ refused' = refused \cup {cur}
      /\ pc' = IF offset + n < size[cur] THEN "chunk" ELSE AfterUpload(small, large)
      /\ UNCHANGED <<world, draft, attached, op, size, small, large, cur, received>>
  BY DEF ChunkRefused, Onward, Fault
<1>2. TypeOK /\ cur \in File
  BY <1>1 DEF IInv, UploadInv
<1>3. /\ offset + n \in 0..MaxSize /\ size[cur] \in 0..MaxSize /\ op \in {"send", "attach"}
      /\ faults \in 0..MaxFaults
  BY <1>2, ReadFits DEF TypeOK
<1> HIDE DEF n
<1>4. small = {}
  BY <1>1 DEF IInv, StageInv
<1>5. faults' \in 0..MaxFaults
  BY <1>1, <1>3
<1>6. /\ pc' \in {"chunk", "session", "send", "returned"}
      /\ pc' \in {"send", "returned"} => large = {}
      /\ pc' = "send" => op = "send" /\ offset' >= size[cur]
  BY <1>1, <1>3, <1>4, AfterUploadStage DEF AfterUpload
<1>7. TypeOK'
  BY <1>1, <1>2, <1>3, <1>5, <1>6 DEF TypeOK, world
<1>8. StageInv'
  BY <1>1, <1>2, <1>4, <1>6 DEF StageInv, IInv, world
<1>9. UploadInv' /\ AccountedInv'
  BY <1>1, <1>2, <1>6 DEF UploadInv, AccountedInv, IInv, world
<1> QED BY <1>7, <1>8, <1>9 DEF IInv

\* A small file goes out in a POST of its own, or a session is opened.
LEMMA SendingStep == IInv /\ (PostInline \/ OpenSession \/ CreateDraft \/ RequireDraft) => IInv'
<1> SUFFICES ASSUME IInv, PostInline \/ OpenSession \/ CreateDraft \/ RequireDraft PROVE IInv'
  OBVIOUS
<1>1. /\ TypeOK /\ op \in {"send", "attach"} /\ faults \in 0..MaxFaults /\ MaxFaults \in Nat
      /\ size \in [File -> 0..MaxSize]
  BY DEF IInv, TypeOK
<1>2. LargeOf(size) \subseteq File /\ SmallOf(size) \subseteq File
      /\ File = LargeOf(size) \cup SmallOf(size)
  BY <1>1, Partition
<1>3. CASE PostInline
  <2>1. PICK f \in small :
          /\ pc = "inline" /\ small' = small \ {f} /\ attached' = attached \cup {f}
          /\ pc' \in {AfterUpload(small', large), "raised"} /\ faults' \in 0..MaxFaults
          /\ UNCHANGED <<world, draft, op, size, large, cur, offset, received, refused>>
    BY <1>1, <1>3 DEF PostInline, Answered, Fault
  <2>2. f \in File
    BY <1>1, <2>1 DEF TypeOK
  <2>3. /\ pc' \in {"inline", "session", "send", "returned", "raised"}
        /\ pc' \notin {"inline", "raised"} => small' = {}
        /\ pc' \in {"send", "returned"} => large = {}
    BY <1>1, <2>1, AfterUploadStage
  <2>4. op = "attach"
    BY <1>1, <2>1 DEF IInv, StageInv
  <2>5. pc' # "send"
    BY <1>1, <2>1, <2>4, AfterUploadStage
  <2>6. TypeOK'
    BY <1>1, <2>1, <2>2, <2>3 DEF TypeOK, world
  <2>7. StageInv' /\ UploadInv'
    BY <2>1, <2>3, <2>4, <2>5 DEF StageInv, UploadInv, IInv, world
  <2>8. AccountedInv'
    BY <2>1, <2>3 DEF AccountedInv, IInv, world
  <2> QED BY <2>6, <2>7, <2>8 DEF IInv
<1>4. CASE OpenSession
  <2>1. PICK f \in large :
          /\ pc = "session" /\ large' = large \ {f} /\ cur' = f /\ offset' = 0 /\ received' = 0
          /\ pc' \in {"chunk", "raised"} /\ faults' \in 0..MaxFaults
          /\ UNCHANGED <<world, draft, attached, op, size, small, refused>>
    BY <1>1, <1>4 DEF OpenSession, Answered, Fault
  <2>2. f \in File
    BY <1>1, <2>1 DEF TypeOK
  <2>3. TypeOK'
    BY <1>1, <2>1, <2>2 DEF TypeOK, world
  <2>4. StageInv' /\ UploadInv'
    BY <2>1, <2>2 DEF StageInv, UploadInv, IInv, world
  <2>5. AccountedInv'
    BY <2>1 DEF AccountedInv, StageInv, IInv, world
  <2> QED BY <2>3, <2>4, <2>5 DEF IInv
<1>5. CASE CreateDraft
  <2>1. /\ pc = "create" /\ draft' = "draft" /\ attached' = SmallOf(size)
        /\ pc' \in {"session", "raised"} /\ faults' \in 0..MaxFaults
        /\ UNCHANGED <<world, local, received, refused>>
    BY <1>1, <1>5 DEF CreateDraft, Answered, Fault
  <2>2. TypeOK'
    BY <1>1, <1>2, <2>1 DEF TypeOK, world, local
  <2>3. StageInv' /\ UploadInv'
    BY <2>1 DEF StageInv, UploadInv, IInv, world, local
  <2>4. AccountedInv'
    BY <1>2, <2>1 DEF AccountedInv, StageInv, IInv, world, local
  <2> QED BY <2>2, <2>3, <2>4 DEF IInv
<1>6. CASE RequireDraft
  <2>1. /\ pc = "check" /\ pc' \in {AfterUpload(small, large), "raised"}
        /\ UNCHANGED <<world, draft, attached, local, received, refused, faults>>
    BY <1>6 DEF RequireDraft
  <2>2. /\ pc' \in {"inline", "session", "send", "returned", "raised"}
        /\ pc' \notin {"inline", "raised"} => small = {}
        /\ pc' \in {"send", "returned"} => large = {}
        /\ pc' = "send" => op = "send"
    BY <1>1, <2>1, AfterUploadStage
  <2>3. TypeOK'
    BY <1>1, <2>1, <2>2 DEF TypeOK, world, local
  <2>4. op = "attach" /\ StageInv' /\ UploadInv'
    BY <2>1, <2>2 DEF StageInv, UploadInv, IInv, world, local
  <2>5. AccountedInv'
    BY <1>2, <2>1, <2>2 DEF AccountedInv, StageInv, IInv, world, local
  <2> QED BY <2>3, <2>4, <2>5 DEF IInv
<1> QED BY <1>3, <1>4, <1>5, <1>6

LEMMA StepInv == IInv /\ [Next]_vars => IInv'
<1> SUFFICES ASSUME IInv, [Next]_vars PROVE IInv'
  OBVIOUS
<1>1. TypeOK /\ faults \in 0..MaxFaults /\ edits \in 0..MaxEdits /\ MaxFaults \in Nat
      /\ MaxEdits \in Nat
  BY DEF IInv, TypeOK
<1>2. ASSUME NEW f \in File, Edit(f) PROVE IInv'
  <2>1. PICK n \in 0..MaxSize : disk' = [disk EXCEPT ![f] = n]
    BY <1>2 DEF Edit
  <2>2. /\ edited' = edited \cup {f} /\ edits' \in 0..MaxEdits
        /\ UNCHANGED <<draft, attached, local, pc, received, refused, faults>>
    BY <1>1, <1>2 DEF Edit
  <2>3. TypeOK'
    BY <1>1, <2>1, <2>2 DEF TypeOK, local
  <2>4. StageInv' /\ UploadInv'
    BY <2>2 DEF StageInv, UploadInv, IInv, local
  <2>5. AccountedInv'
    BY <1>1, <2>1, <2>2 DEF AccountedInv, TypeOK, IInv, local
  <2> QED BY <2>3, <2>4, <2>5 DEF IInv
<1>3. CASE UserTakesDraft
  <2>1. /\ draft = "draft" /\ draft' \in {"sent", "deleted"}
        /\ UNCHANGED <<world, attached, local, pc, received, refused, faults>>
    BY <1>3 DEF UserTakesDraft
  <2> QED BY <1>1, <2>1 DEF IInv, TypeOK, StageInv, UploadInv, AccountedInv, world, local
<1>4. CASE Fails
  <2>1. /\ pc' = "raised" /\ faults' \in 0..MaxFaults
        /\ UNCHANGED <<world, draft, attached, local, received, refused>>
    BY <1>1, <1>4 DEF Fails, Fault
  <2> QED BY <1>1, <2>1 DEF IInv, TypeOK, StageInv, UploadInv, AccountedInv, world, local
<1>5. CASE SendMail
  <2>1. /\ pc = "sendmail" /\ draft' = "sent" /\ attached' = File
        /\ pc' \in {"returned", "raised"} /\ faults' \in 0..MaxFaults
        /\ UNCHANGED <<world, local, received, refused>>
    BY <1>1, <1>5 DEF SendMail, Answered, Fault
  <2>2. TypeOK'
    BY <1>1, <2>1 DEF TypeOK, world, local
  <2>3. small = {} /\ large = {}
    BY <2>1 DEF IInv, StageInv
  <2>4. StageInv' /\ UploadInv'
    BY <2>1, <2>3 DEF StageInv, UploadInv, world, local
  <2>5. AccountedInv'
    BY <2>1, <2>3 DEF IInv, AccountedInv, world, local
  <2> QED BY <2>2, <2>4, <2>5 DEF IInv
<1>6. CASE Send
  <2>1. /\ pc = "send" /\ draft' = "sent"
        /\ pc' \in {"returned", "raised"} /\ faults' \in 0..MaxFaults
        /\ UNCHANGED <<world, attached, local, received, refused>>
    BY <1>1, <1>6 DEF Send, Answered, Fault
  <2>2. TypeOK'
    BY <1>1, <2>1 DEF TypeOK, world, local
  <2>3. small = {} /\ large = {} /\ pc' # "send"
    BY <2>1 DEF IInv, StageInv
  <2>4. StageInv' /\ UploadInv'
    BY <2>1, <2>3 DEF StageInv, UploadInv, world, local
  <2>5. AccountedInv'
    BY <2>1, <2>3 DEF IInv, AccountedInv, world, local
  <2> QED BY <2>2, <2>4, <2>5 DEF IInv
<1>7. CASE UNCHANGED vars
  BY <1>1, <1>7 DEF vars, IInv, TypeOK, StageInv, UploadInv, AccountedInv, world, local
<1> QED BY <1>2, <1>3, <1>4, <1>5, <1>6, <1>7, ChunkTakenStep, ChunkRefusedStep, SendingStep
        DEF Next, Step

-----------------------------------------------------------------------------
\* IInv holds in every state of the call.
THEOREM InductiveInvariant == Spec => []IInv
  BY InitInv, StepInv, PTL DEF Spec

\* Types, and no offset beyond the bytes there are.
THEOREM TypeCorrect == Spec => []TypeOK
<1>1. IInv => TypeOK
  BY DEF IInv
<1> QED BY <1>1, InductiveInvariant, PTL

\* A success means that every file that was left alone is attached.
THEOREM SuccessesAreComplete == Spec => []SuccessIsComplete
<1>1. IInv => SuccessIsComplete
  BY DEF IInv, StageInv, AccountedInv, SuccessIsComplete
<1> QED BY <1>1, InductiveInvariant, PTL

\* The message is sent after the last byte, and never by attach_to_draft.
THEOREM MessageIsSentLast == Spec => SentLast
<1>1. IInv /\ [Next]_vars =>
        [draft = "draft" /\ draft' = "sent" /\ pc' # pc =>
           op = "send" /\ large = {} /\ offset >= size[cur]]_vars
  <2> SUFFICES ASSUME IInv, Next, draft = "draft", draft' = "sent", pc' # pc
               PROVE  op = "send" /\ large = {} /\ offset >= size[cur]
    OBVIOUS
  <2>1. Send
    <3>1. ~SendMail /\ ~CreateDraft
      BY DEF SendMail, CreateDraft, IInv, StageInv
    <3>2. ~RequireDraft /\ ~PostInline /\ ~OpenSession /\ ~ChunkTaken /\ ~ChunkRefused /\ ~Fails
      BY DEF RequireDraft, PostInline, OpenSession, ChunkTaken, ChunkRefused, Fails
    <3>3. ~UserTakesDraft /\ \A f \in File : ~Edit(f)
      BY DEF UserTakesDraft, Edit
    <3> QED BY <3>1, <3>2, <3>3 DEF Next, Step
  <2> QED BY <2>1 DEF Send, IInv, StageInv
<1> QED BY <1>1, InductiveInvariant, PTL DEF Spec, SentLast
=============================================================================
