--------------------------- MODULE DropboxProofs ---------------------------
(***************************************************************************)
(* Proofs about the file service and the device agent, for any number of   *)
(* uploads, servers, paths and faults.  The agent and the other clients    *)
(* touch the service by posting only, so what holds of the service holds   *)
(* of both together.                                                       *)
(***************************************************************************)
EXTENDS DeviceAgent, TLAPS

Posted == [pc : Received \cup Answers, body : Contents]
HasUploads == upload \in [Uploads -> {NoUpload} \cup Posted]

(* What an upload has behind it at each of its steps.                      *)
Progress(i) ==
    /\ upload[i].pc \in {"read", "absent", "moved", "stored", "created"} =>
          upload[i].body \notin TooLarge
    /\ upload[i].pc \in {"stored", "created"} => upload[i].body \in objects
    /\ i \in temps => upload[i].pc \in {"reading", "read", "absent", "error"}
    /\ i \in DOMAIN metadata <=> upload[i].pc = "created"
    /\ i \in DOMAIN metadata => metadata[i] = upload[i].body

(* A file under the second temporary name has an upload that will move it. *)
MovedByOne ==
    serverFaults = 0 =>
        \A c \in moving : \E i \in Uploads : At(i, "moved") /\ upload[i].body = c

ServiceInv ==
    /\ HasUploads
    /\ temps \subseteq Uploads
    /\ moving \subseteq Contents \ TooLarge
    /\ objects \subseteq Contents \ TooLarge
    /\ DOMAIN metadata \subseteq Uploads
    /\ serverFaults \in 0..MaxServerFaults
    /\ \A i \in Uploads : Progress(i)
    /\ MovedByOne

(* A client posts: all the agent and others ever do to the service.        *)
AnyPost == \E i \in Uploads, c \in Contents : Post(i, c)

(* What every step does to the uploads and to the files that are there.    *)
BodiesKept ==
    \A i \in Uploads : upload[i].pc # "unused" =>
        upload'[i].pc # "unused" /\ upload'[i].body = upload[i].body
FilesKept ==
    \A i \in DOMAIN metadata : i \in DOMAIN metadata' /\ Read(i)' = Read(i)

(* What the agent knows after it has hashed the file: as long as the file  *)
(* is still, sha, mtime and the body sent are the file's; a path that is   *)
(* not still, or is being sent, has no quiet row.                          *)
Snapshot ==
    work.step \in {"stat", "upload", "wait"} =>
        /\ work.still => Exists(work.path) /\ work.sha = Now.content
        /\ ~work.still \/ work.step # "stat" =>
              work.path \notin quiet /\ (work.still => work.mtime = Now.mtime)
        /\ work.step = "wait" =>
              /\ upload[work.request].pc # "unused"
              /\ work.still => upload[work.request].body = work.sha

(* The row of a quiet path tells what is in the folder. *)
QuietRows ==
    \A p \in quiet : /\ synced[p].sha = folder[p].content
                     /\ synced[p].mtime = folder[p].mtime

AgentInv == AgentTypeOK /\ RowsResolve /\ Snapshot /\ QuietRows

(* What a reader finds. *)
FileMap == [i \in DOMAIN metadata |-> Read(i)]

USE DEF Received, Answers
-----------------------------------------------------------------------------
(* Lemma: an upload that has begun has a body. *)
LEMMA BodyIsContent ==
    ASSUME HasUploads, NEW i \in Uploads, upload[i].pc # "unused"
    PROVE  upload[i] \in Posted /\ upload[i].body \in Contents
<1>1. upload[i] \in {NoUpload} \cup Posted
  BY DEF HasUploads
<1>2. NoUpload.pc = "unused"
  BY DEF NoUpload
<1>3. upload[i] \in Posted
  BY <1>1, <1>2
<1> QED  BY <1>3 DEF Posted

(* Lemma: an upload that goes on keeps its body, and the others theirs. *)
LEMMA GotoUpload ==
    ASSUME HasUploads, NEW i \in Uploads, upload[i].pc # "unused",
           NEW pc \in Received \cup Answers, Goto(i, pc)
    PROVE  /\ HasUploads'
           /\ upload'[i].pc = pc /\ upload'[i].body = upload[i].body
           /\ \A j \in Uploads \ {i} : upload'[j] = upload[j]
<1>1. upload[i] \in Posted
  BY BodyIsContent
<1>2. [upload[i] EXCEPT !.pc = pc] \in Posted
  BY <1>1 DEF Posted
<1>3. upload' = [upload EXCEPT ![i] = [upload[i] EXCEPT !.pc = pc]]
  BY DEF Goto
<1>4. [upload[i] EXCEPT !.pc = pc].pc = pc /\ [upload[i] EXCEPT !.pc = pc].body = upload[i].body
  BY <1>1 DEF Posted
<1> QED  BY <1>1, <1>2, <1>3, <1>4 DEF HasUploads

(* Lemma: an upload that moves nothing leaves that to the others. *)
LEMMA MoversStay ==
    ASSUME MovedByOne, NEW i \in Uploads, upload[i].pc # "moved",
           \A j \in Uploads \ {i} : upload'[j] = upload[j],
           moving' = moving, serverFaults' = serverFaults
    PROVE  MovedByOne'
<1> SUFFICES ASSUME serverFaults' = 0, NEW c \in moving'
             PROVE  \E j \in Uploads : At(j, "moved")' /\ upload'[j].body = c
  BY DEF MovedByOne
<1>1. PICK j \in Uploads : At(j, "moved") /\ upload[j].body = c
  BY DEF MovedByOne
<1>2. j # i
  BY <1>1 DEF At
<1> QED  BY <1>1, <1>2 DEF At

(* Lemma: the service begins with the invariant. *)
LEMMA ServiceStarts == ASSUME ServiceInit PROVE ServiceInv
<1> USE ServiceAssumption DEF ServiceInit
<1>1. HasUploads
  BY DEF HasUploads
<1>2. \A i \in Uploads : upload[i].pc = "unused"
  BY DEF NoUpload
<1>3. DOMAIN metadata = {}
  OBVIOUS
<1> QED  BY <1>1, <1>2, <1>3 DEF ServiceInv, Progress, MovedByOne

(* Lemma: a post keeps the invariant. *)
LEMMA PostKeeps == ASSUME ServiceInv, AnyPost PROVE ServiceInv'
<1> PICK i \in Uploads, c \in Contents : Post(i, c)
  BY DEF AnyPost
<1>1. upload[i].pc = "unused"
  BY DEF Post, Unused
<1>2. /\ HasUploads'
      /\ upload'[i].pc = "reading"
      /\ \A j \in Uploads \ {i} : upload'[j] = upload[j]
  BY DEF Post, HasUploads, ServiceInv, Posted
<1>3. UNCHANGED <<moving, objects, metadata, serverFaults>> /\ temps' = temps \cup {i}
  BY DEF Post
<1>4. ASSUME NEW j \in Uploads PROVE Progress(j)'
  BY <1>1, <1>2, <1>3 DEF ServiceInv, Progress
<1>5. MovedByOne'
  BY <1>1, <1>2, <1>3, MoversStay DEF ServiceInv
<1> QED  BY <1>2, <1>3, <1>4, <1>5 DEF ServiceInv

(* Lemma: each step of an upload keeps the invariant. *)
LEMMA StepKeeps == ASSUME ServiceInv, NEW i \in Uploads, ServiceStep(i) PROVE ServiceInv'
<1> DEFINE Others == \A j \in Uploads \ {i} : upload'[j] = upload[j]
<1>h. HasUploads
  BY DEF ServiceInv
<1>1. CASE ReadBody(i)
  <2>1. upload[i].pc = "reading"
    BY <1>1 DEF ReadBody, At
  <2>2. /\ HasUploads' /\ Others
        /\ upload'[i].pc \in {"read", "too large"}
        /\ upload'[i].body = upload[i].body
        /\ upload'[i].pc = "read" => upload[i].body \notin TooLarge /\ temps' = temps
        /\ upload'[i].pc = "too large" => temps' = temps \ {i}
    <3>1. CASE upload[i].body \in TooLarge
      <4>1. Goto(i, "too large") /\ temps' = temps \ {i}
        BY <1>1, <3>1 DEF ReadBody
      <4>2. /\ HasUploads' /\ upload'[i].pc = "too large"
            /\ upload'[i].body = upload[i].body /\ Others
        BY <1>h, <2>1, <4>1, GotoUpload
      <4> QED  BY <4>1, <4>2
    <3>2. CASE upload[i].body \notin TooLarge
      <4>1. Goto(i, "read") /\ temps' = temps
        BY <1>1, <3>2 DEF ReadBody
      <4>2. /\ HasUploads' /\ upload'[i].pc = "read"
            /\ upload'[i].body = upload[i].body /\ Others
        BY <1>h, <2>1, <4>1, GotoUpload
      <4> QED  BY <3>2, <4>1, <4>2
    <3> QED  BY <3>1, <3>2
  <2>3. UNCHANGED <<moving, objects, metadata, serverFaults>>
    BY <1>1 DEF ReadBody
  <2>4. ASSUME NEW j \in Uploads PROVE Progress(j)'
    BY <2>1, <2>2, <2>3 DEF ServiceInv, Progress
  <2>5. MovedByOne'
    BY <2>1, <2>2, <2>3, MoversStay DEF ServiceInv
  <2> QED  BY <2>2, <2>3, <2>4, <2>5 DEF ServiceInv
<1>2. CASE FindTarget(i)
  <2>1. upload[i].pc = "read"
    BY <1>2 DEF FindTarget, At
  <2>2. /\ HasUploads' /\ Others
        /\ upload'[i].pc \in {"stored", "absent"}
        /\ upload'[i].body = upload[i].body
        /\ upload'[i].pc = "stored" => upload[i].body \in objects /\ temps' = temps \ {i}
        /\ upload'[i].pc = "absent" => temps' = temps
    <3>1. CASE upload[i].body \in objects
      <4>1. Goto(i, "stored") /\ temps' = temps \ {i}
        BY <1>2, <3>1 DEF FindTarget
      <4>2. /\ HasUploads' /\ upload'[i].pc = "stored"
            /\ upload'[i].body = upload[i].body /\ Others
        BY <1>h, <2>1, <4>1, GotoUpload
      <4> QED  BY <3>1, <4>1, <4>2
    <3>2. CASE upload[i].body \notin objects
      <4>1. Goto(i, "absent") /\ temps' = temps
        BY <1>2, <3>2 DEF FindTarget
      <4>2. /\ HasUploads' /\ upload'[i].pc = "absent"
            /\ upload'[i].body = upload[i].body /\ Others
        BY <1>h, <2>1, <4>1, GotoUpload
      <4> QED  BY <4>1, <4>2
    <3> QED  BY <3>1, <3>2
  <2>3. UNCHANGED <<moving, objects, metadata, serverFaults>>
    BY <1>2 DEF FindTarget
  <2>4. ASSUME NEW j \in Uploads PROVE Progress(j)'
    BY <2>1, <2>2, <2>3 DEF ServiceInv, Progress
  <2>5. MovedByOne'
    BY <2>1, <2>2, <2>3, MoversStay DEF ServiceInv
  <2> QED  BY <2>2, <2>3, <2>4, <2>5 DEF ServiceInv
<1>3. CASE MoveToTemp(i)
  <2>1. upload[i].pc = "absent" /\ upload[i].body \in Contents \ TooLarge
    <3>1. upload[i].pc = "absent" /\ upload[i].body \notin TooLarge
      BY <1>3 DEF ServiceInv, MoveToTemp, At, Progress
    <3> QED  BY <1>h, <3>1, BodyIsContent
  <2>2. /\ HasUploads' /\ Others
        /\ upload'[i].pc = "moved" /\ upload'[i].body = upload[i].body
    BY <1>h, <1>3, <2>1, GotoUpload DEF MoveToTemp
  <2>3. /\ temps' = temps \ {i} /\ moving' = moving \cup {upload[i].body}
        /\ UNCHANGED <<objects, metadata, serverFaults>>
    BY <1>3 DEF MoveToTemp
  <2>4. ASSUME NEW j \in Uploads PROVE Progress(j)'
    BY <2>1, <2>2, <2>3 DEF ServiceInv, Progress
  <2>5. MovedByOne'
    BY <2>1, <2>2, <2>3 DEF ServiceInv, At, MovedByOne
  <2> QED  BY <2>1, <2>2, <2>3, <2>4, <2>5 DEF ServiceInv
<1>4. CASE MoveToTarget(i)
  <2>1. upload[i].pc = "moved"
    BY <1>4 DEF MoveToTarget, At
  <2>2. /\ HasUploads' /\ Others
        /\ upload'[i].body = upload[i].body
        /\ \/ /\ upload'[i].pc = "stored" /\ upload[i].body \in moving
              /\ moving' = moving \ {upload[i].body}
              /\ objects' = objects \cup {upload[i].body}
           \/ /\ upload'[i].pc = "error" /\ upload[i].body \notin moving
              /\ UNCHANGED <<moving, objects>>
    BY <1>h, <1>4, <2>1, GotoUpload DEF MoveToTarget
  <2>3. UNCHANGED <<temps, metadata, serverFaults>>
    BY <1>4 DEF MoveToTarget
  <2>4. ASSUME NEW j \in Uploads PROVE Progress(j)'
    BY <2>1, <2>2, <2>3 DEF ServiceInv, Progress
  <2>5. MovedByOne'
    BY <2>1, <2>2, <2>3 DEF ServiceInv, At, MovedByOne
  <2> QED  BY <2>2, <2>3, <2>4, <2>5 DEF ServiceInv
<1>5. CASE PutMetadata(i)
  <2>1. upload[i].pc = "stored"
    BY <1>5 DEF PutMetadata, At
  <2>2. /\ HasUploads' /\ Others
        /\ upload'[i].pc = "created" /\ upload'[i].body = upload[i].body
    BY <1>h, <1>5, <2>1, GotoUpload DEF PutMetadata
  <2>3. /\ DOMAIN metadata' = DOMAIN metadata \cup {i}
        /\ metadata'[i] = upload[i].body
        /\ \A j \in DOMAIN metadata \ {i} : metadata'[j] = metadata[j]
        /\ UNCHANGED <<temps, moving, objects, serverFaults>>
    BY <1>5 DEF PutMetadata, Record
  <2>4. ASSUME NEW j \in Uploads PROVE Progress(j)'
    BY <2>1, <2>2, <2>3 DEF ServiceInv, Progress
  <2>5. MovedByOne'
    BY <2>1, <2>2, <2>3, MoversStay DEF ServiceInv
  <2> QED  BY <2>2, <2>3, <2>4, <2>5 DEF ServiceInv
<1> QED  BY <1>1, <1>2, <1>3, <1>4, <1>5 DEF ServiceStep

(* Lemma: faults keep the invariant. *)
LEMMA FaultKeeps ==
    ASSUME ServiceInv,
           \/ \E i \in Uploads : UploadFails(i)
           \/ \E s \in Servers : ServerDies(s)
    PROVE  ServiceInv'
<1> USE ServiceAssumption DEF ServiceInv
<1>1. /\ serverFaults < MaxServerFaults /\ serverFaults' = serverFaults + 1
      /\ UNCHANGED <<temps, moving, objects, metadata>>
  BY DEF UploadFails, ServerDies
<1>2. /\ HasUploads'
      /\ \A j \in Uploads : \/ upload'[j] = upload[j]
                            \/ upload[j].pc \in Received /\ upload'[j].pc = "error"
  <2>1. ASSUME NEW i \in Uploads, UploadFails(i)
        PROVE  /\ HasUploads'
               /\ upload[i].pc \in Received /\ upload'[i].pc = "error"
               /\ \A j \in Uploads \ {i} : upload'[j] = upload[j]
    <3>1. Goto(i, "error") /\ upload[i].pc \in Received
      BY <2>1 DEF UploadFails
    <3> QED  BY <3>1, GotoUpload
  <2>2. ASSUME NEW s \in Servers, ServerDies(s)
        PROVE  /\ HasUploads'
               /\ \A j \in Uploads : \/ upload'[j] = upload[j]
                                     \/ upload[j].pc \in Received /\ upload'[j].pc = "error"
    <3> DEFINE Lost == {i \in Uploads : upload[i].pc \in Received /\ ServerOf[i] = s}
               Failed(j) == [upload[j] EXCEPT !.pc = "error"]
    <3>1. upload' = [j \in Uploads |-> IF j \in Lost THEN Failed(j) ELSE upload[j]]
      BY <2>2 DEF ServerDies
    <3>2. ASSUME NEW j \in Lost PROVE Failed(j) \in Posted /\ Failed(j).pc = "error"
      BY BodyIsContent DEF Posted
    <3>3. ASSUME NEW j \in Uploads
          PROVE  /\ upload'[j] \in {NoUpload} \cup Posted
                 /\ \/ upload'[j] = upload[j]
                    \/ upload[j].pc \in Received /\ upload'[j].pc = "error"
      <4> HIDE DEF Failed
      <4>1. upload'[j] = IF j \in Lost THEN Failed(j) ELSE upload[j]
        BY <3>1
      <4>2. CASE j \in Lost
        <5>1. upload[j].pc \in Received
          BY <4>2
        <5>2. upload'[j] = Failed(j)
          BY <4>1, <4>2
        <5> HIDE DEF Lost
        <5>3. Failed(j) \in Posted /\ Failed(j).pc = "error"
          BY <3>2, <4>2
        <5> QED  BY <5>1, <5>2, <5>3
      <4>3. CASE j \notin Lost
        BY <4>1, <4>3 DEF HasUploads
      <4> QED  BY <4>2, <4>3
    <3>4. upload' \in [Uploads -> {NoUpload} \cup Posted]
      <4> HIDE DEF Failed, Lost
      <4> QED  BY <3>1, <3>3
    <3> QED  BY <3>3, <3>4 DEF HasUploads
  <2> QED  BY <2>1, <2>2
<1>3. ASSUME NEW j \in Uploads PROVE Progress(j)'
  BY <1>1, <1>2 DEF Progress
<1>4. MovedByOne'
  BY <1>1 DEF MovedByOne
<1> QED  BY <1>1, <1>2, <1>3, <1>4

(* Lemma: the invariant says that the types are right. *)
LEMMA ServiceTypes == ASSUME ServiceInv PROVE ServiceTypeOK
<1> USE DEF ServiceInv
<1>1. ASSUME NEW i \in Uploads PROVE upload[i] = NoUpload \/ upload[i] \in Posted
  BY DEF HasUploads
<1>2. temps \subseteq Uploads \ Unused
  BY DEF Progress, Unused
<1>3. ASSUME NEW i \in DOMAIN metadata PROVE metadata[i] \in Contents
  BY BodyIsContent DEF Progress
<1> QED  BY <1>1, <1>2, <1>3 DEF ServiceTypeOK, Posted

(* Lemma: and that no answer leaves a file behind. *)
LEMMA ServiceCleansUp == ASSUME ServiceInv PROVE AnsweredIsCleanedUp
BY DEF ServiceInv, Progress, MovedByOne, AnsweredIsCleanedUp

-----------------------------------------------------------------------------
(* Lemma: a recorded file id gives the content it was recorded with.       *)
LEMMA ReadIsRecorded ==
    ASSUME ServiceInv, NEW i \in DOMAIN metadata
    PROVE  Read(i) = metadata[i] /\ Read(i) = upload[i].body
BY DEF ServiceInv, Progress, Read

(* Lemma: a step that records nothing gives every reader what it gave.     *)
LEMMA FilesStay ==
    ASSUME ServiceInv, ServiceInv', metadata' = metadata
    PROVE  FilesKept /\ UNCHANGED FileMap
<1>1. ASSUME NEW i \in DOMAIN metadata PROVE Read(i)' = Read(i)
  BY DEF ServiceInv, Progress, Read
<1> QED  BY <1>1 DEF FilesKept, FileMap

(* Lemma: the service adds files or leaves them as they are. *)
LEMMA FilesStep ==
    ASSUME ServiceInv, ServiceInv', NEW i \in Uploads, PutMetadata(i)
    PROVE  Files!Next
<1>1. upload[i].pc = "stored" /\ upload[i].body \in Contents /\ i \notin DOMAIN metadata
  BY BodyIsContent DEF PutMetadata, At, ServiceInv, Progress
<1>2. metadata' = [j \in DOMAIN metadata \cup {i} |->
                     IF j = i THEN upload[i].body ELSE metadata[j]] /\ objects' = objects
  BY DEF PutMetadata, Record
<1>3. Read(i)' = upload[i].body
  BY <1>1, <1>2 DEF ServiceInv, Progress, Read
<1>4. ASSUME NEW j \in DOMAIN metadata PROVE Read(j)' = Read(j)
  BY <1>1, <1>2 DEF Read
<1>5. Files!Create(i, upload[i].body)
  BY <1>1, <1>2, <1>3, <1>4 DEF Files!Create
<1> QED  BY <1>1, <1>5 DEF Files!Next

(* Lemma: no step of the service changes the body of an upload. *)
LEMMA BodiesStay == ASSUME ServiceInv, ServiceNext PROVE BodiesKept
<1>h. HasUploads
  BY DEF ServiceInv
<1>1. ASSUME NEW i \in Uploads, upload[i].pc # "unused",
             NEW pc \in Received \cup Answers, Goto(i, pc)
      PROVE  BodiesKept
  <2>1. /\ upload'[i].pc = pc /\ upload'[i].body = upload[i].body
        /\ \A j \in Uploads \ {i} : upload'[j] = upload[j]
    BY <1>h, <1>1, GotoUpload
  <2> QED  BY <2>1 DEF BodiesKept
<1>2. ASSUME NEW i \in Uploads, ServiceStep(i) \/ UploadFails(i) PROVE BodiesKept
  <2>1. upload[i].pc # "unused"
    BY <1>2 DEF ServiceStep, UploadFails, ReadBody, FindTarget, MoveToTemp, MoveToTarget,
                PutMetadata, At
  <2>2. \E pc \in Received \cup Answers : Goto(i, pc)
    BY <1>2 DEF ServiceStep, UploadFails, ReadBody, FindTarget, MoveToTemp, MoveToTarget,
                PutMetadata
  <2> QED  BY <1>1, <2>1, <2>2
<1>3. ASSUME NEW s \in Servers, ServerDies(s) PROVE BodiesKept
  <2> SUFFICES ASSUME NEW i \in Uploads, upload[i].pc # "unused"
               PROVE  upload'[i].pc # "unused" /\ upload'[i].body = upload[i].body
    BY DEF BodiesKept
  <2>1. upload[i] \in Posted
    BY <1>h, BodyIsContent
  <2> DEFINE Failed == [upload[i] EXCEPT !.pc = "error"]
  <2>2. Failed.pc = "error" /\ Failed.body = upload[i].body
    BY <2>1 DEF Posted
  <2>3. upload'[i] = Failed \/ upload'[i] = upload[i]
    BY <1>3 DEF ServerDies
  <2> QED  BY <2>2, <2>3
<1> QED  BY <1>2, <1>3 DEF ServiceNext

(* Lemma: nor does one change or hide a file. *)
LEMMA ServiceGoesOn ==
    ASSUME ServiceInv, ServiceNext \/ AnyPost \/ UNCHANGED serviceVars
    PROVE  ServiceInv' /\ BodiesKept /\ FilesKept /\ [Files!Next]_FileMap
<1>1. CASE UNCHANGED serviceVars
  BY <1>1 DEF serviceVars, ServiceInv, HasUploads, Progress, MovedByOne, At, BodiesKept,
              FilesKept, FileMap, Read
<1>2. CASE AnyPost
  <2>1. ServiceInv'
    BY <1>2, PostKeeps
  <2>2. metadata' = metadata
    BY <1>2 DEF AnyPost, Post
  <2>3. BodiesKept
    BY <1>2 DEF AnyPost, Post, Unused, BodiesKept, ServiceInv, HasUploads
  <2> QED  BY <2>1, <2>2, <2>3, FilesStay
<1>3. CASE ServiceNext
  <2>1. ServiceInv'
    BY <1>3, StepKeeps, FaultKeeps DEF ServiceNext
  <2>2. BodiesKept
    BY <1>3, BodiesStay
  <2>3. CASE \E i \in Uploads : PutMetadata(i)
    <3> PICK i \in Uploads : PutMetadata(i)
      BY <2>3
    <3>1. i \notin DOMAIN metadata /\ objects' = objects
      BY DEF PutMetadata, At, ServiceInv, Progress
    <3>2. DOMAIN metadata' = DOMAIN metadata \cup {i}
          /\ \A j \in DOMAIN metadata : j # i => metadata'[j] = metadata[j]
      BY DEF PutMetadata, Record
    <3>3. FilesKept
      BY <3>1, <3>2 DEF FilesKept, Read
    <3> QED  BY <2>1, <2>2, <3>3, FilesStep
  <2>4. CASE ~ \E i \in Uploads : PutMetadata(i)
    <3>1. metadata' = metadata
      BY <1>3, <2>4 DEF ServiceNext, ServiceStep, UploadFails, ServerDies, ReadBody,
                        FindTarget, MoveToTemp, MoveToTarget
    <3> QED  BY <2>1, <2>2, <3>1, FilesStay
  <2> QED  BY <2>3, <2>4
<1> QED  BY <1>1, <1>2, <1>3
-----------------------------------------------------------------------------
(* Lemma: the agent begins with its invariant. *)
LEMMA AgentStarts == ASSUME AgentInit PROVE AgentInv
<1> USE AgentAssumption DEF AgentInit
<1>1. AgentTypeOK
  <2>1. folder \in [Paths -> {NoFile} \cup File]
    BY DEF File
  <2>2. synced \in [Paths -> {NoRow} \cup Row]
    OBVIOUS
  <2> QED  BY <2>1, <2>2 DEF AgentTypeOK
<1>2. RowsResolve /\ Snapshot /\ QuietRows
  BY DEF RowsResolve, Snapshot, QuietRows, Idle
<1> QED  BY <1>1, <1>2 DEF AgentInv

(* Lemma: a folder that has one file changed is a folder. *)
LEMMA FolderChanged ==
    ASSUME AgentTypeOK, NEW p \in Paths, NEW file \in {NoFile} \cup File, Change(p, file)
    PROVE  /\ folder' \in [Paths -> {NoFile} \cup File] /\ folder'[p] = file
           /\ \A q \in Paths \ {p} : folder'[q] = folder[q]
BY DEF AgentTypeOK, Change

(* Lemma: a change keeps all that does not tell of the events. *)
LEMMA ChangeKeeps ==
    ASSUME ServiceInv, AgentInv,
           NEW p \in Paths, NEW file \in {NoFile} \cup File, Change(p, file),
           queue' \in Seq(Paths), queue' # <<>> => mode = "watch", missed' \subseteq Paths
    PROVE  AgentInv'
<1> USE DEF AgentInv
<1>1. /\ folder' \in [Paths -> {NoFile} \cup File] /\ folder'[p] = file
      /\ \A q \in Paths \ {p} : folder'[q] = folder[q]
  BY FolderChanged
<1>2. work' = Idle \/ (work' \in Work /\ mode' # "stopped")
  BY DEF AgentTypeOK, Change, Work, Idle
<1>3. AgentTypeOK'
  BY <1>1, <1>2, AgentAssumption DEF AgentTypeOK, Change
<1>4. RowsResolve'
  BY DEF RowsResolve, Change, serviceVars, Read
<1>5. QuietRows'
  BY <1>1 DEF QuietRows, Change, AgentTypeOK
<1>6. Snapshot'
  <2>1. CASE work = Idle
    BY <2>1 DEF Change, Snapshot, Idle
  <2>2. CASE work # Idle /\ work.path = p
    BY <2>2 DEF Change, Snapshot, AgentTypeOK, Work, serviceVars
  <2>3. CASE work # Idle /\ work.path # p
    BY <1>1, <2>3 DEF Change, Snapshot, AgentTypeOK, Work, serviceVars, Exists, Now
  <2> QED  BY <2>1, <2>2, <2>3
<1> QED  BY <1>3, <1>4, <1>5, <1>6

(* Lemma: an agent that ends keeps its rows. *)
LEMMA StopKeeps == ASSUME AgentInv, Stop PROVE AgentInv'
<1>1. AgentTypeOK'
  BY DEF AgentInv, AgentTypeOK, Stop, Idle, Work
<1>2. RowsResolve' /\ QuietRows' /\ Snapshot'
  BY DEF AgentInv, Stop, RowsResolve, QuietRows, Snapshot, serviceVars, Read, Idle
<1> QED  BY <1>1, <1>2 DEF AgentInv

(* Lemma: so does one that begins with a path. *)
LEMMA BeginKeeps ==
    ASSUME AgentInv, NEW p \in Paths, Begin(p), mode # "stopped",
           todo' \subseteq todo, queue' \in Seq(Paths), queue' # <<>> => mode = "watch"
    PROVE  AgentInv'
<1> DEFINE First == [step |-> "settle", path |-> p, seen |-> folder[p].mtime,
                     sha |-> Absent, mtime |-> 0,
                     request |-> CHOOSE i \in Uploads : TRUE, still |-> FALSE]
<1>1. work' = Idle \/ (Exists(p) /\ work' = First)
  BY DEF Begin
<1>2. ASSUME Exists(p) PROVE First \in Work
  <2>1. folder[p].mtime \in Nat
    BY <1>2 DEF AgentInv, AgentTypeOK, File, NoFile, Exists
  <2>2. (CHOOSE i \in Uploads : TRUE) \in Uploads
    BY ServiceAssumption
  <2> QED  BY <2>1, <2>2 DEF Work
<1>3. AgentTypeOK'
  BY <1>1, <1>2 DEF AgentInv, AgentTypeOK, Begin
<1>4. RowsResolve' /\ QuietRows'
  BY DEF AgentInv, Begin, RowsResolve, QuietRows, serviceVars, Read
<1>5. Snapshot'
  BY <1>1 DEF Snapshot, Idle
<1> QED  BY <1>3, <1>4, <1>5 DEF AgentInv

(* Lemma: what others do to the service keeps what the agent knows. *)
LEMMA OthersKeep ==
    ASSUME ServiceInv, AgentInv, BodiesKept, FilesKept,
           UNCHANGED <<folder, mode, todo, queue, work, synced, edits, launches, missed, quiet>>,
           guests' \in 0..MaxGuests
    PROVE  AgentInv'
<1>1. AgentTypeOK'
  BY DEF AgentInv, AgentTypeOK
<1>2. RowsResolve'
  BY DEF AgentInv, RowsResolve, FilesKept
<1>3. QuietRows'
  BY DEF AgentInv, QuietRows
<1>4. Snapshot'
  <2> SUFFICES ASSUME work.step = "wait" PROVE upload[work.request].pc # "unused"
               => upload'[work.request].pc # "unused"
                  /\ upload'[work.request].body = upload[work.request].body
    BY DEF AgentInv, Snapshot, Exists, Now
  <2>1. work.request \in Uploads
    BY DEF AgentInv, AgentTypeOK, Idle, Work
  <2> QED  BY <2>1 DEF BodiesKept
<1> QED  BY <1>1, <1>2, <1>3, <1>4 DEF AgentInv

(* Lemma: process_path, step by step, keeps it. *)
LEMMA ProceedTypes ==
    ASSUME AgentInv, NEW w, w = Idle \/ (w \in Work /\ mode # "stopped"), Proceed(w),
           synced' \in [Paths -> {NoRow} \cup Row],
           quiet' \subseteq {p \in Paths : synced'[p] # NoRow}
    PROVE  AgentTypeOK'
BY DEF AgentInv, AgentTypeOK, Proceed

LEMMA ProcessKeeps ==
    ASSUME ServiceInv, ServiceInv', BodiesKept, FilesKept, AgentInv, ProcessPath
    PROVE  AgentInv'
<1>1. ASSUME Settle \/ Hash \/ StatAndCompare \/ Upload
      PROVE  /\ work \in Work /\ mode # "stopped" /\ work.path \in Paths
             /\ Exists(work.path) /\ Now \in File
             /\ UNCHANGED <<folder, synced, quiet>>
  <2>1. work.step # "idle" /\ Exists(work.path)
    BY <1>1 DEF Settle, Hash, StatAndCompare, Upload, Finds, Doing
  <2>2. work \in Work /\ mode # "stopped" /\ work.path \in Paths
    BY <2>1 DEF AgentInv, AgentTypeOK, Idle, Work
  <2>3. Now \in File
    BY <2>1, <2>2 DEF AgentInv, AgentTypeOK, Exists, NoFile, Now
  <2>4. UNCHANGED <<folder, synced, quiet>>
    BY <1>1 DEF Settle, Hash, StatAndCompare, Upload, Proceed
  <2> QED  BY <2>1, <2>2, <2>3, <2>4
<1>2. ASSUME UNCHANGED <<folder, synced, quiet>> PROVE RowsResolve' /\ QuietRows'
  BY <1>2 DEF AgentInv, RowsResolve, QuietRows, FilesKept
<1>3. ASSUME UNCHANGED <<folder, synced, quiet>>,
             NEW w, w = Idle \/ (w \in Work /\ mode # "stopped"), Proceed(w)
      PROVE  AgentTypeOK'
  BY <1>3, ProceedTypes DEF AgentInv, AgentTypeOK
<1>4. CASE FileIsGone \/ RequestFails
  BY <1>4, StopKeeps DEF FileIsGone, RequestFails
<1>5. CASE Settle
  <2> DEFINE w == [work EXCEPT !.seen = Now.mtime,
                               !.step = IF Now.mtime = work.seen THEN "hash" ELSE "settle"]
  <2>1. Proceed(w)
    BY <1>5 DEF Settle
  <2>2. w \in Work /\ w.step \in {"hash", "settle"}
    BY <1>1, <1>5 DEF Work, File
  <2>3. AgentTypeOK'
    BY <1>1, <1>3, <1>5, <2>1, <2>2
  <2>4. Snapshot'
    BY <2>1, <2>2 DEF Snapshot, Proceed
  <2> QED  BY <1>1, <1>2, <1>5, <2>3, <2>4 DEF AgentInv
<1>6. CASE Hash
  <2> DEFINE w == [work EXCEPT !.sha = Now.content, !.still = TRUE, !.step = "stat"]
  <2>1. Proceed(w)
    BY <1>6 DEF Hash
  <2>2. /\ w \in Work /\ w.step = "stat" /\ w.still /\ w.sha = Now.content
        /\ w.path = work.path
    BY <1>1, <1>6 DEF Work, File
  <2>3. AgentTypeOK'
    BY <1>1, <1>3, <1>6, <2>1, <2>2
  <2>4. Snapshot'
    BY <1>1, <1>6, <2>1, <2>2 DEF Snapshot, Proceed, Exists, Now
  <2> QED  BY <1>1, <1>2, <1>6, <2>3, <2>4 DEF AgentInv
<1>7. CASE StatAndCompare
  <2> DEFINE w == [work EXCEPT !.mtime = Now.mtime, !.step = "upload"]
  <2>1. CASE IsSynced(work.path, work.sha, Now.mtime)
    <3>1. Proceed(Idle)
      BY <1>7, <2>1 DEF StatAndCompare
    <3>2. AgentTypeOK'
      BY <1>1, <1>3, <1>7, <3>1
    <3>3. Snapshot'
      BY <3>1 DEF Snapshot, Proceed, Idle
    <3> QED  BY <1>1, <1>2, <1>7, <3>2, <3>3 DEF AgentInv
  <2>2. CASE ~IsSynced(work.path, work.sha, Now.mtime)
    <3>1. Proceed(w)
      BY <1>7, <2>2 DEF StatAndCompare
    <3>2. /\ w \in Work /\ w.step = "upload" /\ w.mtime = Now.mtime
          /\ w.path = work.path /\ w.sha = work.sha /\ w.still = work.still
      BY <1>1, <1>7 DEF Work, File
    <3>3. AgentTypeOK'
      BY <1>1, <1>3, <1>7, <3>1, <3>2
    <3>4. work.step = "stat"
      BY <1>7 DEF StatAndCompare, Finds, Doing
    <3>5. work.still => work.sha = Now.content
      BY <3>4 DEF AgentInv, Snapshot
    <3>6. work.path \notin quiet
      <4>1. CASE work.still
        BY <2>2, <3>5, <4>1 DEF AgentInv, AgentTypeOK, QuietRows, IsSynced, Now
      <4>2. CASE ~work.still
        BY <3>4, <4>2 DEF AgentInv, Snapshot
      <4> QED  BY <4>1, <4>2
    <3>7. Snapshot'
      BY <1>1, <1>7, <3>1, <3>2, <3>5, <3>6 DEF Snapshot, Proceed, Exists, Now
    <3> QED  BY <1>1, <1>2, <1>7, <3>3, <3>7 DEF AgentInv
  <2> QED  BY <2>1, <2>2
<1>8. CASE Upload
  <2>1. PICK i \in Uploads : /\ Post(i, Now.content)
                             /\ Proceed([work EXCEPT !.request = i, !.step = "wait"])
    <3>1. (CHOOSE j \in Unused : TRUE) \in Uploads
      BY <1>8 DEF Upload, Unused
    <3> QED  BY <1>8, <3>1 DEF Upload
  <2> DEFINE w == [work EXCEPT !.request = i, !.step = "wait"]
  <2>2. /\ w \in Work /\ w.step = "wait" /\ w.request = i /\ w.mtime = work.mtime
        /\ w.path = work.path /\ w.sha = work.sha /\ w.still = work.still
    BY <1>1, <1>8 DEF Work
  <2>3. AgentTypeOK'
    BY <1>1, <1>3, <1>8, <2>1, <2>2
  <2>4. upload'[i].pc = "reading" /\ upload'[i].body = Now.content
    BY <2>1 DEF Post, ServiceInv, HasUploads
  <2>5. work.step = "upload"
    BY <1>8 DEF Upload, Finds, Doing
  <2>6. /\ work.path \notin quiet
        /\ work.still => work.mtime = Now.mtime /\ work.sha = Now.content
    BY <2>5 DEF AgentInv, Snapshot
  <2>7. Snapshot'
    BY <1>1, <1>8, <2>1, <2>2, <2>4, <2>6 DEF Snapshot, Proceed, Exists, Now
  <2> QED  BY <1>1, <1>2, <1>8, <2>3, <2>7 DEF AgentInv
<1>9. CASE MarkSynced
  <2>1. /\ work.step = "wait" /\ upload[work.request].pc = "created"
        /\ Proceed(Idle)
        /\ synced' = [synced EXCEPT ![work.path] = SyncedRow]
        /\ quiet' = IF work.still THEN quiet \cup {work.path} ELSE quiet
    BY <1>9 DEF MarkSynced, Doing, At
  <2>2. work \in Work /\ mode # "stopped"
    BY <2>1 DEF AgentInv, AgentTypeOK, Idle
  <2>3. work.path \in Paths /\ work.request \in Uploads /\ work.mtime \in Nat
    BY <2>2 DEF Work
  <2>4. /\ work.request \in DOMAIN metadata
        /\ metadata[work.request] = upload[work.request].body
        /\ upload[work.request].body \in Contents
    <3>1. HasUploads
      BY DEF ServiceInv
    <3>2. upload[work.request].body \in Contents
      BY <2>1, <2>3, <3>1, BodyIsContent
    <3> QED  BY <2>1, <2>3, <3>2 DEF ServiceInv, Progress
  <2>5. SyncedRow \in Row /\ SyncedRow # NoRow
    <3>1. SyncedRow \in Row
      BY <2>3, <2>4 DEF SyncedRow, Row
    <3>2. SyncedRow.sha \in Contents
      BY <2>4 DEF SyncedRow
    <3> QED  BY <3>1, <3>2, AgentAssumption DEF NoRow
  <2>6. /\ synced' \in [Paths -> {NoRow} \cup Row] /\ synced'[work.path] = SyncedRow
        /\ \A p \in Paths \ {work.path} : synced'[p] = synced[p]
    BY <2>1, <2>3, <2>5 DEF AgentInv, AgentTypeOK
  <2>7. AgentTypeOK'
    <3>1. quiet' \subseteq {p \in Paths : synced'[p] # NoRow}
      BY <2>1, <2>3, <2>5, <2>6 DEF AgentInv, AgentTypeOK
    <3> QED  BY <2>1, <2>6, <3>1, ProceedTypes
  <2>8. UNCHANGED serviceVars /\ UNCHANGED folder
    BY <1>9 DEF MarkSynced, Proceed
  <2>9. RowsResolve'
    <3>1. Read(work.request) = upload[work.request].body
      BY <2>4, ReadIsRecorded
    <3>2. \A i \in DOMAIN metadata : i \in DOMAIN metadata' /\ Read(i)' = Read(i)
      BY DEF FilesKept
    <3>3. SyncedRow.file = work.request /\ SyncedRow.sha = upload[work.request].body
      BY DEF SyncedRow
    <3> QED  BY <2>4, <2>6, <3>1, <3>2, <3>3 DEF AgentInv, RowsResolve
  <2>10. QuietRows'
    <3>1. work.path \notin quiet
          /\ (work.still => /\ SyncedRow.sha = folder[work.path].content
                            /\ SyncedRow.mtime = folder[work.path].mtime)
      BY <2>1 DEF AgentInv, Snapshot, SyncedRow, Now
    <3> QED  BY <2>1, <2>6, <2>8, <3>1 DEF AgentInv, AgentTypeOK, QuietRows
  <2>11. Snapshot'
    BY <2>1 DEF Snapshot, Proceed, Idle
  <2> QED  BY <2>7, <2>9, <2>10, <2>11 DEF AgentInv
<1> QED  BY <1>4, <1>5, <1>6, <1>7, <1>8, <1>9 DEF ProcessPath

(* Lemma: the agent and other clients do nothing to the service but post. *)
LEMMA ClientsPost ==
    ASSUME AgentInv, AgentNext \/ GuestUploads
    PROVE  AnyPost \/ UNCHANGED serviceVars
<1>1. ASSUME Unused # {}, NEW c \in Contents, Post(CHOOSE i \in Unused : TRUE, c)
      PROVE  AnyPost
  <2>1. (CHOOSE i \in Unused : TRUE) \in Uploads
    BY <1>1 DEF Unused
  <2> QED  BY <1>1, <2>1 DEF AnyPost
<1>2. CASE GuestUploads
  BY <1>1, <1>2 DEF GuestUploads
<1>3. CASE Upload
  <2>1. Now.content \in Contents
    BY <1>3 DEF Upload, Finds, Doing, AgentInv, AgentTypeOK, Idle, Work, Exists, NoFile,
                File, Now
  <2> QED  BY <1>1, <1>3, <2>1 DEF Upload
<1>4. CASE ProcessPath /\ ~Upload
  BY <1>4 DEF ProcessPath, FileIsGone, Settle, Hash, StatAndCompare, MarkSynced,
              RequestFails, Stop
<1>5. CASE AgentNext /\ ~ProcessPath
  BY <1>5 DEF AgentNext, Edit, Delete, Change, Launch, AgentStep, ScanPath, StartObserver,
              TakeEvent, Begin, Killed, Stop, AgentFinished
<1> QED  BY <1>2, <1>3, <1>4, <1>5

(* Lemma: every step of the system keeps both invariants. *)
LEMMA SystemGoesOn ==
    ASSUME ServiceInv, AgentInv, [Next]_<<serviceVars, agentVars>>
    PROVE  ServiceInv' /\ AgentInv' /\ [Files!Next]_FileMap
<1>1. ServiceNext \/ AnyPost \/ UNCHANGED serviceVars
  BY ClientsPost DEF Next
<1>2. ServiceInv' /\ BodiesKept /\ FilesKept /\ [Files!Next]_FileMap
  BY <1>1, ServiceGoesOn
<1> SUFFICES AgentInv'
  BY <1>2
<1>3. CASE UNCHANGED agentVars
  <2>1. guests' \in 0..MaxGuests
    BY <1>3 DEF agentVars, AgentInv, AgentTypeOK
  <2> QED  BY <1>2, <1>3, <2>1, OthersKeep DEF agentVars
<1>4. CASE GuestUploads
  <2>1. guests' \in 0..MaxGuests
    BY <1>4, AgentAssumption DEF GuestUploads, AgentInv, AgentTypeOK
  <2> QED  BY <1>2, <1>4, <2>1, OthersKeep DEF GuestUploads
<1>5. ASSUME NEW p \in Paths, Edit(p) \/ Delete(p) PROVE AgentInv'
  <2>1. CASE Edit(p)
    <3>1. PICK c \in Contents, tick \in {0, 1} :
              Change(p, [content |-> c, mtime |-> edits + tick])
      BY <2>1 DEF Edit
    <3>2. [content |-> c, mtime |-> edits + tick] \in {NoFile} \cup File
      BY DEF AgentInv, AgentTypeOK, File
    <3>3. queue' \in Seq(Paths) /\ (queue' # <<>> => mode = "watch") /\ missed' \subseteq Paths
      <4>1. queue \in Seq(Paths) /\ (queue # <<>> => mode = "watch") /\ missed \subseteq Paths
        BY DEF AgentInv, AgentTypeOK
      <4>2. CASE mode = "watch"
        BY <2>1, <4>1, <4>2 DEF Edit
      <4>3. CASE mode # "watch"
        BY <2>1, <4>1, <4>3 DEF Edit
      <4> QED  BY <4>2, <4>3
    <3> QED  BY <3>1, <3>2, <3>3, ChangeKeeps
  <2>2. CASE Delete(p)
    <3>1. Change(p, NoFile) /\ queue' = queue /\ missed' = missed
      BY <2>2 DEF Delete
    <3>2. queue' \in Seq(Paths) /\ (queue' # <<>> => mode = "watch") /\ missed' \subseteq Paths
      BY <3>1 DEF AgentInv, AgentTypeOK
    <3> QED  BY <3>1, <3>2, ChangeKeeps
  <2> QED  BY <1>5, <2>1, <2>2
<1>6. CASE Launch
  <2>1. AgentTypeOK'
    BY <1>6, AgentAssumption DEF Launch, AgentInv, AgentTypeOK
  <2>2. RowsResolve' /\ QuietRows' /\ Snapshot'
    BY <1>6 DEF Launch, AgentInv, RowsResolve, QuietRows, Snapshot, serviceVars, Read,
                Exists, Now
  <2> QED  BY <2>1, <2>2 DEF AgentInv
<1>7. CASE ScanPath
  <2>1. PICK p \in todo : todo' = todo \ {p} /\ Begin(p)
    BY <1>7 DEF ScanPath
  <2>2. p \in Paths /\ queue' \in Seq(Paths) /\ (queue' # <<>> => mode = "watch")
        /\ mode # "stopped"
    BY <1>7 DEF ScanPath, AgentInv, AgentTypeOK
  <2> QED  BY <2>1, <2>2, BeginKeeps
<1>8. CASE TakeEvent
  <2>1. Begin(Head(queue)) /\ queue' = Tail(queue) /\ todo' = todo /\ mode = "watch"
        /\ queue # <<>>
    BY <1>8 DEF TakeEvent
  <2>2. Head(queue) \in Paths /\ queue' \in Seq(Paths)
    BY <2>1 DEF AgentInv, AgentTypeOK
  <2> QED  BY <2>1, <2>2, BeginKeeps
<1>9. CASE StartObserver
  <2>1. AgentTypeOK'
    BY <1>9 DEF StartObserver, AgentInv, AgentTypeOK
  <2>2. RowsResolve' /\ QuietRows' /\ Snapshot'
    BY <1>9 DEF StartObserver, AgentInv, RowsResolve, QuietRows, Snapshot, serviceVars, Read,
                Exists, Now
  <2> QED  BY <2>1, <2>2 DEF AgentInv
<1>10. CASE ProcessPath
  BY <1>2, <1>10, ProcessKeeps
<1>11. CASE Killed
  BY <1>11, StopKeeps DEF Killed
<1>12. CASE AgentFinished
  BY <1>3, <1>12 DEF AgentFinished
<1> QED  BY <1>3, <1>4, <1>5, <1>6, <1>7, <1>8, <1>9, <1>10, <1>11, <1>12
         DEF Next, AgentNext, AgentStep

(* Lemma: the agent's invariant keeps it from sending what is quiet. *)
LEMMA QuietIsNotSent == ASSUME AgentInv PROVE UnchangedIsNotSent
BY DEF AgentInv, Snapshot, UnchangedIsNotSent, Doing
-----------------------------------------------------------------------------
(* The inductive invariant of service and agent. *)
THEOREM SystemInvariant == Spec => [](ServiceInv /\ AgentInv)
<1>1. ServiceInit /\ AgentInit => ServiceInv /\ AgentInv
  BY ServiceStarts, AgentStarts
<1>2. ServiceInv /\ AgentInv /\ [Next]_<<serviceVars, agentVars>>
      => (ServiceInv /\ AgentInv)'
  BY SystemGoesOn
<1> QED  BY <1>1, <1>2, PTL DEF Spec

(* Uploads, files and metadata, the folder, the agent's queue and its rows *)
(* keep their types.                                                       *)
THEOREM TypeCorrect == Spec => []TypeOK
<1>1. ServiceInv /\ AgentInv => TypeOK
  BY ServiceTypes DEF AgentInv, TypeOK
<1> QED  BY <1>1, SystemInvariant, PTL

(* No answered upload leaves a temporary file, under either name, however *)
(* many processes store the same object at once. *)
THEOREM AnswersCleanUp == Spec => []AnsweredIsCleanedUp
<1>1. ServiceInv => AnsweredIsCleanedUp
  BY ServiceCleansUp
<1> QED  BY <1>1, SystemInvariant, PTL

(* A row of the agent names a recorded file with the row's hash. *)
THEOREM RowsAlwaysResolve == Spec => []RowsResolve
<1>1. AgentInv => RowsResolve
  BY DEF AgentInv
<1> QED  BY <1>1, SystemInvariant, PTL

(* A file that has not changed since its row was taken is not sent again. *)
THEOREM UnchangedNeverSent == Spec => []UnchangedIsNotSent
<1>1. AgentInv => UnchangedIsNotSent
  BY QuietIsNotSent
<1> QED  BY <1>1, SystemInvariant, PTL

(* The two stores, the server's crashes included, implement one map of *)
(* immutable files. *)
THEOREM ServiceImplementsFiles == Spec => FilesAreImmutable
<1>1. ServiceInit => Files!Init
  BY DEF ServiceInit, Files!Init
<1>2. ServiceInv /\ AgentInv /\ [Next]_<<serviceVars, agentVars>> => [Files!Next]_FileMap
  BY SystemGoesOn
<1> QED  BY <1>1, <1>2, SystemInvariant, PTL DEF Spec, FilesAreImmutable, Files!Spec, FileMap
=============================================================================
