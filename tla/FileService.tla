---------------------------- MODULE FileService ----------------------------
(***************************************************************************)
(* dropbox-like-system, the server: an upload is received into a temporary *)
(* file, moved into the object store under its hash by way of a second     *)
(* temporary name, and then recorded in the metadata.  A server process    *)
(* runs the part after the last byte without a pause, so that it is in at  *)
(* most one upload's; processes share the directory and may die.           *)
(*                                                                         *)
(* A content stands for its hash, and a file id for its upload.            *)
(***************************************************************************)
EXTENDS Naturals, FiniteSets

CONSTANTS
    Uploads,           \* uploads, and the file ids of those that succeed
    Contents,
    TooLarge,          \* contents above max_upload_bytes
    Missing,           \* what a file id without an object would give
    Servers,
    ServerOf,          \* [Uploads -> Servers]: the process that gets a request
    MaxServerFaults    \* bound: processes that die, moves that fail

ASSUME ServiceAssumption ==
    /\ Uploads # {}
    /\ TooLarge \subseteq Contents
    /\ Missing \notin Contents
    /\ ServerOf \in [Uploads -> Servers]
    /\ MaxServerFaults \in Nat

VARIABLES
    upload,            \* upload[i]: where it is and what its body holds
    temps,             \* uploads whose temporary file exists
    moving,            \* keys whose ".tmp" file exists
    objects,           \* keys in the object store
    metadata,          \* metadata[i]: object key of file id i
    serverFaults

serviceVars == <<upload, temps, moving, objects, metadata, serverFaults>>

NoUpload == [pc |-> "unused"]
Received == {"reading", "read", "absent", "moved", "stored"}
Answers == {"created", "too large", "error"}

ServiceInit ==
    /\ upload = [i \in Uploads |-> NoUpload]
    /\ temps = {}
    /\ moving = {}
    /\ objects = {}
    /\ metadata = [i \in {} |-> CHOOSE c \in Contents : TRUE]
    /\ serverFaults = 0

Unused == {i \in Uploads : upload[i].pc = "unused"}

(* A client posts content c. *)
Post(i, c) ==
    /\ i \in Unused
    /\ upload' = [upload EXCEPT ![i] = [pc |-> "reading", body |-> c]]
    /\ temps' = temps \cup {i}
    /\ UNCHANGED <<moving, objects, metadata, serverFaults>>

At(i, pc) == upload[i].pc = pc
Goto(i, pc) == upload' = [upload EXCEPT ![i].pc = pc]

(* No other upload is between its last byte and its answer in the process. *)
LoopIsFree(i) ==
    \A j \in Uploads \ {i} :
        upload[j].pc \in {"absent", "moved", "stored"} => ServerOf[j] # ServerOf[i]

(* Mutant: the temporary file of a rejected upload is left. *)
ReadBodyLeaving(i) ==
    /\ At(i, "reading")
    /\ IF upload[i].body \in TooLarge THEN Goto(i, "too large") ELSE Goto(i, "read")
    /\ UNCHANGED <<temps, moving, objects, metadata, serverFaults>>

(* Mutant: the limit is not looked at. *)
ReadBodyUnlimited(i) ==
    /\ At(i, "reading")
    /\ Goto(i, "read")
    /\ UNCHANGED <<temps, moving, objects, metadata, serverFaults>>

(* The loop that reads, hashes and writes the body. *)
ReadBody(i) ==
    /\ At(i, "reading")
    /\ IF upload[i].body \in TooLarge
       THEN Goto(i, "too large") /\ temps' = temps \ {i}
       ELSE Goto(i, "read") /\ UNCHANGED temps
    /\ UNCHANGED <<moving, objects, metadata, serverFaults>>

(* put_file: an object that is there already is kept. *)
FindTarget(i) ==
    /\ At(i, "read")
    /\ LoopIsFree(i)
    /\ IF upload[i].body \in objects
       THEN Goto(i, "stored") /\ temps' = temps \ {i}
       ELSE Goto(i, "absent") /\ UNCHANGED temps
    /\ UNCHANGED <<moving, objects, metadata, serverFaults>>

Record(i) == metadata' = [j \in DOMAIN metadata \cup {i} |->
                            IF j = i THEN upload[i].body ELSE metadata[j]]

(* Mutant: the metadata is written before the object is in place. *)
MoveAndRecord(i) ==
    /\ At(i, "absent")
    /\ temps' = temps \ {i}
    /\ moving' = moving \cup {upload[i].body}
    /\ Record(i)
    /\ Goto(i, "moved")
    /\ UNCHANGED <<objects, serverFaults>>

MoveToTemp(i) ==
    /\ At(i, "absent")
    /\ temps' = temps \ {i}
    /\ moving' = moving \cup {upload[i].body}
    /\ Goto(i, "moved")
    /\ UNCHANGED <<objects, metadata, serverFaults>>

(* The second move finds its file gone if another process, with the same   *)
(* object, has moved it.                                                   *)
MoveToTarget(i) ==
    /\ At(i, "moved")
    /\ IF upload[i].body \in moving
       THEN /\ moving' = moving \ {upload[i].body}
            /\ objects' = objects \cup {upload[i].body}
            /\ Goto(i, "stored")
       ELSE Goto(i, "error") /\ UNCHANGED <<moving, objects>>
    /\ UNCHANGED <<temps, metadata, serverFaults>>

PutMetadata(i) ==
    /\ At(i, "stored")
    /\ Record(i)
    /\ Goto(i, "created")
    /\ UNCHANGED <<temps, moving, objects, serverFaults>>

(* A move or the database raises: the request answers with an error. *)
UploadFails(i) ==
    /\ upload[i].pc \in Received
    /\ serverFaults < MaxServerFaults
    /\ serverFaults' = serverFaults + 1
    /\ Goto(i, "error")
    /\ UNCHANGED <<temps, moving, objects, metadata>>

(* A process dies with its uploads; the files stay as they are. *)
ServerDies(s) ==
    /\ serverFaults < MaxServerFaults
    /\ serverFaults' = serverFaults + 1
    /\ LET lost == {i \in Uploads : upload[i].pc \in Received /\ ServerOf[i] = s}
       IN  /\ lost # {}
           /\ upload' = [i \in Uploads |->
                 IF i \in lost THEN [upload[i] EXCEPT !.pc = "error"] ELSE upload[i]]
    /\ UNCHANGED <<temps, moving, objects, metadata>>

ServiceStep(i) ==
    ReadBody(i) \/ FindTarget(i) \/ MoveToTemp(i) \/ MoveToTarget(i) \/ PutMetadata(i)

ServiceNext ==
    \/ \E i \in Uploads : ServiceStep(i) \/ UploadFails(i)
    \/ \E s \in Servers : ServerDies(s)
-----------------------------------------------------------------------------
ServiceTypeOK ==
    /\ \A i \in Uploads :
          upload[i] = NoUpload \/ upload[i] \in
              [pc : Received \cup Answers, body : Contents]
    /\ temps \subseteq Uploads \ Unused
    /\ moving \subseteq Contents \ TooLarge
    /\ objects \subseteq Contents \ TooLarge
    /\ DOMAIN metadata \subseteq Uploads
    /\ \A i \in DOMAIN metadata : metadata[i] \in Contents
    /\ serverFaults \in 0..MaxServerFaults

(* get_metadata and download: what a file id gives to a reader. *)
Read(i) == IF metadata[i] \in objects THEN metadata[i] ELSE Missing

Files == INSTANCE ImmutableFiles WITH
    Ids <- Uploads,
    files <- [i \in DOMAIN metadata |-> Read(i)]

(* Object and metadata, written one after the other, shared by processes   *)
(* and left as they are when one dies, act as one map of immutable files:  *)
(* a file id that is recorded is readable, and always gives what it gave.  *)
FilesAreImmutable == Files!Spec

(* An upload answered with 201 or 413 leaves no temporary file, and        *)
(* without faults no file stays under the second temporary name, even when *)
(* two processes move the same object.                                     *)
AnsweredIsCleanedUp ==
    /\ \A i \in temps : upload[i].pc \notin {"created", "too large"}
    /\ serverFaults = 0 =>
          \A c \in moving : \E i \in Uploads : At(i, "moved") /\ upload[i].body = c
=============================================================================
