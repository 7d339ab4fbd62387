---------------------------- MODULE DeviceAgent ----------------------------
(***************************************************************************)
(* dropbox-like-system, the device agent: it scans its folder, then        *)
(* watches it and processes one changed path after the other.  A file is   *)
(* looked at several times before its row is written - for its stability,  *)
(* its hash, its times and its upload - and may change or go in between.   *)
(* An exception, of a missing file or of the request, ends the agent.      *)
(*                                                                         *)
(* Paths are those that should_sync_path lets through.  The size in a stat *)
(* pair is left out: contents are of one size, the hardest case.           *)
(***************************************************************************)
EXTENDS FileService, Sequences

CONSTANTS
    Paths,
    Absent,
    MaxEdits,          \* bound: changes of the folder
    MaxLaunches,       \* bound: times the agent is started
    MaxGuests          \* bound: uploads by other clients

ASSUME AgentAssumption ==
    /\ Absent \notin Contents
    /\ MaxEdits \in Nat /\ MaxLaunches \in Nat /\ MaxGuests \in Nat

VARIABLES
    folder,            \* folder[p]: content and mtime_ns of the file, or NoFile
    mode,              \* "stopped", "scan" or "watch"
    todo,              \* paths that rglob has not passed
    queue,             \* paths of the events
    work,              \* process_path and its local variables
    synced,            \* synced[p]: row of synced_files, durable
    edits, launches, guests,
    missed,            \* history: paths changed while nobody would notice
    quiet              \* history: paths not changed since the hash of their row

agentVars == <<folder, mode, todo, queue, work, synced, edits, launches, guests,
               missed, quiet>>

NoFile == [content |-> Absent, mtime |-> 0]
File == [content : Contents, mtime : Nat]
Exists(p) == folder[p].content # Absent
Row == [file : Uploads, sha : Contents, mtime : Nat]
NoRow == [sha |-> Absent]

(* seen is the last stat pair, sha and mtime are the snapshot, request the *)
(* upload waited for; still tells that path has not changed since its hash.*)
Idle == [step |-> "idle"]
Work == [step : {"settle", "hash", "stat", "upload", "wait"}, path : Paths, seen : Nat,
         sha : Contents \cup {Absent}, mtime : Nat, request : Uploads, still : BOOLEAN]
Doing(step) == work.step = step
Finds(step) == Doing(step) /\ Exists(work.path)

AgentInit ==
    /\ folder \in [Paths -> {NoFile} \cup [content : Contents, mtime : {0}]]
    /\ mode = "stopped"
    /\ todo = {}
    /\ queue = <<>>
    /\ work = Idle
    /\ synced = [p \in Paths |-> NoRow]
    /\ edits = 0 /\ launches = 0 /\ guests = 0
    /\ missed = {p \in Paths : Exists(p)}
    /\ quiet = {}

(* The file at p changes. *)
Change(p, file) ==
    /\ edits < MaxEdits
    /\ edits' = edits + 1
    /\ folder' = [folder EXCEPT ![p] = file]
    /\ quiet' = quiet \ {p}
    /\ work' = IF work # Idle /\ work.path = p THEN [work EXCEPT !.still = FALSE] ELSE work
    /\ UNCHANGED <<serviceVars, mode, todo, synced, launches, guests>>

(* Somebody writes a file or moves one to p; two changes may have the same *)
(* mtime.  The observer queues the path, if it runs.                       *)
Edit(p) ==
    /\ \E c \in Contents, tick \in {0, 1} :
          Change(p, [content |-> c, mtime |-> edits + tick])
    /\ IF mode = "watch"
       THEN queue' = Append(queue, p) /\ UNCHANGED missed
       ELSE missed' = missed \cup {p} /\ UNCHANGED queue

(* A deletion, or a move out of the folder, is no event of the handler. *)
Delete(p) ==
    /\ Exists(p)
    /\ Change(p, NoFile)
    /\ UNCHANGED <<queue, missed>>

(* main, with or without --scan-on-start. *)
Launch ==
    /\ mode = "stopped"
    /\ launches < MaxLaunches
    /\ launches' = launches + 1
    /\ mode' = "scan"
    /\ todo' \in {{}, Paths}
    /\ UNCHANGED <<serviceVars, folder, queue, work, synced, edits, guests, missed, quiet>>

(* process_path returns at once if the path is no file, and otherwise      *)
(* takes the first stat pair.                                              *)
Begin(p) ==
    /\ work' = IF ~Exists(p) THEN Idle
               ELSE [step |-> "settle", path |-> p, seen |-> folder[p].mtime,
                     sha |-> Absent, mtime |-> 0,
                     request |-> CHOOSE i \in Uploads : TRUE, still |-> FALSE]
    /\ missed' = missed \ {p}
    /\ UNCHANGED <<serviceVars, folder, mode, synced, edits, launches, guests, quiet>>

ScanPath ==
    /\ mode = "scan" /\ work = Idle
    /\ \E p \in todo :
          /\ todo' = todo \ {p}
          /\ Begin(p)
    /\ UNCHANGED queue

(* The observer starts after the scan. *)
StartObserver ==
    /\ mode = "scan" /\ work = Idle /\ todo = {}
    /\ mode' = "watch"
    /\ UNCHANGED <<serviceVars, folder, todo, queue, work, synced, edits, launches, guests,
                   missed, quiet>>

TakeEvent ==
    /\ mode = "watch" /\ work = Idle /\ queue # <<>>
    /\ queue' = Tail(queue)
    /\ Begin(Head(queue))
    /\ UNCHANGED todo

(* The agent ends: what it was to do is forgotten. *)
Stop ==
    /\ mode' = "stopped"
    /\ missed' = missed \cup {queue[i] : i \in DOMAIN queue}
                        \cup (IF work = Idle THEN {} ELSE {work.path})
    /\ queue' = <<>>
    /\ todo' = {}
    /\ work' = Idle
    /\ UNCHANGED <<serviceVars, folder, synced, edits, launches, guests, quiet>>

(* A step of process_path that opens or stats the file raises without it.  *)
FileIsGone ==
    /\ work.step \in {"settle", "hash", "stat", "upload"}
    /\ ~Exists(work.path)
    /\ Stop

(* What a step of process_path that raises nothing leaves alone. *)
Proceed(w) ==
    /\ work' = w
    /\ UNCHANGED <<folder, mode, todo, queue, edits, launches, guests, missed>>

Now == folder[work.path]

(* wait_for_stable_snapshot: the pair is the same after the quiet time. *)
Settle ==
    /\ Finds("settle")
    /\ Proceed([work EXCEPT !.seen = Now.mtime,
                          !.step = IF Now.mtime = work.seen THEN "hash" ELSE "settle"])
    /\ UNCHANGED <<serviceVars, synced, quiet>>

(* snapshot_file: the bytes are hashed, then the times are taken. *)
Hash ==
    /\ Finds("hash")
    /\ Proceed([work EXCEPT !.sha = Now.content, !.still = TRUE, !.step = "stat"])
    /\ UNCHANGED <<serviceVars, synced, quiet>>

(* Mutant: the hash is not compared. *)
IsSyncedByTime(p, sha, mtime) == synced[p] # NoRow /\ synced[p].mtime = mtime

IsSynced(p, sha, mtime) ==
    synced[p] # NoRow /\ synced[p].sha = sha /\ synced[p].mtime = mtime

StatAndCompare ==
    /\ Finds("stat")
    /\ Proceed(IF IsSynced(work.path, work.sha, Now.mtime) THEN Idle
                       ELSE [work EXCEPT !.mtime = Now.mtime, !.step = "upload"])
    /\ UNCHANGED <<serviceVars, synced, quiet>>

(* The file is opened again and sent as it is now. *)
Upload ==
    /\ Finds("upload")
    /\ Unused # {}
    /\ LET i == CHOOSE j \in Unused : TRUE
       IN  /\ Post(i, Now.content)
           /\ Proceed([work EXCEPT !.request = i, !.step = "wait"])
    /\ UNCHANGED <<synced, quiet>>

(* mark_synced: what the server has answered, and the time of the snapshot.*)
(* Mutant: the row has the hash of the snapshot. *)
RowFromSnapshot == [file |-> work.request, sha |-> work.sha, mtime |-> work.mtime]

(* Mutant: the row has the time of another moment. *)
RowWithoutTime ==
    [file |-> work.request, sha |-> upload[work.request].body, mtime |-> MaxEdits + 1]

SyncedRow ==
    [file |-> work.request, sha |-> upload[work.request].body, mtime |-> work.mtime]

MarkSynced ==
    /\ Doing("wait") /\ At(work.request, "created")
    /\ synced' = [synced EXCEPT ![work.path] = SyncedRow]
    /\ quiet' = IF work.still THEN quiet \cup {work.path} ELSE quiet
    /\ Proceed(Idle)
    /\ UNCHANGED serviceVars

(* An error answer raises. *)
RequestFails ==
    /\ Doing("wait")
    /\ upload[work.request].pc \in {"too large", "error"}
    /\ Stop

(* The process is ended, or a request has its timeout. *)
Killed ==
    /\ mode # "stopped"
    /\ Stop

(* Another device or a client of the API uploads. *)
GuestUploads ==
    /\ guests < MaxGuests /\ Unused # {}
    /\ guests' = guests + 1
    /\ \E c \in Contents : Post(CHOOSE i \in Unused : TRUE, c)
    /\ UNCHANGED <<folder, mode, todo, queue, work, synced, edits, launches, missed, quiet>>

ProcessPath ==
    FileIsGone \/ Settle \/ Hash \/ StatAndCompare \/ Upload \/ MarkSynced \/ RequestFails
AgentStep == ScanPath \/ StartObserver \/ TakeEvent \/ ProcessPath

AgentFinished ==
    /\ mode = "stopped" /\ edits = MaxEdits
    /\ \A i \in Uploads : upload[i].pc \notin Received
    /\ UNCHANGED <<serviceVars, agentVars>>

AgentNext ==
    \/ \E p \in Paths : Edit(p) \/ Delete(p)
    \/ Launch \/ AgentStep \/ Killed \/ AgentFinished

Next == AgentNext \/ GuestUploads \/ (ServiceNext /\ UNCHANGED agentVars)

(* The agent's loop and the servers go on; nobody has to start the agent.  *)
Fairness ==
    /\ WF_<<serviceVars, agentVars>>(AgentStep)
    /\ \A i \in Uploads : WF_<<serviceVars, agentVars>>(ServiceStep(i) /\ UNCHANGED agentVars)

Spec == ServiceInit /\ AgentInit /\ [][Next]_<<serviceVars, agentVars>> /\ Fairness
-----------------------------------------------------------------------------
AgentTypeOK ==
    /\ folder \in [Paths -> {NoFile} \cup File]
    /\ mode \in {"stopped", "scan", "watch"}
    /\ todo \subseteq Paths /\ (todo # {} => mode = "scan")
    /\ queue \in Seq(Paths) /\ (queue # <<>> => mode = "watch")
    /\ work = Idle \/ (work \in Work /\ mode # "stopped")
    /\ synced \in [Paths -> {NoRow} \cup Row]
    /\ edits \in 0..MaxEdits /\ launches \in 0..MaxLaunches /\ guests \in 0..MaxGuests
    /\ missed \subseteq Paths
    /\ quiet \subseteq {p \in Paths : synced[p] # NoRow}

(* Folder, queue, rows, uploads and files have their types, and nothing    *)
(* above max_upload_bytes gets into the object store.                      *)
TypeOK == ServiceTypeOK /\ AgentTypeOK

(* A row of the agent names a file of the server that has the row's hash,  *)
(* whatever changed between the snapshot and the upload.                   *)
RowsResolve ==
    \A p \in Paths : synced[p] # NoRow =>
        /\ synced[p].file \in DOMAIN metadata
        /\ Read(synced[p].file) = synced[p].sha

(* A file that has not changed since its row was taken is not sent again,  *)
(* by no event and no scan of a later start.                               *)
UnchangedIsNotSent == Doing("upload") => work.path \notin quiet

(* While the agent watches, a file that stays as it is gets to the server, *)
(* unless it changed while the observer was not running and no scan or     *)
(* event has come to it since.                                             *)
SettledFilesSynced ==
    \A p \in Paths :
        []<>(\/ mode = "stopped" \/ p \in missed
             \/ ~Exists(p) \/ synced[p].sha = folder[p].content)
=============================================================================
