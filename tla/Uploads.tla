------------------------------ MODULE Uploads ------------------------------
(***************************************************************************)
(* The receipt of files (src/taskport/server.py): artifacts of a call and  *)
(* packages of a function.  A handler receives the body into a .part file, *)
(* installs it under its content hash, and then makes the store refer to   *)
(* it.  These are separate steps: other handlers, with the same contents   *)
(* or the same name, come between them, and so does the end of the call's  *)
(* lease or of the server process.  Every other operation of the store     *)
(* goes on meanwhile, as in Store.                                         *)
(*                                                                         *)
(* A handler may outlive its client, which has timed out and sends the     *)
(* file again: the repetition is another handler with the same request.    *)
(* The .part files have random names, so a handler is never used twice.    *)
(***************************************************************************)
EXTENDS Store

CONSTANTS
    Transfers,  \* bound: the handlers that receive a file
    Windows     \* os.name == "nt": there a directory cannot be flushed

ASSUME UploadsAssumption ==
    /\ Packages \cap Blobs = {}
    /\ Windows \in BOOLEAN

VARIABLES
    stage,      \* how far each handler is
    request,    \* what it has been asked to do
    parts,      \* the handlers whose .part file is in data/incoming
    files,      \* the contents installed in data/artifacts and data/packages
    synced      \* those whose directory entry has been flushed to the disk

store == vars
receipt == <<stage, request, parts>>
disk == <<files, synced>>
uvars == <<store, receipt, disk>>

Contents == Blobs \cup Packages

ArtifactRequest == [kind : {"artifact"}, task : TaskIds, token : Tokens, name : Names,
                    content : Blobs]
PackageRequest == [kind : {"package"}, function : Functions, version : Versions,
                   content : Packages]

NoRequest == [kind |-> "none"]

\* "unsynced": ended between the renaming of its file and the fsync of the directory.
Stages == {"idle", "receiving", "placing", "syncing", "recording",
           "answered", "failed", "killed", "unsynced"}

UploadsTypeOK ==
    /\ stage \in [Transfers -> Stages]
    /\ request \in [Transfers -> ArtifactRequest \cup PackageRequest \cup {NoRequest}]
    /\ \A h \in Transfers : stage[h] = "idle" <=> request[h] = NoRequest
    /\ parts \in SUBSET Transfers
    /\ files \in SUBSET Contents
    /\ synced \in SUBSET files

UploadsInit ==
    /\ Init
    /\ stage = [h \in Transfers |-> "idle"]
    /\ request = [h \in Transfers |-> NoRequest]
    /\ parts = {}
    /\ files = {}
    /\ synced = {}

-----------------------------------------------------------------------------
(* The steps of a handler.                                                 *)

Content(h) == request[h].content

\* The directory of a file: data/artifacts or data/packages.
Beside(content) == IF content \in Packages THEN Packages ELSE Blobs

Advance(h, next) == stage' = [stage EXCEPT ![h] = next]

\* safe_name and validate_lease have passed; receive_file makes its .part file.
ArtifactArrives(h, t, k, a) ==
    /\ stage[h] = "idle"
    /\ k \in Issued
    /\ LeaseHeld(t, k)
    /\ Advance(h, "receiving")
    /\ request' = [request EXCEPT ![h] = [kind |-> "artifact", task |-> t, token |-> k,
                                          name |-> a.name, content |-> a.blob]]
    /\ parts' = parts \cup {h}
    /\ UNCHANGED <<store, disk>>

PackageArrives(h, f, v, p) ==
    /\ stage[h] = "idle"
    /\ Advance(h, "receiving")
    /\ request' = [request EXCEPT ![h] = [kind |-> "package", function |-> f, version |-> v,
                                          content |-> p]]
    /\ parts' = parts \cup {h}
    /\ UNCHANGED <<store, disk>>

\* Mutant: the row is written as soon as the file is received.
ReceivedRecordsFirst(h) ==
    /\ stage[h] = "receiving"
    /\ Advance(h, "recording")
    /\ parts' = parts \ {h}
    /\ UNCHANGED <<store, request, disk>>

\* The body has come in whole, is flushed, has the right checksum and, if it is a
\* package, passes inspect_package.  install_blob then looks whether the file exists.
Received(h) ==
    /\ stage[h] = "receiving"
    /\ IF Content(h) \in files
       THEN Advance(h, "recording") /\ parts' = parts \ {h}
       ELSE Advance(h, "placing") /\ UNCHANGED parts
    /\ UNCHANGED <<store, request, disk>>

\* os.replace: over a file that another handler has installed meanwhile, if need be.
\* On Windows it may be refused then, because the file is open for a download.
Place(h) ==
    /\ stage[h] = "placing"
    /\ \/ files' = files \cup {Content(h)}
       \/ Content(h) \in files /\ UNCHANGED files
    /\ Advance(h, "syncing")
    /\ parts' = parts \ {h}
    /\ UNCHANGED <<store, request, synced>>

\* Mutant: the directory is not flushed.
SyncSkipped(h) ==
    /\ stage[h] = "syncing"
    /\ Advance(h, "recording")
    /\ UNCHANGED <<store, request, parts, disk>>

\* fsync of the directory flushes every entry in it.
Sync(h) ==
    /\ stage[h] = "syncing"
    /\ synced' = IF Windows THEN synced ELSE synced \cup (files \cap Beside(Content(h)))
    /\ Advance(h, "recording")
    /\ UNCHANGED <<store, request, parts, files>>

\* add_artifact checks the lease again: the receipt may have taken long.
MayRecord(h) ==
    LET r == request[h] IN
    IF r.kind = "artifact"
    THEN LeaseHeld(r.task, r.token) /\ Fits(r.task, [name |-> r.name, blob |-> r.content])
    ELSE Publishable(r.function, r.version, r.content)

\* Mutant: the check before the receipt is enough.
RecordUnchecked(h) ==
    /\ stage[h] = "recording"
    /\ LET r == request[h] IN
       IF r.kind = "artifact"
       THEN /\ artifacts' = [artifacts EXCEPT ![r.task] =
                                @ \cup {[name |-> r.name, blob |-> r.content]}]
            /\ UNCHANGED <<catalog, serves, tasks, pending, clock>>
       ELSE Publish(r.function, r.version, r.content)
    /\ Advance(h, "answered")
    /\ UNCHANGED <<request, parts, disk>>

\* The row is committed, and the handler answers.
Record(h) ==
    /\ stage[h] = "recording"
    /\ LET r == request[h] IN
       \/ /\ r.kind = "artifact"
          /\ AddArtifact(r.task, r.token, [name |-> r.name, blob |-> r.content])
       \/ /\ r.kind = "package"
          /\ Publish(r.function, r.version, r.content)
    /\ Advance(h, "answered")
    /\ UNCHANGED <<request, parts, disk>>

\* 409: the lease has gone, or the name or the version has other contents.
Refuse(h) ==
    /\ stage[h] = "recording"
    /\ ~MayRecord(h)
    /\ Advance(h, "failed")
    /\ UNCHANGED <<store, request, parts, disk>>

\* Mutant: the .part file is removed only when a file has been received.
AbortLeavesPart(h) ==
    /\ stage[h] \in {"receiving", "placing", "syncing", "recording"}
    /\ Advance(h, IF stage[h] = "syncing" THEN "unsynced" ELSE "failed")
    /\ UNCHANGED <<store, request, parts, disk>>

\* The client disconnects, the body is too long, has another checksum or is no
\* package, the disk or SQLite's lock fails: whatever was raised, the .part goes.
Abort(h) ==
    /\ stage[h] \in {"receiving", "placing", "syncing", "recording"}
    /\ Advance(h, IF stage[h] = "syncing" THEN "unsynced" ELSE "failed")
    /\ parts' = parts \ {h}
    /\ UNCHANGED <<store, request, disk>>

-----------------------------------------------------------------------------
(* The world.                                                              *)

\* Mutant: a handler that was killed is forgotten.
KilledForgotten(s) == "idle"

Killed(s) ==
    CASE s \in {"receiving", "placing", "recording"} -> "killed"
      [] s = "syncing" -> "unsynced"
      [] OTHER -> s

\* The server process dies: .part files and installed files stay as they are.
RestartServer ==
    /\ Restart
    /\ stage' = [h \in Transfers |-> Killed(stage[h])]
    /\ UNCHANGED <<request, parts, disk>>

\* Every other operation of the store.
StoreGoesOn ==
    /\ \/ \E t \in TaskIds, s \in Submissions : Submit(t, s)
       \/ \E t \in TaskIds : Cancel(t)
       \/ Expire
       \/ \E w \in WorkerIds, f \in Functions, r \in RequestIds : ClaimArrive(w, f, r)
       \/ \E c \in claims : ClaimCommit(c)
       \/ \E t \in TaskIds, k \in Tokens : BeatArrive(t, k)
       \/ \E b \in beats : BeatCommit(b)
       \/ \E t \in TaskIds, k \in Tokens, c \in Completions : Complete(t, k, c)
       \/ Tick
       \/ LockTimeout
    /\ UNCHANGED <<receipt, disk>>

HandlerStep(h) ==
    \/ \E t \in TaskIds, k \in Tokens, a \in Artifact : ArtifactArrives(h, t, k, a)
    \/ \E f \in Functions, v \in Versions, p \in Packages : PackageArrives(h, f, v, p)
    \/ Received(h) \/ Place(h) \/ Sync(h) \/ Record(h) \/ Refuse(h) \/ Abort(h)

UploadsNext ==
    \/ \E h \in Transfers : HandlerStep(h)
    \/ RestartServer
    \/ StoreGoesOn

UploadsSpec == UploadsInit /\ [][UploadsNext]_uvars

-----------------------------------------------------------------------------
(* Properties.                                                             *)

\* The contents the store refers to, as artifacts of calls and as packages.
Referenced ==
    {a.blob : a \in UNION {artifacts[t] : t \in TaskIds}}
    \cup ({definitions[f][v] : f \in Functions, v \in Versions} \ {None})

\* GET of a package or an artifact: path.is_file(), or else 404 and 410.
Served(content) == content \in files

\* "a crash can leave an unreferenced file, but normal process restart cannot expose
\* a database record for an unfinished upload" (docs/protocol.md): every artifact and
\* every package a row names can be downloaded, whoever installed its file.
RowsHaveFiles == \A content \in Referenced : Served(content)

\* "Failed/crashed uploads can leave unreferenced blobs or .part files" (README.md):
\* a .part file belongs to a handler that still needs it, unless the server was
\* killed while that handler had it.
PartsBelong ==
    \A h \in parts : stage[h] \in {"receiving", "placing", "killed"}

\* Where directories are flushed, a row refers to a file whose directory entry is on the
\* disk, or else the handler that installed the file has not yet flushed the directory, or
\* was stopped just before it: another handler of the same contents does not wait for it
\* (server.py:28).  No other row may be lost with its file's name in a power failure.
FlushedUnlessInstalling ==
    ~Windows => \A content \in Referenced \ synced :
        \E h \in Transfers : stage[h] \in {"syncing", "unsynced"} /\ Content(h) = content

\* Receipts of any length only ever make the steps of Store: in particular the row of
\* an artifact is added under a lease that holds at that time, not before.
UploadsDriveStore == Spec

=============================================================================
