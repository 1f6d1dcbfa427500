------------------------------ MODULE Transit ------------------------------
(***************************************************************************)
(* Trees of files on their way from one disk to another.  A package goes   *)
(* from a directory, or from an archive of any origin, by the server to a  *)
(* worker that unpacks it and makes its command (src/taskport/packages.py, *)
(* src/taskport/worker.py); the outputs of a script go as artifacts to the *)
(* server and from there to a client (src/taskport/worker.py,              *)
(* src/taskport/client.py).  The disk at the far end may take names for    *)
(* the same that the disk of origin, or the server, distinguish.           *)
(*                                                                         *)
(* Files arrive one by one, so that each meets those that came before it.  *)
(* What is lost and repeated on the way is the matter of Uploads, Client   *)
(* and Worker.                                                             *)
(***************************************************************************)
EXTENDS Packages

CONSTANTS
    Trees,      \* directories that are published
    Archives,   \* archives that something else than pack_directory has made
    Outputs,    \* output directories that scripts leave behind
    Disks,      \* how disks know names: a map of components for each
    MaxOutputs, \* "Too many artifacts"
    Logs        \* the log files, as nodes under _logs

\* The disks distinguish at least the names that differ when casefolded.
ASSUME TransitAssumption ==
    /\ "_logs" \in Components
    /\ Trees \cup Outputs \subseteq {tree \in SUBSET Node : IsTree(tree)}
    /\ Archives \subseteq Seq(Entry)
    /\ Disks \subseteq [Components -> Components]
    /\ \A disk \in Disks : \A a, b \in Components : disk[a] = disk[b] => Fold[a] = Fold[b]
    /\ Logs \subseteq {n \in Node : n.kind = "file" /\ Len(n.path) = 2 /\ n.path[1] = "_logs"}
    /\ IsFiniteSet(Logs)
    /\ \A n, m \in Logs : Key(n.path) = Key(m.path) => n = m
    /\ MaxOutputs \in Nat

VARIABLES
    stage,      \* how far the story is
    disk,       \* the disk at the far end
    source,     \* the tree at the near end
    parcel,     \* the entries of the archive, or the files that are up- or downloaded
    next,       \* the index of the next one
    dirs,       \* the directories that have been made on the disk, as it knows them
    files,      \* the files there: path and content
    artifacts,  \* the artifacts the server has, as entries
    arguments,  \* the names to which the call gives a value
    command     \* whose value each placeholder of the command got

tvars == <<stage, disk, source, parcel, next, dirs, files, artifacts, arguments, command>>
delivery == <<next, dirs, files>>
call == <<arguments, command>>

Packaging == {"packing", "sent", "refused", "published", "accepted", "unpacking",
              "unpack failed", "unpacked", "running", "command failed"}
Outputting == {"collecting", "uploading", "uploaded", "upload failed", "interrupted",
               "downloading", "downloaded", "download failed"}

File == [path : Path, content : Contents]

TransitTypeOK ==
    /\ stage \in Packaging \cup Outputting
    /\ disk \in Disks
    /\ source \in SUBSET Node
    /\ parcel \in Seq(Entry)
    /\ next \in Nat \ {0}
    /\ dirs \in SUBSET Path
    /\ files \in SUBSET File
    /\ artifacts \in SUBSET Entry
    /\ arguments \in SUBSET InputNames

TransitInit ==
    /\ \/ stage = "packing" /\ source \in Trees /\ parcel = <<>>
       \/ stage = "sent" /\ source = {} /\ parcel \in Archives
       \/ stage = "collecting" /\ source \in Outputs /\ parcel = <<>>
    /\ disk \in Disks
    /\ next = 1
    /\ dirs = {}
    /\ files = {}
    /\ artifacts = {}
    /\ arguments = {}
    /\ command = <<>>

-----------------------------------------------------------------------------
(* The disk at the far end.                                                *)

OnDisk(path) == Mapped(disk, path)

Occupied == {f.path : f \in files}

\* mkdir(parents=True, exist_ok=True), then open("wb") or os.replace.
CanPut(e) ==
    LET d == OnDisk(e.path) IN
    /\ Parents(d) \cap Occupied = {}
    /\ IF e.directory THEN d \notin Occupied ELSE d \notin dirs

Put(e) ==
    LET d == OnDisk(e.path) IN
    /\ dirs' = dirs \cup Parents(d) \cup (IF e.directory THEN {d} ELSE {})
    /\ files' = IF e.directory
                THEN files
                ELSE {f \in files : f.path # d} \cup {[path |-> d, content |-> e.content]}

\* One more entry, the end, or an OSError; an open file is not a path to another.
Deliver(going, done, failed) ==
    /\ stage = going
    /\ \/ /\ next \in 1..Len(parcel)
          /\ CanPut(parcel[next])
          /\ Put(parcel[next])
          /\ next' = next + 1
          /\ stage' = stage
       \/ /\ next \in 1..Len(parcel)
          /\ ~CanPut(parcel[next])
          /\ stage' = failed
          /\ UNCHANGED delivery
       \/ /\ next > Len(parcel)
          /\ stage' = done
          /\ UNCHANGED delivery
    /\ UNCHANGED <<disk, source, parcel, artifacts, call>>

-----------------------------------------------------------------------------
(* Packages.                                                               *)

\* taskport publish: pack_directory ends with inspect_package.
Pack ==
    /\ stage = "packing"
    /\ \/ /\ Packable(source)
          /\ \E list \in Listings(FilesOf(Kept(source))) :
                 /\ inspect_package(list)
                 /\ parcel' = list
          /\ stage' = "sent"
       \/ /\ \/ ~Packable(source)
             \/ \A list \in Listings(FilesOf(Kept(source))) : ~inspect_package(list)
          /\ stage' = "refused"
          /\ UNCHANGED parcel
    /\ UNCHANGED <<disk, source, delivery, artifacts, call>>

\* The server trusts no one's inspection.
Publish ==
    /\ stage = "sent"
    /\ stage' = IF inspect_package(parcel) THEN "published" ELSE "refused"
    /\ UNCHANGED <<disk, source, parcel, delivery, artifacts, call>>

Submit(a) ==
    /\ stage = "published"
    /\ validate_arguments(ManifestOf(parcel), a)
    /\ stage' = "accepted"
    /\ arguments' = a
    /\ UNCHANGED <<disk, source, parcel, delivery, artifacts, command>>

\* extract_package inspects once more, then makes the root.
StartUnpacking ==
    /\ stage = "accepted"
    /\ stage' = IF inspect_package(parcel) THEN "unpacking" ELSE "unpack failed"
    /\ UNCHANGED <<disk, source, parcel, delivery, artifacts, call>>

Unpack == Deliver("unpacking", "unpacked", "unpack failed")

\* Worker._command: values[name] may raise KeyError.
MakeCommand ==
    /\ stage = "unpacked"
    /\ LET m == ManifestOf(parcel) IN
       IF /\ validate_arguments(m, arguments)
          /\ m.placeholders \subseteq DOMAIN Values(arguments)
       THEN /\ stage' = "running"
            /\ command' = [n \in m.placeholders |-> Values(arguments)[n]]
       ELSE stage' = "command failed" /\ UNCHANGED command
    /\ UNCHANGED <<disk, source, parcel, delivery, artifacts, arguments>>

-----------------------------------------------------------------------------
(* Outputs.                                                                *)

\* Mutant: the directory of the logs is not reserved.
CollectableAnywhere(tree) ==
    /\ \A n \in tree : n.kind # "link"
    /\ \A n \in FilesOf(tree) : safe_name(n.path)
    /\ Cardinality(FilesOf(tree)) + Cardinality(Logs) <= MaxOutputs

\* What _upload_outputs lets pass.
Collectable(tree) ==
    /\ \A n \in tree : n.kind # "link"
    /\ \A n \in FilesOf(tree) : safe_name(n.path) /\ Fold[n.path[1]] # Fold["_logs"]
    /\ Cardinality(FilesOf(tree)) + Cardinality(Logs) <= MaxOutputs

\* os.walk: everything is looked at before anything is uploaded, the logs included.
Collect ==
    /\ stage = "collecting"
    /\ IF Collectable(source)
       THEN /\ \E logs \in Listings(Logs), list \in Listings(FilesOf(source)) :
                   parcel' = logs \o list
            /\ stage' = "uploading"
       ELSE stage' = "upload failed" /\ UNCHANGED parcel
    /\ UNCHANGED <<disk, source, delivery, artifacts, call>>

\* add_artifact: one artifact for each name, ignoring case.
NameFree(e) == \A other \in artifacts : Key(other.path) = Key(e.path) => other = e

Upload ==
    /\ stage = "uploading"
    /\ \/ /\ next \in 1..Len(parcel) /\ NameFree(parcel[next])
          /\ artifacts' = artifacts \cup {parcel[next]}
          /\ next' = next + 1
          /\ UNCHANGED stage
       \/ /\ next \in 1..Len(parcel) /\ ~NameFree(parcel[next])
          /\ stage' = "upload failed"
          /\ UNCHANGED <<next, artifacts>>
       \/ /\ next > Len(parcel)
          /\ stage' = "uploaded"
          /\ UNCHANGED <<next, artifacts>>
    /\ UNCHANGED <<disk, source, parcel, dirs, files, call>>

\* The lease is lost, or an outage outlasts the retries.
Interrupt ==
    /\ stage = "uploading"
    /\ stage' = "interrupted"
    /\ UNCHANGED <<disk, source, parcel, delivery, artifacts, call>>

\* taskport artifacts, into an empty directory: what has arrived, also of a failed call.
StartDownload ==
    /\ stage \in {"uploaded", "upload failed", "interrupted"}
    /\ stage' = "downloading"
    /\ parcel' \in Bijection(1..Cardinality(artifacts), artifacts)
    /\ next' = 1
    /\ UNCHANGED <<disk, source, dirs, files, artifacts, call>>

Download == Deliver("downloading", "downloaded", "download failed")

TransitNext ==
    \/ Pack \/ Publish \/ StartUnpacking \/ Unpack \/ MakeCommand
    \/ \E a \in SUBSET InputNames : Submit(a)
    \/ Collect \/ Upload \/ Interrupt \/ StartDownload \/ Download

TransitSpec == TransitInit /\ [][TransitNext]_tvars

-----------------------------------------------------------------------------
(* Properties.                                                             *)

\* A package that the server has published unpacks on any disk, entry by entry: no file
\* is in the way of a directory, and no directory in the way of a file.
UnpackingSucceeds == stage # "unpack failed"

\* A submission that the server has accepted never fails for want of an argument: each
\* placeholder finds a value, whatever the schema leaves optional.
CommandsComplete == stage # "command failed"

\* No file that has been unpacked or downloaded is overwritten by a later one, whether
\* its disk distinguishes upper and lower case or not.
DeliveredIntact ==
    stage \in {"unpacking", "unpacked", "running", "downloading", "downloaded"} =>
        \A i \in 1..(next - 1) :
            ~parcel[i].directory =>
                [path |-> OnDisk(parcel[i].path), content |-> parcel[i].content] \in files

\* What a worker finds unpacked from a published directory is what that directory
\* held, without .git and the like, and nothing else.
RoundTrip ==
    stage = "unpacked" /\ source # {} =>
        files = {[path |-> OnDisk(n.path), content |-> n.content] :
                    n \in {m \in FilesOf(source) :
                             \A i \in 1..Len(m.path) : m.path[i] \notin Ignored}}

\* "64 MiB compressed/expanded task packages, 2,048 package files" (README.md): the limits
\* hold of what is written to the worker's disk, whoever made the archive.
UnpackedWithinLimits ==
    stage \in {"unpacking", "unpacked", "running"} =>
        /\ Cardinality(files) <= MaxFiles
        /\ Cardinality(UNION {{f} \X (1..f.content.size) : f \in files}) <= MaxBytes

\* What a schema with additional properties lets in stays out of the command, whoever
\* made the archive: a value that the user gave gets there only as an input that the
\* published schema declares, and so validates, and never under a name of the worker's.
OnlyDeclaredReach ==
    stage = "running" =>
        \A n \in DOMAIN command :
            command[n] = "user" => n \in ManifestOf(parcel).properties \ RESERVED

\* Where names that differ are different files, every download succeeds: the artifacts of
\* a call, its logs included, are the files of one tree.
DownloadsSucceed ==
    (\A a, b \in Components : disk[a] = disk[b] => a = b) => stage # "download failed"

=============================================================================
