------------------------- MODULE UploadsRefinement --------------------------
(***************************************************************************)
(* The handlers that receive files implement filing: however many steps a  *)
(* handler takes, its row and its file are there at one moment, that of    *)
(* the transaction.                                                        *)
(***************************************************************************)
EXTENDS Uploads

\* Artifacts of calls and packages of functions, whoever brings them.
Things ==
    [kind : {"artifact"}, task : TaskIds, name : Names, content : Blobs] \cup PackageRequest

ThingOf(r) ==
    IF r.kind = "artifact"
    THEN [kind |-> "artifact", task |-> r.task, name |-> r.name, content |-> r.content]
    ELSE r

\* Names that differ in case only are one spot, and so is a version, whatever is in it.
SpotOf(x) ==
    IF x.kind = "artifact" THEN <<x.kind, x.task, Fold[x.name]>>
    ELSE <<x.kind, x.function, x.version>>

ShelfOf(x) == IF x.kind = "package" THEN x.function ELSE None

ProgressOf(s) ==
    CASE s \in {"receiving", "placing", "syncing", "recording"} -> "underway"
      [] s \in {"failed", "killed", "unsynced"} -> "failed"
      [] OTHER -> s

\* What the tables refer to.
Rows ==
    {x \in Things :
        IF x.kind = "artifact"
        THEN [name |-> x.name, blob |-> x.content] \in artifacts[x.task]
        ELSE definitions[x.function][x.version] = x.content}

Readable == {x \in Rows : Served(x.content)}

DefaultOf(f) ==
    IF latest[f] = None THEN NoRequest
    ELSE [kind |-> "package", function |-> f, version |-> latest[f],
          content |-> definitions[f][latest[f]]]

Shelving == INSTANCE Filing WITH
    Parcels <- Transfers, Nothing <- NoRequest,
    Spot <- [x \in Things |-> SpotOf(x)],
    Shelves <- Functions, Shelf <- [x \in Things |-> ShelfOf(x)],
    progress <- [h \in Transfers |-> ProgressOf(stage[h])],
    thing <- [h \in Transfers |-> ThingOf(request[h])],
    filed <- Rows,
    readable <- Readable,
    newest <- [f \in Functions |-> DefaultOf(f)]

\* An upload takes effect at one moment, in which its row can be seen and its file can
\* be downloaded, or never; whoever else uploads the same, and whenever the server dies.
ImplementsFiling == Shelving!FilingSpec

=============================================================================
