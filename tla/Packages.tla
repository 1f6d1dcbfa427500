------------------------------ MODULE Packages ------------------------------
(***************************************************************************)
(* Portable packages (src/taskport/packages.py).  A path is a sequence of  *)
(* components; a tree is a set of nodes on a disk, an archive a sequence   *)
(* of entries, which need not have come from a tree.                       *)
(***************************************************************************)
EXTENDS Manifest, SequencesExt

CONSTANTS
    Components,     \* the names of files and directories
    Fold,           \* casefold of each
    Unsafe,         \* those that do not work on both Windows and POSIX
    Ignored,        \* .git, .venv, __pycache__ and the like
    Contents,       \* contents of files
    MaxBytes,       \* MAX_PACKAGE_BYTES
    MaxFiles,       \* MAX_PACKAGE_FILES
    MaxManifest,    \* the longest task.json
    NoManifest      \* the contents do not parse as a manifest

ASSUME PackagesAssumption ==
    /\ Fold \in [Components -> Components]
    /\ "task.json" \in Components
    /\ \A c \in Contents : c.size \in Nat /\ c.manifest \in Manifests \cup {NoManifest}
    /\ MaxBytes \in Nat /\ MaxFiles \in Nat /\ MaxManifest \in Nat

Path == Seq(Components) \ {<<>>}

\* An entry is sound if its name is as stored, it is not encrypted and has its checksum.
Entry == [path : Path, directory : BOOLEAN, link : BOOLEAN, sound : BOOLEAN,
          content : Contents]

Node == [path : Path, kind : {"file", "directory", "link"}, content : Contents]

\* A path with each component mapped: to how it folds, or to how a disk knows it.
Mapped(map, path) == [i \in 1..Len(path) |-> map[path[i]]]

Prefix(path, n) == [i \in 1..n |-> path[i]]

\* Mutant: "." is taken for a directory inside the root.
ParentsWithDot(path) == {Prefix(path, n) : n \in 0..(Len(path) - 1)}

\* PurePosixPath.parents, without ".".
Parents(path) == {Prefix(path, n) : n \in 1..(Len(path) - 1)}

safe_name(path) == path # <<>> /\ \A i \in 1..Len(path) : path[i] \notin Unsafe

\* Mutant: paths are compared as they are.
KeyAsIs(path) == path

Key(path) == Mapped(Fold, path)

KeysApart(entries) ==
    \A i, j \in 1..Len(entries) : Key(entries[i].path) = Key(entries[j].path) => i = j

\* Mutant: entries are only compared with each other.
NoCheckOfParents(entries) == TRUE

\* No path is both a file and a directory.
FilesAreLeaves(entries) ==
    \A i, j \in 1..Len(entries) :
        ~entries[i].directory => Key(entries[i].path) \notin Parents(Key(entries[j].path))

\* The total of the sizes, counted byte by byte.
Bytes(entries) == UNION {{i} \X (1..entries[i].content.size) : i \in 1..Len(entries)}

\* Mutant: each file for itself.
WithinByFile(entries) ==
    /\ Len(entries) <= MaxFiles
    /\ \A i \in 1..Len(entries) : entries[i].content.size <= MaxBytes

Within(entries) == Len(entries) <= MaxFiles /\ Cardinality(Bytes(entries)) <= MaxBytes

\* archive.read("task.json"): the one file of exactly this name.
IsManifest(e) ==
    /\ e.path = <<"task.json">>
    /\ ~e.directory

ManifestOf(entries) ==
    entries[CHOOSE i \in 1..Len(entries) : IsManifest(entries[i])].content.manifest

HasManifest(entries) ==
    \E i \in 1..Len(entries) :
        /\ IsManifest(entries[i])
        /\ entries[i].content.size <= MaxManifest
        /\ entries[i].content.manifest # NoManifest
        /\ model_validate(entries[i].content.manifest)

inspect_package(entries) ==
    /\ Within(entries)
    /\ \A i \in 1..Len(entries) :
           safe_name(entries[i].path) /\ ~entries[i].link /\ entries[i].sound
    /\ KeysApart(entries)
    /\ FilesAreLeaves(entries)
    /\ HasManifest(entries)

-----------------------------------------------------------------------------
(* Directories.                                                            *)

\* Each path is one node, and what it is in is a directory.
IsTree(tree) ==
    /\ IsFiniteSet(tree)
    /\ \A n \in tree :
           /\ \A m \in tree : m.path = n.path => m = n
           /\ \A parent \in Parents(n.path) :
                  \E m \in tree : m.path = parent /\ m.kind = "directory"

\* Mutant: .git and the like are packed too.
KeptAll(tree) == tree

Kept(tree) == {n \in tree : \A i \in 1..Len(n.path) : n.path[i] \notin Ignored}

FilesOf(nodes) == {n \in nodes : n.kind = "file"}

\* The limits of pack_directory are among those of inspect_package.
Packable(tree) ==
    /\ \A n \in Kept(tree) : n.kind # "link"
    /\ \A n \in FilesOf(Kept(tree)) : safe_name(n.path)

EntryOf(n) == [path |-> n.path, directory |-> FALSE, link |-> FALSE, sound |-> TRUE,
               content |-> n.content]

\* The files in one order or another: sorted by path, by name, or as os.walk finds them.
Listings(nodes) ==
    {[i \in 1..Cardinality(nodes) |-> EntryOf(list[i])] :
        list \in Bijection(1..Cardinality(nodes), nodes)}

=============================================================================
