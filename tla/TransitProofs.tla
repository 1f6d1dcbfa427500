--------------------------- MODULE TransitProofs ---------------------------
(***************************************************************************)
(* Theorems about Transit: what inspect_package lets pass unpacks on every *)
(* disk, a call that is accepted has its command, and no file that arrives *)
(* is lost to another.                                                     *)
(***************************************************************************)
EXTENDS Transit, SequenceTheorems, FiniteSetTheorems, TLAPS

-----------------------------------------------------------------------------
(* Paths.                                                                  *)

LEMMA PathIsFunction ==
    ASSUME NEW p \in Path
    PROVE  /\ Len(p) \in Nat \ {0}
           /\ p \in [1..Len(p) -> Components]
BY EmptySeq, LenProperties DEF Path

\* A sequence of at least one component is a path.
LEMMA FunctionIsPath ==
    ASSUME NEW n \in Nat \ {0}, NEW p \in [1..n -> Components]
    PROVE  p \in Path /\ Len(p) = n
<1>1. p \in Seq(Components)
  BY SeqDef
<1>2. DOMAIN p = 1..n /\ DOMAIN p = 1..Len(p) /\ Len(p) \in Nat
  BY <1>1, LenProperties
<1>3. Len(p) = n
  BY <1>2
<1>4. p # <<>>
  BY <1>3, EmptySeq
<1> QED
  BY <1>1, <1>3, <1>4 DEF Path

LEMMA MappedPath ==
    ASSUME NEW map \in [Components -> Components], NEW p \in Path
    PROVE  /\ Mapped(map, p) \in Path
           /\ Len(Mapped(map, p)) = Len(p)
           /\ \A i \in 1..Len(p) : Mapped(map, p)[i] = map[p[i]]
<1>1. Len(p) \in Nat \ {0} /\ p \in [1..Len(p) -> Components]
  BY PathIsFunction
<1>2. Mapped(map, p) \in [1..Len(p) -> Components]
  BY <1>1 DEF Mapped
<1> QED
  BY <1>1, <1>2, FunctionIsPath DEF Mapped

LEMMA PrefixPath ==
    ASSUME NEW p \in Path, NEW n \in 1..Len(p)
    PROVE  /\ Prefix(p, n) \in Path
           /\ Len(Prefix(p, n)) = n
           /\ \A i \in 1..n : Prefix(p, n)[i] = p[i]
<1>1. Len(p) \in Nat \ {0} /\ p \in [1..Len(p) -> Components]
  BY PathIsFunction
<1>2. n \in Nat \ {0} /\ 1..n \subseteq 1..Len(p)
  BY <1>1
<1>3. Prefix(p, n) \in [1..n -> Components]
  BY <1>1, <1>2 DEF Prefix
<1> QED
  BY <1>2, <1>3, FunctionIsPath DEF Prefix

\* If one map distinguishes all names that another one distinguishes, then paths that are
\* the same to the first are the same to the second.
Finer(f, g) ==
    /\ f \in [Components -> Components]
    /\ g \in [Components -> Components]
    /\ \A a, b \in Components : f[a] = f[b] => g[a] = g[b]

LEMMA SamePath ==
    ASSUME NEW f, NEW g, Finer(f, g), NEW p \in Path, NEW q \in Path,
           Mapped(f, p) = Mapped(f, q)
    PROVE  Mapped(g, p) = Mapped(g, q)
<1>1. /\ Len(p) = Len(q)
      /\ \A i \in 1..Len(p) : f[p[i]] = f[q[i]]
  BY MappedPath DEF Finer
<1>2. p \in [1..Len(p) -> Components] /\ q \in [1..Len(p) -> Components]
  BY <1>1, PathIsFunction
<1>3. \A i \in 1..Len(p) : g[p[i]] = g[q[i]]
  BY <1>1, <1>2 DEF Finer
<1> QED
  BY <1>1, <1>3 DEF Mapped

LEMMA ParentsOf ==
    ASSUME NEW p \in Path, NEW q
    PROVE  q \in Parents(p) <=> \E n \in 1..(Len(p) - 1) : q = Prefix(p, n)
BY DEF Parents

LEMMA SameParent ==
    ASSUME NEW f, NEW g, Finer(f, g), NEW p \in Path, NEW q \in Path,
           Mapped(f, q) \in Parents(Mapped(f, p))
    PROVE  Mapped(g, q) \in Parents(Mapped(g, p))
<1>1. /\ Mapped(f, p) \in Path /\ Len(Mapped(f, p)) = Len(p)
      /\ Mapped(f, q) \in Path /\ Len(Mapped(f, q)) = Len(q)
      /\ Mapped(g, p) \in Path /\ Len(Mapped(g, p)) = Len(p)
      /\ Len(p) \in Nat \ {0}
  BY MappedPath, PathIsFunction DEF Finer
<1>2. PICK n \in 1..(Len(p) - 1) : Mapped(f, q) = Prefix(Mapped(f, p), n)
  BY <1>1, ParentsOf
<1>3. n \in 1..Len(p)
  BY <1>1, <1>2
<1>4. Len(q) = n /\ \A i \in 1..n : Mapped(f, q)[i] = Mapped(f, p)[i]
  BY <1>1, <1>2, <1>3, PrefixPath
<1>5. \A i \in 1..n : f[q[i]] = f[p[i]]
  BY <1>1, <1>3, <1>4, MappedPath DEF Finer
<1>6. p \in [1..Len(p) -> Components] /\ q \in [1..n -> Components]
  BY <1>4, PathIsFunction
<1>7. \A i \in 1..n : g[q[i]] = g[p[i]]
  BY <1>3, <1>5, <1>6 DEF Finer
<1>8. Mapped(g, q) = Prefix(Mapped(g, p), n)
  BY <1>1, <1>3, <1>4, <1>7 DEF Mapped, Prefix
<1> QED
  BY <1>1, <1>2, <1>8, ParentsOf

\* Disks distinguish what differs when casefolded, and some distinguish everything.
LEMMA DiskFinerThanFold ==
    ASSUME disk \in Disks
    PROVE  Finer(disk, Fold)
BY TransitAssumption, PackagesAssumption DEF Finer

Identity == [c \in Components |-> c]

LEMMA MappedIdentity ==
    ASSUME NEW p \in Path
    PROVE  Mapped(Identity, p) = p
BY PathIsFunction DEF Mapped, Identity

LEMMA DiskPath ==
    ASSUME disk \in Disks, NEW p \in Path
    PROVE  OnDisk(p) \in Path
BY TransitAssumption, MappedPath DEF OnDisk

-----------------------------------------------------------------------------
(* Delivery.                                                               *)

FileAt(i) == [path |-> OnDisk(parcel[i].path), content |-> parcel[i].content]

\* What is on the disk after some entries have arrived: their files and directories.
Delivered ==
    /\ next \in 1..(Len(parcel) + 1)
    /\ \A f \in files : \E i \in 1..(next - 1) : ~parcel[i].directory /\ f = FileAt(i)
    /\ \A i \in 1..(next - 1) : ~parcel[i].directory => FileAt(i) \in files
    /\ \A d \in dirs :
           \E i \in 1..(next - 1) :
               \/ d \in Parents(OnDisk(parcel[i].path))
               \/ parcel[i].directory /\ d = OnDisk(parcel[i].path)

\* Entries that do not meet on the disk.
PathsApart ==
    \A i, j \in 1..Len(parcel) :
        OnDisk(parcel[i].path) = OnDisk(parcel[j].path) => i = j

DoNotMeet ==
    /\ PathsApart
    /\ \A i, j \in 1..Len(parcel) :
           ~parcel[i].directory =>
               OnDisk(parcel[i].path) \notin Parents(OnDisk(parcel[j].path))

LEMMA EntryOfList ==
    ASSUME NEW list \in Seq(Entry), NEW i \in 1..Len(list)
    PROVE  list[i] \in Entry /\ list[i].path \in Path
<1>1. list[i] \in Entry
  BY ElementOfSeq
<1> QED
  BY <1>1 DEF Entry

LEMMA KeysApartPathsApart ==
    ASSUME disk \in Disks, parcel \in Seq(Entry), KeysApart(parcel)
    PROVE  PathsApart
<1> SUFFICES ASSUME NEW i \in 1..Len(parcel), NEW j \in 1..Len(parcel),
                    OnDisk(parcel[i].path) = OnDisk(parcel[j].path)
             PROVE  i = j
  BY DEF PathsApart
<1>1. parcel[i].path \in Path /\ parcel[j].path \in Path
  BY EntryOfList
<1>2. Key(parcel[i].path) = Key(parcel[j].path)
  BY <1>1, DiskFinerThanFold, SamePath DEF OnDisk, Key
<1> QED
  BY <1>2 DEF KeysApart

LEMMA InspectedDoNotMeet ==
    ASSUME disk \in Disks, parcel \in Seq(Entry), inspect_package(parcel)
    PROVE  DoNotMeet
<1>1. \A i \in 1..Len(parcel) : parcel[i].path \in Path
  BY EntryOfList
<1>2. Finer(disk, Fold)
  BY DiskFinerThanFold
<1>3. PathsApart
  BY KeysApartPathsApart DEF inspect_package
<1>4. ASSUME NEW i \in 1..Len(parcel), NEW j \in 1..Len(parcel), ~parcel[i].directory,
             OnDisk(parcel[i].path) \in Parents(OnDisk(parcel[j].path))
      PROVE  FALSE
  <2>1. Key(parcel[i].path) \in Parents(Key(parcel[j].path))
    BY <1>1, <1>2, <1>4, SameParent DEF OnDisk, Key
  <2> QED
    BY <1>4, <2>1 DEF inspect_package, FilesAreLeaves
<1> QED
  BY <1>3, <1>4 DEF DoNotMeet

LEMMA CanAlwaysPut ==
    ASSUME DoNotMeet, Delivered, parcel \in Seq(Entry), next \in 1..Len(parcel)
    PROVE  CanPut(parcel[next])
<1> DEFINE d == OnDisk(parcel[next].path)
<1>1. \A i \in 1..(next - 1) : i \in 1..Len(parcel) /\ i # next
  BY LenProperties
<1>2. Occupied \cap Parents(d) = {}
  <2> SUFFICES ASSUME NEW f \in files, f.path \in Parents(d)
               PROVE  FALSE
    BY DEF Occupied
  <2>1. PICK i \in 1..(next - 1) : ~parcel[i].directory /\ f = FileAt(i)
    BY DEF Delivered
  <2>2. f.path = OnDisk(parcel[i].path)
    BY <2>1 DEF FileAt
  <2> QED
    BY <1>1, <2>1, <2>2 DEF DoNotMeet
<1>3. d \notin Occupied
  <2> SUFFICES ASSUME NEW f \in files, f.path = d
               PROVE  FALSE
    BY DEF Occupied
  <2>1. PICK i \in 1..(next - 1) : ~parcel[i].directory /\ f = FileAt(i)
    BY DEF Delivered
  <2>2. f.path = OnDisk(parcel[i].path)
    BY <2>1 DEF FileAt
  <2> QED
    BY <1>1, <2>1, <2>2 DEF DoNotMeet, PathsApart
<1>4. ASSUME ~parcel[next].directory, d \in dirs
      PROVE  FALSE
  <2>1. PICK i \in 1..(next - 1) :
            \/ d \in Parents(OnDisk(parcel[i].path))
            \/ parcel[i].directory /\ d = OnDisk(parcel[i].path)
    BY <1>4 DEF Delivered
  <2> QED
    BY <1>1, <1>4, <2>1 DEF DoNotMeet, PathsApart
<1> QED
  BY <1>2, <1>3, <1>4 DEF CanPut

LEMMA PutDelivers ==
    ASSUME PathsApart, Delivered, parcel \in Seq(Entry), next \in 1..Len(parcel),
           Put(parcel[next]), next' = next + 1, UNCHANGED <<disk, parcel>>
    PROVE  Delivered'
<1> DEFINE d == OnDisk(parcel[next].path)
<1>1. /\ next' \in 1..(Len(parcel) + 1)
      /\ \A i \in 1..(next - 1) : i \in 1..(next' - 1) /\ i \in 1..Len(parcel) /\ i # next
      /\ next \in 1..(next' - 1)
      /\ \A i \in 1..(next' - 1) : i \in 1..(next - 1) \/ i = next
  BY LenProperties
<1>2. /\ \A i : FileAt(i)' = FileAt(i)
      /\ \A i : OnDisk(parcel[i].path)' = OnDisk(parcel[i].path)
  BY DEF FileAt, OnDisk
<1>3. ASSUME NEW f \in files'
      PROVE  \E i \in 1..(next' - 1) : ~parcel[i].directory /\ f = FileAt(i)
  <2>1. f \in files \/ (~parcel[next].directory /\ f = FileAt(next))
    BY DEF Put, FileAt
  <2> QED
    BY <1>1, <2>1 DEF Delivered
<1>4. ASSUME NEW i \in 1..(next' - 1), ~parcel[i].directory
      PROVE  FileAt(i) \in files'
  <2>1. CASE i = next
    BY <1>4, <2>1 DEF Put, FileAt
  <2>2. CASE i \in 1..(next - 1)
    <3>1. FileAt(i) \in files /\ FileAt(i).path # d
      BY <1>1, <1>4, <2>2 DEF Delivered, PathsApart, FileAt
    <3> QED
      BY <3>1 DEF Put
  <2> QED
    BY <1>1, <2>1, <2>2
<1>5. ASSUME NEW q \in dirs'
      PROVE  \E i \in 1..(next' - 1) :
                 \/ q \in Parents(OnDisk(parcel[i].path))
                 \/ parcel[i].directory /\ q = OnDisk(parcel[i].path)
  <2>1. \/ q \in dirs
        \/ q \in Parents(d)
        \/ parcel[next].directory /\ q = d
    BY DEF Put
  <2> QED
    BY <1>1, <2>1 DEF Delivered
<1> QED
  BY <1>1, <1>2, <1>3, <1>4, <1>5 DEF Delivered

LEMMA EmptyDelivered ==
    ASSUME next = 1, dirs = {}, files = {}, parcel \in Seq(Entry)
    PROVE  Delivered
BY LenProperties DEF Delivered

LEMMA PutTyped ==
    ASSUME disk \in Disks, dirs \in SUBSET Path, files \in SUBSET File,
           NEW e \in Entry, Put(e)
    PROVE  dirs' \in SUBSET Path /\ files' \in SUBSET File
<1>1. e.path \in Path /\ e.content \in Contents
  BY DEF Entry
<1>2. OnDisk(e.path) \in Path
  BY <1>1, DiskPath
<1>3. Parents(OnDisk(e.path)) \subseteq Path
  <2> SUFFICES ASSUME NEW q \in Parents(OnDisk(e.path))
               PROVE  q \in Path
    OBVIOUS
  <2>1. PICK n \in 1..(Len(OnDisk(e.path)) - 1) : q = Prefix(OnDisk(e.path), n)
    BY <1>2, ParentsOf
  <2>2. n \in 1..Len(OnDisk(e.path))
    BY <1>2, <2>1, PathIsFunction
  <2> QED
    BY <1>2, <2>1, <2>2, PrefixPath
<1>4. dirs' \in SUBSET Path
  BY <1>2, <1>3 DEF Put
<1>5. files' \in SUBSET File
  BY <1>1, <1>2 DEF Put, File
<1> QED
  BY <1>4, <1>5

-----------------------------------------------------------------------------
(* The limits.                                                             *)

LEMMA ColumnFinite ==
    ASSUME NEW x, NEW k \in Nat
    PROVE  IsFiniteSet({x} \X (1..k))
<1> DEFINE column == [b \in 1..k |-> <<x, b>>]
<1>1. column \in Surjection(1..k, {x} \X (1..k))
  <2>1. column \in [1..k -> {x} \X (1..k)]
    OBVIOUS
  <2>2. ASSUME NEW q \in {x} \X (1..k)
        PROVE  \E b \in 1..k : column[b] = q
    <3>1. q[2] \in 1..k /\ q = <<x, q[2]>>
      OBVIOUS
    <3> QED
      BY <3>1
  <2> QED
    BY <2>1, <2>2 DEF Surjection
<1>2. IsFiniteSet(1..k)
  BY FS_Interval
<1> QED
  BY <1>1, <1>2, FS_Surjection

LEMMA BytesFinite ==
    ASSUME NEW entries \in Seq(Entry)
    PROVE  IsFiniteSet(Bytes(entries))
<1> DEFINE n == Len(entries)
           Of(i) == {i} \X (1..entries[i].content.size)
           columns == {Of(i) : i \in 1..n}
           column == [i \in 1..n |-> Of(i)]
<1>1. n \in Nat
  BY LenProperties
<1>2. ASSUME NEW i \in 1..n
      PROVE  IsFiniteSet(Of(i))
  <2>1. entries[i].content.size \in Nat
    BY EntryOfList, PackagesAssumption DEF Entry
  <2> QED
    BY <2>1, ColumnFinite
<1>3. column \in Surjection(1..n, columns)
  BY DEF Surjection
<1>4. IsFiniteSet(columns)
  BY <1>1, <1>3, FS_Interval, FS_Surjection
<1>5. \A c \in columns : IsFiniteSet(c)
  BY <1>2
<1>6. IsFiniteSet(UNION columns)
  BY <1>4, <1>5, FS_UNION
<1> QED
  BY <1>6 DEF Bytes

\* A file on the disk is an entry of its own, and its bytes are that entry's.
LEMMA FilesAreEntries ==
    ASSUME Delivered, parcel \in Seq(Entry)
    PROVE  LET bytes == UNION {{f} \X (1..f.content.size) : f \in files}
           IN  /\ IsFiniteSet(files) /\ Cardinality(files) <= Len(parcel)
               /\ IsFiniteSet(bytes) /\ Cardinality(bytes) <= Cardinality(Bytes(parcel))
<1> DEFINE n == Len(parcel)
           bytes == UNION {{f} \X (1..f.content.size) : f \in files}
           Entered(f) == CHOOSE i \in 1..n : f = FileAt(i)
           entry == [f \in files |-> Entered(f)]
           byte == [q \in bytes |-> <<Entered(q[1]), q[2]>>]
<1>1. n \in Nat
  BY LenProperties
<1>2. ASSUME NEW f \in files
      PROVE  Entered(f) \in 1..n /\ f = FileAt(Entered(f))
  <2>1. \E i \in 1..n : f = FileAt(i)
    BY <1>1 DEF Delivered
  <2> QED
    BY <2>1
<1>3. entry \in Injection(files, 1..n)
  <2> HIDE DEF Entered
  <2> QED
    BY <1>2 DEF Injection, IsInjective
<1>4. ASSUME NEW q \in bytes
      PROVE  /\ q[1] \in files
             /\ q[2] \in 1..q[1].content.size
             /\ q = <<q[1], q[2]>>
  OBVIOUS
<1>5. ASSUME NEW q \in bytes
      PROVE  byte[q] \in Bytes(parcel)
  <2>1. Entered(q[1]) \in 1..n /\ q[1] = FileAt(Entered(q[1]))
    BY <1>2, <1>4
  <2> HIDE DEF Entered
  <2>2. q[1].content = parcel[Entered(q[1])].content
    BY <2>1 DEF FileAt
  <2>3. q[2] \in 1..parcel[Entered(q[1])].content.size
    BY <1>4, <2>2
  <2>4. <<Entered(q[1]), q[2]>>
            \in {Entered(q[1])} \X (1..parcel[Entered(q[1])].content.size)
    BY <2>3
  <2> QED
    BY <2>1, <2>4 DEF Bytes
<1>6. byte \in Injection(bytes, Bytes(parcel))
  <2>1. byte \in [bytes -> Bytes(parcel)]
    BY <1>5
  <2>2. ASSUME NEW q \in bytes, NEW r \in bytes, byte[q] = byte[r]
        PROVE  q = r
    <3>1. Entered(q[1]) = Entered(r[1]) /\ q[2] = r[2]
      <4> HIDE DEF Entered, bytes
      <4>1. byte[q] = <<Entered(q[1]), q[2]>> /\ byte[r] = <<Entered(r[1]), r[2]>>
        OBVIOUS
      <4> QED
        BY <2>2, <4>1
    <3>2. q[1] = r[1]
      BY <1>2, <1>4, <3>1
    <3> QED
      BY <1>4, <3>1, <3>2
  <2> QED
    BY <2>1, <2>2 DEF Injection, IsInjective
<1>7. IsFiniteSet(files) /\ Cardinality(files) <= n
  BY <1>1, <1>3, FS_Injection, FS_Interval
<1>8. IsFiniteSet(bytes) /\ Cardinality(bytes) <= Cardinality(Bytes(parcel))
  <2> HIDE DEF byte, bytes
  <2> QED
    BY <1>6, BytesFinite, FS_Injection
<1> QED
  BY <1>7, <1>8

-----------------------------------------------------------------------------
(* Listings.                                                               *)

LEMMA ListingOf ==
    ASSUME NEW nodes \in SUBSET Node, IsFiniteSet(nodes), NEW list \in Listings(nodes)
    PROVE  /\ list \in Seq(Entry)
           /\ \A i \in 1..Len(list) : \E n \in nodes : list[i] = EntryOf(n)
           /\ \A n \in nodes : \E i \in 1..Len(list) : list[i] = EntryOf(n)
<1> DEFINE k == Cardinality(nodes)
<1>1. k \in Nat
  BY FS_CardinalityType
<1>2. PICK order \in Bijection(1..k, nodes) : list = [i \in 1..k |-> EntryOf(order[i])]
  BY DEF Listings
<1>3. order \in [1..k -> nodes] /\ \A n \in nodes : \E i \in 1..k : order[i] = n
  BY <1>2 DEF Bijection, Injection, Surjection
<1>4. \A n \in nodes : EntryOf(n) \in Entry
  BY DEF EntryOf, Entry, Node
<1>5. list \in [1..k -> Entry]
  BY <1>2, <1>3, <1>4
<1>6. list \in Seq(Entry)
  BY <1>1, <1>5, SeqDef
<1>7. Len(list) = k
  BY <1>1, <1>5, <1>6, LenProperties
<1> QED
  BY <1>2, <1>3, <1>6, <1>7

LEMMA FilesFinite ==
    ASSUME NEW nodes \in SUBSET Node, IsFiniteSet(nodes)
    PROVE  /\ FilesOf(nodes) \in SUBSET Node /\ IsFiniteSet(FilesOf(nodes))
           /\ FilesOf(Kept(nodes)) \in SUBSET Node /\ IsFiniteSet(FilesOf(Kept(nodes)))
<1>1. FilesOf(nodes) \subseteq nodes /\ FilesOf(Kept(nodes)) \subseteq nodes
  BY DEF FilesOf, Kept
<1> QED
  BY <1>1, FS_Subset

-----------------------------------------------------------------------------
(* The inductive invariant.                                                *)

Inspected == {"published", "accepted", "unpacking", "unpacked", "running"}

Arriving == {"unpacking", "unpacked", "running", "downloading", "downloaded"}

Arrived == Arriving \cup {"unpack failed", "command failed", "download failed"}

Downloading == {"downloading", "downloaded", "download failed"}

Typed ==
    /\ TransitTypeOK
    /\ IsTree(source)
    /\ IsFiniteSet(artifacts)

\* What is known of a package at each stage.
PackageKnown ==
    /\ stage \in Inspected => inspect_package(parcel)
    /\ stage \in {"accepted", "unpacking", "unpacked"} =>
           validate_arguments(ManifestOf(parcel), arguments)
    /\ stage \in {"sent", "published", "accepted", "unpacking", "unpacked"} /\ source # {} =>
           parcel \in Listings(FilesOf(Kept(source)))

\* What is on the far disk.
DiskKnown ==
    /\ stage \notin Arrived => dirs = {} /\ files = {}
    /\ stage \in Packaging \ Arrived => next = 1
    /\ stage \in Arriving => Delivered
    /\ stage = "unpacked" => next = Len(parcel) + 1

\* Every artifact is an output file or a log of a script whose outputs were in order.
FromOutputs(e) ==
    /\ Collectable(source)
    /\ \E n \in FilesOf(source) \cup Logs : e = EntryOf(n)

ArtifactsKnown ==
    /\ stage = "uploading" => \A i \in 1..Len(parcel) : FromOutputs(parcel[i])
    /\ \A e \in artifacts : FromOutputs(e)
    /\ \A a, b \in artifacts : Key(a.path) = Key(b.path) => a = b
    /\ stage \in Downloading => parcel \in Bijection(1..Cardinality(artifacts), artifacts)

Outcomes == UnpackingSucceeds /\ CommandsComplete /\ OnlyDeclaredReach /\ DownloadsSucceed

TransitInv == Typed /\ PackageKnown /\ DiskKnown /\ ArtifactsKnown /\ Outcomes

LEMMA Stages ==
    /\ "uploading" \notin Packaging /\ "collecting" \notin Packaging
    /\ Packaging \ Arrived = {"packing", "sent", "refused", "published", "accepted"}
BY DEF Packaging, Arrived, Arriving

LEMMA DeliverTyped ==
    ASSUME Typed, NEW going, NEW done, NEW failed, Deliver(going, done, failed),
           done \in Packaging \cup Outputting, failed \in Packaging \cup Outputting
    PROVE  Typed'
<1> USE DEF Typed, TransitTypeOK
<1>1. disk' \in Disks /\ source' \in SUBSET Node /\ parcel' \in Seq(Entry)
      /\ artifacts' \in SUBSET Entry /\ arguments' \in SUBSET InputNames
      /\ IsTree(source') /\ IsFiniteSet(artifacts')
  BY DEF Deliver, call
<1>2. stage' \in Packaging \cup Outputting
  BY DEF Deliver
<1>3. next' \in Nat \ {0} /\ dirs' \in SUBSET Path /\ files' \in SUBSET File
  <2>1. CASE UNCHANGED delivery
    BY <2>1 DEF delivery
  <2>2. CASE next \in 1..Len(parcel) /\ Put(parcel[next]) /\ next' = next + 1
    <3>1. parcel[next] \in Entry
      BY <2>2, EntryOfList
    <3> QED
      BY <2>2, <3>1, PutTyped
  <2> QED
    BY <2>1, <2>2 DEF Deliver
<1> QED
  BY <1>1, <1>2, <1>3

LEMMA TypedStep ==
    ASSUME Typed, [TransitNext]_tvars
    PROVE  Typed'
<1> USE DEF Typed, TransitTypeOK
<1>1. CASE Pack
  <2>1. FilesOf(Kept(source)) \in SUBSET Node /\ IsFiniteSet(FilesOf(Kept(source)))
    BY FilesFinite DEF IsTree
  <2>2. parcel' \in Seq(Entry)
    BY <1>1, <2>1, ListingOf DEF Pack
  <2> QED
    BY <1>1, <2>2 DEF Pack, delivery, call, Packaging
<1>2. CASE Publish
  BY <1>2 DEF Publish, delivery, call, Packaging
<1>3. CASE StartUnpacking
  BY <1>3 DEF StartUnpacking, delivery, call, Packaging
<1>4. CASE Unpack
  BY <1>4, DeliverTyped DEF Unpack, Packaging
<1>5. CASE MakeCommand
  BY <1>5 DEF MakeCommand, delivery, Packaging
<1>6. CASE \E a \in SUBSET InputNames : Submit(a)
  BY <1>6 DEF Submit, delivery, Packaging
<1>7. CASE Collect
  <2>1. stage' \in Outputting
    BY <1>7 DEF Collect, Outputting
  <2>2. parcel' \in Seq(Entry)
    <3>1. CASE UNCHANGED parcel
      BY <3>1
    <3>2. ASSUME NEW logs \in Listings(Logs), NEW list \in Listings(FilesOf(source)),
                 parcel' = logs \o list
          PROVE  parcel' \in Seq(Entry)
      <4>1. FilesOf(source) \in SUBSET Node /\ IsFiniteSet(FilesOf(source))
        BY FilesFinite DEF IsTree
      <4>2. Logs \in SUBSET Node /\ IsFiniteSet(Logs)
        BY TransitAssumption
      <4>3. logs \in Seq(Entry) /\ list \in Seq(Entry)
        BY <4>1, <4>2, ListingOf
      <4> QED
        BY <3>2, <4>3, ConcatProperties
    <3> QED
      BY <1>7, <3>1, <3>2 DEF Collect
  <2> QED
    BY <1>7, <2>1, <2>2 DEF Collect, delivery, call
<1>8. CASE Upload
  <2>1. artifacts' \in SUBSET Entry /\ IsFiniteSet(artifacts')
    <3>1. CASE UNCHANGED artifacts
      BY <3>1
    <3>2. CASE next \in 1..Len(parcel) /\ artifacts' = artifacts \cup {parcel[next]}
      BY <3>2, EntryOfList, FS_AddElement
    <3> QED
      BY <1>8, <3>1, <3>2 DEF Upload
  <2>2. stage' \in {"uploading", "uploaded", "upload failed"}
    BY <1>8 DEF Upload
  <2>4. next' = next \/ next' = next + 1
    BY <1>8 DEF Upload
  <2>3. UNCHANGED <<disk, source, parcel, dirs, files, arguments>>
    BY <1>8 DEF Upload, call
  <2> QED
    <3>1. stage' \in Outputting
      BY <2>2 DEF Outputting
    <3>2. next' \in Nat \ {0}
      <4>1. next \in Nat /\ next > 0
        OBVIOUS
      <4> QED
        BY <2>4, <4>1
    <3> QED
      BY <2>1, <2>3, <3>1, <3>2
<1>9. CASE Interrupt
  BY <1>9 DEF Interrupt, delivery, call, Outputting
<1>10. CASE StartDownload
  <2>1. Cardinality(artifacts) \in Nat
    BY FS_CardinalityType
  <2>2. parcel' \in [1..Cardinality(artifacts) -> Entry]
    BY <1>10 DEF StartDownload, Bijection, Injection
  <2>3. parcel' \in Seq(Entry)
    BY <2>1, <2>2, SeqDef
  <2>4. stage' = "downloading" /\ next' = 1
    BY <1>10 DEF StartDownload
  <2>5. UNCHANGED <<disk, source, dirs, files, artifacts, arguments>>
    BY <1>10 DEF StartDownload, call
  <2> QED
    <3>1. stage' \in Outputting
      BY <2>4 DEF Outputting
    <3>2. next' \in Nat \ {0}
      BY <2>4
    <3> QED
      BY <2>3, <2>5, <3>1, <3>2
<1>11. CASE Download
  BY <1>11, DeliverTyped DEF Download, Outputting
<1>12. CASE UNCHANGED tvars
  BY <1>12 DEF tvars, delivery, call
<1> QED
  BY <1>1, <1>2, <1>3, <1>4, <1>5, <1>6, <1>7, <1>8, <1>9, <1>10, <1>11, <1>12
  DEF TransitNext

LEMMA PackageStep ==
    ASSUME PackageKnown, [TransitNext]_tvars
    PROVE  PackageKnown'
<1> USE DEF PackageKnown, Inspected
<1>1. CASE Pack
  <2>1. stage' = "refused" \/ (stage' = "sent" /\ parcel' \in Listings(FilesOf(Kept(source))))
    BY <1>1 DEF Pack
  <2>2. source' = source
    BY <1>1 DEF Pack
  <2> QED
    BY <2>1, <2>2
<1>2. CASE Publish
  BY <1>2 DEF Publish
<1>3. CASE StartUnpacking
  BY <1>3 DEF StartUnpacking, call
<1>4. CASE Unpack
  <2>1. stage = "unpacking" /\ stage' \in {"unpacking", "unpacked", "unpack failed"}
    BY <1>4 DEF Unpack, Deliver
  <2>2. UNCHANGED <<source, parcel, arguments>>
    BY <1>4 DEF Unpack, Deliver, call
  <2> QED
    BY <2>1, <2>2
<1>5. CASE MakeCommand
  BY <1>5 DEF MakeCommand
<1>6. CASE \E a \in SUBSET InputNames : Submit(a)
  BY <1>6 DEF Submit
<1>7. CASE Collect
  BY <1>7 DEF Collect
<1>8. CASE Upload
  BY <1>8 DEF Upload
<1>9. CASE Interrupt
  BY <1>9 DEF Interrupt
<1>10. CASE StartDownload
  BY <1>10 DEF StartDownload
<1>11. CASE Download
  BY <1>11 DEF Download, Deliver
<1>12. CASE UNCHANGED tvars
  BY <1>12 DEF tvars, call
<1> QED
  BY <1>1, <1>2, <1>3, <1>4, <1>5, <1>6, <1>7, <1>8, <1>9, <1>10, <1>11, <1>12
  DEF TransitNext

\* Unpacking never fails, nor does the command; what is on the disk is as Delivered says.
LEMMA UnpackGoesOn ==
    ASSUME TransitInv, Unpack
    PROVE  stage' # "unpack failed"
<1>1. stage = "unpacking" /\ disk \in Disks /\ parcel \in Seq(Entry) /\ Delivered
  BY DEF TransitInv, Typed, TransitTypeOK, DiskKnown, Arriving, Unpack, Deliver
<1>2. inspect_package(parcel)
  BY <1>1 DEF TransitInv, PackageKnown, Inspected
<1>3. DoNotMeet
  BY <1>1, <1>2, InspectedDoNotMeet
<1>4. next \in 1..Len(parcel) => CanPut(parcel[next])
  BY <1>1, <1>3, CanAlwaysPut
<1> QED
  BY <1>1, <1>4 DEF Unpack, Deliver

LEMMA CommandIsMade ==
    ASSUME TransitInv, MakeCommand
    PROVE  /\ stage' = "running"
           /\ command' = [n \in ManifestOf(parcel).placeholders |-> Values(arguments)[n]]
           /\ ManifestOf(parcel).placeholders \subseteq arguments \cup RESERVED
<1>1. validate_arguments(ManifestOf(parcel), arguments)
  BY DEF TransitInv, PackageKnown, MakeCommand
<1>2. ManifestOf(parcel).placeholders \subseteq arguments \cup RESERVED
  BY <1>1 DEF validate_arguments
<1>3. DOMAIN Values(arguments) = arguments \cup RESERVED
  BY DEF Values
<1> QED
  BY <1>1, <1>2, <1>3 DEF MakeCommand

\* The manifest that is read is the one that has been validated: no two entries have the
\* same path.
LEMMA InspectedManifest ==
    ASSUME NEW entries \in Seq(Entry), inspect_package(entries)
    PROVE  model_validate(ManifestOf(entries))
<1>1. PICK i \in 1..Len(entries) :
          IsManifest(entries[i]) /\ model_validate(entries[i].content.manifest)
  BY DEF inspect_package, HasManifest
<1>2. ASSUME NEW j \in 1..Len(entries), IsManifest(entries[j])
      PROVE  j = i
  <2>1. Key(entries[i].path) = Key(entries[j].path)
    BY <1>1, <1>2 DEF IsManifest
  <2> QED
    BY <2>1 DEF inspect_package, KeysApart
<1>3. i = CHOOSE j \in 1..Len(entries) : IsManifest(entries[j])
  BY <1>1, <1>2
<1> QED
  BY <1>1, <1>3 DEF ManifestOf

LEMMA DeliverDelivers ==
    ASSUME Typed, PathsApart, Delivered, NEW going, NEW done, NEW failed,
           Deliver(going, done, failed), done # going, done # failed
    PROVE  /\ stage' # failed => Delivered'
           /\ stage' \in {going, done, failed}
           /\ stage' = done => next' = Len(parcel') + 1
<1>1. stage' \in {going, done, failed} /\ UNCHANGED <<disk, parcel>>
  BY DEF Deliver
<1>2. parcel \in Seq(Entry) /\ Len(parcel) \in Nat /\ next \in Nat
  BY LenProperties DEF Typed, TransitTypeOK
<1>3. CASE next \in 1..Len(parcel) /\ Put(parcel[next]) /\ next' = next + 1 /\ stage' = going
  <2>1. Delivered'
    BY <1>1, <1>2, <1>3, PutDelivers
  <2> QED
    BY <1>1, <1>3, <2>1
<1>4. CASE UNCHANGED delivery /\ stage' = failed
  BY <1>1, <1>4
<1>5. CASE next > Len(parcel) /\ UNCHANGED delivery /\ stage' = done
  <2>1. UNCHANGED <<next, dirs, files>>
    BY <1>5 DEF delivery
  <2>2. next = Len(parcel) + 1
    BY <1>2, <1>5 DEF Delivered
  <2>3. Delivered'
    BY <1>1, <2>1 DEF Delivered, FileAt, OnDisk
  <2> QED
    BY <1>1, <2>1, <2>2, <2>3
<1> QED
  BY <1>3, <1>4, <1>5 DEF Deliver

LEMMA DownloadsApart ==
    ASSUME Typed, ArtifactsKnown, stage \in Downloading
    PROVE  /\ PathsApart
           /\ \A i \in 1..Len(parcel) : FromOutputs(parcel[i])
<1>1. /\ Cardinality(artifacts) \in Nat
      /\ parcel \in Bijection(1..Cardinality(artifacts), artifacts)
  BY FS_CardinalityType DEF Typed, ArtifactsKnown
<1>2. /\ parcel \in [1..Cardinality(artifacts) -> artifacts]
      /\ \A i, j \in 1..Cardinality(artifacts) : parcel[i] = parcel[j] => i = j
  BY <1>1 DEF Bijection, Injection, IsInjective
<1>3. parcel \in Seq(Entry) /\ disk \in Disks
  BY DEF Typed, TransitTypeOK
<1>4. Len(parcel) = Cardinality(artifacts)
  BY <1>1, <1>2, <1>3, LenProperties
<1>5. KeysApart(parcel)
  BY <1>2, <1>4 DEF KeysApart, ArtifactsKnown
<1> QED
  BY <1>2, <1>3, <1>4, <1>5, KeysApartPathsApart DEF ArtifactsKnown

LEMMA DiskStep ==
    ASSUME TransitInv, [TransitNext]_tvars
    PROVE  DiskKnown'
<1> USE DEF TransitInv, Arrived, Arriving
<1>0. UNCHANGED <<disk, parcel, next, dirs, files>> => Delivered' = Delivered
  BY DEF Delivered, FileAt, OnDisk
<1>1. CASE Pack
  <2>1. stage = "packing" /\ stage' \in {"sent", "refused"} /\ UNCHANGED delivery
    BY <1>1 DEF Pack
  <2> QED
    BY <2>1 DEF DiskKnown, delivery, Packaging
<1>2. CASE Publish
  <2>1. stage = "sent" /\ stage' \in {"published", "refused"} /\ UNCHANGED delivery
    BY <1>2 DEF Publish
  <2> QED
    BY <2>1 DEF DiskKnown, delivery, Packaging
<1>3. CASE StartUnpacking
  <2>1. stage = "accepted" /\ stage' \in {"unpacking", "unpack failed"}
        /\ UNCHANGED <<delivery, parcel>>
    BY <1>3 DEF StartUnpacking
  <2>2. next' = 1 /\ dirs' = {} /\ files' = {} /\ parcel' \in Seq(Entry)
    BY <2>1 DEF DiskKnown, delivery, Packaging, Typed, TransitTypeOK
  <2>3. Delivered'
    BY <2>2, LenProperties DEF Delivered
  <2> QED
    BY <2>1, <2>2, <2>3 DEF DiskKnown, Packaging
<1>4. CASE Unpack
  <2>1. stage = "unpacking" /\ Delivered /\ inspect_package(parcel)
    BY <1>4 DEF Unpack, Deliver, DiskKnown, PackageKnown, Inspected
  <2>2. PathsApart
    BY <2>1, InspectedDoNotMeet DEF DoNotMeet, Typed, TransitTypeOK
  <2>3. Deliver("unpacking", "unpacked", "unpack failed")
    BY <1>4 DEF Unpack
  <2>4. /\ stage' # "unpack failed" => Delivered'
        /\ stage' \in {"unpacking", "unpacked", "unpack failed"}
        /\ stage' = "unpacked" => next' = Len(parcel') + 1
    <3>1. Typed
      OBVIOUS
    <3> HIDE DEF TransitInv, Arrived, Arriving
    <3> QED
      BY <2>1, <2>2, <2>3, <3>1, DeliverDelivers
  <2> QED
    BY <2>4 DEF DiskKnown, Packaging
<1>5. CASE MakeCommand
  <2>1. stage = "unpacked" /\ stage' \in {"running", "command failed"}
        /\ UNCHANGED <<disk, parcel, delivery>>
    BY <1>5 DEF MakeCommand
  <2>2. Delivered'
    BY <2>1, <1>0 DEF DiskKnown, delivery
  <2> QED
    BY <2>1, <2>2 DEF DiskKnown, Packaging
<1>6. CASE \E a \in SUBSET InputNames : Submit(a)
  <2>1. stage = "published" /\ stage' = "accepted" /\ UNCHANGED delivery
    BY <1>6 DEF Submit
  <2> QED
    BY <2>1 DEF DiskKnown, delivery, Packaging
<1>7. CASE Collect
  <2>1. stage = "collecting" /\ stage' \in {"uploading", "upload failed"} /\ UNCHANGED delivery
    BY <1>7 DEF Collect
  <2> QED
    BY <2>1 DEF DiskKnown, delivery, Packaging
<1>8. CASE Upload
  <2>1. stage = "uploading" /\ stage' \in {"uploading", "uploaded", "upload failed"}
        /\ UNCHANGED <<dirs, files>>
    BY <1>8 DEF Upload
  <2> QED
    BY <2>1 DEF DiskKnown, Packaging
<1>9. CASE Interrupt
  <2>1. stage = "uploading" /\ stage' = "interrupted" /\ UNCHANGED delivery
    BY <1>9 DEF Interrupt
  <2> QED
    BY <2>1 DEF DiskKnown, delivery, Packaging
<1>10. CASE StartDownload
  <2>1. /\ stage \in {"uploaded", "upload failed", "interrupted"}
        /\ stage' = "downloading"
    BY <1>10 DEF StartDownload
  <2>2. next' = 1 /\ dirs' = {} /\ files' = {}
    BY <1>10, <2>1 DEF StartDownload, DiskKnown
  <2>3. parcel' \in Seq(Entry)
    BY TypedStep DEF Typed, TransitTypeOK
  <2>4. Delivered'
    BY <2>2, <2>3, LenProperties DEF Delivered
  <2> QED
    BY <2>1, <2>2, <2>4 DEF DiskKnown, Packaging
<1>11. CASE Download
  <2>1. stage = "downloading" /\ Delivered
    BY <1>11 DEF Download, Deliver, DiskKnown
  <2>2. PathsApart
    BY <2>1, DownloadsApart DEF Downloading
  <2>3. Deliver("downloading", "downloaded", "download failed")
    BY <1>11 DEF Download
  <2>4. /\ stage' # "download failed" => Delivered'
        /\ stage' \in {"downloading", "downloaded", "download failed"}
    <3>1. Typed
      OBVIOUS
    <3> HIDE DEF TransitInv, Arrived, Arriving
    <3> QED
      BY <2>1, <2>2, <2>3, <3>1, DeliverDelivers
  <2> QED
    BY <2>4 DEF DiskKnown, Packaging
<1>12. CASE UNCHANGED tvars
  <2>1. UNCHANGED <<stage, disk, parcel, next, dirs, files>>
    BY <1>12 DEF tvars
  <2> QED
    BY <2>1, <1>0 DEF DiskKnown
<1> QED
  BY <1>1, <1>2, <1>3, <1>4, <1>5, <1>6, <1>7, <1>8, <1>9, <1>10, <1>11, <1>12
  DEF TransitNext

LEMMA ArtifactsStep ==
    ASSUME TransitInv, [TransitNext]_tvars
    PROVE  ArtifactsKnown'
<1> USE DEF ArtifactsKnown, Downloading
<1>0. ArtifactsKnown
  BY DEF TransitInv
<1>a. source' = source => \A e : FromOutputs(e)' = FromOutputs(e)
  BY DEF FromOutputs, Collectable
<1>b. ASSUME UNCHANGED <<source, artifacts>>, stage' \notin Downloading \cup {"uploading"}
      PROVE  ArtifactsKnown'
  BY <1>0, <1>a, <1>b
<1>1. CASE Pack
  BY <1>1, <1>b DEF Pack
<1>2. CASE Publish
  BY <1>2, <1>b DEF Publish
<1>3. CASE StartUnpacking
  BY <1>3, <1>b DEF StartUnpacking
<1>4. CASE Unpack
  BY <1>4, <1>b DEF Unpack, Deliver
<1>5. CASE MakeCommand
  BY <1>5, <1>b DEF MakeCommand
<1>6. CASE \E a \in SUBSET InputNames : Submit(a)
  BY <1>6, <1>b DEF Submit
<1>7. CASE Collect
  <2>1. CASE Collectable(source) /\ stage' = "uploading"
    <3>1. PICK logs \in Listings(Logs), list \in Listings(FilesOf(source)) :
              parcel' = logs \o list
      BY <1>7, <2>1 DEF Collect
    <3>2. FilesOf(source) \in SUBSET Node /\ IsFiniteSet(FilesOf(source))
      BY FilesFinite DEF IsTree, TransitInv, Typed, TransitTypeOK
    <3>3. Logs \in SUBSET Node /\ IsFiniteSet(Logs)
      BY TransitAssumption
    <3>4. /\ logs \in Seq(Entry) /\ \A i \in 1..Len(logs) : FromOutputs(logs[i])
          /\ list \in Seq(Entry) /\ \A i \in 1..Len(list) : FromOutputs(list[i])
      BY <2>1, <3>2, <3>3, ListingOf DEF FromOutputs
    <3>5. Len(logs) \in Nat /\ Len(list) \in Nat
      BY <3>4, LenProperties
    <3>6. \A i \in 1..Len(parcel') : FromOutputs(parcel'[i])
      BY <3>1, <3>4, <3>5, ConcatProperties
    <3>7. UNCHANGED <<source, artifacts>>
      BY <1>7 DEF Collect
    <3> QED
      BY <1>0, <1>a, <2>1, <3>6, <3>7
  <2>2. CASE stage' = "upload failed"
    BY <1>7, <1>b, <2>2 DEF Collect
  <2> QED
    BY <1>7, <2>1, <2>2 DEF Collect
<1>8. CASE Upload
  <2>1. stage = "uploading" /\ stage' \in {"uploading", "uploaded", "upload failed"}
        /\ UNCHANGED <<source, parcel>>
    BY <1>8 DEF Upload
  <2>2. CASE UNCHANGED artifacts
    BY <1>0, <1>a, <2>1, <2>2
  <2>3. CASE /\ next \in 1..Len(parcel) /\ NameFree(parcel[next])
             /\ artifacts' = artifacts \cup {parcel[next]}
    <3>1. FromOutputs(parcel[next])
      BY <1>0, <2>1, <2>3
    <3>2. \A a, b \in artifacts' : Key(a.path) = Key(b.path) => a = b
      BY <1>0, <2>3 DEF NameFree
    <3> QED
      BY <1>0, <1>a, <2>1, <2>3, <3>1, <3>2
  <2> QED
    BY <1>8, <2>2, <2>3 DEF Upload
<1>9. CASE Interrupt
  BY <1>9, <1>b DEF Interrupt
<1>10. CASE StartDownload
  <2>1. /\ stage' = "downloading" /\ UNCHANGED <<source, artifacts>>
        /\ parcel' \in Bijection(1..Cardinality(artifacts), artifacts)
    BY <1>10 DEF StartDownload
  <2> QED
    BY <1>0, <1>a, <2>1
<1>11. CASE Download
  <2>1. /\ stage \in Downloading /\ stage' \in Downloading
        /\ UNCHANGED <<source, parcel, artifacts>>
    BY <1>11 DEF Download, Deliver
  <2> QED
    BY <1>0, <1>a, <2>1
<1>12. CASE UNCHANGED tvars
  BY <1>0, <1>a, <1>12 DEF tvars
<1> QED
  BY <1>1, <1>2, <1>3, <1>4, <1>5, <1>6, <1>7, <1>8, <1>9, <1>10, <1>11, <1>12
  DEF TransitNext

\* No output file or log is where another one has a directory.
LEMMA OutputsDoNotMeet ==
    ASSUME Typed, NEW a, FromOutputs(a), NEW b, FromOutputs(b), a.path \in Parents(b.path)
    PROVE  FALSE
<1>1. PICK n \in FilesOf(source) \cup Logs : a = EntryOf(n)
  BY DEF FromOutputs
<1>2. PICK m \in FilesOf(source) \cup Logs : b = EntryOf(m)
  BY DEF FromOutputs
<1>3. a.path = n.path /\ b.path = m.path
  BY <1>1, <1>2 DEF EntryOf
<1>4. n \in Node /\ m \in Node /\ n.kind = "file" /\ m.kind = "file"
  BY TransitAssumption DEF FilesOf, Typed, TransitTypeOK
<1>5. n.path \in Path /\ m.path \in Path /\ Len(m.path) \in Nat
  BY <1>4, PathIsFunction DEF Node
<1>6. PICK k \in 1..(Len(m.path) - 1) : n.path = Prefix(m.path, k)
  BY <1>3, <1>5, ParentsOf
<1>7. Len(n.path) = k /\ n.path[1] = m.path[1]
  <2>1. k \in 1..Len(m.path) /\ 1 \in 1..k
    BY <1>5, <1>6
  <2> QED
    BY <1>5, <1>6, <2>1, PrefixPath
<1>8. ASSUME NEW l \in Logs
      PROVE  Len(l.path) = 2 /\ l.path[1] = "_logs"
  BY TransitAssumption
<1>9. \A l \in FilesOf(source) : l.path[1] # "_logs"
  BY DEF FromOutputs, Collectable
<1>10. CASE n \in FilesOf(source) /\ m \in FilesOf(source)
  <2>1. n \in source /\ m \in source
    BY <1>10 DEF FilesOf
  <2>2. PICK d \in source : d.path = n.path /\ d.kind = "directory"
    BY <1>3, <2>1 DEF Typed, IsTree
  <2>3. d = n
    BY <2>1, <2>2 DEF Typed, IsTree
  <2> QED
    BY <1>4, <2>2, <2>3
<1>11. CASE n \in Logs /\ m \in Logs
  BY <1>6, <1>7, <1>8, <1>11
<1>12. CASE n \in Logs /\ m \in FilesOf(source)
  BY <1>7, <1>8, <1>9, <1>12
<1>13. CASE n \in FilesOf(source) /\ m \in Logs
  BY <1>7, <1>8, <1>9, <1>13
<1> QED
  BY <1>10, <1>11, <1>12, <1>13

Distinct == \A a, b \in Components : disk[a] = disk[b] => a = b

\* On a disk that distinguishes everything, no download fails.
LEMMA DownloadGoesOn ==
    ASSUME TransitInv, Download, Distinct
    PROVE  stage' # "download failed"
<1>1. stage = "downloading" /\ disk \in Disks /\ parcel \in Seq(Entry) /\ Delivered /\ Typed
  BY DEF TransitInv, Typed, TransitTypeOK, DiskKnown, Arriving, Download, Deliver
<1>2. PathsApart /\ \A i \in 1..Len(parcel) : FromOutputs(parcel[i])
  BY <1>1, DownloadsApart DEF TransitInv, Downloading
<1>3. Finer(disk, Identity)
  BY <1>1, TransitAssumption DEF Finer, Identity, Distinct
<1>4. ASSUME NEW i \in 1..Len(parcel), NEW j \in 1..Len(parcel),
             OnDisk(parcel[i].path) \in Parents(OnDisk(parcel[j].path))
      PROVE  FALSE
  <2>1. parcel[i].path \in Path /\ parcel[j].path \in Path
    BY <1>1, EntryOfList
  <2>2. parcel[i].path \in Parents(parcel[j].path)
    BY <1>3, <1>4, <2>1, SameParent, MappedIdentity DEF OnDisk
  <2> QED
    BY <1>1, <1>2, <2>2, OutputsDoNotMeet
<1>5. DoNotMeet
  BY <1>2, <1>4 DEF DoNotMeet
<1>6. next \in 1..Len(parcel) => CanPut(parcel[next])
  BY <1>1, <1>5, CanAlwaysPut
<1> QED
  BY <1>1, <1>6 DEF Download, Deliver

LEMMA OutcomesStep ==
    ASSUME TransitInv, [TransitNext]_tvars
    PROVE  Outcomes'
<1>0. Outcomes
  BY DEF TransitInv
<1>1. UnpackingSucceeds'
  <2>1. CASE Unpack
    BY <2>1, UnpackGoesOn DEF UnpackingSucceeds
  <2>2. CASE StartUnpacking
    BY <2>2 DEF StartUnpacking, TransitInv, PackageKnown, Inspected, UnpackingSucceeds
  <2>3. CASE ~Unpack /\ ~StartUnpacking
    BY <1>0, <2>3
    DEF TransitNext, tvars, Outcomes, UnpackingSucceeds, Pack, Publish, MakeCommand, Submit,
        Collect, Upload, Interrupt, StartDownload, Download, Deliver
  <2> QED
    BY <2>1, <2>2, <2>3
<1>2. CommandsComplete'
  <2>1. CASE MakeCommand
    BY <2>1, CommandIsMade DEF CommandsComplete
  <2>2. CASE ~MakeCommand
    BY <1>0, <2>2
    DEF TransitNext, tvars, Outcomes, CommandsComplete, Pack, Publish, StartUnpacking, Unpack,
        Submit, Collect, Upload, Interrupt, StartDownload, Download, Deliver
  <2> QED
    BY <2>1, <2>2
<1>3. OnlyDeclaredReach'
  <2>1. CASE MakeCommand
    <3>1. /\ command' = [n \in ManifestOf(parcel).placeholders |-> Values(arguments)[n]]
          /\ ManifestOf(parcel).placeholders \subseteq arguments \cup RESERVED
          /\ parcel' = parcel
      BY <2>1, CommandIsMade DEF MakeCommand
    <3>2. \A n \in RESERVED : Values(arguments)[n] = "worker"
      BY DEF Values
    <3>3. model_validate(ManifestOf(parcel))
      <4>1. parcel \in Seq(Entry) /\ inspect_package(parcel)
        BY <2>1 DEF TransitInv, Typed, TransitTypeOK, PackageKnown, Inspected, MakeCommand
      <4> QED
        BY <4>1, InspectedManifest
    <3>4. ManifestOf(parcel).placeholders \subseteq ManifestOf(parcel).properties \cup RESERVED
      BY <3>3 DEF model_validate, check_command
    <3>5. ASSUME NEW n \in ManifestOf(parcel).placeholders, Values(arguments)[n] = "user"
          PROVE  n \in ManifestOf(parcel).properties \ RESERVED
      BY <3>2, <3>4, <3>5
    <3> QED
      BY <3>1, <3>5 DEF OnlyDeclaredReach
  <2>2. CASE ~MakeCommand
    <3>1. stage' = "running" => stage = "running" /\ command' = command /\ parcel' = parcel
      BY <2>2
      DEF TransitNext, tvars, Pack, Publish, StartUnpacking, Unpack, Submit, Collect, Upload,
          Interrupt, StartDownload, Download, Deliver
    <3> QED
      BY <1>0, <3>1 DEF Outcomes, OnlyDeclaredReach
  <2> QED
    BY <2>1, <2>2
<1>4. DownloadsSucceed'
  <2>1. disk' = disk
    BY DEF TransitNext, tvars, Pack, Publish, StartUnpacking, Unpack, MakeCommand, Submit,
           Collect, Upload, Interrupt, StartDownload, Download, Deliver
  <2>2. CASE Download
    BY <2>1, <2>2, DownloadGoesOn DEF DownloadsSucceed, Distinct
  <2>3. CASE ~Download
    <3>1. stage' = "download failed" => stage = "download failed"
      BY <2>3
      DEF TransitNext, tvars, Pack, Publish, StartUnpacking, Unpack, MakeCommand, Submit,
          Collect, Upload, Interrupt, StartDownload, Deliver
    <3> QED
      BY <1>0, <2>1, <3>1 DEF Outcomes, DownloadsSucceed
  <2> QED
    BY <2>2, <2>3
<1> QED
  BY <1>1, <1>2, <1>3, <1>4 DEF Outcomes

LEMMA TransitStarts ==
    ASSUME TransitInit
    PROVE  TransitInv
<1> USE DEF TransitInit
<1>1. stage \in {"packing", "sent", "collecting"}
  OBVIOUS
<1>2. Typed
  <2>1. source \in SUBSET Node /\ IsTree(source)
    <3>1. CASE source \in Trees \cup Outputs
      BY <3>1, TransitAssumption
    <3>2. CASE source = {}
      BY <3>2, FS_EmptySet DEF IsTree
    <3> QED
      BY <3>1, <3>2
  <2>2. parcel \in Seq(Entry)
    BY EmptySeq, TransitAssumption
  <2>3. IsFiniteSet(artifacts)
    BY FS_EmptySet
  <2>4. stage \in Packaging \cup Outputting
    BY DEF Packaging, Outputting
  <2>5. next \in Nat \ {0}
    OBVIOUS
  <2> QED
    BY <2>1, <2>2, <2>3, <2>4, <2>5 DEF Typed, TransitTypeOK
<1>3. PackageKnown
  BY DEF PackageKnown, Inspected
<1>4. DiskKnown
  BY <1>1 DEF DiskKnown, Arrived, Arriving
<1>5. ArtifactsKnown
  BY <1>1 DEF ArtifactsKnown, Downloading
<1>6. Outcomes
  BY <1>1
  DEF Outcomes, UnpackingSucceeds, CommandsComplete, OnlyDeclaredReach, DownloadsSucceed
<1> QED
  BY <1>2, <1>3, <1>4, <1>5, <1>6 DEF TransitInv

-----------------------------------------------------------------------------
(* Theorems.                                                               *)

\* What is known at each stage of a journey stays known.
THEOREM TransitInvariance == TransitSpec => []TransitInv
<1>1. TransitInit => TransitInv
  BY TransitStarts
<1>2. TransitInv /\ [TransitNext]_tvars => TransitInv'
  <2> SUFFICES ASSUME TransitInv, [TransitNext]_tvars
               PROVE  TransitInv'
    OBVIOUS
  <2>1. Typed'
    BY TypedStep DEF TransitInv
  <2>2. PackageKnown'
    BY PackageStep DEF TransitInv
  <2> QED
    BY <2>1, <2>2, DiskStep, ArtifactsStep, OutcomesStep DEF TransitInv
<1> QED
  BY <1>1, <1>2, PTL DEF TransitSpec

\* The variables have their types: what is packed, unpacked and downloaded are paths and
\* files.
THEOREM TransitTypeCorrect == TransitSpec => []TransitTypeOK
<1>1. TransitInv => TransitTypeOK
  BY DEF TransitInv, Typed
<1> QED
  BY <1>1, TransitInvariance, PTL

\* extract_package never fails on a package that inspect_package has let pass, whatever
\* names the worker's disk takes for the same.
THEOREM PublishedUnpacks == TransitSpec => []UnpackingSucceeds
<1>1. TransitInv => UnpackingSucceeds
  BY DEF TransitInv, Outcomes
<1> QED
  BY <1>1, TransitInvariance, PTL

\* Worker._command finds a value for each placeholder of a call that validate_arguments
\* has let pass.
THEOREM AcceptedRuns == TransitSpec => []CommandsComplete
<1>1. TransitInv => CommandsComplete
  BY DEF TransitInv, Outcomes
<1> QED
  BY <1>1, TransitInvariance, PTL

\* What the user gives reaches a command only as an input that the schema declares: the
\* checks of the manifest at the publication, of the arguments at the submission, and the
\* worker's own values together leave no way round for the rest.
THEOREM UndeclaredStayOut == TransitSpec => []OnlyDeclaredReach
<1>1. TransitInv => OnlyDeclaredReach
  BY DEF TransitInv, Outcomes
<1> QED
  BY <1>1, TransitInvariance, PTL

\* No file that extract_package or download_artifacts has written is overwritten.
THEOREM NothingOverwritten == TransitSpec => []DeliveredIntact
<1>1. TransitInv => DeliveredIntact
  BY DEF TransitInv, DiskKnown, Arriving, DeliveredIntact, Delivered, FileAt
<1> QED
  BY <1>1, TransitInvariance, PTL

\* What was packed from a directory is unpacked from the archive.
THEOREM PackedUnpacks == TransitSpec => []RoundTrip
<1>1. TransitInv => RoundTrip
  <2> SUFFICES ASSUME TransitInv, stage = "unpacked", source # {}
               PROVE  files = {[path |-> OnDisk(n.path), content |-> n.content] :
                                  n \in FilesOf(Kept(source))}
    BY DEF RoundTrip, FilesOf, Kept
  <2> DEFINE nodes == FilesOf(Kept(source))
  <2>1. nodes \in SUBSET Node /\ IsFiniteSet(nodes) /\ parcel \in Listings(nodes)
    BY FilesFinite DEF TransitInv, Typed, TransitTypeOK, IsTree, PackageKnown
  <2>2. /\ Len(parcel) \in Nat
        /\ \A i \in 1..Len(parcel) : \E n \in nodes : parcel[i] = EntryOf(n)
        /\ \A n \in nodes : \E i \in 1..Len(parcel) : parcel[i] = EntryOf(n)
    BY <2>1, ListingOf, LenProperties
  <2>3. Delivered /\ next - 1 = Len(parcel)
    BY <2>2 DEF TransitInv, DiskKnown, Arriving
  <2>4. /\ \A f \in files : \E i \in 1..Len(parcel) : f = FileAt(i)
        /\ \A i \in 1..Len(parcel) : ~parcel[i].directory => FileAt(i) \in files
    BY <2>3 DEF Delivered
  <2>5. \A n : ~EntryOf(n).directory /\ EntryOf(n).path = n.path
               /\ EntryOf(n).content = n.content
    BY DEF EntryOf
  <2> DEFINE Of(n) == [path |-> OnDisk(n.path), content |-> n.content]
  <2>6. \A i \in 1..Len(parcel), n \in nodes : parcel[i] = EntryOf(n) => FileAt(i) = Of(n)
    BY <2>5 DEF FileAt
  <2>7. ASSUME NEW f \in files
        PROVE  \E n \in nodes : f = Of(n)
    BY <2>2, <2>4, <2>6
  <2>8. ASSUME NEW n \in nodes
        PROVE  Of(n) \in files
    <3>1. PICK i \in 1..Len(parcel) : parcel[i] = EntryOf(n)
      BY <2>2
    <3> QED
      BY <2>4, <2>5, <2>6, <3>1
  <2>9. files = {Of(n) : n \in nodes}
    <3> HIDE DEF Of, nodes
    <3> QED
      BY <2>7, <2>8
  <2> QED
    BY <2>9
<1> QED
  BY <1>1, TransitInvariance, PTL

\* The limits that inspect_package enforces on an archive hold of the files on the
\* worker's disk, at every step of extract_package.
THEOREM LimitsHold == TransitSpec => []UnpackedWithinLimits
<1>1. TransitInv => UnpackedWithinLimits
  <2> SUFFICES ASSUME TransitInv, stage \in {"unpacking", "unpacked", "running"}
               PROVE  /\ Cardinality(files) <= MaxFiles
                      /\ Cardinality(UNION {{f} \X (1..f.content.size) : f \in files})
                           <= MaxBytes
    BY DEF UnpackedWithinLimits
  <2>1. /\ Delivered
        /\ parcel \in Seq(Entry)
        /\ files \in SUBSET File
        /\ inspect_package(parcel)
    BY DEF TransitInv, Typed, TransitTypeOK, DiskKnown, Arriving, PackageKnown, Inspected
  <2>2. Len(parcel) <= MaxFiles /\ Cardinality(Bytes(parcel)) <= MaxBytes
    BY <2>1 DEF inspect_package, Within
  <2> DEFINE bytes == UNION {{f} \X (1..f.content.size) : f \in files}
  <2>3. /\ IsFiniteSet(files) /\ Cardinality(files) <= Len(parcel)
        /\ IsFiniteSet(bytes) /\ Cardinality(bytes) <= Cardinality(Bytes(parcel))
    BY <2>1, FilesAreEntries
  <2>4. /\ Cardinality(files) \in Nat /\ Len(parcel) \in Nat /\ MaxFiles \in Nat
        /\ Cardinality(bytes) \in Nat /\ Cardinality(Bytes(parcel)) \in Nat /\ MaxBytes \in Nat
    BY <2>1, <2>3, BytesFinite, FS_CardinalityType, LenProperties, PackagesAssumption
  <2> HIDE DEF bytes
  <2>5. Cardinality(bytes) <= MaxBytes
    BY <2>2, <2>3, <2>4
  <2> QED
    BY <2>2, <2>3, <2>4, <2>5 DEF bytes
<1> QED
  BY <1>1, TransitInvariance, PTL

\* Whatever outputs a script leaves and whenever their upload ends, the artifacts that the
\* server has can be downloaded where names that differ are different files.
THEOREM ArtifactsDownload == TransitSpec => []DownloadsSucceed
<1>1. TransitInv => DownloadsSucceed
  BY DEF TransitInv, Outcomes
<1> QED
  BY <1>1, TransitInvariance, PTL

=============================================================================
