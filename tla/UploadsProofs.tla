--------------------------- MODULE UploadsProofs ---------------------------
(***************************************************************************)
(* Theorems about Uploads: whatever handlers receive, and however they are *)
(* interrupted, the store makes the steps of Store, and what its rows name *)
(* is on the disk.                                                         *)
(***************************************************************************)
EXTENDS UploadsRefinement, StoreRefinementProofs

USE UploadsAssumption

-----------------------------------------------------------------------------
(* The steps of Uploads are steps of Store.                                *)

\* A handler that records its file commits one transaction of the store.
LEMMA RecordIsAStep ==
    ASSUME UploadsTypeOK, NEW h \in Transfers, Record(h)
    PROVE  Next
<1>1. stage[h] = "recording" /\ request[h] \in ArtifactRequest \cup PackageRequest
  BY DEF Record, UploadsTypeOK
<1>2. CASE request[h].kind = "artifact"
  <2>1. request[h] \in ArtifactRequest
    BY <1>1, <1>2 DEF PackageRequest
  <2> DEFINE a == [name |-> request[h].name, blob |-> request[h].content]
  <2>2. a \in Artifact /\ request[h].task \in TaskIds /\ request[h].token \in Tokens
    BY <2>1 DEF ArtifactRequest, Artifact
  <2>3. AddArtifact(request[h].task, request[h].token, a)
    BY <1>2 DEF Record
  <2> HIDE DEF a
  <2> QED
    BY <2>2, <2>3 DEF Next
<1>3. CASE request[h].kind = "package"
  <2>1. request[h] \in PackageRequest
    BY <1>1, <1>3 DEF ArtifactRequest
  <2>2. /\ request[h].function \in Functions
        /\ request[h].version \in Versions
        /\ request[h].content \in Packages
    BY <2>1 DEF PackageRequest
  <2>3. Publish(request[h].function, request[h].version, request[h].content)
    BY <1>3 DEF Record
  <2> QED
    BY <2>2, <2>3 DEF Next
<1> QED
  BY <1>1, <1>2, <1>3 DEF ArtifactRequest, PackageRequest

LEMMA HandlersDriveStore ==
    ASSUME UploadsTypeOK, NEW h \in Transfers, HandlerStep(h)
    PROVE  [Next]_vars
<1>1. CASE Record(h)
  BY <1>1, RecordIsAStep
<1>2. CASE Received(h) \/ Place(h) \/ Sync(h) \/ Refuse(h) \/ Abort(h)
  BY <1>2 DEF Received, Place, Sync, Refuse, Abort, store
<1> QED
  BY <1>1, <1>2 DEF HandlerStep, ArtifactArrives, PackageArrives, store

LEMMA StepsDriveStore ==
    ASSUME UploadsTypeOK, [UploadsNext]_uvars
    PROVE  [Next]_vars
<1>1. CASE RestartServer
  BY <1>1 DEF RestartServer, Next
<1>2. CASE StoreGoesOn
  BY <1>2 DEF StoreGoesOn, Next
<1>3. CASE UNCHANGED uvars
  BY <1>3 DEF uvars, store
<1> QED
  BY <1>1, <1>2, <1>3, HandlersDriveStore DEF UploadsNext

-----------------------------------------------------------------------------
(* The inductive invariant.                                                *)

\* A handler that has passed install_blob has its file where it belongs.
Installed ==
    \A h \in Transfers :
        stage[h] \in {"syncing", "recording", "unsynced"} => Content(h) \in files

\* Where directories can be flushed, an entry that has not been has a handler that has not
\* flushed its directory.
FlushPending ==
    ~Windows => \A content \in files \ synced :
        \E h \in Transfers : stage[h] \in {"syncing", "unsynced"} /\ Content(h) = content

UploadsInductive ==
    /\ UploadsTypeOK
    /\ Installed
    /\ RowsHaveFiles
    /\ PartsBelong
    /\ FlushPending

LEMMA UploadsInitInductive == UploadsInit => UploadsInductive
<1> SUFFICES ASSUME UploadsInit PROVE UploadsInductive
  OBVIOUS
<1>1. UploadsTypeOK
  BY DEF UploadsInit, UploadsTypeOK, Stages
<1>2. Installed /\ PartsBelong /\ FlushPending
  BY DEF UploadsInit, Installed, PartsBelong, FlushPending
<1>3. Referenced = {}
  <2>1. \A t \in TaskIds : artifacts[t] = {}
    BY DEF UploadsInit, Init
  <2>2. \A f \in Functions, v \in Versions : definitions[f][v] = None
    BY DEF UploadsInit, Init
  <2> QED
    BY <2>1, <2>2 DEF Referenced
<1> QED
  BY <1>1, <1>2, <1>3 DEF UploadsInductive, RowsHaveFiles

-----------------------------------------------------------------------------
(* What the rows refer to.                                                 *)

\* A content is referred to by a row of an artifact or of a definition.
LEMMA ReferencedIff ==
    ASSUME NEW c
    PROVE  c \in Referenced <=>
               \/ \E t \in TaskIds : \E a \in artifacts[t] : c = a.blob
               \/ c # None /\ \E f \in Functions, v \in Versions : c = definitions[f][v]
BY DEF Referenced

\* Only a handler that records its file adds a reference, the one to its own contents.
LEMMA ReferencedStep ==
    ASSUME TypeOK, UploadsTypeOK, [UploadsNext]_uvars, NEW c \in Referenced'
    PROVE  \/ c \in Referenced
           \/ \E h \in Transfers : stage[h] = "recording" /\ c = Content(h)
<1>1. CASE UNCHANGED <<artifacts, definitions>>
  BY <1>1 DEF Referenced
<1>2. ASSUME NEW h \in Transfers, Record(h), request[h].kind = "artifact"
      PROVE  c \in Referenced \/ (stage[h] = "recording" /\ c = Content(h))
  <2> DEFINE r == request[h]
             added == [name |-> r.name, blob |-> r.content]
  <2>1. /\ stage[h] = "recording"
        /\ AddArtifact(r.task, r.token, added)
    BY <1>2 DEF Record
  <2>2. definitions' = definitions
    BY <2>1 DEF AddArtifact, catalog
  <2>3. \A t \in TaskIds : \A a \in artifacts'[t] : a \in artifacts[t] \/ a = added
    <3>1. artifacts' = [artifacts EXCEPT ![r.task] = @ \cup {added}]
      BY <2>1 DEF AddArtifact
    <3> HIDE DEF added, r
    <3> QED
      BY <3>1 DEF TypeOK
  <2>4. \/ \E t \in TaskIds : \E a \in artifacts'[t] : c = a.blob
        \/ c # None /\ \E f \in Functions, v \in Versions : c = definitions'[f][v]
    BY DEF Referenced
  <2>5. added.blob = Content(h)
    BY DEF Content
  <2> HIDE DEF added
  <2> QED
    BY <2>1, <2>2, <2>3, <2>4, <2>5, ReferencedIff
<1>3. ASSUME NEW h \in Transfers, Record(h), request[h].kind = "package"
      PROVE  c \in Referenced \/ (stage[h] = "recording" /\ c = Content(h))
  <2> DEFINE r == request[h]
  <2>1. /\ stage[h] = "recording"
        /\ Publish(r.function, r.version, r.content)
    BY <1>3 DEF Record
  <2>2. artifacts' = artifacts
    BY <2>1 DEF Publish
  <2>3. \A f \in Functions, v \in Versions :
            definitions'[f][v] = definitions[f][v] \/ definitions'[f][v] = r.content
    <3>1. definitions' = [definitions EXCEPT ![r.function][r.version] = r.content]
      BY <2>1 DEF Publish
    <3> HIDE DEF r
    <3> QED
      BY <3>1 DEF TypeOK
  <2>4. \/ \E t \in TaskIds : \E a \in artifacts'[t] : c = a.blob
        \/ c # None /\ \E f \in Functions, v \in Versions : c = definitions'[f][v]
    BY DEF Referenced
  <2> QED
    BY <2>1, <2>2, <2>3, <2>4, ReferencedIff DEF Content
<1>4. ASSUME NEW h \in Transfers, HandlerStep(h), ~Record(h)
      PROVE  UNCHANGED <<artifacts, definitions>>
  BY <1>4 DEF HandlerStep, ArtifactArrives, PackageArrives, Received, Place, Sync, Refuse,
              Abort, store, vars
<1>5. ASSUME RestartServer \/ UNCHANGED uvars
      PROVE  UNCHANGED <<artifacts, definitions>>
  BY <1>5 DEF RestartServer, Restart, uvars, store, vars, catalog
<1>6. ASSUME StoreGoesOn
      PROVE  UNCHANGED <<artifacts, definitions>>
  BY <1>6 DEF StoreGoesOn, Submit, Cancel, Expire, ClaimArrive, ClaimCommit, BeatArrive,
              BeatCommit, Complete, Tick, LockTimeout, catalog
<1> QED
  BY <1>1, <1>2, <1>3, <1>4, <1>5, <1>6 DEF UploadsNext, Record

-----------------------------------------------------------------------------
(* The invariant is kept.                                                  *)

LEMMA NextUploadsTypeOK ==
    ASSUME UploadsTypeOK, [UploadsNext]_uvars
    PROVE  UploadsTypeOK'
<1> USE DEF UploadsTypeOK, Stages
<1>1. ASSUME NEW h \in Transfers, NEW r \in ArtifactRequest \cup PackageRequest,
             stage[h] = "idle", Advance(h, "receiving"),
             request' = [request EXCEPT ![h] = r], parts' = parts \cup {h}, UNCHANGED disk
      PROVE  UploadsTypeOK'
  <2>1. r # NoRequest
    BY DEF ArtifactRequest, PackageRequest, NoRequest
  <2> QED
    BY <1>1, <2>1 DEF Advance, disk
<1>2. ASSUME NEW h \in Transfers, NEW t \in TaskIds, NEW k \in Tokens, NEW a \in Artifact,
             ArtifactArrives(h, t, k, a)
      PROVE  UploadsTypeOK'
  <2>1. [kind |-> "artifact", task |-> t, token |-> k, name |-> a.name, content |-> a.blob]
            \in ArtifactRequest
    BY DEF ArtifactRequest, Artifact
  <2> QED
    BY <1>1, <1>2, <2>1 DEF ArtifactArrives
<1>3. ASSUME NEW h \in Transfers, NEW f \in Functions, NEW v \in Versions, NEW p \in Packages,
             PackageArrives(h, f, v, p)
      PROVE  UploadsTypeOK'
  <2>1. [kind |-> "package", function |-> f, version |-> v, content |-> p] \in PackageRequest
    BY DEF PackageRequest
  <2> QED
    BY <1>1, <1>3, <2>1 DEF PackageArrives
<1>4. ASSUME NEW h \in Transfers, Received(h) PROVE UploadsTypeOK'
  BY <1>4 DEF Received, Advance, disk
<1>5. ASSUME NEW h \in Transfers, stage[h] # "idle" PROVE Content(h) \in Contents
  BY <1>5 DEF Content, Contents, ArtifactRequest, PackageRequest
<1>6. ASSUME NEW h \in Transfers, Place(h) PROVE UploadsTypeOK'
  <2>1. Content(h) \in Contents
    BY <1>5, <1>6 DEF Place
  <2> QED
    BY <1>6, <2>1 DEF Place, Advance
<1>7. ASSUME NEW h \in Transfers, Sync(h) PROVE UploadsTypeOK'
  BY <1>7 DEF Sync, Advance
<1>8. ASSUME NEW h \in Transfers, Record(h) \/ Refuse(h) \/ Abort(h) PROVE UploadsTypeOK'
  BY <1>8 DEF Record, Refuse, Abort, Advance, disk
<1>9. CASE RestartServer
  <2>1. \A s \in Stages : Killed(s) \in Stages /\ (Killed(s) = "idle" <=> s = "idle")
    BY DEF Killed
  <2> QED
    BY <1>9, <2>1 DEF RestartServer, disk
<1>10. CASE StoreGoesOn \/ UNCHANGED uvars
  BY <1>10 DEF StoreGoesOn, uvars, receipt, disk
<1> QED
  BY <1>2, <1>3, <1>4, <1>6, <1>7, <1>8, <1>9, <1>10 DEF UploadsNext, HandlerStep

\* Contents of a handler never change once it has some.
LEMMA ContentKept ==
    ASSUME UploadsTypeOK, [UploadsNext]_uvars, NEW h \in Transfers, stage[h] # "idle"
    PROVE  Content(h)' = Content(h)
<1>1. ASSUME NEW g \in Transfers, NEW r, stage[g] = "idle", request' = [request EXCEPT ![g] = r]
      PROVE  request'[h] = request[h]
  BY <1>1 DEF UploadsTypeOK
<1>2. request'[h] = request[h]
  BY <1>1 DEF UploadsNext, HandlerStep, ArtifactArrives, PackageArrives, Received, Place, Sync,
              Record, Refuse, Abort, RestartServer, StoreGoesOn, uvars, receipt
<1> QED
  BY <1>2 DEF Content

\* Files are never removed, and the end of installing one is its being there.
LEMMA NextInstalled ==
    ASSUME UploadsTypeOK, Installed, [UploadsNext]_uvars
    PROVE  Installed' /\ files \subseteq files'
<1>1. files \subseteq files'
  BY DEF UploadsNext, HandlerStep, ArtifactArrives, PackageArrives, Received, Place, Sync,
         Record, Refuse, Abort, RestartServer, StoreGoesOn, uvars, disk
<1> SUFFICES ASSUME NEW g \in Transfers, stage'[g] \in {"syncing", "recording", "unsynced"}
             PROVE  Content(g)' \in files'
  BY <1>1 DEF Installed
<1>2. stage[g] # "idle"
  <2>1. ASSUME NEW h \in Transfers, stage[h] = "idle", Advance(h, "receiving")
        PROVE  stage[g] # "idle"
    BY <2>1 DEF Advance, UploadsTypeOK
  <2>2. ASSUME NEW h \in Transfers, NEW next, stage[h] # "idle", Advance(h, next)
        PROVE  stage[g] # "idle"
    BY <2>2 DEF Advance, UploadsTypeOK
  <2>3. ASSUME RestartServer PROVE stage[g] # "idle"
    BY <2>3 DEF RestartServer, Killed
  <2> QED
    BY <2>1, <2>2, <2>3 DEF UploadsNext, HandlerStep, ArtifactArrives, PackageArrives,
       Received, Place, Sync, Record, Refuse, Abort, StoreGoesOn, uvars, receipt
<1>3. Content(g)' = Content(g)
  BY <1>2, ContentKept
<1>4. stage[g] \in {"syncing", "recording", "unsynced"} => Content(g) \in files'
  BY <1>1 DEF Installed
<1>5. ASSUME NEW h \in Transfers, HandlerStep(h), g # h
      PROVE  stage'[g] = stage[g]
  BY <1>5 DEF HandlerStep, ArtifactArrives, PackageArrives, Received, Place, Sync, Record,
              Refuse, Abort, Advance, UploadsTypeOK
<1>6. ASSUME HandlerStep(g) PROVE Content(g) \in files'
  <2>1. CASE Received(g)
    BY <1>1, <2>1 DEF Received, Advance, UploadsTypeOK
  <2>2. CASE Place(g)
    BY <2>2 DEF Place
  <2>3. CASE Sync(g) \/ Record(g) \/ Refuse(g) \/ Abort(g)
    BY <1>4, <2>3 DEF Sync, Record, Refuse, Abort, Advance, UploadsTypeOK
  <2>4. CASE stage[g] = "idle"
    BY <1>2, <2>4
  <2> QED
    BY <1>6, <2>1, <2>2, <2>3, <2>4 DEF HandlerStep, ArtifactArrives, PackageArrives
<1>7. ASSUME RestartServer PROVE Content(g) \in files'
  <2>1. stage'[g] = Killed(stage[g]) /\ stage[g] \in Stages
    BY <1>7 DEF RestartServer, UploadsTypeOK
  <2> QED
    BY <1>4, <2>1 DEF Killed, Stages
<1>8. ASSUME StoreGoesOn \/ UNCHANGED uvars PROVE stage' = stage
  BY <1>8 DEF StoreGoesOn, uvars, receipt
<1> QED
  BY <1>1, <1>3, <1>4, <1>5, <1>6, <1>7, <1>8 DEF UploadsNext

LEMMA NextRowsHaveFiles ==
    ASSUME TypeOK, UploadsTypeOK, Installed, RowsHaveFiles, [UploadsNext]_uvars
    PROVE  RowsHaveFiles'
<1> SUFFICES ASSUME NEW c \in Referenced' PROVE c \in files'
  BY DEF RowsHaveFiles, Served
<1>1. c \in files
  BY ReferencedStep DEF Installed, RowsHaveFiles, Served
<1> QED
  BY <1>1, NextInstalled

LEMMA NextPartsBelong ==
    ASSUME UploadsTypeOK, PartsBelong, [UploadsNext]_uvars
    PROVE  PartsBelong'
<1> SUFFICES ASSUME NEW g \in parts' PROVE stage'[g] \in {"receiving", "placing", "killed"}
  BY DEF PartsBelong
<1>1. g \in Transfers
  BY NextUploadsTypeOK DEF UploadsTypeOK
<1>2. g \in parts => stage[g] \in {"receiving", "placing", "killed"}
  BY DEF PartsBelong
<1>3. ASSUME NEW h \in Transfers, HandlerStep(h), g # h
      PROVE  stage'[g] = stage[g] /\ g \in parts
  BY <1>1, <1>3 DEF HandlerStep, ArtifactArrives, PackageArrives, Received, Place, Sync, Record,
              Refuse, Abort, Advance, UploadsTypeOK
<1>4. ASSUME HandlerStep(g) PROVE stage'[g] \in {"receiving", "placing", "killed"}
  <2>1. CASE Received(g)
    BY <1>1, <2>1 DEF Received, Advance, UploadsTypeOK
  <2>2. CASE Place(g) \/ Abort(g)
    BY <2>2 DEF Place, Abort
  <2>3. CASE Sync(g) \/ Record(g) \/ Refuse(g)
    BY <1>2, <2>3 DEF Sync, Record, Refuse
  <2> QED
    BY <1>1, <1>4, <2>1, <2>2, <2>3
    DEF HandlerStep, ArtifactArrives, PackageArrives, Advance, UploadsTypeOK
<1>5. ASSUME RestartServer PROVE stage'[g] \in {"receiving", "placing", "killed"}
  BY <1>1, <1>2, <1>5 DEF RestartServer, Killed
<1>6. ASSUME StoreGoesOn \/ UNCHANGED uvars PROVE UNCHANGED <<stage, parts>>
  BY <1>6 DEF StoreGoesOn, uvars, receipt
<1> QED
  BY <1>1, <1>2, <1>3, <1>4, <1>5, <1>6 DEF UploadsNext

LEMMA NextFlushPending ==
    ASSUME UploadsTypeOK, Installed, FlushPending, [UploadsNext]_uvars
    PROVE  FlushPending'
<1> DEFINE Pending(h, c) == stage[h] \in {"syncing", "unsynced"} /\ Content(h) = c
<1> SUFFICES ASSUME ~Windows, NEW c \in files' \ synced'
             PROVE  \E h \in Transfers : Pending(h, c)'
  BY DEF FlushPending
<1>1. ASSUME NEW h \in Transfers, Pending(h, c), stage'[h] \in {"syncing", "unsynced"}
      PROVE  Pending(h, c)'
  BY <1>1, ContentKept
<1>2. ASSUME c \in files, synced' = synced, 
             \A h \in Transfers : stage[h] \in {"syncing", "unsynced"} =>
                                     stage'[h] \in {"syncing", "unsynced"}
      PROVE  \E h \in Transfers : Pending(h, c)'
  BY <1>1, <1>2 DEF FlushPending
<1>3. ASSUME NEW h \in Transfers, Place(h) PROVE \E g \in Transfers : Pending(g, c)'
  <2>1. stage'[h] = "syncing" /\ Content(h)' = Content(h)
    BY <1>3, ContentKept DEF Place, Advance, UploadsTypeOK
  <2>2. c = Content(h) \/ c \in files
    BY <1>3 DEF Place
  <2>3. \A g \in Transfers : g # h => stage'[g] = stage[g]
    BY <1>3 DEF Place, Advance, UploadsTypeOK
  <2>4. CASE c = Content(h)
    BY <2>1, <2>4
  <2>5. CASE c \in files
    <3>1. synced' = synced
      BY <1>3 DEF Place
    <3> QED
      BY <1>2, <2>1, <2>3, <2>5, <3>1
  <2> QED
    BY <2>2, <2>4, <2>5
<1>4. ASSUME NEW h \in Transfers, Sync(h) PROVE \E g \in Transfers : Pending(g, c)'
  <2>1. /\ c \in files \ synced
        /\ c \notin Beside(Content(h))
        /\ Content(h) \in files
    BY <1>4 DEF Sync, Installed
  <2>2. PICK g \in Transfers : Pending(g, c)
    BY <2>1 DEF FlushPending
  <2>3. c # Content(h)
    BY <2>1 DEF UploadsTypeOK, Contents, Beside
  <2>4. stage'[g] = stage[g]
    BY <1>4, <2>2, <2>3 DEF Sync, Advance, UploadsTypeOK
  <2> QED
    BY <1>1, <2>2, <2>4
<1>5. ASSUME NEW h \in Transfers, HandlerStep(h), ~Place(h), ~Sync(h)
      PROVE  \E g \in Transfers : Pending(g, c)'
  <2>1. synced' = synced /\ files' = files
    BY <1>5 DEF HandlerStep, ArtifactArrives, PackageArrives, Received, Record, Refuse, Abort, disk
  <2>2. ASSUME NEW g \in Transfers, stage[g] \in {"syncing", "unsynced"}
        PROVE  stage'[g] \in {"syncing", "unsynced"}
    BY <1>5, <2>2 DEF HandlerStep, ArtifactArrives, PackageArrives, Received, Record, Refuse,
                      Abort, Advance, UploadsTypeOK
  <2> QED
    BY <1>2, <2>1, <2>2
<1>6. ASSUME RestartServer PROVE \E g \in Transfers : Pending(g, c)'
  <2>1. synced' = synced /\ files' = files
    BY <1>6 DEF RestartServer, disk
  <2>2. ASSUME NEW g \in Transfers, stage[g] \in {"syncing", "unsynced"}
        PROVE  stage'[g] \in {"syncing", "unsynced"}
    BY <1>6, <2>2 DEF RestartServer, Killed
  <2> QED
    BY <1>2, <2>1, <2>2
<1>7. ASSUME StoreGoesOn \/ UNCHANGED uvars PROVE \E g \in Transfers : Pending(g, c)'
  BY <1>2, <1>7 DEF StoreGoesOn, uvars, receipt, disk
<1> QED
  BY <1>3, <1>4, <1>5, <1>6, <1>7 DEF UploadsNext

LEMMA UploadsNextInductive ==
    TypeOK /\ UploadsInductive /\ [UploadsNext]_uvars => UploadsInductive'
<1> SUFFICES ASSUME TypeOK, UploadsInductive, [UploadsNext]_uvars PROVE UploadsInductive'
  OBVIOUS
<1>1. UploadsTypeOK' /\ Installed' /\ PartsBelong'
  BY NextUploadsTypeOK, NextInstalled, NextPartsBelong DEF UploadsInductive
<1>2. RowsHaveFiles'
  BY NextRowsHaveFiles DEF UploadsInductive
<1>3. FlushPending'
  BY NextFlushPending DEF UploadsInductive
<1> QED
  BY <1>1, <1>2, <1>3 DEF UploadsInductive

-----------------------------------------------------------------------------
(* The theorems.                                                           *)

\* The inductive invariant of Uploads, with the types of the store.
THEOREM UploadsInvariance == UploadsSpec => [](TypeOK /\ UploadsInductive)
<1>1. UploadsInit => TypeOK /\ UploadsInductive
  BY InitTypeOK, UploadsInitInductive DEF UploadsInit
<1>2. TypeOK /\ UploadsInductive /\ [UploadsNext]_uvars => (TypeOK /\ UploadsInductive)'
  <2> SUFFICES ASSUME TypeOK, UploadsInductive, [UploadsNext]_uvars
               PROVE  TypeOK' /\ UploadsInductive'
    OBVIOUS
  <2>1. [Next]_vars
    BY StepsDriveStore DEF UploadsInductive
  <2> QED
    BY <2>1, NextTypeOK, UploadsNextInductive
<1> QED
  BY <1>1, <1>2, PTL DEF UploadsSpec

\* Handlers that receive files, at any length, interrupted anywhere, make the store take
\* its own steps only: each theorem about Spec is one about UploadsSpec.
THEOREM UploadsImplementStore == UploadsSpec => UploadsDriveStore
<1>1. UploadsInit => Init
  BY DEF UploadsInit
<1>2. UploadsInductive /\ [UploadsNext]_uvars => [Next]_vars
  BY StepsDriveStore DEF UploadsInductive
<1>3. TypeOK /\ UploadsInductive => UploadsInductive
  OBVIOUS
<1> QED
  BY <1>1, <1>2, <1>3, UploadsInvariance, PTL DEF UploadsSpec, UploadsDriveStore, Spec

\* What the store alone promises of calls holds however files are received.
THEOREM UploadsKeepLifecycle == UploadsSpec => ImplementsLifecycle
BY UploadsImplementStore, Implementation, PTL DEF UploadsDriveStore

\* Each variable of Uploads keeps its type.
THEOREM UploadsTypeCorrect == UploadsSpec => []UploadsTypeOK
<1>1. TypeOK /\ UploadsInductive => UploadsTypeOK
  BY DEF UploadsInductive
<1> QED
  BY <1>1, UploadsInvariance, PTL

\* What a row names can be downloaded, in every state and after every crash of the server.
THEOREM RowsNameFiles == UploadsSpec => []RowsHaveFiles
<1>1. TypeOK /\ UploadsInductive => RowsHaveFiles
  BY DEF UploadsInductive
<1> QED
  BY <1>1, UploadsInvariance, PTL

\* Only a kill of the server leaves a .part file without a handler that needs it.
THEOREM PartsHaveOwners == UploadsSpec => []PartsBelong
<1>1. TypeOK /\ UploadsInductive => PartsBelong
  BY DEF UploadsInductive
<1> QED
  BY <1>1, UploadsInvariance, PTL

\* A row whose file is not flushed has a handler that has not got round to it.
THEOREM RowsFlushed == UploadsSpec => []FlushedUnlessInstalling
<1>1. TypeOK /\ UploadsInductive => FlushedUnlessInstalling
  BY DEF UploadsInductive, RowsHaveFiles, Served, FlushPending, FlushedUnlessInstalling
<1> QED
  BY <1>1, UploadsInvariance, PTL

-----------------------------------------------------------------------------
(* An upload takes effect at one moment.                                   *)

\* What a row names is there, so that all that is filed is readable.
LEMMA RowsReadable ==
    ASSUME UploadsTypeOK, RowsHaveFiles
    PROVE  Readable = Rows
<1> SUFFICES ASSUME NEW x \in Rows PROVE Served(x.content)
  BY DEF Readable
<1>1. x.content \in Referenced
  <2>1. CASE x.kind = "artifact"
    <3>1. x.task \in TaskIds /\ [name |-> x.name, blob |-> x.content] \in artifacts[x.task]
      BY <2>1 DEF Rows, Things, PackageRequest
    <3>2. [name |-> x.name, blob |-> x.content].blob = x.content
      OBVIOUS
    <3> QED
      BY <3>1, <3>2, ReferencedIff
  <2>2. CASE x.kind = "package"
    <3>1. /\ x.function \in Functions /\ x.version \in Versions /\ x.content \in Packages
          /\ definitions[x.function][x.version] = x.content
      BY <2>2 DEF Rows, Things, PackageRequest
    <3>2. x.content # None
      BY <3>1, StoreAssumption
    <3> QED
      BY <3>1, <3>2, ReferencedIff
  <2> QED
    BY <2>1, <2>2 DEF Rows, Things, PackageRequest
<1> QED
  BY <1>1 DEF RowsHaveFiles

LEMMA ThingsOfRequests ==
    ASSUME NEW r \in ArtifactRequest \cup PackageRequest
    PROVE  ThingOf(r) \in Things /\ ThingOf(r).content = r.content
BY DEF ThingOf, Things, ArtifactRequest, PackageRequest

ArtifactThing(t, a) ==
    [kind |-> "artifact", task |-> t, name |-> a.name, content |-> a.blob]

\* A thing is an artifact of a call or a package of a function.
LEMMA KindsOfThings ==
    ASSUME NEW x \in Things
    PROVE  \/ /\ x.kind = "artifact" /\ x.task \in TaskIds
              /\ x.name \in Names /\ x.content \in Blobs
              /\ x = ArtifactThing(x.task, [name |-> x.name, blob |-> x.content])
           \/ /\ x.kind = "package" /\ x.function \in Functions
              /\ x.version \in Versions /\ x.content \in Packages
              /\ x \in PackageRequest
BY DEF Things, PackageRequest, ArtifactThing

\* The rows after an artifact was added: no other has come or gone.
LEMMA RowsWithArtifact ==
    ASSUME TypeOK, NEW t \in TaskIds, NEW a \in Artifact,
           artifacts' = [artifacts EXCEPT ![t] = @ \cup {a}], definitions' = definitions
    PROVE  Rows' = Rows \cup {ArtifactThing(t, a)}
<1> DEFINE z == ArtifactThing(t, a)
<1>1. z \in Things /\ z.kind = "artifact" /\ z.task = t /\ z.name = a.name /\ z.content = a.blob
  BY DEF Things, ArtifactThing, Artifact
<1>2. a = [name |-> a.name, blob |-> a.blob]
  BY DEF Artifact
<1>3. \A u \in TaskIds : artifacts'[u] = IF u = t THEN artifacts[u] \cup {a} ELSE artifacts[u]
  BY DEF TypeOK
<1>4. ASSUME NEW x \in Things PROVE x \in Rows' <=> x \in Rows \/ x = z
  <2>1. CASE x.kind = "artifact"
    <3> DEFINE b == [name |-> x.name, blob |-> x.content]
    <3>1. x.task \in TaskIds /\ x = ArtifactThing(x.task, b)
      BY <2>1, KindsOfThings
    <3>2. x \in Rows <=> b \in artifacts[x.task]
      BY <2>1 DEF Rows
    <3>3. x \in Rows' <=> b \in artifacts'[x.task]
      BY <2>1 DEF Rows
    <3>4. x = z <=> x.task = t /\ b = a
      <4>1. x = z => x.task = t /\ b = a
        BY <1>1, <1>2
      <4>2. x.task = t /\ b = a => x = z
        BY <3>1
      <4> QED
        BY <4>1, <4>2
    <3> HIDE DEF b, z
    <3> QED
      BY <1>3, <3>1, <3>2, <3>3, <3>4
  <2>2. CASE x.kind = "package"
    <3>1. x # z
      BY <1>1, <2>2
    <3> QED
      BY <2>2, <3>1 DEF Rows
  <2> QED
    BY <2>1, <2>2, KindsOfThings
<1>5. Rows \subseteq Things /\ Rows' \subseteq Things
  BY DEF Rows
<1> HIDE DEF z
<1>6. Rows' = Rows \cup {z}
  BY <1>1, <1>4, <1>5
<1> QED
  BY <1>6 DEF z

\* The rows after a package was published.
LEMMA RowsWithPackage ==
    ASSUME TypeOK, NEW z \in PackageRequest, definitions[z.function][z.version] \in {None, z.content},
           definitions' = [definitions EXCEPT ![z.function][z.version] = z.content],
           artifacts' = artifacts
    PROVE  Rows' = Rows \cup {z}
<1>1. /\ z \in Things /\ z.kind = "package" /\ z.function \in Functions
      /\ z.version \in Versions /\ z.content \in Packages
      /\ z = [kind |-> "package", function |-> z.function, version |-> z.version,
              content |-> z.content]
  BY DEF Things, PackageRequest
<1>2. \A f \in Functions, v \in Versions :
          definitions'[f][v] = IF f = z.function /\ v = z.version THEN z.content
                               ELSE definitions[f][v]
  BY <1>1 DEF TypeOK
<1>3. ASSUME NEW x \in Things PROVE x \in Rows' <=> x \in Rows \/ x = z
  <2>1. CASE x.kind = "artifact"
    <3>1. x # z
      BY <1>1, <2>1
    <3> QED
      BY <2>1, <3>1 DEF Rows
  <2>2. CASE x.kind = "package"
    <3>1. /\ x.function \in Functions /\ x.version \in Versions /\ x.content \in Packages
          /\ x = [kind |-> "package", function |-> x.function, version |-> x.version,
                  content |-> x.content]
      BY <2>2, KindsOfThings DEF PackageRequest
    <3>2. x \in Rows <=> definitions[x.function][x.version] = x.content
      BY <2>2 DEF Rows
    <3>3. x \in Rows' <=> definitions'[x.function][x.version] = x.content
      BY <2>2 DEF Rows
    <3>4. x = z <=> x.function = z.function /\ x.version = z.version /\ x.content = z.content
      BY <1>1, <3>1
    <3>5. None \notin Packages
      BY StoreAssumption
    <3> QED
      BY <1>1, <1>2, <3>1, <3>2, <3>3, <3>4, <3>5
  <2> QED
    BY <2>1, <2>2, KindsOfThings
<1>4. Rows \subseteq Things /\ Rows' \subseteq Things
  BY DEF Rows
<1> QED
  BY <1>1, <1>3, <1>4

\* The abstract variables that are functions.
absProgress == [h \in Transfers |-> ProgressOf(stage[h])]
absThing == [h \in Transfers |-> ThingOf(request[h])]
absNewest == [f \in Functions |-> DefaultOf(f)]

\* A handler that goes on is the only one that does.
LEMMA Progresses ==
    ASSUME UploadsTypeOK, NEW h \in Transfers, NEW next, Advance(h, next)
    PROVE  absProgress' = [absProgress EXCEPT ![h] = ProgressOf(next)]
BY DEF absProgress, Advance, UploadsTypeOK

\* What has been filed, and by whom, is as it was.
LEMMA NothingFiled ==
    ASSUME UploadsTypeOK, RowsHaveFiles, files \subseteq files',
           UNCHANGED <<artifacts, definitions, latest>>
    PROVE  UNCHANGED <<Rows, Readable, absNewest>>
<1>1. Rows' = Rows
  BY DEF Rows
<1>2. Readable = Rows
  BY RowsReadable
<1>3. Readable' = Rows
  BY <1>1, <1>2 DEF Readable, Served
<1>4. absNewest' = absNewest
  BY DEF absNewest, DefaultOf
<1> QED
  BY <1>1, <1>2, <1>3, <1>4

\* A transaction that adds one row adds one thing, which can be downloaded.
LEMMA FiledAtOnce ==
    ASSUME UploadsTypeOK, Installed, RowsHaveFiles, NEW h \in Transfers, Record(h),
           NEW z \in Things, z = ThingOf(request[h]), z.content = Content(h),
           Rows' = Rows \cup {z},
           \A x \in Rows : SpotOf(x) = SpotOf(z) => x = z,
           absNewest' = [f \in Functions |-> IF ShelfOf(z) = f /\ z \notin Rows
                                             THEN z ELSE absNewest[f]]
    PROVE  Shelving!File(h)
<1>1. stage[h] = "recording" /\ Advance(h, "answered") /\ UNCHANGED <<request, files>>
  BY DEF Record, disk
<1>2. absProgress[h] = "underway" /\ absThing[h] = z /\ absThing' = absThing
  BY <1>1 DEF absProgress, ProgressOf, absThing
<1>3. absProgress' = [absProgress EXCEPT ![h] = "answered"]
  BY <1>1, Progresses DEF ProgressOf
<1>4. Readable' = Readable \cup {z}
  <2>1. Readable = Rows
    BY RowsReadable
  <2>2. z.content \in files
    BY <1>1 DEF Installed
  <2> QED
    BY <1>1, <2>1, <2>2 DEF Readable, Served
<1>5. \A x \in Rows : x \in Things
  BY DEF Rows
<1>6. \A x \in Rows : [y \in Things |-> SpotOf(y)][x] = [y \in Things |-> SpotOf(y)][absThing[h]]
                          => x = absThing[h]
  BY <1>2, <1>5
<1>7. absNewest' = [f \in Functions |->
          IF [y \in Things |-> ShelfOf(y)][absThing[h]] = f /\ absThing[h] \notin Rows
          THEN absThing[h] ELSE absNewest[f]]
  BY <1>2
<1> QED
  BY <1>2, <1>3, <1>4, <1>6, <1>7 DEF Shelving!File, absProgress, absThing, absNewest

LEMMA ArtifactFiled ==
    ASSUME TypeOK, UploadsTypeOK, Installed, RowsHaveFiles,
           NEW h \in Transfers, Record(h), request[h].kind = "artifact"
    PROVE  Shelving!File(h)
<1> DEFINE r == request[h]
           a == [name |-> r.name, blob |-> r.content]
           z == ThingOf(r)
<1>1. r \in ArtifactRequest
  BY DEF Record, UploadsTypeOK, PackageRequest
<1>2. r.task \in TaskIds /\ a \in Artifact /\ z \in Things /\ z.content = Content(h)
  BY <1>1, ThingsOfRequests DEF ArtifactRequest, Artifact, Content
<1>3. z = ArtifactThing(r.task, a) /\ z.kind = "artifact" /\ z.task = r.task
      /\ z.name = a.name /\ z.content = a.blob
  BY DEF ThingOf, ArtifactThing
<1>4. AddArtifact(r.task, r.token, a)
  BY DEF Record
<1>5. artifacts' = [artifacts EXCEPT ![r.task] = @ \cup {a}] /\ UNCHANGED <<definitions, latest>>
  BY <1>4 DEF AddArtifact, catalog
<1>6. \A b \in artifacts[r.task] : Fold[b.name] = Fold[a.name] => b = a
  BY <1>4 DEF AddArtifact, Fits
<1>7. z = ThingOf(request[h])
  OBVIOUS
<1> HIDE DEF a, r, z
<1>8. Rows' = Rows \cup {z}
  BY <1>2, <1>3, <1>5, RowsWithArtifact
<1>9. ASSUME NEW x \in Rows, SpotOf(x) = SpotOf(z) PROVE x = z
  <2> DEFINE b == [name |-> x.name, blob |-> x.content]
  <2>1. x.kind = "artifact" /\ x.task = r.task /\ Fold[x.name] = Fold[z.name]
    <3>1. CASE x.kind = "artifact"
      BY <1>3, <1>9, <3>1 DEF SpotOf
    <3>2. CASE x.kind = "package"
      BY <1>3, <1>9, <3>2 DEF SpotOf
    <3> QED
      BY <3>1, <3>2, KindsOfThings DEF Rows
  <2>2. b \in artifacts[r.task] /\ x = ArtifactThing(x.task, b)
    BY <2>1, KindsOfThings DEF Rows
  <2>3. b.name = x.name
    OBVIOUS
  <2> HIDE DEF b
  <2>4. b = a
    BY <1>3, <1>6, <2>1, <2>2, <2>3
  <2> QED
    BY <1>3, <2>1, <2>2, <2>4
<1>10. absNewest' = [f \in Functions |-> IF ShelfOf(z) = f /\ z \notin Rows
                                         THEN z ELSE absNewest[f]]
  <2>1. ShelfOf(z) \notin Functions
    BY <1>3, StoreAssumption DEF ShelfOf
  <2>2. absNewest' = absNewest
    BY <1>5 DEF absNewest, DefaultOf
  <2> QED
    BY <2>1, <2>2 DEF absNewest
<1> QED
  BY <1>2, <1>7, <1>8, <1>9, <1>10, FiledAtOnce

LEMMA PackageFiled ==
    ASSUME TypeOK, UploadsTypeOK, Installed, RowsHaveFiles,
           NEW h \in Transfers, Record(h), request[h].kind = "package"
    PROVE  Shelving!File(h)
<1> DEFINE z == request[h]
<1>1. z \in PackageRequest
  BY DEF Record, UploadsTypeOK, ArtifactRequest
<1>2. /\ z.kind = "package" /\ z.function \in Functions /\ z.version \in Versions
      /\ z.content \in Packages /\ z.content = Content(h)
      /\ z = ThingOf(request[h]) /\ z \in Things
      /\ z = [kind |-> "package", function |-> z.function, version |-> z.version,
              content |-> z.content]
  BY <1>1 DEF PackageRequest, Things, ThingOf, Content
<1>3. Publish(z.function, z.version, z.content)
  BY DEF Record
<1>4. /\ definitions[z.function][z.version] \in {None, z.content}
      /\ definitions' = [definitions EXCEPT ![z.function][z.version] = z.content]
      /\ latest' = DefaultAfter(z.function, z.version)
      /\ artifacts' = artifacts
  BY <1>3 DEF Publish, Publishable
<1> HIDE DEF z
<1>5. Rows' = Rows \cup {z}
  BY <1>1, <1>4, RowsWithPackage
<1>6. ASSUME NEW x \in Rows, SpotOf(x) = SpotOf(z) PROVE x = z
  <2>1. x.kind = "package" /\ x.function = z.function /\ x.version = z.version
    <3>1. CASE x.kind = "artifact"
      BY <1>2, <1>6, <3>1 DEF SpotOf
    <3>2. CASE x.kind = "package"
      BY <1>2, <1>6, <3>2 DEF SpotOf
    <3> QED
      BY <3>1, <3>2, KindsOfThings DEF Rows
  <2>2. /\ x = [kind |-> "package", function |-> x.function, version |-> x.version,
                content |-> x.content]
        /\ x.content \in Packages /\ definitions[x.function][x.version] = x.content
    BY <2>1, KindsOfThings DEF Rows, PackageRequest
  <2>3. None \notin Packages
    BY StoreAssumption
  <2> QED
    BY <1>2, <1>4, <2>1, <2>2, <2>3
<1>7. z \notin Rows <=> definitions[z.function][z.version] = None
  <2>1. z \in Rows <=> definitions[z.function][z.version] = z.content
    BY <1>2 DEF Rows
  <2>2. None \notin Packages
    BY StoreAssumption
  <2> QED
    BY <1>2, <1>4, <2>1, <2>2
<1>8. \A f \in Functions : DefaultOf(f)' = IF z.function = f /\ z \notin Rows
                                           THEN z ELSE DefaultOf(f)
  <2> SUFFICES ASSUME NEW f \in Functions
               PROVE  DefaultOf(f)' = IF z.function = f /\ z \notin Rows THEN z ELSE DefaultOf(f)
    OBVIOUS
  <2>1. \A g \in Functions, v \in Versions :
            definitions'[g][v] = IF g = z.function /\ v = z.version THEN z.content
                                 ELSE definitions[g][v]
    BY <1>2, <1>4 DEF TypeOK
  <2>2. latest[f] \in Versions \cup {None} /\ None \notin Versions
    BY StoreAssumption DEF TypeOK
  <2>3. CASE definitions[z.function][z.version] = None
    <3>1. \A g \in Functions : latest'[g] = IF g = z.function THEN z.version ELSE latest[g]
      BY <1>2, <1>4, <2>3 DEF DefaultAfter, TypeOK
    <3>2. CASE f = z.function
      BY <1>2, <1>7, <2>1, <2>2, <2>3, <3>1, <3>2 DEF DefaultOf
    <3>3. CASE f # z.function
      BY <1>2, <2>1, <2>2, <3>1, <3>3 DEF DefaultOf
    <3> QED
      BY <3>2, <3>3
  <2>4. CASE definitions[z.function][z.version] # None
    <3>1. latest' = latest
      BY <1>4, <2>4 DEF DefaultAfter
    <3>2. \A v \in Versions : definitions'[f][v] = definitions[f][v]
      BY <1>4, <2>1, <2>4
    <3> QED
      BY <1>7, <2>2, <2>4, <3>1, <3>2 DEF DefaultOf
  <2> QED
    BY <2>3, <2>4
<1>9. absNewest' = [f \in Functions |-> IF ShelfOf(z) = f /\ z \notin Rows
                                        THEN z ELSE absNewest[f]]
  BY <1>2, <1>8 DEF absNewest, ShelfOf
<1> QED
  BY <1>2, <1>5, <1>6, <1>9, FiledAtOnce

\* Steps of a handler on its way to the transaction are not seen, and its end is a failure.
LEMMA OnTheWay ==
    ASSUME UploadsTypeOK, NEW h \in Transfers, NEW next, Advance(h, next),
           ProgressOf(next) = ProgressOf(stage[h]), UNCHANGED request,
           UNCHANGED <<Rows, Readable, absNewest>>
    PROVE  UNCHANGED Shelving!filing
<1>1. absProgress' = absProgress
  BY Progresses DEF absProgress
<1>2. absThing' = absThing
  BY DEF absThing
<1> QED
  BY <1>1, <1>2 DEF Shelving!filing, absProgress, absThing, absNewest

LEMMA Failure ==
    ASSUME UploadsTypeOK, NEW h \in Transfers, NEW next, Advance(h, next),
           ProgressOf(next) = "failed", ProgressOf(stage[h]) = "underway", UNCHANGED request,
           UNCHANGED <<Rows, Readable, absNewest>>
    PROVE  Shelving!Fail({h})
<1>1. absProgress' = [g \in Transfers |-> IF g \in {h} THEN "failed" ELSE absProgress[g]]
  <2>1. absProgress' = [absProgress EXCEPT ![h] = "failed"]
    BY Progresses
  <2> QED
    BY <2>1 DEF absProgress
<1>2. absThing' = absThing
  BY DEF absThing
<1>3. \A g \in {h} : absProgress[g] = "underway"
  BY DEF absProgress
<1> QED
  BY <1>1, <1>2, <1>3 DEF Shelving!Fail, absProgress, absThing, absNewest

LEMMA Arrival ==
    ASSUME UploadsTypeOK, NEW h \in Transfers, NEW r \in ArtifactRequest \cup PackageRequest,
           stage[h] = "idle", Advance(h, "receiving"), request' = [request EXCEPT ![h] = r],
           UNCHANGED <<Rows, Readable, absNewest>>
    PROVE  \E x \in Things : Shelving!Begin(h, x)
<1>1. absProgress' = [absProgress EXCEPT ![h] = "underway"] /\ absProgress[h] = "idle"
  BY Progresses DEF absProgress, ProgressOf
<1>2. absThing' = [absThing EXCEPT ![h] = ThingOf(r)]
  BY DEF absThing, UploadsTypeOK
<1>3. Shelving!Begin(h, ThingOf(r))
  BY <1>1, <1>2 DEF Shelving!Begin, absProgress, absThing, absNewest
<1> QED
  BY <1>3, ThingsOfRequests

LEMMA HandlersFile ==
    ASSUME TypeOK, UploadsInductive, NEW h \in Transfers, HandlerStep(h)
    PROVE  [Shelving!FilingNext]_(Shelving!filing)
<1> USE DEF UploadsInductive
<1>1. CASE Record(h)
  <2>1. request[h].kind \in {"artifact", "package"}
    BY <1>1 DEF Record
  <2>2. Shelving!File(h)
    BY <1>1, <2>1, ArtifactFiled, PackageFiled
  <2> QED
    BY <2>2 DEF Shelving!FilingNext
<1>2. ASSUME ~Record(h) PROVE UNCHANGED <<artifacts, definitions, latest>> /\ files \subseteq files'
  BY <1>2 DEF HandlerStep, ArtifactArrives, PackageArrives, Received, Place, Sync, Refuse,
              Abort, store, vars, catalog, disk
<1>3. ASSUME ~Record(h) PROVE UNCHANGED <<Rows, Readable, absNewest>>
  BY <1>2, <1>3, NothingFiled
<1>4. CASE Received(h)
  <2>1. \E next \in {"recording", "placing"} : Advance(h, next)
    BY <1>4 DEF Received
  <2>2. stage[h] = "receiving" /\ UNCHANGED request /\ ~Record(h)
    BY <1>4 DEF Received, Record
  <2> QED
    BY <1>3, <2>1, <2>2, OnTheWay DEF ProgressOf
<1>5. CASE Place(h)
  <2>1. /\ stage[h] = "placing" /\ Advance(h, "syncing") /\ UNCHANGED request /\ ~Record(h)
    BY <1>5 DEF Place, Record
  <2> QED
    BY <1>3, <2>1, OnTheWay DEF ProgressOf
<1>6. CASE Sync(h)
  <2>1. /\ stage[h] = "syncing" /\ Advance(h, "recording") /\ UNCHANGED request /\ ~Record(h)
    BY <1>6 DEF Sync, Record
  <2> QED
    BY <1>3, <2>1, OnTheWay DEF ProgressOf
<1>7. CASE Refuse(h) \/ Abort(h)
  <2>1. /\ stage[h] \in {"receiving", "placing", "syncing", "recording"}
        /\ \E next \in {"failed", "unsynced"} : Advance(h, next)
        /\ UNCHANGED request
    BY <1>7 DEF Refuse, Abort
  <2>2. UNCHANGED <<Rows, Readable, absNewest>>
    <3>1. UNCHANGED <<artifacts, definitions, latest, files>>
      BY <1>7 DEF Refuse, Abort, store, vars, catalog, disk
    <3> QED
      BY <3>1, NothingFiled
  <2>3. Shelving!Fail({h})
    BY <2>1, <2>2, Failure DEF ProgressOf
  <2> QED
    BY <2>3 DEF Shelving!FilingNext
<1>8. CASE \E t \in TaskIds, k \in Tokens, a \in Artifact : ArtifactArrives(h, t, k, a)
  <2>1. PICK t \in TaskIds, k \in Tokens, a \in Artifact : ArtifactArrives(h, t, k, a)
    BY <1>8
  <2>2. [kind |-> "artifact", task |-> t, token |-> k, name |-> a.name, content |-> a.blob]
            \in ArtifactRequest
    BY DEF ArtifactRequest, Artifact
  <2>3. stage[h] = "idle" /\ Advance(h, "receiving") /\ ~Record(h)
    BY <2>1 DEF ArtifactArrives, Record
  <2>4. \E x \in Things : Shelving!Begin(h, x)
    BY <1>3, <2>1, <2>2, <2>3, Arrival DEF ArtifactArrives
  <2> QED
    BY <2>4 DEF Shelving!FilingNext
<1>9. CASE \E f \in Functions, v \in Versions, p \in Packages : PackageArrives(h, f, v, p)
  <2>1. PICK f \in Functions, v \in Versions, p \in Packages : PackageArrives(h, f, v, p)
    BY <1>9
  <2>2. [kind |-> "package", function |-> f, version |-> v, content |-> p] \in PackageRequest
    BY DEF PackageRequest
  <2>3. stage[h] = "idle" /\ Advance(h, "receiving") /\ ~Record(h)
    BY <2>1 DEF PackageArrives, Record
  <2>4. \E x \in Things : Shelving!Begin(h, x)
    BY <1>3, <2>1, <2>2, <2>3, Arrival DEF PackageArrives
  <2> QED
    BY <2>4 DEF Shelving!FilingNext
<1> QED
  BY <1>1, <1>4, <1>5, <1>6, <1>7, <1>8, <1>9 DEF HandlerStep

LEMMA StepsFile ==
    ASSUME TypeOK, UploadsInductive, [UploadsNext]_uvars
    PROVE  [Shelving!FilingNext]_(Shelving!filing)
<1> USE DEF UploadsInductive
<1>1. ASSUME RestartServer \/ StoreGoesOn \/ UNCHANGED uvars
      PROVE  UNCHANGED <<Rows, Readable, absNewest, absThing>>
  <2>1. UNCHANGED <<artifacts, definitions, latest, files, request>>
    BY <1>1 DEF RestartServer, Restart, StoreGoesOn, Submit, Cancel, Expire, ClaimArrive,
                ClaimCommit, BeatArrive, BeatCommit, Complete, Tick, LockTimeout, uvars, store,
                vars, catalog, receipt, disk
  <2>2. absThing' = absThing
    BY <2>1 DEF absThing
  <2> QED
    BY <2>1, <2>2, NothingFiled
<1>2. CASE StoreGoesOn \/ UNCHANGED uvars
  <2>1. absProgress' = absProgress
    BY <1>2 DEF StoreGoesOn, uvars, receipt, absProgress
  <2> QED
    BY <1>1, <1>2, <2>1 DEF Shelving!filing, absProgress, absThing, absNewest
<1>3. CASE RestartServer
  <2> DEFINE gone == {h \in Transfers : absProgress[h] = "underway"}
  <2>1. \A h \in gone : absProgress[h] = "underway"
    OBVIOUS
  <2>2. \A s \in Stages : ProgressOf(Killed(s)) = IF ProgressOf(s) = "underway" THEN "failed"
                                                  ELSE ProgressOf(s)
    BY DEF Stages, ProgressOf, Killed
  <2>3. absProgress' = [h \in Transfers |-> IF h \in gone THEN "failed" ELSE absProgress[h]]
    BY <1>3, <2>2 DEF RestartServer, absProgress, UploadsTypeOK
  <2> HIDE DEF gone
  <2>4. Shelving!Fail(gone)
    BY <1>1, <1>3, <2>1, <2>3 DEF Shelving!Fail, absProgress, absThing, absNewest
  <2>5. gone \in SUBSET Transfers
    BY DEF gone
  <2> QED
    BY <2>4, <2>5 DEF Shelving!FilingNext
<1> QED
  BY <1>2, <1>3, HandlersFile DEF UploadsNext

LEMMA InitFiles == UploadsInit => Shelving!FilingInit
<1> SUFFICES ASSUME UploadsInit PROVE Shelving!FilingInit
  OBVIOUS
<1>1. absProgress = [h \in Transfers |-> "idle"]
  BY DEF UploadsInit, absProgress, ProgressOf
<1>2. absThing = [h \in Transfers |-> NoRequest]
  BY DEF UploadsInit, absThing, ThingOf, NoRequest
<1>3. Rows = {}
  <2>1. \A t \in TaskIds : artifacts[t] = {}
    BY DEF UploadsInit, Init
  <2>2. \A f \in Functions, v \in Versions : definitions[f][v] = None
    BY DEF UploadsInit, Init
  <2>3. None \notin Packages
    BY StoreAssumption
  <2> QED
    BY <2>1, <2>2, <2>3, KindsOfThings DEF Rows
<1>4. Readable = {}
  BY <1>3 DEF Readable
<1>5. absNewest = [f \in Functions |-> NoRequest]
  BY DEF UploadsInit, Init, absNewest, DefaultOf
<1> QED
  BY <1>1, <1>2, <1>3, <1>4, <1>5 DEF Shelving!FilingInit, absProgress, absThing, absNewest

\* An upload takes effect at one moment or never: its row and its file can be seen from
\* then on, whoever uploads the same thing, or another in its place, and whatever crashes.
THEOREM UploadsAreAtomic == UploadsSpec => ImplementsFiling
<1>1. TypeOK /\ UploadsInductive /\ [UploadsNext]_uvars
          => [Shelving!FilingNext]_(Shelving!filing)
  BY StepsFile
<1> QED
  BY <1>1, InitFiles, UploadsInvariance, PTL
  DEF UploadsSpec, ImplementsFiling, Shelving!FilingSpec

=============================================================================
