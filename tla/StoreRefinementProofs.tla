----------------------- MODULE StoreRefinementProofs -----------------------
(***************************************************************************)
(* The store implements the lifecycle of a call, for every value of the    *)
(* constants: each transaction is one step of TaskLifecycle, or none.      *)
(***************************************************************************)
EXTENDS StoreProofs

\* The abstract state, as the lifecycle sees it.
absStatus == [t \in TaskIds |-> tasks[t].status]
absOwner == [t \in TaskIds |-> tasks[t].worker]
absResult == [t \in TaskIds |-> tasks[t].completion]

\* A row in which the lifecycle sees nothing change.
SameView(new, old) ==
    /\ new.status = old.status
    /\ new.worker = old.worker
    /\ new.completion = old.completion

LEMMA Stutters ==
    ASSUME \A t \in TaskIds : SameView(tasks'[t], tasks[t]), artifacts' = artifacts
    PROVE  UNCHANGED Lifecycle!vars
  BY DEF Lifecycle!vars, SameView

\* A row that is absent or queued has no worker and no completion yet.
LEMMA UnclaimedRow ==
    ASSUME RowsWellFormed, NEW t \in TaskIds, tasks[t].status \in {"absent", "queued"}
    PROVE  tasks[t].worker = None /\ tasks[t].completion = None
  BY DEF RowsWellFormed, WellFormed

LEMMA InitImplements == Init => Lifecycle!Init
  BY DEF Init, NoRow, Lifecycle!Init

\* _expire is the lifecycle giving up on the calls whose lease has run out.
LEMMA ExpireImplements ==
    ASSUME TypeOK, NEW now \in Nat, tasks' = Expired(now), artifacts' = artifacts
    PROVE  \E gone \in SUBSET TaskIds : Lifecycle!Lose(gone)
<1> DEFINE gone == {t \in TaskIds : RowLost(tasks'[t], tasks[t], now)}
<1>1. \A t \in TaskIds : \/ tasks'[t] = tasks[t]
                         \/ RowLost(tasks'[t], tasks[t], now)
  BY ExpiredRow
<1>2. \A t \in TaskIds :
          /\ tasks'[t].status = IF t \in gone THEN "lost" ELSE tasks[t].status
          /\ tasks'[t].worker = tasks[t].worker
          /\ tasks'[t].completion = tasks[t].completion
  BY <1>1 DEF RowLost, SameClaim
<1>3. \A t \in gone : tasks[t].status = "running"
  BY DEF RowLost
<1>4. gone \subseteq TaskIds
  OBVIOUS
<1> HIDE DEF gone
<1>5. Lifecycle!Lose(gone)
  <2>1. gone \subseteq Lifecycle!RunningTasks
    BY <1>3, <1>4 DEF Lifecycle!RunningTasks
  <2>2. absStatus' = [t \in TaskIds |-> IF t \in gone THEN "lost" ELSE absStatus[t]]
    BY <1>2 DEF absStatus
  <2>3. UNCHANGED <<absOwner, absResult>>
    BY <1>2 DEF absOwner, absResult
  <2> QED
    BY <2>1, <2>2, <2>3 DEF Lifecycle!Lose, absStatus, absOwner, absResult
<1> QED
  BY <1>4, <1>5 DEF Lifecycle!Lose

\* A claim that assigns: the expired calls are lost and one call is assigned.
LEMMA AssignImplements ==
    ASSUME TypeOK, NEW c \in ClaimCall, NEW t \in TaskIds, NEW k \in Tokens,
           ClaimAssign(c, t, k), artifacts' = artifacts
    PROVE  \E gone \in SUBSET TaskIds : Lifecycle!Assign(t, c.worker, gone)
<1> DEFINE table == Expired(c.now)
           gone == {u \in TaskIds : RowLost(table[u], tasks[u], c.now)}
<1>1. c.now \in Nat /\ c.worker \in WorkerIds
  BY DEF ClaimCall
<1>2. /\ \A u \in TaskIds \ {t} : tasks'[u] = table[u]
      /\ RowAssigned(tasks'[t], tasks[t], c, k)
  BY AssignedRows
<1>3. \A u \in TaskIds : table[u] = tasks[u] \/ RowLost(table[u], tasks[u], c.now)
  BY <1>1, ExpiredRow
<1>4. t \notin gone /\ tasks[t].status = "queued"
  BY <1>2 DEF RowLost, RowAssigned
<1>5. \A u \in TaskIds :
          /\ tasks'[u].status = IF u \in gone THEN "lost"
                                ELSE IF u = t THEN "running" ELSE tasks[u].status
          /\ tasks'[u].worker = IF u = t THEN c.worker ELSE tasks[u].worker
          /\ tasks'[u].completion = tasks[u].completion
  <2> TAKE u \in TaskIds
  <2>1. CASE u = t
    BY <1>2, <1>4, <2>1 DEF RowAssigned
  <2>2. CASE u # t
    BY <1>2, <1>3, <2>2 DEF RowLost, SameClaim
  <2> QED
    BY <2>1, <2>2
<1>6. \A u \in TaskIds : tasks[u].status = "running" /\ tasks[u].worker = c.worker => u \in gone
  <2>1. \A u \in TaskIds : ~(table[u].status = "running" /\ table[u].worker = c.worker)
    BY DEF ClaimAssign, FreeToClaim, RunningOn
  <2> QED
    BY <1>3, <2>1
<1>7. gone \subseteq TaskIds /\ \A u \in gone : tasks[u].status = "running"
  BY DEF RowLost
<1> HIDE DEF gone, table
<1>8. Lifecycle!Assign(t, c.worker, gone)
  <2>1. gone \subseteq Lifecycle!RunningTasks /\ Lifecycle!Running(c.worker) \subseteq gone
    BY <1>6, <1>7 DEF Lifecycle!RunningTasks, Lifecycle!Running
  <2>2. absStatus' = [u \in TaskIds |-> IF u \in gone THEN "lost"
                                         ELSE IF u = t THEN "running" ELSE absStatus[u]]
    BY <1>5 DEF absStatus
  <2>3. absOwner' = [absOwner EXCEPT ![t] = c.worker]
    BY <1>5 DEF absOwner
  <2>4. UNCHANGED absResult
    BY <1>5 DEF absResult
  <2> QED
    BY <1>4, <2>1, <2>2, <2>3, <2>4 DEF Lifecycle!Assign, absStatus, absOwner, absResult
<1> QED
  BY <1>7, <1>8 DEF Lifecycle!Assign

LEMMA UploadImplements ==
    ASSUME NEW t \in TaskIds, NEW k, NEW a \in Artifact, AddArtifact(t, k, a)
    PROVE  Lifecycle!Upload(t, a)
  BY DEF AddArtifact, LeaseHeld, Lifecycle!Upload

LEMMA FinishImplements ==
    ASSUME TypeOK, NEW t \in TaskIds, NEW k \in Tokens, NEW c \in Completions, Complete(t, k, c)
    PROVE  Lifecycle!Finish(t, c)
<1>1. OnlyRow(t) /\ RowCompleted(tasks'[t], tasks[t], c) /\ artifacts' = artifacts
  BY CompletedRow DEF Complete
<1>2. OutcomeOf(c) = IF c \in GoodCompletions THEN "succeeded" ELSE "failed"
  BY DEF OutcomeOf, GoodCompletions
<1> QED
  BY <1>1, <1>2 DEF Lifecycle!Finish, OnlyRow, RowCompleted, SameClaim

LEMMA NextImplements ==
    ASSUME TypeOK, RowsWellFormed, [Next]_vars
    PROVE  [Lifecycle!Next]_(Lifecycle!vars)
<1>1. ASSUME NEW t \in TaskIds, NEW k \in Tokens, NEW a \in Artifact, AddArtifact(t, k, a)
      PROVE  Lifecycle!Upload(t, a)
  BY <1>1, UploadImplements
<1>2. CASE artifacts' = artifacts /\ tasks' = tasks
  BY <1>2, Stutters DEF SameView
<1>3. ASSUME NEW now \in Nat, tasks' = Expired(now), artifacts' = artifacts
      PROVE  \E gone \in SUBSET TaskIds : Lifecycle!Lose(gone)
  BY <1>3, ExpireImplements
<1>4. ASSUME NEW t \in TaskIds, NEW s \in Submissions, Submit(t, s)
      PROVE  Lifecycle!Accept(t)
  <2>1. /\ OnlyRow(t)
        /\ tasks[t].status = "absent"
        /\ RowSubmitted(tasks'[t], s, Resolve(s), clock)
        /\ artifacts' = artifacts
    BY <1>4, SubmitRow DEF Submit
  <2>2. tasks[t].worker = None /\ tasks[t].completion = None
    BY <2>1, UnclaimedRow
  <2> QED
    BY <2>1, <2>2 DEF Lifecycle!Accept, OnlyRow, RowSubmitted, SameClaim, NoRow
<1>5. ASSUME NEW t \in TaskIds, Cancel(t)
      PROVE  Lifecycle!Cancel(t)
  <2>1. OnlyRow(t) /\ RowCancelled(tasks'[t], tasks[t]) /\ artifacts' = artifacts
    BY <1>5, CancelRow DEF Cancel
  <2> QED
    BY <2>1 DEF Lifecycle!Cancel, OnlyRow, RowCancelled, SameClaim
<1>6. ASSUME NEW c \in claims, NEW t \in TaskIds, NEW k \in Tokens,
             ClaimCommit(c), ClaimAssign(c, t, k)
      PROVE  \E w \in WorkerIds, gone \in SUBSET TaskIds : Lifecycle!Assign(t, w, gone)
  <2>1. c \in ClaimCall /\ c.worker \in WorkerIds
    BY DEF TypeOK, ClaimCall
  <2>2. artifacts' = artifacts
    BY <1>6 DEF ClaimCommit
  <2> QED
    BY <1>6, <2>1, <2>2, AssignImplements
<1>7. ASSUME NEW b \in beats, LeaseHeld(b.task, b.token), BeatCommit(b)
      PROVE  UNCHANGED Lifecycle!vars
  <2>1. b \in Beat /\ b.task \in TaskIds
    BY DEF TypeOK, Beat
  <2>2. /\ OnlyRow(b.task)
        /\ RowRenewed(tasks'[b.task], tasks[b.task], b)
        /\ artifacts' = artifacts
    BY <1>7, <2>1, RenewedRow DEF BeatCommit
  <2>3. \A t \in TaskIds : SameView(tasks'[t], tasks[t])
    BY <2>1, <2>2 DEF OnlyRow, RowRenewed, SameClaim, SameView
  <2> QED
    BY <2>2, <2>3, Stutters
<1>8. ASSUME NEW t \in TaskIds, NEW k \in Tokens, NEW c \in Completions, Complete(t, k, c)
      PROVE  Lifecycle!Finish(t, c)
  BY <1>8, FinishImplements
<1>9. \/ artifacts' = artifacts
      \/ \E t \in TaskIds, k \in Tokens, a \in Artifact : AddArtifact(t, k, a)
  BY DEF Next, vars, Publish, Submit, Cancel, Expire, ClaimArrive, ClaimCommit, BeatArrive,
         BeatCommit, Complete, Tick, LockTimeout, Restart
<1> QED
  BY <1>1, <1>2, <1>3, <1>4, <1>5, <1>6, <1>7, <1>8, <1>9, TableStep DEF Lifecycle!Next

\* The store implements the lifecycle of a call.
THEOREM Implementation == Spec => ImplementsLifecycle
<1>1. Init => Lifecycle!Init
  BY InitImplements
<1>2. Inductive /\ [Next]_vars => [Lifecycle!Next]_(Lifecycle!vars)
  BY NextImplements DEF Inductive
<1> QED
  BY <1>1, <1>2, Invariance, PTL DEF Spec, ImplementsLifecycle, Lifecycle!Spec

=============================================================================
