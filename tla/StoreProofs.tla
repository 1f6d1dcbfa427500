---------------------------- MODULE StoreProofs ----------------------------
(***************************************************************************)
(* Theorems about Store, for every value of its constants, checked by      *)
(* TLAPS: first what each operation does to the rows of the tasks table,   *)
(* then the inductive invariant, then the theorems.                        *)
(***************************************************************************)
EXTENDS StoreRefinement, TLAPS

USE StoreAssumption

-----------------------------------------------------------------------------
(* What the operations do to a row.                                        *)

\* None is no value of a nullable column.
LEMMA NoneIsNull ==
    /\ None \notin Versions
    /\ None \notin Packages
    /\ None \notin WorkerIds
    /\ None \notin RequestIds
    /\ None \notin Tokens
    /\ None \notin Functions
    /\ None \notin Completions
<1> DEFINE Sets == {Versions, Packages, WorkerIds, RequestIds, Tokens, Functions, Completions}
<1>1. \A S \in Sets : None \notin S
  BY DEF StoreAssumption
<1> QED
  BY <1>1

\* The columns that only a submission writes.
SameCall(new, old) ==
    /\ new.submission = old.submission
    /\ new.version = old.version
    /\ new.created = old.created

\* The columns that only a claim writes.
SameClaim(new, old) ==
    /\ new.started = old.started
    /\ new.worker = old.worker
    /\ new.claim = old.claim
    /\ new.token = old.token

\* A running row whose lease has run out at `now` is marked lost then.
RowLost(new, old, now) ==
    /\ old.status = "running"
    /\ old.expires <= now
    /\ SameCall(new, old)
    /\ SameClaim(new, old)
    /\ new.status = "lost"
    /\ new.finished = now
    /\ new.expires = old.expires
    /\ new.completion = old.completion

RowSubmitted(new, s, version, now) ==
    /\ new.submission = s
    /\ new.version = version
    /\ new.created = now
    /\ SameClaim(new, NoRow)
    /\ new.status = "queued"
    /\ new.expires = 0
    /\ new.completion = None

RowCancelled(new, old) ==
    /\ old.status \in {"queued", "running"}
    /\ SameCall(new, old)
    /\ SameClaim(new, old)
    /\ new.status = "cancelled"
    /\ new.expires = old.expires
    /\ new.completion = old.completion

RowAssigned(new, old, c, k) ==
    /\ old.status = "queued"
    /\ old.submission.function = c.function
    /\ SameCall(new, old)
    /\ new.status = "running"
    /\ new.started = c.now
    /\ new.worker = c.worker
    /\ new.claim = c.request
    /\ new.token = k
    /\ new.expires = c.now + LeaseSeconds
    /\ new.completion = old.completion

RowRenewed(new, old, b) ==
    /\ old.status = "running"
    /\ old.token = b.token
    /\ old.expires > clock
    /\ SameCall(new, old)
    /\ SameClaim(new, old)
    /\ new.status = "running"
    /\ new.expires = b.now + LeaseSeconds
    /\ new.completion = old.completion

RowCompleted(new, old, c) ==
    /\ old.status = "running"
    /\ old.expires > clock
    /\ old.completion = None
    /\ SameCall(new, old)
    /\ SameClaim(new, old)
    /\ new.status = OutcomeOf(c)
    /\ new.expires = old.expires
    /\ new.completion = c

\* One row of a well-typed table is replaced by another: the rest is as it was.
OnlyRow(t) == \A u \in TaskIds \ {t} : tasks'[u] = tasks[u]

LEMMA ReplaceRow ==
    ASSUME TypeOK, NEW t \in TaskIds, NEW new \in Row,
           tasks' = [tasks EXCEPT ![t] = new]
    PROVE  /\ tasks' \in [TaskIds -> Row]
           /\ tasks'[t] = new
           /\ OnlyRow(t)
  BY DEF TypeOK, OnlyRow

\* What _expire does to each row.
LEMMA ExpiredRow ==
    ASSUME TypeOK, NEW now \in Nat, NEW t \in TaskIds
    PROVE  /\ Expired(now)[t] \in Row
           /\ \/ Expired(now)[t] = tasks[t]
              \/ RowLost(Expired(now)[t], tasks[t], now)
           /\ ~Lapsed(Expired(now)[t], now)
<1> DEFINE old == tasks[t]
           new == [old EXCEPT !.status = "lost", !.finished = now]
<1>1. old \in Row
  BY DEF TypeOK
<1>2. Expired(now)[t] = LoseIfLapsed(old, now)
  BY DEF Expired
<1>3. CASE Lapsed(old, now)
  <2>1. Expired(now)[t] = new
    BY <1>2, <1>3 DEF LoseIfLapsed
  <2>2. new \in Row
    BY <1>1 DEF Row, Status, Terminal
  <2>3. RowLost(new, old, now) /\ ~Lapsed(new, now)
    BY <1>1, <1>3 DEF Row, RowLost, SameCall, SameClaim, Lapsed
  <2> QED
    BY <2>1, <2>2, <2>3
<1>4. CASE ~Lapsed(old, now)
  BY <1>1, <1>2, <1>4 DEF LoseIfLapsed
<1> QED
  BY <1>3, <1>4

LEMMA ExpiredTable ==
    ASSUME TypeOK, NEW now \in Nat
    PROVE  Expired(now) \in [TaskIds -> Row]
<1>1. \A t \in TaskIds : LoseIfLapsed(tasks[t], now) \in Row
  BY ExpiredRow DEF Expired
<1> QED
  BY <1>1 DEF Expired

LEMMA SubmitRow ==
    ASSUME TypeOK, NEW t \in TaskIds, NEW s \in Submissions, Submit(t, s)
    PROVE  /\ tasks' \in [TaskIds -> Row]
           /\ OnlyRow(t)
           /\ tasks[t].status = "absent"
           /\ Resolve(s) \in Versions
           /\ <<definitions[s.function][Resolve(s)], s.inputs>> \in Valid
           /\ RowSubmitted(tasks'[t], s, Resolve(s), clock)
<1> DEFINE new == [NoRow EXCEPT !.submission = s, !.version = Resolve(s),
                                !.status = "queued", !.created = clock]
<1>1. s.function \in Functions /\ s.version \in Versions \cup {None}
  BY DEF Submissions
<1>2. Resolve(s) \in Versions
  BY <1>1 DEF Submit, Defined, Resolve, TypeOK
<1>3. new \in Row /\ RowSubmitted(new, s, Resolve(s), clock)
  BY <1>2 DEF NoRow, Row, Status, RowSubmitted, SameClaim, TypeOK
<1>4. tasks' = [tasks EXCEPT ![t] = new]
  BY DEF Submit
<1> HIDE DEF new
<1> QED
  BY <1>2, <1>3, <1>4, ReplaceRow DEF Submit

LEMMA CancelRow ==
    ASSUME TypeOK, NEW t \in TaskIds, Cancel(t)
    PROVE  /\ tasks' \in [TaskIds -> Row]
           /\ OnlyRow(t)
           /\ RowCancelled(tasks'[t], tasks[t])
<1> DEFINE old == tasks[t]
           new == [old EXCEPT !.status = "cancelled", !.finished = clock]
<1>1. old \in Row /\ clock \in Nat
  BY DEF TypeOK
<1>2. new \in Row
  BY <1>1 DEF Row, Status, Terminal
<1>3. RowCancelled(new, old)
  BY <1>1 DEF Row, RowCancelled, SameCall, SameClaim, Cancel, Cancellable
<1>4. tasks' = [tasks EXCEPT ![t] = new]
  BY DEF Cancel, TypeOK
<1> HIDE DEF new
<1> QED
  BY <1>2, <1>3, <1>4, ReplaceRow

\* What a claim writes: the expired table, with one queued row made running.
LEMMA AssignedRows ==
    ASSUME TypeOK, NEW c \in ClaimCall, NEW t \in TaskIds, NEW k \in Tokens,
           ClaimAssign(c, t, k)
    PROVE  /\ tasks' \in [TaskIds -> Row]
           /\ \A u \in TaskIds \ {t} : tasks'[u] = Expired(c.now)[u]
           /\ RowAssigned(tasks'[t], tasks[t], c, k)
<1> DEFINE table == Expired(c.now)
           old == tasks[t]
           new == [old EXCEPT !.status = "running", !.started = c.now,
                              !.worker = c.worker, !.claim = c.request,
                              !.token = k, !.expires = c.now + LeaseSeconds]
<1>1. c.now \in Nat /\ c.worker \in WorkerIds /\ c.request \in RequestIds
  BY DEF ClaimCall
<1>2. table \in [TaskIds -> Row] /\ old \in Row
  BY <1>1, ExpiredTable DEF TypeOK
<1>3. table[t].status = "queued" /\ table[t].submission.function = c.function
  BY DEF ClaimAssign, Oldest, Queue
<1>4. table[t] = old
  BY <1>1, <1>3, ExpiredRow DEF RowLost
<1>5. tasks' = [table EXCEPT ![t] = new]
  BY <1>2, <1>4 DEF ClaimAssign
<1>6. c.now + LeaseSeconds \in Nat
  BY <1>1 DEF StoreAssumption
<1>7. new \in Row
  BY <1>1, <1>2, <1>6 DEF Row, Status
<1>8. RowAssigned(new, old, c, k)
  BY <1>2, <1>3, <1>4 DEF Row, RowAssigned, SameCall
<1> HIDE DEF new, table
<1> QED
  BY <1>2, <1>5, <1>7, <1>8 DEF table

\* What a heartbeat that finds its lease valid writes.
LEMMA RenewedRow ==
    ASSUME TypeOK, NEW b \in Beat, LeaseHeld(b.task, b.token), BeatCommit(b)
    PROVE  /\ tasks' \in [TaskIds -> Row]
           /\ OnlyRow(b.task)
           /\ RowRenewed(tasks'[b.task], tasks[b.task], b)
<1> DEFINE old == tasks[b.task]
           new == [old EXCEPT !.expires = b.now + LeaseSeconds]
<1>1. b.task \in TaskIds /\ old \in Row /\ b.now + LeaseSeconds \in Nat
  BY DEF Beat, TypeOK, StoreAssumption
<1>2. new \in Row
  BY <1>1 DEF Row
<1>3. RowRenewed(new, old, b)
  BY <1>1 DEF Row, RowRenewed, SameCall, SameClaim, LeaseHeld
<1>4. tasks' = [tasks EXCEPT ![b.task] = new]
  BY <1>1 DEF BeatCommit, RenewedTo, TypeOK
<1> HIDE DEF new
<1> QED
  BY <1>1, <1>2, <1>3, <1>4, ReplaceRow

LEMMA CompletedRow ==
    ASSUME TypeOK, NEW t \in TaskIds, NEW k \in Tokens, NEW c \in Completions,
           Complete(t, k, c)
    PROVE  /\ tasks' \in [TaskIds -> Row]
           /\ OnlyRow(t)
           /\ RowCompleted(tasks'[t], tasks[t], c)
<1> DEFINE old == tasks[t]
           new == [old EXCEPT !.status = OutcomeOf(c), !.completion = c, !.finished = clock]
<1>1. old \in Row /\ clock \in Nat /\ OutcomeOf(c) \in Status
  BY DEF TypeOK, OutcomeOf, Status, Terminal
<1>2. new \in Row
  BY <1>1 DEF Row
<1>3. RowCompleted(new, old, c)
  BY <1>1 DEF Row, RowCompleted, SameCall, SameClaim, Complete, MayComplete, LeaseHeld
<1>4. tasks' = [tasks EXCEPT ![t] = new]
  BY DEF Complete, TypeOK
<1> HIDE DEF new
<1> QED
  BY <1>2, <1>3, <1>4, ReplaceRow

-----------------------------------------------------------------------------
(* What a step does to the table, and to one row.                          *)

\* The seven ways a step treats the tasks table.
LEMMA TableStep ==
    ASSUME TypeOK, [Next]_vars
    PROVE  \/ tasks' = tasks
           \/ \E now \in Nat : tasks' = Expired(now)
           \/ \E t \in TaskIds, s \in Submissions : Submit(t, s)
           \/ \E t \in TaskIds : Cancel(t)
           \/ \E c \in claims, t \in TaskIds, k \in Tokens :
                  ClaimCommit(c) /\ ClaimAssign(c, t, k)
           \/ \E b \in beats : LeaseHeld(b.task, b.token) /\ BeatCommit(b)
           \/ \E t \in TaskIds, k \in Tokens, c \in Completions : Complete(t, k, c)
<1>1. CASE Expire
  BY <1>1 DEF Expire, TypeOK
<1>2. ASSUME NEW c \in claims, ClaimCommit(c)
      PROVE  \/ tasks' = tasks
             \/ \E now \in Nat : tasks' = Expired(now)
             \/ \E t \in TaskIds, k \in Tokens : ClaimAssign(c, t, k)
  <2>1. c.now \in Nat
    BY DEF TypeOK, ClaimCall
  <2> QED
    BY <1>2, <2>1 DEF ClaimCommit, ClaimSucceeds, ClaimReplay, ClaimNothing, ClaimRefused
<1>3. ASSUME NEW b \in beats, BeatCommit(b), ~LeaseHeld(b.task, b.token)
      PROVE  tasks' = tasks
  BY <1>3 DEF BeatCommit
<1>4. CASE UNCHANGED vars
  BY <1>4 DEF vars
<1> QED
  BY <1>1, <1>2, <1>3, <1>4
  DEF Next, Publish, ClaimArrive, BeatArrive, AddArtifact, Tick, LockTimeout, Restart

\* The seven things a step may do to one row.
LEMMA RowStep ==
    ASSUME TypeOK, [Next]_vars, NEW t \in TaskIds
    PROVE  \/ tasks'[t] = tasks[t]
           \/ \E now \in Nat : RowLost(tasks'[t], tasks[t], now)
           \/ \E s \in Submissions :
                  /\ Submit(t, s)
                  /\ Resolve(s) \in Versions
                  /\ RowSubmitted(tasks'[t], s, Resolve(s), clock)
           \/ RowCancelled(tasks'[t], tasks[t])
           \/ \E c \in claims, k \in Tokens :
                  ClaimAssign(c, t, k) /\ RowAssigned(tasks'[t], tasks[t], c, k)
           \/ \E b \in beats : b.task = t /\ RowRenewed(tasks'[t], tasks[t], b)
           \/ \E c \in Completions : RowCompleted(tasks'[t], tasks[t], c)
<1>1. ASSUME NEW now \in Nat, tasks' = Expired(now)
      PROVE  tasks'[t] = tasks[t] \/ RowLost(tasks'[t], tasks[t], now)
  BY <1>1, ExpiredRow
<1>2. ASSUME NEW u \in TaskIds, NEW s \in Submissions, Submit(u, s)
      PROVE  \/ tasks'[t] = tasks[t]
             \/ t = u /\ Resolve(s) \in Versions
                      /\ RowSubmitted(tasks'[t], s, Resolve(s), clock)
  BY <1>2, SubmitRow DEF OnlyRow
<1>3. ASSUME NEW u \in TaskIds, Cancel(u)
      PROVE  tasks'[t] = tasks[t] \/ RowCancelled(tasks'[t], tasks[t])
  BY <1>3, CancelRow DEF OnlyRow
<1>4. ASSUME NEW c \in claims, NEW u \in TaskIds, NEW k \in Tokens, ClaimAssign(c, u, k)
      PROVE  \/ tasks'[t] = tasks[t]
             \/ \E now \in Nat : RowLost(tasks'[t], tasks[t], now)
             \/ t = u /\ RowAssigned(tasks'[t], tasks[t], c, k)
  <2>1. c \in ClaimCall /\ c.now \in Nat
    BY DEF TypeOK, ClaimCall
  <2>2. /\ \A v \in TaskIds \ {u} : tasks'[v] = Expired(c.now)[v]
        /\ RowAssigned(tasks'[u], tasks[u], c, k)
    BY <1>4, <2>1, AssignedRows
  <2>3. CASE t # u
    <3>1. tasks'[t] = Expired(c.now)[t]
      BY <2>2, <2>3
    <3> QED
      BY <2>1, <3>1, ExpiredRow
  <2> QED
    BY <2>2, <2>3
<1>5. ASSUME NEW b \in beats, LeaseHeld(b.task, b.token), BeatCommit(b)
      PROVE  tasks'[t] = tasks[t] \/ (b.task = t /\ RowRenewed(tasks'[t], tasks[t], b))
  <2>1. b \in Beat
    BY DEF TypeOK
  <2> QED
    BY <1>5, <2>1, RenewedRow DEF OnlyRow
<1>6. ASSUME NEW u \in TaskIds, NEW k \in Tokens, NEW c \in Completions, Complete(u, k, c)
      PROVE  tasks'[t] = tasks[t] \/ RowCompleted(tasks'[t], tasks[t], c)
  BY <1>6, CompletedRow DEF OnlyRow
<1> QED
  BY <1>1, <1>2, <1>3, <1>4, <1>5, <1>6, TableStep

-----------------------------------------------------------------------------
(* Types.                                                                  *)

LEMMA InitTypeOK == Init => TypeOK
<1>1. NoRow \in Row
  BY DEF NoRow, Row, Status
<1> QED
  BY <1>1 DEF Init, TypeOK

LEMMA TasksTyped ==
    ASSUME TypeOK, [Next]_vars
    PROVE  tasks' \in [TaskIds -> Row]
<1>1. ASSUME NEW c \in claims PROVE c \in ClaimCall
  BY DEF TypeOK
<1>2. ASSUME NEW b \in beats PROVE b \in Beat
  BY DEF TypeOK
<1>3. CASE tasks' = tasks
  BY <1>3 DEF TypeOK
<1> QED
  BY <1>1, <1>2, <1>3, TableStep, ExpiredTable, SubmitRow, CancelRow, AssignedRows,
     RenewedRow, CompletedRow

LEMMA NextTypeOK == TypeOK /\ [Next]_vars => TypeOK'
<1> SUFFICES ASSUME TypeOK, [Next]_vars PROVE TypeOK'
  OBVIOUS
<1> USE TasksTyped DEF TypeOK
<1>1. ASSUME NEW f \in Functions, NEW v \in Versions, NEW p \in Packages, Publish(f, v, p)
      PROVE  TypeOK'
  BY <1>1 DEF Publish, Publishable, DefaultAfter, pending
<1>2. ASSUME NEW t \in TaskIds, NEW s \in Submissions, Submit(t, s)
      PROVE  TypeOK'
  BY <1>2 DEF Submit, catalog, pending
<1>3. ASSUME NEW t \in TaskIds, Cancel(t)
      PROVE  TypeOK'
  BY <1>3 DEF Cancel, catalog, pending
<1>4. CASE Expire
  BY <1>4 DEF Expire, catalog, pending
<1>5. ASSUME NEW w \in WorkerIds, NEW f \in Functions, NEW r \in RequestIds,
             ClaimArrive(w, f, r)
      PROVE  TypeOK'
  BY <1>5 DEF ClaimArrive, ClaimCall, catalog
<1>6. ASSUME NEW c \in claims, ClaimCommit(c)
      PROVE  TypeOK'
  <2>1. c.worker \in WorkerIds /\ c.function \in Functions
    BY DEF ClaimCall
  <2>2. Register(c) \/ serves' = serves
    BY <1>6 DEF ClaimCommit, ClaimSucceeds, ClaimReplay, ClaimNothing, ClaimAssign, ClaimRefused
  <2>3. serves' \in [WorkerIds -> Functions \cup {None}]
    BY <2>1, <2>2 DEF Register
  <2> QED
    BY <1>6, <2>3 DEF ClaimCommit, catalog
<1>7. ASSUME NEW t \in TaskIds, NEW k \in Tokens, BeatArrive(t, k)
      PROVE  TypeOK'
  BY <1>7 DEF BeatArrive, Beat, catalog
<1>8. ASSUME NEW b \in beats, BeatCommit(b)
      PROVE  TypeOK'
  BY <1>8 DEF BeatCommit, catalog
<1>9. ASSUME NEW t \in TaskIds, NEW k \in Tokens, NEW a \in Artifact, AddArtifact(t, k, a)
      PROVE  TypeOK'
  BY <1>9 DEF AddArtifact, catalog, pending
<1>10. ASSUME NEW t \in TaskIds, NEW k \in Tokens, NEW c \in Completions, Complete(t, k, c)
       PROVE  TypeOK'
  BY <1>10 DEF Complete, catalog, pending
<1>11. CASE Tick
  BY <1>11 DEF Tick, catalog, pending
<1>12. CASE LockTimeout
  BY <1>12 DEF LockTimeout, catalog
<1>13. CASE Restart
  BY <1>13 DEF Restart, catalog
<1>14. CASE UNCHANGED vars
  BY <1>14 DEF vars
<1> QED
  BY <1>1, <1>2, <1>3, <1>4, <1>5, <1>6, <1>7, <1>8, <1>9, <1>10, <1>11, <1>12, <1>13, <1>14
  DEF Next

\* Every table keeps its shape: no row, artifact or handler is ever malformed.
THEOREM TypeCorrect == Spec => []TypeOK
<1>1. Init => TypeOK
  BY InitTypeOK
<1>2. TypeOK /\ [Next]_vars => TypeOK'
  BY NextTypeOK
<1> QED
  BY <1>1, <1>2, PTL DEF Spec

-----------------------------------------------------------------------------
(* The inductive invariant, one conjunct at a time.                        *)

LEMMA InitInductive == Init => Inductive
<1> SUFFICES ASSUME Init PROVE Inductive
  OBVIOUS
<1>1. TypeOK
  BY InitTypeOK
<1>2. \A t \in TaskIds : tasks[t] = NoRow /\ artifacts[t] = {}
  BY DEF Init
<1>3. claims = {} /\ beats = {} /\ clock = 1
  BY DEF Init
<1>4. RowsWellFormed /\ CallsDefined
  BY <1>2 DEF NoRow, RowsWellFormed, WellFormed, CallsDefined
<1>5. TimesPast /\ BeatsFollowClaims
  BY <1>2, <1>3 DEF NoRow, TimesPast, BeatsFollowClaims
<1>6. WorkerSlotUnique /\ ClaimUnique /\ LeaseFloor
  BY <1>2 DEF NoRow, WorkerSlotUnique, RunningOn, ClaimUnique, LeaseFloor
<1>7. LostOnlyAfterLease /\ NoOvertaking /\ WorkerServesOneFunction /\ ArtifactNamesUnique
  BY <1>2 DEF NoRow, LostOnlyAfterLease, NoOvertaking, WorkerServesOneFunction,
              ArtifactNamesUnique
<1> QED
  BY <1>1, <1>4, <1>5, <1>6, <1>7 DEF Inductive

LEMMA NextRowsWellFormed ==
    ASSUME TypeOK, RowsWellFormed, [Next]_vars
    PROVE  RowsWellFormed'
<1> SUFFICES ASSUME NEW t \in TaskIds PROVE WellFormed(tasks'[t])
  BY DEF RowsWellFormed
<1>0. WellFormed(tasks[t])
  BY DEF RowsWellFormed
<1> USE DEF WellFormed, SameCall, SameClaim
<1>1. CASE tasks'[t] = tasks[t]
  BY <1>0, <1>1
<1>2. ASSUME NEW now \in Nat, RowLost(tasks'[t], tasks[t], now)
      PROVE  WellFormed(tasks'[t])
  BY <1>0, <1>2 DEF RowLost
<1>3. ASSUME NEW s \in Submissions, Resolve(s) \in Versions,
             RowSubmitted(tasks'[t], s, Resolve(s), clock)
      PROVE  WellFormed(tasks'[t])
  BY <1>3, NoneIsNull DEF RowSubmitted, NoRow
<1>4. CASE RowCancelled(tasks'[t], tasks[t])
  BY <1>0, <1>4 DEF RowCancelled
<1>5. ASSUME NEW c \in claims, NEW k \in Tokens, RowAssigned(tasks'[t], tasks[t], c, k)
      PROVE  WellFormed(tasks'[t])
  <2>1. c.worker \in WorkerIds /\ c.request \in RequestIds
    BY DEF TypeOK, ClaimCall
  <2> QED
    BY <1>0, <1>5, <2>1, NoneIsNull DEF RowAssigned
<1>6. ASSUME NEW b \in beats, RowRenewed(tasks'[t], tasks[t], b)
      PROVE  WellFormed(tasks'[t])
  BY <1>0, <1>6 DEF RowRenewed
<1>7. ASSUME NEW c \in Completions, RowCompleted(tasks'[t], tasks[t], c)
      PROVE  WellFormed(tasks'[t])
  BY <1>0, <1>7, NoneIsNull DEF RowCompleted, OutcomeOf
<1> QED
  BY <1>1, <1>2, <1>3, <1>4, <1>5, <1>6, <1>7, RowStep

\* A published package is never replaced.
LEMMA DefinitionsGrow ==
    ASSUME TypeOK, [Next]_vars, NEW f \in Functions, NEW v \in Versions,
           definitions[f][v] # None
    PROVE  definitions'[f][v] = definitions[f][v]
<1>1. CASE UNCHANGED definitions
  BY <1>1
<1>2. ASSUME NEW g \in Functions, NEW w \in Versions, NEW p \in Packages, Publish(g, w, p)
      PROVE  definitions'[f][v] = definitions[f][v]
  BY <1>2 DEF Publish, Publishable, DefaultAfter, TypeOK
<1> QED
  BY <1>1, <1>2
  DEF Next, catalog, vars, Submit, Cancel, Expire, ClaimArrive, ClaimCommit, BeatArrive,
      BeatCommit, AddArtifact, Complete, Tick, LockTimeout, Restart

\* A call keeps its submission and the package it was pinned to.
LEMMA CallKept ==
    ASSUME TypeOK, RowsWellFormed, CallsDefined, [Next]_vars, NEW t \in TaskIds,
           tasks[t].status # "absent"
    PROVE  /\ tasks'[t].status # "absent"
           /\ SameCall(tasks'[t], tasks[t])
           /\ PackageOf(t)' = PackageOf(t)
<1>1. SameCall(tasks'[t], tasks[t]) /\ tasks'[t].status # "absent"
  BY RowStep DEF SameCall, RowLost, Submit, RowCancelled, RowAssigned, RowRenewed,
                 RowCompleted, OutcomeOf
<1>2. /\ tasks[t].submission.function \in Functions
      /\ tasks[t].version \in Versions
      /\ PackageOf(t) \in Packages
  BY DEF RowsWellFormed, WellFormed, Submissions, CallsDefined, StoreAssumption
<1>3. definitions'[tasks[t].submission.function][tasks[t].version] = PackageOf(t)
  BY <1>2, DefinitionsGrow, NoneIsNull DEF PackageOf
<1> QED
  BY <1>1, <1>3 DEF PackageOf, SameCall

LEMMA NextCallsDefined ==
    ASSUME TypeOK, RowsWellFormed, CallsDefined, [Next]_vars
    PROVE  CallsDefined'
<1> SUFFICES ASSUME NEW t \in TaskIds, tasks'[t].status # "absent"
             PROVE  <<PackageOf(t)', tasks'[t].submission.inputs>> \in Valid
  BY DEF CallsDefined
<1>1. CASE tasks[t].status # "absent"
  BY <1>1, CallKept DEF SameCall, CallsDefined
<1>2. CASE tasks[t].status = "absent"
  <2>1. PICK s \in Submissions : /\ Submit(t, s)
                                 /\ Resolve(s) \in Versions
                                 /\ RowSubmitted(tasks'[t], s, Resolve(s), clock)
    BY <1>2, RowStep, NoneIsNull
    DEF RowLost, RowCancelled, RowAssigned, RowRenewed, RowCompleted
  <2>2. PackageOf(t)' = definitions[s.function][Resolve(s)]
    BY <2>1 DEF PackageOf, RowSubmitted, Submit, catalog
  <2> QED
    BY <2>1, <2>2 DEF RowSubmitted, Submit
<1> QED
  BY <1>1, <1>2

\* A handler that awaits the lock was there before, or has just read the clock.
LEMMA ClaimsStep ==
    ASSUME [Next]_vars, NEW c \in claims'
    PROVE  c \in claims \/ (c.now = clock /\ tasks' = tasks)
<1>1. CASE claims' \subseteq claims
  BY <1>1
<1>2. ASSUME NEW w \in WorkerIds, NEW f \in Functions, NEW r \in RequestIds,
             ClaimArrive(w, f, r)
      PROVE  c \in claims \/ (c.now = clock /\ tasks' = tasks)
  BY <1>2 DEF ClaimArrive
<1> QED
  BY <1>1, <1>2
  DEF Next, vars, pending, Publish, Submit, Cancel, Expire, ClaimCommit, BeatArrive,
      BeatCommit, AddArtifact, Complete, Tick, LockTimeout, Restart

LEMMA BeatsStep ==
    ASSUME [Next]_vars, NEW b \in beats'
    PROVE  \/ b \in beats
           \/ /\ b.task \in TaskIds
              /\ b.token \in Issued
              /\ b.now = clock
              /\ tasks' = tasks
<1>1. CASE beats' \subseteq beats
  BY <1>1
<1>2. ASSUME NEW t \in TaskIds, NEW k \in Tokens, BeatArrive(t, k)
      PROVE  \/ b \in beats
             \/ b.task = t /\ b.token = k /\ b.now = clock /\ k \in Issued /\ tasks' = tasks
  BY <1>2 DEF BeatArrive
<1> QED
  BY <1>1, <1>2
  DEF Next, vars, pending, Publish, Submit, Cancel, Expire, ClaimArrive, ClaimCommit,
      BeatCommit, AddArtifact, Complete, Tick, LockTimeout, Restart

\* Time passes, handlers read it, and nothing dates a row later than now.
LEMMA NextTimesPast ==
    ASSUME TypeOK, TimesPast, [Next]_vars
    PROVE  TimesPast'
<1>1. clock \in Nat /\ clock' \in Nat /\ clock <= clock'
  <2>1. clock' = clock \/ clock' = clock + 1
    BY DEF Next, vars, Publish, Submit, Cancel, Expire, ClaimArrive, ClaimCommit, BeatArrive,
           BeatCommit, AddArtifact, Complete, Tick, LockTimeout, Restart
  <2> QED
    BY <2>1 DEF TypeOK
<1>2. ASSUME NEW c \in claims' PROVE c.now <= clock'
  <2>1. c \in claims \/ c.now = clock
    BY ClaimsStep
  <2> QED
    BY <1>1, <2>1 DEF TimesPast, TypeOK, ClaimCall
<1>3. ASSUME NEW b \in beats' PROVE b.now <= clock'
  <2>1. b \in beats \/ b.now = clock
    BY BeatsStep
  <2> QED
    BY <1>1, <2>1 DEF TimesPast, TypeOK, Beat
<1>4. ASSUME NEW t \in TaskIds PROVE tasks'[t].created <= clock' /\ tasks'[t].started <= clock'
  <2>1. /\ tasks[t].created \in Nat /\ tasks[t].started \in Nat
        /\ tasks[t].created <= clock /\ tasks[t].started <= clock
    BY DEF TypeOK, Row, TimesPast
  <2>2. \A c \in claims : c.now \in Nat /\ c.now <= clock
    BY DEF TypeOK, ClaimCall, TimesPast
  <2>3. \/ tasks'[t].created = tasks[t].created
        \/ tasks'[t].created = clock
    BY RowStep DEF RowLost, RowSubmitted, RowCancelled, RowAssigned, RowRenewed, RowCompleted,
                   SameCall
  <2>4. \/ tasks'[t].started = tasks[t].started
        \/ tasks'[t].started = 0
        \/ \E c \in claims : tasks'[t].started = c.now
    BY RowStep DEF RowLost, RowSubmitted, RowCancelled, RowAssigned, RowRenewed, RowCompleted,
                   SameClaim, NoRow
  <2> QED
    BY <1>1, <2>1, <2>2, <2>3, <2>4
<1> QED
  BY <1>2, <1>3, <1>4 DEF TimesPast

\* Tokens are never taken back: what was issued stays issued, to the same call.
LEMMA TokensKept ==
    ASSUME TypeOK, RowsWellFormed, [Next]_vars, NEW t \in TaskIds, tasks[t].claim # None
    PROVE  SameClaim(tasks'[t], tasks[t])
<1>1. tasks[t].status \notin {"absent", "queued"}
  BY DEF RowsWellFormed, WellFormed
<1> QED
  BY <1>1, RowStep DEF RowLost, Submit, RowCancelled, RowAssigned, RowRenewed, RowCompleted,
                       SameClaim

LEMMA IssuedGrows ==
    ASSUME TypeOK, RowsWellFormed, [Next]_vars
    PROVE  Issued \subseteq Issued'
<1> SUFFICES ASSUME NEW t \in TaskIds, tasks[t].token # None
             PROVE  tasks'[t].token = tasks[t].token
  BY DEF Issued
<1>1. tasks[t].claim # None
  BY DEF RowsWellFormed, WellFormed
<1> QED
  BY <1>1, TokensKept DEF SameClaim

\* A claim gives a call a token that no handler can have seen.
LEMMA NextBeatsFollowClaims ==
    ASSUME TypeOK, RowsWellFormed, TimesPast, BeatsFollowClaims, [Next]_vars
    PROVE  BeatsFollowClaims'
<1> SUFFICES ASSUME NEW b \in beats'
             PROVE  /\ b.token \in Issued'
                    /\ tasks'[b.task].token = b.token => tasks'[b.task].started <= b.now
  BY DEF BeatsFollowClaims
<1>1. \/ b \in beats
      \/ b.task \in TaskIds /\ b.token \in Issued /\ b.now = clock /\ tasks' = tasks
  BY BeatsStep
<1>2. CASE b.task \in TaskIds /\ b.token \in Issued /\ b.now = clock /\ tasks' = tasks
  BY <1>2 DEF TimesPast, Issued
<1>3. CASE b \in beats
  <2>1. b.task \in TaskIds /\ b.token \in Issued /\ b.token # None
    BY <1>3 DEF BeatsFollowClaims, TypeOK, Beat, Issued
  <2>2. \/ SameClaim(tasks'[b.task], tasks[b.task])
        \/ tasks'[b.task].token = None
        \/ \E c \in claims, k \in Tokens :
               ClaimAssign(c, b.task, k) /\ tasks'[b.task].token = k
    BY <2>1, RowStep DEF RowLost, RowSubmitted, RowCancelled, RowAssigned, RowRenewed,
                         RowCompleted, SameClaim, NoRow
  <2>3. ASSUME NEW c \in claims, NEW k \in Tokens, ClaimAssign(c, b.task, k) PROVE k # b.token
    BY <2>1, <2>3 DEF ClaimAssign
  <2>4. tasks'[b.task].token = b.token => SameClaim(tasks'[b.task], tasks[b.task])
    BY <2>1, <2>2, <2>3
  <2>5. tasks'[b.task].token = b.token => tasks'[b.task].started <= b.now
    BY <1>3, <2>4 DEF SameClaim, BeatsFollowClaims
  <2> QED
    BY <2>1, <2>5, IssuedGrows
<1> QED
  BY <1>1, <1>2, <1>3

\* The claim's own check of the worker's slot is made after _expire, in the same
\* transaction as the assignment.
LEMMA NextWorkerSlotUnique ==
    ASSUME TypeOK, WorkerSlotUnique, [Next]_vars
    PROVE  WorkerSlotUnique'
<1> DEFINE Runs(row, w) == row.status = "running" /\ row.worker = w
<1> SUFFICES ASSUME NEW w \in WorkerIds, NEW t \in TaskIds, NEW u \in TaskIds,
                    Runs(tasks'[t], w), Runs(tasks'[u], w)
             PROVE  t = u
  BY DEF WorkerSlotUnique, RunningOn
<1>1. Runs(tasks[t], w) /\ Runs(tasks[u], w) => t = u
  BY DEF WorkerSlotUnique, RunningOn
<1>2. CASE \E c \in claims, v \in TaskIds, k \in Tokens : ClaimAssign(c, v, k)
  <2>1. PICK c \in claims, v \in TaskIds, k \in Tokens : ClaimAssign(c, v, k)
    BY <1>2
  <2>2. c \in ClaimCall /\ c.now \in Nat
    BY DEF TypeOK, ClaimCall
  <2>3. /\ \A x \in TaskIds \ {v} : tasks'[x] = Expired(c.now)[x]
        /\ tasks'[v].worker = c.worker
    BY <2>1, <2>2, AssignedRows DEF RowAssigned
  <2>4. \A x \in TaskIds : ~Runs(Expired(c.now)[x], c.worker)
    BY <2>1 DEF ClaimAssign, FreeToClaim, RunningOn
  <2>5. \A x \in TaskIds : Runs(Expired(c.now)[x], w) => Runs(tasks[x], w)
    BY <2>2, ExpiredRow DEF RowLost
  <2>6. CASE w = c.worker
    BY <2>3, <2>4, <2>6
  <2>7. CASE w # c.worker
    BY <1>1, <2>3, <2>5, <2>7
  <2> QED
    BY <2>6, <2>7
<1>3. CASE ~ \E c \in claims, v \in TaskIds, k \in Tokens : ClaimAssign(c, v, k)
  <2>1. ASSUME NEW x \in TaskIds, Runs(tasks'[x], w) PROVE Runs(tasks[x], w)
    BY <1>3, <2>1, RowStep DEF RowLost, RowSubmitted, RowCancelled, RowAssigned, RowRenewed,
                               RowCompleted, OutcomeOf, SameClaim
  <2> QED
    BY <1>1, <2>1
<1> QED
  BY <1>2, <1>3

\* A claim assigns only under a request id no row has, with a new token.
LEMMA NextClaimUnique ==
    ASSUME TypeOK, RowsWellFormed, ClaimUnique, [Next]_vars
    PROVE  ClaimUnique'
<1> SUFFICES ASSUME NEW t \in TaskIds, NEW u \in TaskIds
             PROVE  /\ tasks'[t].claim = tasks'[u].claim /\ tasks'[t].claim # None => t = u
                    /\ tasks'[t].token = tasks'[u].token /\ tasks'[t].token # None => t = u
  BY DEF ClaimUnique
<1>1. /\ tasks[t].claim = tasks[u].claim /\ tasks[t].claim # None => t = u
      /\ tasks[t].token = tasks[u].token /\ tasks[t].token # None => t = u
  BY DEF ClaimUnique
<1>2. CASE \E c \in claims, v \in TaskIds, k \in Tokens : ClaimAssign(c, v, k)
  <2>1. PICK c \in claims, v \in TaskIds, k \in Tokens : ClaimAssign(c, v, k)
    BY <1>2
  <2>2. c \in ClaimCall /\ c.now \in Nat
    BY DEF TypeOK, ClaimCall
  <2>3. \A x \in TaskIds : /\ Expired(c.now)[x].claim = tasks[x].claim
                           /\ Expired(c.now)[x].token = tasks[x].token
    BY <2>2, ExpiredRow DEF RowLost, SameClaim
  <2>4. /\ \A x \in TaskIds \ {v} : /\ tasks'[x].claim = tasks[x].claim
                                    /\ tasks'[x].token = tasks[x].token
        /\ tasks'[v].claim = c.request
        /\ tasks'[v].token = k
    BY <2>1, <2>2, <2>3, AssignedRows DEF RowAssigned
  <2>5. \A x \in TaskIds : tasks[x].claim # c.request
    BY <2>1, <2>3 DEF ClaimAssign, FreeToClaim, Claimed
  <2>6. \A x \in TaskIds : tasks[x].token # k
    BY <2>1, NoneIsNull DEF ClaimAssign, Issued
  <2> QED
    BY <1>1, <2>4, <2>5, <2>6
<1>3. CASE ~ \E c \in claims, v \in TaskIds, k \in Tokens : ClaimAssign(c, v, k)
  <2>1. ASSUME NEW x \in TaskIds
        PROVE  \/ SameClaim(tasks'[x], tasks[x])
               \/ tasks'[x].claim = None /\ tasks'[x].token = None
    BY <1>3, RowStep DEF RowLost, RowSubmitted, RowCancelled, RowAssigned, RowRenewed,
                         RowCompleted, SameClaim, NoRow
  <2> QED
    BY <1>1, <2>1 DEF SameClaim
<1> QED
  BY <1>2, <1>3

\* A heartbeat renews from its arrival, which follows the claim.
LEMMA NextLeaseFloor ==
    ASSUME TypeOK, RowsWellFormed, BeatsFollowClaims, LeaseFloor, [Next]_vars
    PROVE  LeaseFloor'
<1> SUFFICES ASSUME NEW t \in TaskIds, tasks'[t].claim # None
             PROVE  tasks'[t].expires >= tasks'[t].started + LeaseSeconds
  BY DEF LeaseFloor
<1>1. tasks[t].claim # None => tasks[t].expires >= tasks[t].started + LeaseSeconds
  BY DEF LeaseFloor
<1>2. ASSUME NEW c \in claims, NEW k \in Tokens, RowAssigned(tasks'[t], tasks[t], c, k)
      PROVE  tasks'[t].expires >= tasks'[t].started + LeaseSeconds
  <2>1. c.now \in Nat
    BY DEF TypeOK, ClaimCall
  <2> QED
    BY <1>2, <2>1 DEF RowAssigned, StoreAssumption
<1>3. ASSUME NEW b \in beats, b.task = t, RowRenewed(tasks'[t], tasks[t], b)
      PROVE  tasks'[t].expires >= tasks'[t].started + LeaseSeconds
  <2>1. b.now \in Nat /\ tasks[t].started \in Nat /\ tasks[t].started <= b.now
    BY <1>3 DEF TypeOK, Beat, Row, BeatsFollowClaims, RowRenewed
  <2> QED
    BY <1>3, <2>1 DEF RowRenewed, SameClaim, StoreAssumption
<1>4. CASE tasks'[t].expires = tasks[t].expires /\ SameClaim(tasks'[t], tasks[t])
  BY <1>1, <1>4 DEF SameClaim
<1> QED
  BY <1>2, <1>3, <1>4, RowStep
  DEF RowLost, RowSubmitted, RowCancelled, RowCompleted, SameClaim, NoRow

LEMMA NextLostOnlyAfterLease ==
    ASSUME TypeOK, LostOnlyAfterLease, [Next]_vars
    PROVE  LostOnlyAfterLease'
<1> SUFFICES ASSUME NEW t \in TaskIds, tasks'[t].status = "lost"
             PROVE  tasks'[t].expires <= tasks'[t].finished
  BY DEF LostOnlyAfterLease
<1>1. tasks[t].status = "lost" => tasks[t].expires <= tasks[t].finished
  BY DEF LostOnlyAfterLease
<1> QED
  BY <1>1, RowStep
  DEF RowLost, RowSubmitted, RowCancelled, RowAssigned, RowRenewed, RowCompleted, OutcomeOf

\* Calls are created in the order of the clock, and a claim takes the oldest.
LEMMA NextNoOvertaking ==
    ASSUME TypeOK, RowsWellFormed, TimesPast, NoOvertaking, [Next]_vars
    PROVE  NoOvertaking'
<1> SUFFICES ASSUME NEW t \in TaskIds, NEW u \in TaskIds,
                    tasks'[t].status = "queued",
                    tasks'[u].claim # None,
                    tasks'[t].submission.function = tasks'[u].submission.function
             PROVE  ~(tasks'[t].created < tasks'[u].created)
  BY DEF NoOvertaking
<1>0. /\ tasks[t].created \in Nat /\ tasks[u].created \in Nat /\ clock \in Nat
      /\ tasks[t].created <= clock /\ tasks[u].created <= clock
  BY DEF TypeOK, Row, TimesPast
<1>1. \/ tasks'[t] = tasks[t]
      \/ \E s \in Submissions : Submit(t, s) /\ RowSubmitted(tasks'[t], s, Resolve(s), clock)
  BY RowStep DEF RowLost, RowCancelled, RowAssigned, RowRenewed, RowCompleted, OutcomeOf
<1>2. CASE \E s \in Submissions : Submit(t, s) /\ RowSubmitted(tasks'[t], s, Resolve(s), clock)
  <2>1. tasks'[t].created = clock /\ t # u /\ OnlyRow(t)
    BY <1>2, SubmitRow DEF RowSubmitted, SameClaim, NoRow
  <2> QED
    BY <1>0, <2>1 DEF OnlyRow
<1>3. CASE tasks'[t] = tasks[t]
  <2>1. CASE tasks[u].claim # None
    <3>1. SameCall(tasks'[u], tasks[u])
      BY <2>1, RowStep DEF RowLost, Submit, RowCancelled, RowAssigned, RowRenewed, RowCompleted,
                           SameCall, RowsWellFormed, WellFormed
    <3> QED
      BY <1>3, <2>1, <3>1 DEF SameCall, NoOvertaking
  <2>2. CASE tasks[u].claim = None
    <3>1. PICK c \in claims, k \in Tokens :
              ClaimAssign(c, u, k) /\ RowAssigned(tasks'[u], tasks[u], c, k)
      BY <2>2, RowStep DEF RowLost, RowSubmitted, RowCancelled, RowRenewed, RowCompleted,
                           SameClaim, NoRow
    <3>2. c \in ClaimCall /\ c.now \in Nat
      BY DEF TypeOK, ClaimCall
    <3>3. u \in Oldest(Expired(c.now), c.function) /\ t # u
      BY <1>3, <3>1 DEF ClaimAssign, RowAssigned
    <3>4. /\ Expired(c.now)[t] = tasks[t]
          /\ Expired(c.now)[u].created = tasks[u].created
      BY <1>3, <3>2, ExpiredRow DEF RowLost, SameCall
    <3>5. t \in Queue(Expired(c.now), c.function)
      BY <1>3, <3>1, <3>4 DEF Queue, RowAssigned, SameCall
    <3>6. tasks[u].created <= tasks[t].created
      BY <3>3, <3>4, <3>5 DEF Oldest
    <3> QED
      BY <1>0, <1>3, <3>1, <3>6 DEF RowAssigned, SameCall
  <2> QED
    BY <2>1, <2>2
<1> QED
  BY <1>1, <1>2, <1>3

\* A registered worker keeps its function.
LEMMA RegistrationsKept ==
    ASSUME TypeOK, [Next]_vars, NEW w \in WorkerIds, serves[w] # None
    PROVE  serves'[w] = serves[w]
<1>1. ASSUME NEW c \in claims, Register(c) PROVE serves'[w] = serves[w]
  BY <1>1 DEF Register, TypeOK
<1>2. ASSUME NEW c \in claims, ClaimCommit(c) PROVE serves'[w] = serves[w]
  BY <1>1, <1>2 DEF ClaimCommit, ClaimSucceeds, ClaimReplay, ClaimNothing, ClaimAssign,
                    ClaimRefused
<1>3. CASE UNCHANGED serves
  BY <1>3
<1> QED
  BY <1>2, <1>3
  DEF Next, vars, pending, Publish, Submit, Cancel, Expire, ClaimArrive, BeatArrive,
      BeatCommit, AddArtifact, Complete, Tick, LockTimeout, Restart

LEMMA NextWorkerServesOneFunction ==
    ASSUME TypeOK, RowsWellFormed, WorkerServesOneFunction, [Next]_vars
    PROVE  WorkerServesOneFunction'
<1> SUFFICES ASSUME NEW t \in TaskIds, tasks'[t].claim # None
             PROVE  serves'[tasks'[t].worker] = tasks'[t].submission.function
  BY DEF WorkerServesOneFunction
<1>1. CASE tasks[t].claim # None
  <2>1. /\ tasks[t].status # "absent"
        /\ tasks[t].worker \in WorkerIds
        /\ tasks[t].submission.function \in Functions
        /\ serves[tasks[t].worker] = tasks[t].submission.function
    BY <1>1 DEF RowsWellFormed, WellFormed, WorkerServesOneFunction, TypeOK, Row, Submissions
  <2>2. SameClaim(tasks'[t], tasks[t])
    BY <1>1, TokensKept
  <2>3. SameCall(tasks'[t], tasks[t])
    BY <2>1, RowStep DEF RowLost, Submit, RowCancelled, RowAssigned, RowRenewed, RowCompleted,
                         SameCall
  <2> QED
    BY <2>1, <2>2, <2>3, RegistrationsKept, NoneIsNull DEF SameCall, SameClaim
<1>2. CASE tasks[t].claim = None
  <2>1. PICK c \in claims, k \in Tokens :
            ClaimAssign(c, t, k) /\ RowAssigned(tasks'[t], tasks[t], c, k)
    BY <1>2, RowStep DEF RowLost, RowSubmitted, RowCancelled, RowRenewed, RowCompleted,
                         SameClaim, NoRow
  <2>2. c.worker \in WorkerIds
    BY DEF TypeOK, ClaimCall
  <2>3. serves'[c.worker] = c.function
    BY <2>1, <2>2 DEF ClaimAssign, FreeToClaim, Admissible, Register, TypeOK
  <2> QED
    BY <2>1, <2>3 DEF RowAssigned, SameCall
<1> QED
  BY <1>1, <1>2

\* What a step does to the artifacts of a call.
LEMMA ArtifactsStep ==
    ASSUME TypeOK, [Next]_vars, NEW t \in TaskIds
    PROVE  \/ artifacts'[t] = artifacts[t]
           \/ \E k \in Tokens, a \in Artifact :
                  /\ AddArtifact(t, k, a)
                  /\ artifacts'[t] = artifacts[t] \cup {a}
<1>1. ASSUME NEW u \in TaskIds, NEW k \in Tokens, NEW a \in Artifact, AddArtifact(u, k, a)
      PROVE  \/ artifacts'[t] = artifacts[t]
             \/ AddArtifact(t, k, a) /\ artifacts'[t] = artifacts[t] \cup {a}
  <2>1. CASE t = u
    BY <1>1, <2>1 DEF AddArtifact, TypeOK
  <2>2. CASE t # u
    BY <1>1, <2>2 DEF AddArtifact, TypeOK
  <2> QED
    BY <2>1, <2>2
<1>2. CASE UNCHANGED artifacts
  BY <1>2
<1> QED
  BY <1>1, <1>2
  DEF Next, vars, Publish, Submit, Cancel, Expire, ClaimArrive, ClaimCommit, BeatArrive,
      BeatCommit, Complete, Tick, LockTimeout, Restart

LEMMA NextArtifactNamesUnique ==
    ASSUME TypeOK, ArtifactNamesUnique, [Next]_vars
    PROVE  ArtifactNamesUnique'
<1> SUFFICES ASSUME NEW t \in TaskIds, NEW a \in artifacts'[t], NEW b \in artifacts'[t],
                    Fold[a.name] = Fold[b.name]
             PROVE  a = b
  BY DEF ArtifactNamesUnique
<1>1. CASE artifacts'[t] = artifacts[t]
  BY <1>1 DEF ArtifactNamesUnique
<1>2. ASSUME NEW k \in Tokens, NEW n \in Artifact, AddArtifact(t, k, n),
             artifacts'[t] = artifacts[t] \cup {n}
      PROVE  a = b
  BY <1>2 DEF AddArtifact, Fits, ArtifactNamesUnique
<1> QED
  BY <1>1, <1>2, ArtifactsStep

LEMMA NextInductive == Inductive /\ [Next]_vars => Inductive'
<1> SUFFICES ASSUME Inductive, [Next]_vars PROVE Inductive'
  OBVIOUS
<1> USE DEF Inductive
<1>1. TypeOK' /\ RowsWellFormed' /\ CallsDefined'
  BY NextTypeOK, NextRowsWellFormed, NextCallsDefined
<1>2. TimesPast' /\ BeatsFollowClaims' /\ LeaseFloor' /\ LostOnlyAfterLease'
  BY NextTimesPast, NextBeatsFollowClaims, NextLeaseFloor, NextLostOnlyAfterLease
<1>3. WorkerSlotUnique' /\ ClaimUnique' /\ NoOvertaking'
  BY NextWorkerSlotUnique, NextClaimUnique, NextNoOvertaking
<1>4. WorkerServesOneFunction' /\ ArtifactNamesUnique'
  BY NextWorkerServesOneFunction, NextArtifactNamesUnique
<1> QED
  BY <1>1, <1>2, <1>3, <1>4

\* Every conjunct of the inductive invariant holds in every reachable state.
THEOREM Invariance == Spec => []Inductive
<1>1. Init => Inductive
  BY InitInductive
<1>2. Inductive /\ [Next]_vars => Inductive'
  BY NextInductive
<1> QED
  BY <1>1, <1>2, PTL DEF Spec

-----------------------------------------------------------------------------
(* The safety invariants.                                                  *)

\* A worker identity never owns two running calls, whatever claims of it are
\* retried, delayed or replayed: no claim hits the unique index worker_slot.
THEOREM OneSlot == Spec => []WorkerSlotUnique
<1>1. Inductive => WorkerSlotUnique
  BY DEF Inductive
<1> QED
  BY <1>1, Invariance, PTL

\* A claim request id, and a lease token, belong to one call at most.
THEOREM ClaimsUnique == Spec => []ClaimUnique
<1>1. Inductive => ClaimUnique
  BY DEF Inductive
<1> QED
  BY <1>1, Invariance, PTL

\* Heartbeats that commit late or out of order never cut a lease below what the
\* claim granted.
THEOREM LeaseNeverBelowGrant == Spec => []LeaseFloor
<1>1. Inductive => LeaseFloor
  BY DEF Inductive
<1> QED
  BY <1>1, Invariance, PTL

\* No call is declared lost before its lease has run out.
THEOREM LostMeansExpired == Spec => []LostOnlyAfterLease
<1>1. Inductive => LostOnlyAfterLease
  BY DEF Inductive
<1> QED
  BY <1>1, Invariance, PTL

\* The queue of each function is served oldest first.
THEOREM FirstInFirstOut == Spec => []NoOvertaking
<1>1. Inductive => NoOvertaking
  BY DEF Inductive
<1> QED
  BY <1>1, Invariance, PTL

\* A call only runs on a worker registered for its function.
THEOREM OneFunction == Spec => []WorkerServesOneFunction
<1>1. Inductive => WorkerServesOneFunction
  BY DEF Inductive
<1> QED
  BY <1>1, Invariance, PTL

\* No two artifacts of a call have names that differ only in case.
THEOREM UniqueNames == Spec => []ArtifactNamesUnique
<1>1. Inductive => ArtifactNamesUnique
  BY DEF Inductive
<1> QED
  BY <1>1, Invariance, PTL

-----------------------------------------------------------------------------
(* The action properties.                                                  *)

LEMMA EndKept ==
    ASSUME TypeOK, [Next]_vars, NEW t \in TaskIds, tasks[t].status \in Terminal
    PROVE  tasks'[t] = tasks[t] /\ artifacts'[t] = artifacts[t]
<1>1. tasks'[t] = tasks[t]
  BY RowStep DEF Terminal, RowLost, Submit, RowCancelled, RowAssigned, RowRenewed,
                 RowCompleted
<1>2. artifacts'[t] = artifacts[t]
  BY ArtifactsStep DEF Terminal, AddArtifact, LeaseHeld
<1> QED
  BY <1>1, <1>2

\* The row and the artifacts of a call that has ended never change.
THEOREM EndIsFinal == Spec => TerminalImmutable
<1>1. ASSUME TypeOK, [Next]_vars, NEW t \in TaskIds, tasks[t].status \in Terminal
      PROVE  tasks'[t] = tasks[t] /\ artifacts'[t] = artifacts[t]
  BY <1>1, EndKept
<1>2. TypeOK /\ [Next]_vars =>
          [\A t \in TaskIds :
              tasks[t].status \in Terminal =>
                  tasks'[t] = tasks[t] /\ artifacts'[t] = artifacts[t]]_vars
  BY <1>1
<1> QED
  BY <1>2, TypeCorrect, PTL DEF Spec, TerminalImmutable

\* A claimed call keeps its worker, claim and token, and never queues again.
THEOREM NoReassignment == Spec => NeverReassigned
<1>1. ASSUME Inductive, [Next]_vars, NEW t \in TaskIds, tasks[t].claim # None
      PROVE  tasks'[t].status # "queued" /\ SameClaim(tasks'[t], tasks[t])
  <2>1. TypeOK /\ RowsWellFormed /\ tasks[t].status \notin {"absent", "queued"}
    BY <1>1 DEF Inductive, RowsWellFormed, WellFormed
  <2> QED
    BY <1>1, <2>1, TokensKept, RowStep
    DEF RowLost, Submit, RowCancelled, RowAssigned, RowRenewed, RowCompleted, OutcomeOf
<1>2. Inductive /\ [Next]_vars =>
          [\A t \in TaskIds :
              tasks[t].claim # None =>
                  /\ tasks'[t].status # "queued"
                  /\ tasks'[t].worker = tasks[t].worker
                  /\ tasks'[t].claim = tasks[t].claim
                  /\ tasks'[t].token = tasks[t].token
                  /\ tasks'[t].started = tasks[t].started]_vars
  BY <1>1 DEF SameClaim
<1> QED
  BY <1>2, Invariance, PTL DEF Spec, NeverReassigned

\* A lease that has run out is never renewed, and lets nothing in, whether or not
\* anyone has marked the call lost.
THEOREM DeadLeaseStaysDead == Spec => LapsedLeaseIsDead
<1>1. ASSUME TypeOK, [Next]_vars, NEW t \in TaskIds, Lapsed(tasks[t], clock)
      PROVE  /\ tasks'[t].status \in {"running", "lost", "cancelled"}
             /\ tasks'[t].expires = tasks[t].expires
             /\ artifacts'[t] = artifacts[t]
  <2>1. clock \in Nat /\ tasks[t].expires \in Nat /\ tasks[t].expires <= clock
        /\ tasks[t].status = "running"
    BY <1>1 DEF TypeOK, Row, Lapsed
  <2>2. /\ tasks'[t].status \in {"running", "lost", "cancelled"}
        /\ tasks'[t].expires = tasks[t].expires
    <3>1. ~(tasks[t].expires > clock)
      BY <2>1
    <3>2. \/ tasks'[t] = tasks[t]
          \/ \E now \in Nat : RowLost(tasks'[t], tasks[t], now)
          \/ RowCancelled(tasks'[t], tasks[t])
      BY <1>1, <2>1, <3>1, RowStep DEF Submit, RowAssigned, RowRenewed, RowCompleted
    <3> QED
      BY <2>1, <3>2 DEF RowLost, RowCancelled
  <2>3. artifacts'[t] = artifacts[t]
    BY <1>1, <2>1, ArtifactsStep DEF AddArtifact, LeaseHeld
  <2> QED
    BY <2>2, <2>3
<1>2. TypeOK /\ [Next]_vars =>
          [\A t \in TaskIds :
              Lapsed(tasks[t], clock) =>
                  /\ tasks'[t].status \in {"running", "lost", "cancelled"}
                  /\ tasks'[t].expires = tasks[t].expires
                  /\ artifacts'[t] = artifacts[t]]_vars
  BY <1>1
<1> QED
  BY <1>2, TypeCorrect, PTL DEF Spec, LapsedLeaseIsDead

\* A call executes the package it was accepted for, whatever is published later.
THEOREM Pinned == Spec => PinnedToPackage
<1>1. ASSUME Inductive, [Next]_vars, NEW t \in TaskIds, tasks[t].status # "absent"
      PROVE  /\ <<PackageOf(t), tasks[t].submission.inputs>> \in Valid
             /\ tasks'[t].submission = tasks[t].submission
             /\ PackageOf(t)' = PackageOf(t)
  BY <1>1, CallKept DEF Inductive, CallsDefined, SameCall
<1>2. Inductive /\ [Next]_vars =>
          [\A t \in TaskIds :
              tasks[t].status # "absent" =>
                  /\ <<PackageOf(t), tasks[t].submission.inputs>> \in Valid
                  /\ tasks'[t].submission = tasks[t].submission
                  /\ PackageOf(t)' = PackageOf(t)]_vars
  BY <1>1
<1> QED
  BY <1>2, Invariance, PTL DEF Spec, PinnedToPackage

\* The default version moves only to a version published in that very step.
THEOREM DefaultMovesForward == Spec => DefaultNeverMovesBack
<1>1. ASSUME TypeOK, [Next]_vars, NEW f \in Functions, latest'[f] # latest[f]
      PROVE  /\ definitions[f][latest'[f]] = None
             /\ definitions'[f][latest'[f]] # None
  <2>1. PICK g \in Functions, v \in Versions, p \in Packages : Publish(g, v, p)
    BY <1>1 DEF Next, catalog, vars, Submit, Cancel, Expire, ClaimArrive, ClaimCommit,
                BeatArrive, BeatCommit, AddArtifact, Complete, Tick, LockTimeout, Restart
  <2>2. definitions[g][v] = None /\ g = f /\ latest'[f] = v
    <3>1. latest' = latest \/ (definitions[g][v] = None /\ latest' = [latest EXCEPT ![g] = v])
      BY <2>1 DEF Publish, Publishable, DefaultAfter
    <3> QED
      BY <1>1, <3>1 DEF TypeOK
  <2>3. definitions'[f][v] = p
    <3>1. definitions' = [definitions EXCEPT ![f][v] = p]
      BY <2>1, <2>2 DEF Publish
    <3>2. definitions \in [Functions -> [Versions -> Packages \cup {None}]]
      BY <1>1 DEF TypeOK
    <3> QED
      BY <3>1, <3>2
  <2> QED
    BY <2>1, <2>2, <2>3, NoneIsNull
<1>2. TypeOK /\ [Next]_vars =>
          [\A f \in Functions :
              latest'[f] # latest[f] =>
                  /\ definitions[f][latest'[f]] = None
                  /\ definitions'[f][latest'[f]] # None]_vars
  BY <1>1
<1> QED
  BY <1>2, TypeCorrect, PTL DEF Spec, DefaultNeverMovesBack

=============================================================================
