---------------------------- MODULE ClientProofs ----------------------------
(***************************************************************************)
(* Theorems about Client: whatever users do, and whoever else uses the     *)
(* server, the store makes the steps of Store, an acknowledged call is the *)
(* one that was asked for, and the end a wait reports is the end.          *)
(***************************************************************************)
EXTENDS Client, StoreRefinementProofs

USE ClientAssumption

-----------------------------------------------------------------------------
(* The inductive invariant.                                                *)

Submitting == {"submitting", "uncertain", "conflict", "accepted", "waiting", "ended"}

\* The invocation that runs call t of the table once more.
Again(rows, t) ==
    [function |-> rows[t].submission.function, version |-> rows[t].version,
     flags |-> None, inputs |-> rows[t].submission.inputs]

\* What a session knows of the table, at whatever stage it is.
Asked(m) ==
    /\ m.pc # "new" => m.task \in TaskIds /\ m.asked \in Invocation
    /\ m.pc \in Submitting => m.inputs \in Inputs
    /\ m.pc = "typing" => m.asked.flags # None
    /\ m.pc # "new" /\ m.asked.flags = None => m.inputs = m.asked.inputs

Told(m, rows) ==
    /\ m.pc \in {"accepted", "waiting", "ended"} =>
           /\ rows[m.task].status # "absent"
           /\ rows[m.task].submission = Submission(m)
    /\ m.pc = "ended" => m.seen \in Terminal /\ rows[m.task].status = m.seen

Repeats(m, rows) ==
    m.original # None =>
        /\ m.original \in TaskIds /\ m.pc # "new"
        /\ rows[m.original].status # "absent"
        /\ m.asked = Again(rows, m.original)

SessionOK(m, rows) == Asked(m) /\ Told(m, rows) /\ Repeats(m, rows)

\* A call that names a version has that version.
VersionsResolved ==
    \A t \in TaskIds :
        tasks[t].status # "absent" /\ tasks[t].submission.version # None =>
            tasks[t].version = tasks[t].submission.version

ClientInductive ==
    /\ Inductive
    /\ ClientTypeOK
    /\ VersionsResolved
    /\ \A s \in Sessions : SessionOK(session[s], tasks)

-----------------------------------------------------------------------------
(* The steps of Client are steps of Store.                                 *)

LEMMA SubmissionTyped ==
    ASSUME NEW m, m.asked \in Invocation, m.inputs \in Inputs
    PROVE  Submission(m) \in Submissions
BY DEF Invocation, Submission, Submissions

LEMMA CreateIsAStep ==
    ASSUME NEW m, m.task \in TaskIds, m.asked \in Invocation, m.inputs \in Inputs, Create(m)
    PROVE  Next
BY SubmissionTyped DEF Create, Next

LEMMA SessionDrivesStore ==
    ASSUME ClientInductive, NEW s \in Sessions, SessionStep(s)
    PROVE  [Next]_vars
<1>1. CASE SubmitReaches(s)
  <2>1. /\ session[s].task \in TaskIds /\ session[s].asked \in Invocation
        /\ session[s].inputs \in Inputs
    BY <1>1 DEF SubmitReaches, ClientInductive, SessionOK, Asked, Submitting
  <2> QED
    BY <1>1, <2>1, CreateIsAStep DEF SubmitReaches
<1>2. CASE Poll(s) \/ \E t \in TaskIds : Retry(s, t)
  <2>1. Expire
    BY <1>2 DEF Poll, Retry, Read, Expire
  <2> QED
    BY <2>1 DEF Next
<1>3. CASE \/ \E t \in TaskIds, a \in Asks : Call(s, t, a)
           \/ Type(s) \/ TypingFails(s)
           \/ SubmitAccepted(s) \/ SubmitConflicts(s) \/ SubmitRefused(s)
           \/ GiveUp(s) \/ Repeat(s) \/ StartWait(s) \/ StopWaiting(s)
  BY <1>3 DEF Call, Type, TypingFails, SubmitAccepted, SubmitConflicts, SubmitRefused,
              GiveUp, Repeat, StartWait, StopWaiting, store
<1> QED
  BY <1>1, <1>2, <1>3 DEF SessionStep

LEMMA ClientDrives ==
    ASSUME ClientInductive, [ClientNext]_cvars
    PROVE  [Next]_vars
<1>1. CASE \E s \in Sessions : SessionStep(s)
  BY <1>1, SessionDrivesStore
<1>2. ASSUME NEW m \in strays, StrayReaches(m) \/ StrayEnds(m)
      PROVE  [Next]_vars
  <2>1. m \in Put
    BY DEF ClientInductive, ClientTypeOK
  <2>2. m.task \in TaskIds /\ m.asked \in Invocation /\ m.inputs \in Inputs
    BY <2>1 DEF Put
  <2> QED
    BY <1>2, <2>2, CreateIsAStep DEF StrayReaches, StrayEnds, store
<1>3. CASE Reap \/ ReaperDies \/ RestartServer \/ Passes
  BY <1>3 DEF Reap, ReaperDies, RestartServer, Passes, store, Next
<1>4. CASE StoreGoesOn
  BY <1>4 DEF StoreGoesOn, Next
<1>5. CASE UNCHANGED cvars
  BY <1>5 DEF cvars, store
<1> QED
  BY <1>1, <1>2, <1>3, <1>4, <1>5 DEF ClientNext

-----------------------------------------------------------------------------
(* What a step of the store leaves of what sessions know.                  *)

LEMMA SessionKept ==
    ASSUME Inductive, [Next]_vars, NEW m \in Session, SessionOK(m, tasks)
    PROVE  SessionOK(m, tasks')
<1>1. Asked(m)
  BY DEF SessionOK
<1>2. \A t \in TaskIds : tasks[t].status # "absent" =>
          /\ tasks'[t].status # "absent"
          /\ tasks'[t].submission = tasks[t].submission
          /\ tasks'[t].version = tasks[t].version
  BY CallKept DEF Inductive, SameCall
<1>3. \A t \in TaskIds : tasks[t].status \in Terminal => tasks'[t] = tasks[t]
  BY EndKept DEF Inductive
<1>4. Told(m, tasks')
  <2>1. m.pc \in {"accepted", "waiting", "ended"} => m.task \in TaskIds
    BY <1>1 DEF Asked
  <2>2. Told(m, tasks)
    BY DEF SessionOK
  <2> QED
    BY <1>2, <1>3, <2>1, <2>2 DEF Told
<1>5. Repeats(m, tasks')
  <2>1. Repeats(m, tasks)
    BY DEF SessionOK
  <2> QED
    BY <1>2, <2>1 DEF Repeats, Again
<1> QED
  BY <1>1, <1>4, <1>5 DEF SessionOK

LEMMA NextVersionsResolved ==
    ASSUME Inductive, VersionsResolved, [Next]_vars
    PROVE  VersionsResolved'
<1> SUFFICES ASSUME NEW t \in TaskIds, tasks'[t].status # "absent",
                    tasks'[t].submission.version # None
             PROVE  tasks'[t].version = tasks'[t].submission.version
  BY DEF VersionsResolved
<1>1. CASE tasks[t].status # "absent"
  BY <1>1, CallKept DEF Inductive, SameCall, VersionsResolved
<1>2. CASE tasks[t].status = "absent"
  <2>1. PICK v \in Submissions : RowSubmitted(tasks'[t], v, Resolve(v), clock)
    BY <1>2, RowStep, NoneIsNull
    DEF Inductive, RowLost, RowCancelled, RowAssigned, RowRenewed, RowCompleted
  <2> QED
    BY <2>1 DEF RowSubmitted, Resolve
<1> QED
  BY <1>1, <1>2

\* A session that moves to what fits the new table leaves all sessions fitting.
LEMMA Moves ==
    ASSUME ClientInductive, [Next]_vars, NEW s \in Sessions, NEW new \in Session,
           Move(s, new), SessionOK(new, tasks')
    PROVE  /\ session' \in [Sessions -> Session]
           /\ \A r \in Sessions : SessionOK(session'[r], tasks')
<1>1. session \in [Sessions -> Session]
  BY DEF ClientInductive, ClientTypeOK
<1>2. session' = [session EXCEPT ![s] = new]
  BY DEF Move
<1>3. \A r \in Sessions : SessionOK(session[r], tasks')
  BY <1>1, SessionKept DEF ClientInductive
<1> QED
  BY <1>1, <1>2, <1>3

\* A session that has just begun: what it submits untyped was asked for as it is.
Starting(m) ==
    /\ m.pc \in {"typing", "submitting"}
    /\ m.pc = "submitting" => m.asked.flags = None

LEMMA BegunTyped ==
    ASSUME NEW m \in Session, NEW a \in Invocation, NEW b, b = Begun(m, a)
    PROVE  /\ b \in Session
           /\ Starting(b)
           /\ b.pc \in {"typing", "submitting"}
           /\ b.pc = "typing" => a.flags # None
           /\ b.pc = "submitting" => b.inputs \in Inputs
           /\ b.asked = a /\ b.inputs = a.inputs
           /\ b.task = m.task /\ b.original = m.original
<1>1. a.flags = None => a.inputs \in Inputs
  BY DEF Invocation
<1>2. a.inputs \in Inputs \cup {None}
  BY DEF Invocation
<1>3. b = [m EXCEPT !.pc = IF a.flags = None THEN "submitting" ELSE "typing",
                    !.asked = a, !.inputs = a.inputs]
  BY DEF Begun
<1>4. /\ b.pc = IF a.flags = None THEN "submitting" ELSE "typing"
      /\ b.asked = a /\ b.inputs = a.inputs
      /\ b.task = m.task /\ b.original = m.original
  BY <1>3 DEF Session
<1>5. b \in Session
  BY <1>2, <1>3 DEF Session
<1> QED
  BY <1>1, <1>4, <1>5 DEF Starting

\* Only the stage changes, to one at which no more is known.
LEMMA StageChanged ==
    ASSUME NEW m \in Session, SessionOK(m, tasks), m.pc # "new", NEW pc, NEW n,
           n = [m EXCEPT !.pc = pc],
           \/ pc = "refused"
           \/ pc = "uncertain" /\ m.pc \in Submitting
           \/ pc = "conflict" /\ m.pc \in Submitting
           \/ pc = "accepted" /\ m.pc \in {"accepted", "waiting"}
           \/ pc = "accepted" /\ m.pc \in Submitting /\ Known(m)
           \/ pc = "waiting" /\ m.pc = "accepted"
    PROVE  n \in Session /\ SessionOK(n, tasks)
<1>1. /\ n \in Session /\ n.pc = pc
      /\ n.task = m.task /\ n.asked = m.asked /\ n.inputs = m.inputs
      /\ n.seen = m.seen /\ n.original = m.original
  BY DEF Session
<1>2. Submission(n) = Submission(m)
  BY <1>1 DEF Submission
<1>3. Asked(n)
  BY <1>1 DEF SessionOK, Asked, Submitting
<1>4. Told(n, tasks)
  BY <1>1, <1>2 DEF SessionOK, Told, Known
<1>5. Repeats(n, tasks)
  BY <1>1 DEF SessionOK, Repeats
<1> QED
  BY <1>1, <1>3, <1>4, <1>5 DEF SessionOK

LEMMA CallMoves ==
    ASSUME ClientInductive, NEW s \in Sessions, NEW t \in TaskIds, NEW a \in Asks, Call(s, t, a)
    PROVE  \E n \in Session : Move(s, n) /\ SessionOK(n, tasks) /\ Starting(n)
<1> DEFINE b == Begun(New, a)
           n == [b EXCEPT !.task = t]
<1>1. New \in Session /\ New.original = None
  BY DEF New, Session
<1>2. a \in Invocation
  OBVIOUS
<1>3. /\ b \in Session /\ b.pc \in {"typing", "submitting"} /\ Starting(b)
      /\ b.pc = "typing" => a.flags # None
      /\ b.pc = "submitting" => b.inputs \in Inputs
      /\ b.asked = a /\ b.inputs = a.inputs /\ b.original = None
  BY <1>1, <1>2, BegunTyped
<1>4. Move(s, n)
  BY DEF Call
<1> HIDE DEF b
<1>5. /\ n \in Session /\ n.task = t /\ n.pc = b.pc /\ n.asked = a /\ n.inputs = b.inputs
      /\ n.original = None
  BY <1>3 DEF Session
<1> HIDE DEF n
<1>6. Asked(n)
  BY <1>2, <1>3, <1>5 DEF Asked, Submitting
<1>7. Told(n, tasks) /\ Repeats(n, tasks)
  BY <1>3, <1>5 DEF Told, Repeats
<1> QED
  BY <1>3, <1>4, <1>5, <1>6, <1>7 DEF SessionOK, Starting

LEMMA TypeMoves ==
    ASSUME ClientInductive, NEW s \in Sessions, Type(s)
    PROVE  \E n \in Session : Move(s, n) /\ SessionOK(n, tasks)
<1> DEFINE m == session[s]
           a == m.asked
           inputs == Typed[<<Described(a), a.flags>>]
           n == [m EXCEPT !.pc = "submitting", !.inputs = inputs]
<1>1. /\ m \in Session /\ SessionOK(m, tasks) /\ m.pc = "typing"
      /\ Defined(a.function, Resolve(a)) /\ inputs # None /\ Move(s, n)
  BY DEF ClientInductive, ClientTypeOK, Type
<1>2. a \in Invocation /\ a.flags # None
  BY <1>1 DEF SessionOK, Asked
<1>3. a.flags \in Flags /\ a.function \in Functions /\ a.version \in Versions \cup {None}
  BY <1>2 DEF Invocation
<1>4. Described(a) \in Packages
  <2>1. Resolve(a) \in Versions
    BY <1>1, <1>3 DEF Defined, Resolve, ClientInductive, Inductive, TypeOK
  <2> QED
    BY <1>1, <1>3, <2>1 DEF Described, Defined, ClientInductive, Inductive, TypeOK
<1>5. inputs \in Inputs
  BY <1>1, <1>3, <1>4
<1> HIDE DEF inputs, a
<1>6. /\ n \in Session /\ n.pc = "submitting" /\ n.inputs = inputs /\ n.asked = m.asked
      /\ n.task = m.task /\ n.original = m.original
  BY <1>1, <1>5 DEF Session
<1> HIDE DEF n
<1>7. m.task \in TaskIds /\ Repeats(m, tasks)
  BY <1>1 DEF SessionOK, Asked
<1>8. Asked(n)
  BY <1>2, <1>5, <1>6, <1>7 DEF Asked, a
<1>9. Told(n, tasks) /\ Repeats(n, tasks)
  BY <1>6, <1>7 DEF Told, Repeats
<1> QED
  BY <1>1, <1>6, <1>8, <1>9 DEF SessionOK

LEMMA RepeatMoves ==
    ASSUME ClientInductive, NEW s \in Sessions, Repeat(s)
    PROVE  \E n \in Session : Move(s, n) /\ SessionOK(n, tasks) /\ Starting(n)
<1> DEFINE m == session[s]
           n == Begun(m, m.asked)
<1>1. m \in Session /\ SessionOK(m, tasks) /\ m.pc = "uncertain" /\ Move(s, n)
  BY DEF ClientInductive, ClientTypeOK, Repeat
<1>2. m.asked \in Invocation /\ m.task \in TaskIds /\ Repeats(m, tasks)
  BY <1>1 DEF SessionOK, Asked
<1>3. /\ n \in Session /\ n.pc \in {"typing", "submitting"} /\ Starting(n)
      /\ n.pc = "typing" => m.asked.flags # None
      /\ n.pc = "submitting" => n.inputs \in Inputs
      /\ n.asked = m.asked /\ n.inputs = m.asked.inputs
      /\ n.task = m.task /\ n.original = m.original
  BY <1>1, <1>2, BegunTyped
<1> HIDE DEF n
<1>4. Asked(n)
  BY <1>2, <1>3 DEF Asked, Submitting
<1>5. Told(n, tasks) /\ Repeats(n, tasks)
  BY <1>2, <1>3 DEF Told, Repeats
<1> QED
  BY <1>1, <1>3, <1>4, <1>5 DEF SessionOK

LEMMA RetryMoves ==
    ASSUME ClientInductive, NEW s \in Sessions, NEW t \in TaskIds, Retry(s, t)
    PROVE  \E n \in Session : Move(s, n) /\ SessionOK(n, tasks) /\ Starting(n)
<1> DEFINE old == session[s].task
           a == Again(tasks, old)
           b == Begun(New, a)
           n == [b EXCEPT !.task = t, !.original = old]
<1>1. old \in TaskIds /\ Read[old].status \in Terminal
  BY DEF ClientInductive, SessionOK, Asked, Retry
<1>2. tasks[old].status # "absent"
  BY <1>1 DEF Read, Expired, LoseIfLapsed, Lapsed, Terminal
<1>3. tasks[old].submission \in Submissions /\ tasks[old].version \in Versions
  BY <1>1, <1>2 DEF ClientInductive, Inductive, RowsWellFormed, WellFormed
<1>4. a \in Invocation /\ a.flags = None
  BY <1>3 DEF Again, Invocation, Submissions
<1>5. Move(s, n)
  BY DEF Retry, Again, RetriedVersion
<1> HIDE DEF a, old
<1>6. New \in Session
  BY DEF New, Session
<1>7. /\ b \in Session /\ b.pc \in {"typing", "submitting"} /\ Starting(b)
      /\ b.pc = "typing" => a.flags # None
      /\ b.pc = "submitting" => b.inputs \in Inputs
      /\ b.asked = a /\ b.inputs = a.inputs
  BY <1>4, <1>6, BegunTyped
<1> HIDE DEF b
<1>8. /\ n \in Session /\ n.task = t /\ n.original = old /\ n.pc = b.pc /\ n.asked = a
      /\ n.inputs = b.inputs
  BY <1>1, <1>7 DEF Session
<1> HIDE DEF n
<1>9. Asked(n)
  BY <1>4, <1>7, <1>8 DEF Asked, Submitting
<1>10. Told(n, tasks)
  BY <1>7, <1>8 DEF Told
<1>11. Repeats(n, tasks)
  BY <1>1, <1>2, <1>7, <1>8 DEF Repeats, a
<1> QED
  BY <1>5, <1>7, <1>8, <1>9, <1>10, <1>11 DEF SessionOK, Starting

\* The status that a poll reports is that of the row from then on.
LEMMA PollKeeps ==
    ASSUME ClientInductive, NEW s \in Sessions, Poll(s), [Next]_vars
    PROVE  /\ session' \in [Sessions -> Session]
           /\ \A r \in Sessions : SessionOK(session'[r], tasks')
<1> DEFINE m == session[s]
<1>1. m \in Session /\ SessionOK(m, tasks) /\ m.pc = "waiting" /\ m.task \in TaskIds
  BY DEF ClientInductive, ClientTypeOK, Poll, SessionOK, Asked
<1>2. SessionOK(m, tasks') /\ tasks' = Read
  BY <1>1, SessionKept DEF ClientInductive, Poll
<1>3. CASE Read[m.task].status \in Terminal
  <2> DEFINE n == [m EXCEPT !.pc = "ended", !.seen = Read[m.task].status]
  <2>1. Move(s, n)
    BY <1>3 DEF Poll
  <2>2. /\ n \in Session /\ n.pc = "ended" /\ n.seen = Read[m.task].status
        /\ n.task = m.task /\ n.asked = m.asked /\ n.inputs = m.inputs
        /\ n.original = m.original
    BY <1>1, <1>3 DEF Session
  <2> HIDE DEF n
  <2>3. Submission(n) = Submission(m)
    BY <2>2 DEF Submission
  <2>4. Asked(n)
    BY <1>1, <2>2 DEF SessionOK, Asked, Submitting
  <2>5. Told(n, tasks') /\ Repeats(n, tasks')
    BY <1>1, <1>2, <1>3, <2>2, <2>3 DEF SessionOK, Told, Repeats
  <2> QED
    BY <2>1, <2>2, <2>4, <2>5, Moves DEF SessionOK
<1>4. CASE UNCHANGED session
  BY <1>4, SessionKept DEF ClientInductive, ClientTypeOK
<1> QED
  BY <1>3, <1>4 DEF Poll

LEMMA SessionKeeps ==
    ASSUME ClientInductive, NEW s \in Sessions, SessionStep(s), [Next]_vars
    PROVE  /\ session' \in [Sessions -> Session]
           /\ \A r \in Sessions : SessionOK(session'[r], tasks')
<1> DEFINE m == session[s]
<1>0. m \in Session /\ SessionOK(m, tasks)
  BY DEF ClientInductive, ClientTypeOK
<1>1. ASSUME NEW n \in Session, Move(s, n), SessionOK(n, tasks)
      PROVE  /\ session' \in [Sessions -> Session]
             /\ \A r \in Sessions : SessionOK(session'[r], tasks')
  BY <1>1, SessionKept, Moves DEF ClientInductive
<1>2. CASE \/ \E t \in TaskIds, a \in Asks : Call(s, t, a)
           \/ Type(s)
           \/ Repeat(s)
           \/ \E t \in TaskIds : Retry(s, t)
  BY <1>1, <1>2, CallMoves, TypeMoves, RepeatMoves, RetryMoves
<1>3. CASE SubmitReaches(s)
  BY <1>3, SessionKept DEF SubmitReaches, ClientInductive, ClientTypeOK
<1>4. CASE Poll(s)
  BY <1>4, PollKeeps
<1>5. CASE \/ TypingFails(s) \/ SubmitAccepted(s) \/ SubmitConflicts(s) \/ SubmitRefused(s)
           \/ GiveUp(s) \/ StartWait(s) \/ StopWaiting(s)
  <2>1. PICK pc : /\ Move(s, [m EXCEPT !.pc = pc]) /\ m.pc # "new"
                  /\ \/ pc = "refused"
                     \/ pc = "uncertain" /\ m.pc \in Submitting
                     \/ pc = "conflict" /\ m.pc \in Submitting
                     \/ pc = "accepted" /\ m.pc \in {"accepted", "waiting"}
                     \/ pc = "accepted" /\ m.pc \in Submitting /\ Known(m)
                     \/ pc = "waiting" /\ m.pc = "accepted"
    <3>1. CASE TypingFails(s)
      BY <3>1 DEF TypingFails
    <3>2. CASE SubmitAccepted(s)
      BY <3>2 DEF SubmitAccepted, Submitting
    <3>3. CASE SubmitConflicts(s)
      BY <3>3 DEF SubmitConflicts, Submitting
    <3>4. CASE SubmitRefused(s)
      BY <3>4 DEF SubmitRefused
    <3>5. CASE GiveUp(s)
      BY <3>5 DEF GiveUp, Submitting
    <3>6. CASE StartWait(s)
      BY <3>6 DEF StartWait
    <3>7. CASE StopWaiting(s)
      BY <3>7 DEF StopWaiting
    <3> QED
      BY <1>5, <3>1, <3>2, <3>3, <3>4, <3>5, <3>6, <3>7
  <2> DEFINE n == [m EXCEPT !.pc = pc]
  <2>2. n \in Session /\ SessionOK(n, tasks)
    BY <1>0, <2>1, StageChanged
  <2> QED
    BY <1>1, <2>1, <2>2
<1> QED
  BY <1>2, <1>3, <1>4, <1>5 DEF SessionStep

LEMMA ClientTyped ==
    ASSUME ClientInductive, [ClientNext]_cvars
    PROVE  strays' \in SUBSET Put
           /\ origin' \in [TaskIds -> Invocation \cup {None}] /\ reaper' \in BOOLEAN
<1> USE DEF ClientInductive, ClientTypeOK
<1>1. ASSUME NEW m, m.task \in TaskIds, m.asked \in Invocation, Create(m)
      PROVE  origin' \in [TaskIds -> Invocation \cup {None}]
  BY <1>1 DEF Create
<1>2. ASSUME NEW s \in Sessions, SubmitReaches(s)
      PROVE  origin' \in [TaskIds -> Invocation \cup {None}]
             /\ UNCHANGED <<strays, reaper>>
  <2>1. session[s].task \in TaskIds /\ session[s].asked \in Invocation
    BY <1>2 DEF SessionOK, Asked, SubmitReaches
  <2> QED
    BY <1>1, <1>2, <2>1 DEF SubmitReaches
<1>3. ASSUME NEW s \in Sessions, GiveUp(s)
      PROVE  strays' \in SUBSET Put /\ UNCHANGED <<origin, reaper>>
  <2> DEFINE m == [task |-> session[s].task, asked |-> session[s].asked,
                   inputs |-> session[s].inputs]
  <2>1. m \in Put
    BY <1>3 DEF SessionOK, Asked, Submitting, GiveUp, Put
  <2>2. strays' = strays \/ strays' = strays \cup {m}
    BY <1>3 DEF GiveUp
  <2> HIDE DEF m
  <2> QED
    BY <1>3, <2>1, <2>2 DEF GiveUp
<1>4. ASSUME NEW s \in Sessions, SessionStep(s)
      PROVE  \/ SubmitReaches(s) \/ GiveUp(s) \/ UNCHANGED <<strays, origin, reaper>>
  BY <1>4 DEF SessionStep, Call, Type, TypingFails, SubmitAccepted, SubmitConflicts,
              SubmitRefused, Repeat, StartWait, Poll, StopWaiting, Retry
<1>5. ASSUME NEW m \in strays, StrayReaches(m) \/ StrayEnds(m)
      PROVE  strays' \in SUBSET Put
             /\ origin' \in [TaskIds -> Invocation \cup {None}] /\ reaper' = reaper
  <2>1. m \in Put /\ m.task \in TaskIds /\ m.asked \in Invocation
    BY DEF Put
  <2> QED
    BY <1>1, <1>5, <2>1 DEF StrayReaches, StrayEnds
<1>6. CASE Reap \/ ReaperDies \/ RestartServer \/ StoreGoesOn \/ Passes \/ UNCHANGED cvars
  <2>1. UNCHANGED <<strays, origin>> /\ (reaper' = reaper \/ reaper' \in {TRUE, FALSE})
    BY <1>6 DEF Reap, ReaperDies, RestartServer, StoreGoesOn, Passes, cvars, users
  <2> QED
    BY <2>1
<1> QED
  BY <1>2, <1>3, <1>4, <1>5, <1>6 DEF ClientNext

LEMMA OthersKeepSessions ==
    ASSUME [ClientNext]_cvars, ~\E s \in Sessions : SessionStep(s)
    PROVE  session' = session
BY DEF ClientNext, StrayReaches, StrayEnds, Reap, ReaperDies, RestartServer, StoreGoesOn,
       Passes, cvars, users

LEMMA ClientStarts == ClientInit => ClientInductive
<1> SUFFICES ASSUME ClientInit PROVE ClientInductive
  OBVIOUS
<1>1. Inductive
  BY InitInductive DEF ClientInit
<1>2. New \in Session
  BY DEF New, Session
<1>3. ClientTypeOK
  BY <1>2 DEF ClientInit, ClientTypeOK
<1>4. VersionsResolved
  BY DEF ClientInit, Init, NoRow, VersionsResolved
<1>5. SessionOK(New, tasks)
  BY DEF New, SessionOK, Asked, Told, Repeats, Submitting
<1>6. \A s \in Sessions : SessionOK(session[s], tasks)
  BY <1>5 DEF ClientInit
<1> QED
  BY <1>1, <1>3, <1>4, <1>6 DEF ClientInductive

LEMMA ClientGoesOn == ClientInductive /\ [ClientNext]_cvars => ClientInductive'
<1> SUFFICES ASSUME ClientInductive, [ClientNext]_cvars PROVE ClientInductive'
  OBVIOUS
<1>1. [Next]_vars
  BY ClientDrives
<1>2. Inductive' /\ VersionsResolved'
  BY <1>1, NextInductive, NextVersionsResolved DEF ClientInductive
<1>3. /\ session' \in [Sessions -> Session]
      /\ \A s \in Sessions : SessionOK(session'[s], tasks')
  <2>1. CASE \E s \in Sessions : SessionStep(s)
    BY <1>1, <2>1, SessionKeeps
  <2>2. CASE ~\E s \in Sessions : SessionStep(s)
    BY <1>1, <2>2, OthersKeepSessions, SessionKept DEF ClientInductive, ClientTypeOK
  <2> QED
    BY <2>1, <2>2
<1>4. ClientTypeOK'
  BY <1>3, ClientTyped DEF ClientTypeOK
<1> QED
  BY <1>2, <1>3, <1>4 DEF ClientInductive

-----------------------------------------------------------------------------
(* What invocations mean.                                                  *)

\* Inputs that invocation a may have.  Flags mean the same at all times if their version
\* is named; without one it depends on the default of the time.
Meant(a, inputs, defs) ==
    /\ a.flags = None => inputs = a.inputs
    /\ a.flags # None /\ a.version # None =>
           /\ defs[a.function][a.version] # None
           /\ inputs = Typed[<<defs[a.function][a.version], a.flags>>]

Understood(m, rows, defs) ==
    /\ m.pc \in Submitting => Meant(m.asked, m.inputs, defs)
    /\ m.pc = "conflict" => /\ rows[m.task].status # "absent"
                            /\ rows[m.task].submission # Submission(m)

\* The call bears out the invocation that created it.
BornOf(t, a, rows, defs) ==
    /\ rows[t].status # "absent"
    /\ rows[t].submission.function = a.function
    /\ rows[t].submission.version = a.version
    /\ Meant(a, rows[t].submission.inputs, defs)

Meanings ==
    /\ \A s \in Sessions : Understood(session[s], tasks, definitions)
    /\ \A m \in strays : Meant(m.asked, m.inputs, definitions)
    /\ \A t \in TaskIds : origin[t] # None => BornOf(t, origin[t], tasks, definitions)

\* A version means one package for ever.
LEMMA MeaningKept ==
    ASSUME TypeOK, [Next]_vars, NEW a \in Invocation, NEW inputs, Meant(a, inputs, definitions)
    PROVE  Meant(a, inputs, definitions')
<1>1. CASE a.flags # None /\ a.version # None
  <2>1. a.function \in Functions /\ a.version \in Versions
    BY <1>1 DEF Invocation
  <2>2. definitions[a.function][a.version] # None
    BY <1>1 DEF Meant
  <2>3. definitions'[a.function][a.version] = definitions[a.function][a.version]
    BY <2>1, <2>2, DefinitionsGrow
  <2> QED
    BY <2>3 DEF Meant
<1>2. CASE a.flags = None \/ a.version = None
  BY <1>2 DEF Meant
<1> QED
  BY <1>1, <1>2

LEMMA SubmissionKept ==
    ASSUME Inductive, [Next]_vars, NEW t \in TaskIds, tasks[t].status # "absent"
    PROVE  tasks'[t].status # "absent" /\ tasks'[t].submission = tasks[t].submission
BY CallKept DEF Inductive, SameCall

LEMMA UnderstoodKept ==
    ASSUME Inductive, [Next]_vars, NEW m, Asked(m), Understood(m, tasks, definitions)
    PROVE  Understood(m, tasks', definitions')
<1>1. CASE m.pc \in Submitting
  <2>1. m.asked \in Invocation /\ m.task \in TaskIds
    BY <1>1 DEF Asked, Submitting
  <2>2. Meant(m.asked, m.inputs, definitions')
    BY <1>1, <2>1, MeaningKept DEF Understood, Inductive
  <2>3. m.pc = "conflict" => /\ tasks'[m.task].status # "absent"
                             /\ tasks'[m.task].submission # Submission(m)
    BY <2>1, SubmissionKept DEF Understood
  <2> QED
    BY <2>2, <2>3 DEF Understood
<1>2. CASE m.pc \notin Submitting
  BY <1>2 DEF Understood, Submitting
<1> QED
  BY <1>1, <1>2

LEMMA StartingUnderstood ==
    ASSUME NEW n, Starting(n), Asked(n), NEW rows, NEW defs
    PROVE  Understood(n, rows, defs)
BY DEF Starting, Asked, Understood, Meant, Submitting

LEMMA TypeMeans ==
    ASSUME ClientInductive, NEW s \in Sessions, Type(s)
    PROVE  \E n : Move(s, n) /\ Understood(n, tasks, definitions)
<1> DEFINE m == session[s]
           a == m.asked
           inputs == Typed[<<Described(a), a.flags>>]
           n == [m EXCEPT !.pc = "submitting", !.inputs = inputs]
<1>1. /\ m \in Session /\ m.pc = "typing" /\ a.flags # None
      /\ Defined(a.function, Resolve(a)) /\ Move(s, n)
  BY DEF ClientInductive, ClientTypeOK, SessionOK, Asked, Type
<1>2. Meant(a, inputs, definitions)
  BY <1>1 DEF Meant, Described, Defined, Resolve
<1> HIDE DEF inputs
<1>3. n.pc = "submitting" /\ n.inputs = inputs /\ n.asked = a
  BY <1>1 DEF Session
<1> HIDE DEF n
<1>4. Understood(n, tasks, definitions)
  BY <1>2, <1>3 DEF Understood
<1> QED
  BY <1>1, <1>4

\* What a session turns to is understood.
LEMMA StepUnderstood ==
    ASSUME ClientInductive, Meanings, NEW s \in Sessions, SessionStep(s)
    PROVE  \/ UNCHANGED session
           \/ \E n : Move(s, n) /\ Understood(n, tasks, definitions)
<1> DEFINE m == session[s]
<1>1. m \in Session /\ Asked(m) /\ Understood(m, tasks, definitions)
  BY DEF ClientInductive, ClientTypeOK, SessionOK, Meanings
<1>2. CASE \/ \E t \in TaskIds, a \in Asks : Call(s, t, a)
           \/ Repeat(s)
           \/ \E t \in TaskIds : Retry(s, t)
  BY <1>2, CallMoves, RepeatMoves, RetryMoves, StartingUnderstood DEF SessionOK
<1>3. CASE Type(s)
  BY <1>3, TypeMeans
<1>4. CASE Poll(s)
  <2> DEFINE n == [m EXCEPT !.pc = "ended", !.seen = Read[m.task].status]
  <2>1. UNCHANGED session \/ Move(s, n)
    BY <1>4 DEF Poll
  <2>2. n.pc = "ended" /\ n.asked = m.asked /\ n.inputs = m.inputs /\ m.pc \in Submitting
    BY <1>1, <1>4 DEF Session, Poll, Submitting
  <2> HIDE DEF n
  <2>3. Understood(n, tasks, definitions)
    BY <1>1, <2>2 DEF Understood
  <2> QED
    BY <2>1, <2>3
<1>5. CASE SubmitConflicts(s)
  <2> DEFINE n == [m EXCEPT !.pc = "conflict"]
  <2>1. /\ Move(s, n) /\ m.pc \in Submitting
        /\ tasks[m.task].status # "absent" /\ tasks[m.task].submission # Submission(m)
    BY <1>5 DEF SubmitConflicts, Known, Submitting
  <2>2. n.pc = "conflict" /\ n.asked = m.asked /\ n.inputs = m.inputs /\ n.task = m.task
    BY <1>1 DEF Session
  <2> HIDE DEF n
  <2>3. Submission(n) = Submission(m)
    BY <2>2 DEF Submission
  <2>4. Understood(n, tasks, definitions)
    BY <1>1, <2>1, <2>2, <2>3 DEF Understood
  <2> QED
    BY <2>1, <2>4
<1>6. CASE \/ TypingFails(s) \/ SubmitAccepted(s) \/ SubmitRefused(s)
           \/ GiveUp(s) \/ StartWait(s) \/ StopWaiting(s)
  <2>1. PICK pc : /\ Move(s, [m EXCEPT !.pc = pc]) /\ pc # "conflict"
                  /\ pc \in Submitting => m.pc \in Submitting
    <3>1. CASE TypingFails(s)
      BY <3>1 DEF TypingFails, Submitting
    <3>2. CASE SubmitAccepted(s)
      BY <3>2 DEF SubmitAccepted, Submitting
    <3>3. CASE SubmitRefused(s)
      BY <3>3 DEF SubmitRefused, Submitting
    <3>4. CASE GiveUp(s)
      BY <3>4 DEF GiveUp, Submitting
    <3>5. CASE StartWait(s)
      BY <3>5 DEF StartWait, Submitting
    <3>6. CASE StopWaiting(s)
      BY <3>6 DEF StopWaiting, Submitting
    <3> QED
      BY <1>6, <3>1, <3>2, <3>3, <3>4, <3>5, <3>6
  <2> DEFINE n == [m EXCEPT !.pc = pc]
  <2>2. n.pc = pc /\ n.asked = m.asked /\ n.inputs = m.inputs
    BY <1>1 DEF Session
  <2>3. Move(s, n)
    BY <2>1
  <2> HIDE DEF n
  <2>4. Understood(n, tasks, definitions)
    BY <1>1, <2>1, <2>2 DEF Understood
  <2> QED
    BY <2>3, <2>4
<1>7. CASE SubmitReaches(s)
  BY <1>7 DEF SubmitReaches
<1> QED
  BY <1>2, <1>3, <1>4, <1>5, <1>6, <1>7 DEF SessionStep

LEMMA NextUnderstood ==
    ASSUME ClientInductive, Meanings, [ClientNext]_cvars
    PROVE  \A s \in Sessions : Understood(session'[s], tasks', definitions')
<1>1. [Next]_vars
  BY ClientDrives
<1>2. /\ session \in [Sessions -> Session] /\ session' \in [Sessions -> Session]
      /\ \A s \in Sessions : Asked(session'[s])
  BY ClientGoesOn DEF ClientInductive, ClientTypeOK, SessionOK
<1>3. \A s \in Sessions : Understood(session'[s], tasks, definitions)
  <2>1. CASE UNCHANGED session
    BY <2>1 DEF Meanings
  <2>2. ASSUME NEW s \in Sessions, NEW n, Move(s, n), Understood(n, tasks, definitions)
        PROVE  \A r \in Sessions : Understood(session'[r], tasks, definitions)
    BY <1>2, <2>2 DEF Move, Meanings
  <2> QED
    BY <2>1, <2>2, StepUnderstood, OthersKeepSessions
<1> QED
  BY <1>1, <1>2, <1>3, UnderstoodKept DEF ClientInductive

LEMMA BirthKept ==
    ASSUME ClientInductive, Meanings, [Next]_vars, NEW t \in TaskIds, origin[t] # None,
           origin[t] \in Invocation \cup {None}
    PROVE  BornOf(t, origin[t], tasks', definitions')
<1>1. BornOf(t, origin[t], tasks, definitions) /\ origin[t] \in Invocation
  BY DEF Meanings
<1>2. tasks'[t].status # "absent" /\ tasks'[t].submission = tasks[t].submission
  BY <1>1, SubmissionKept DEF BornOf, ClientInductive
<1>3. Meant(origin[t], tasks[t].submission.inputs, definitions')
  BY <1>1, MeaningKept DEF BornOf, ClientInductive, Inductive
<1> QED
  BY <1>1, <1>2, <1>3 DEF BornOf

\* A PUT that creates a call makes it what its invocation means.
LEMMA CreateMeans ==
    ASSUME ClientInductive, Meanings, [Next]_vars, NEW m, m.task \in TaskIds,
           m.asked \in Invocation, Meant(m.asked, m.inputs, definitions), Create(m)
    PROVE  \A t \in TaskIds : origin'[t] # None => BornOf(t, origin'[t], tasks', definitions')
<1> SUFFICES ASSUME NEW t \in TaskIds, origin'[t] # None
             PROVE  BornOf(t, origin'[t], tasks', definitions')
  OBVIOUS
<1>1. origin \in [TaskIds -> Invocation \cup {None}] /\ tasks \in [TaskIds -> Row]
  BY DEF ClientInductive, ClientTypeOK, Inductive, TypeOK
<1>2. CASE t = m.task
  <2>1. origin'[t] = m.asked
    BY <1>1, <1>2 DEF Create
  <2>2. tasks'[t] = [NoRow EXCEPT !.submission = Submission(m),
                                  !.version = Resolve(Submission(m)),
                                  !.status = "queued", !.created = clock]
    BY <1>1, <1>2 DEF Create, Submit
  <2>3. tasks'[t].status = "queued" /\ tasks'[t].submission = Submission(m)
    BY <2>2 DEF NoRow
  <2>4. Meant(m.asked, m.inputs, definitions')
    BY MeaningKept DEF ClientInductive, Inductive
  <2> QED
    BY <2>1, <2>3, <2>4 DEF BornOf, Submission
<1>3. CASE t # m.task
  <2>1. origin'[t] = origin[t] /\ origin[t] \in Invocation
    BY <1>1, <1>3 DEF Create
  <2> QED
    BY <2>1, BirthKept
<1> QED
  BY <1>2, <1>3

LEMMA NextMeanings ==
    ASSUME ClientInductive, Meanings, [ClientNext]_cvars
    PROVE  Meanings'
<1>1. [Next]_vars
  BY ClientDrives
<1>2. \A s \in Sessions : Understood(session'[s], tasks', definitions')
  BY NextUnderstood
<1>3. strays \in SUBSET Put /\ \A m \in strays : Meant(m.asked, m.inputs, definitions)
  BY DEF ClientInductive, ClientTypeOK, Meanings
<1>4. \A m \in strays' : Meant(m.asked, m.inputs, definitions')
  <2>1. \A m \in strays : Meant(m.asked, m.inputs, definitions')
    BY <1>1, <1>3, MeaningKept DEF Put, ClientInductive, Inductive
  <2>2. ASSUME NEW s \in Sessions, GiveUp(s)
        PROVE  \A m \in strays' : Meant(m.asked, m.inputs, definitions')
    <3> DEFINE m == [task |-> session[s].task, asked |-> session[s].asked,
                     inputs |-> session[s].inputs]
    <3>1. session[s].pc \in Submitting /\ session[s].asked \in Invocation
      BY <2>2 DEF GiveUp, Submitting, ClientInductive, SessionOK, Asked
    <3>2. Meant(m.asked, m.inputs, definitions)
      BY <3>1 DEF Meanings, Understood
    <3>3. Meant(m.asked, m.inputs, definitions')
      BY <1>1, <3>1, <3>2, MeaningKept DEF ClientInductive, Inductive
    <3>4. strays' \subseteq strays \cup {m}
      BY <2>2 DEF GiveUp
    <3> QED
      BY <2>1, <3>3, <3>4
  <2>3. ASSUME ~\E s \in Sessions : GiveUp(s)
        PROVE  strays' \subseteq strays
    BY <2>3 DEF ClientNext, SessionStep, Call, Type, TypingFails, SubmitReaches, SubmitAccepted,
                SubmitConflicts, SubmitRefused, Repeat, StartWait, Poll, StopWaiting, Retry,
                StrayReaches, StrayEnds, Reap, ReaperDies, RestartServer, StoreGoesOn, Passes,
                cvars, users
  <2> QED
    BY <2>1, <2>2, <2>3
<1>5. \A t \in TaskIds : origin'[t] # None => BornOf(t, origin'[t], tasks', definitions')
  <2>1. ASSUME NEW s \in Sessions, SubmitReaches(s)
        PROVE  \A t \in TaskIds : origin'[t] # None =>
                   BornOf(t, origin'[t], tasks', definitions')
    <3>1. /\ session[s].task \in TaskIds /\ session[s].asked \in Invocation
          /\ Meant(session[s].asked, session[s].inputs, definitions) /\ Create(session[s])
      BY <2>1 DEF SubmitReaches, Submitting, ClientInductive, SessionOK, Asked, Meanings,
                  Understood
    <3> QED
      BY <1>1, <3>1, CreateMeans
  <2>2. ASSUME NEW m \in strays, StrayReaches(m)
        PROVE  \A t \in TaskIds : origin'[t] # None =>
                   BornOf(t, origin'[t], tasks', definitions')
    <3>1. m.task \in TaskIds /\ m.asked \in Invocation /\ Create(m)
      BY <1>3, <2>2 DEF StrayReaches, Put
    <3> QED
      BY <1>1, <1>3, <3>1, CreateMeans
  <2>3. CASE UNCHANGED origin
    BY <1>1, <2>3, BirthKept DEF ClientInductive, ClientTypeOK
  <2>4. ASSUME ~\E s \in Sessions : SubmitReaches(s), ~\E m \in strays : StrayReaches(m)
        PROVE  UNCHANGED origin
    BY <2>4 DEF ClientNext, SessionStep, Call, Type, TypingFails, SubmitAccepted,
                SubmitConflicts, SubmitRefused, GiveUp, Repeat, StartWait, Poll, StopWaiting,
                Retry, StrayEnds, Reap, ReaperDies, RestartServer, StoreGoesOn, Passes,
                cvars, users
  <2> QED
    BY <2>1, <2>2, <2>3, <2>4
<1> QED
  BY <1>2, <1>4, <1>5 DEF Meanings

-----------------------------------------------------------------------------
(* Theorems.                                                               *)

\* What sessions know of the table is true, and stays so.
THEOREM ClientInvariance == ClientSpec => []ClientInductive
BY ClientStarts, ClientGoesOn, PTL DEF ClientSpec

\* Whatever clients, the reaper and restarts do, the tables go through the steps of Store,
\* so all that is proved of Store holds.
THEOREM ClientDrivesStore == ClientSpec => Spec
<1>1. ClientInit => Init
  BY DEF ClientInit
<1>2. ClientInductive /\ [ClientNext]_cvars => [Next]_vars
  BY ClientDrives
<1> QED
  BY <1>1, <1>2, ClientInvariance, PTL DEF ClientSpec, Spec

\* What the store alone promises of calls holds whatever users do and whoever reaps.
THEOREM ClientsKeepLifecycle == ClientSpec => ImplementsLifecycle
BY ClientDrivesStore, Implementation, PTL

\* The variables have their types.
THEOREM ClientTypeCorrect == ClientSpec => []ClientTypeOK
<1>1. ClientInductive => ClientTypeOK
  BY DEF ClientInductive
<1> QED
  BY <1>1, ClientInvariance, PTL

\* Store.submit acknowledges only the call that was asked for, to every sender, however
\* many times and however late the submission arrives.
THEOREM AcknowledgedIsAsked == ClientSpec => []AcceptedAsAsked
<1>1. ClientInductive => AcceptedAsAsked
  BY DEF ClientInductive, SessionOK, Told, AcceptedAsAsked, Acknowledged
<1> QED
  BY <1>1, ClientInvariance, PTL

\* Client.wait reports the end of the call, and the call has no other.
THEOREM ReportedEndIsTheEnd == ClientSpec => []WaitIsTrue
<1>1. ClientInductive => WaitIsTrue
  BY DEF ClientInductive, SessionOK, Told, WaitIsTrue
<1> QED
  BY <1>1, ClientInvariance, PTL

\* What Client.retry has had accepted runs the package and the inputs of the original.
THEOREM RetriesRepeat == ClientSpec => []RetryRepeats
<1>1. ClientInductive => RetryRepeats
  <2> SUFFICES ASSUME ClientInductive, NEW s \in Sessions, Acknowledged(s),
                      session[s].original # None
               PROVE  /\ PackageOf(session[s].task) = PackageOf(session[s].original)
                      /\ tasks[session[s].task].submission.inputs
                             = tasks[session[s].original].submission.inputs
    BY DEF RetryRepeats
  <2> DEFINE m == session[s]
             t == m.task
             old == m.original
  <2>1. /\ t \in TaskIds /\ old \in TaskIds
        /\ tasks[t].status # "absent" /\ tasks[t].submission = Submission(m)
        /\ m.asked = Again(tasks, old) /\ tasks[old].status # "absent"
    BY DEF ClientInductive, SessionOK, Asked, Told, Repeats, Acknowledged
  <2>2. /\ m.asked.function = tasks[old].submission.function
        /\ m.asked.version = tasks[old].version
        /\ m.asked.flags = None /\ m.asked.inputs = tasks[old].submission.inputs
    BY <2>1 DEF Again
  <2>3. m.inputs = tasks[old].submission.inputs
    BY <2>2 DEF ClientInductive, SessionOK, Asked, Acknowledged
  <2>4. tasks[old].version # None
    BY <2>1, NoneIsNull DEF ClientInductive, Inductive, RowsWellFormed, WellFormed
  <2>5. /\ tasks[t].submission.function = tasks[old].submission.function
        /\ tasks[t].submission.version = tasks[old].version
        /\ tasks[t].submission.inputs = tasks[old].submission.inputs
    BY <2>1, <2>2, <2>3 DEF Submission
  <2>6. tasks[t].version = tasks[old].version
    BY <2>1, <2>4, <2>5 DEF ClientInductive, VersionsResolved
  <2> QED
    BY <2>5, <2>6 DEF PackageOf
<1> QED
  BY <1>1, ClientInvariance, PTL

\* An invocation that names its version is never in conflict with the call it created,
\* whatever has been published between the two and whoever else submits.
THEOREM VersionedRepeats == ClientSpec => []VersionedRepeatIsRecognised
<1>1. ClientInit => Meanings
  BY DEF ClientInit, New, Meanings, Understood, Submitting
<1>2. ClientInductive /\ Meanings /\ [ClientNext]_cvars => Meanings'
  BY NextMeanings
<1>3. ClientInductive /\ Meanings => VersionedRepeatIsRecognised
  <2> SUFFICES ASSUME ClientInductive, Meanings, NEW s \in Sessions,
                      session[s].pc = "conflict", session[s].asked.version # None,
                      origin[session[s].task] = session[s].asked
               PROVE  FALSE
    BY DEF VersionedRepeatIsRecognised
  <2> DEFINE m == session[s]
             q == tasks[m.task].submission
  <2>1. m.task \in TaskIds /\ m.asked \in Invocation
    BY DEF ClientInductive, SessionOK, Asked
  <2>2. /\ Meant(m.asked, m.inputs, definitions)
        /\ tasks[m.task].status # "absent" /\ q # Submission(m)
    BY DEF Meanings, Understood, Submitting
  <2>3. BornOf(m.task, m.asked, tasks, definitions)
    BY <2>1 DEF Meanings
  <2>4. q.inputs = m.inputs
    BY <2>2, <2>3 DEF BornOf, Meant
  <2>5. q \in Submissions
    BY <2>1, <2>2 DEF ClientInductive, Inductive, RowsWellFormed, WellFormed
  <2>6. q = [function |-> q.function, version |-> q.version, inputs |-> q.inputs]
    BY <2>5 DEF Submissions
  <2> QED
    BY <2>2, <2>3, <2>4, <2>6 DEF BornOf, Submission
<1> QED
  BY <1>1, <1>2, <1>3, ClientInvariance, PTL DEF ClientSpec

=============================================================================
