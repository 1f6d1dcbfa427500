--------------------------- MODULE TaskLifecycle ---------------------------
(***************************************************************************)
(* What taskport promises about calls, with no clock, no lease, no token,  *)
(* no request and no table: the state machine of docs/protocol.md          *)
(* ("A call progresses through ..."), and what goes with it -- a worker    *)
(* runs one call at a time, a call belongs to one worker for ever, it      *)
(* collects outputs only while it runs, and its end is final.              *)
(***************************************************************************)
CONSTANTS Tasks, Workers, Results, GoodResults, Outputs, Nobody, NoResult

VARIABLES
    status,     \* where each call stands
    owner,      \* the one worker a call was ever assigned to
    result,     \* what its worker reported
    outputs     \* what its worker uploaded

vars == <<status, owner, result, outputs>>

Init ==
    /\ status = [t \in Tasks |-> "absent"]
    /\ owner = [t \in Tasks |-> Nobody]
    /\ result = [t \in Tasks |-> NoResult]
    /\ outputs = [t \in Tasks |-> {}]

Running(w) == {t \in Tasks : status[t] = "running" /\ owner[t] = w}

RunningTasks == {t \in Tasks : status[t] = "running"}

Accept(t) ==
    /\ status[t] = "absent"
    /\ status' = [status EXCEPT ![t] = "queued"]
    /\ UNCHANGED <<owner, result, outputs>>

Cancel(t) ==
    /\ status[t] \in {"queued", "running"}
    /\ status' = [status EXCEPT ![t] = "cancelled"]
    /\ UNCHANGED <<owner, result, outputs>>

\* The server gives up on any set of running calls.
Lose(gone) ==
    /\ gone \subseteq RunningTasks
    /\ status' = [t \in Tasks |-> IF t \in gone THEN "lost" ELSE status[t]]
    /\ UNCHANGED <<owner, result, outputs>>

\* A worker with no other call gets a queued one; lost calls do not count.
Assign(t, w, gone) ==
    /\ status[t] = "queued"
    /\ gone \subseteq RunningTasks
    /\ Running(w) \subseteq gone
    /\ status' = [u \in Tasks |-> IF u \in gone THEN "lost"
                                  ELSE IF u = t THEN "running" ELSE status[u]]
    /\ owner' = [owner EXCEPT ![t] = w]
    /\ UNCHANGED <<result, outputs>>

Upload(t, o) ==
    /\ status[t] = "running"
    /\ outputs' = [outputs EXCEPT ![t] = @ \cup {o}]
    /\ UNCHANGED <<status, owner, result>>

Finish(t, r) ==
    /\ status[t] = "running"
    /\ status' = [status EXCEPT ![t] = IF r \in GoodResults THEN "succeeded" ELSE "failed"]
    /\ result' = [result EXCEPT ![t] = r]
    /\ UNCHANGED <<owner, outputs>>

Next ==
    \/ \E t \in Tasks : Accept(t) \/ Cancel(t)
    \/ \E gone \in SUBSET Tasks : Lose(gone)
    \/ \E t \in Tasks, w \in Workers, gone \in SUBSET Tasks : Assign(t, w, gone)
    \/ \E t \in Tasks, o \in Outputs : Upload(t, o)
    \/ \E t \in Tasks, r \in Results : Finish(t, r)

Spec == Init /\ [][Next]_vars

=============================================================================
