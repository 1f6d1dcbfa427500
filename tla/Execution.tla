----------------------------- MODULE Execution -----------------------------
(***************************************************************************)
(* What taskport promises about running calls, with no claim, no lease, no *)
(* request and no thread: the lifecycle of a call, and of its one script   *)
(* on the machine of its worker.  A script is started at most once, beside *)
(* no other of its worker; what the server learns of a call it learns when *)
(* the script no longer runs; a success is exit code 0 with all outputs;   *)
(* and the run directory stays until the server has a result.              *)
(*                                                                         *)
(* That a worker knows of a living script is only promised where killing   *)
(* a script fails in no way its worker does not notice (CleanKills).       *)
(***************************************************************************)
EXTENDS TaskLifecycle

CONSTANTS Codes, GoodCode, NoCode, Needed, CleanKills

VARIABLES
    script,     \* whether the script of each call was started, and how it ended
    code,       \* its exit code
    kept        \* the calls whose run directory is there

evars == <<vars, script, code, kept>>
machine == <<script, code, kept>>

ExecInit ==
    /\ Init
    /\ script = [t \in Tasks |-> "none"]
    /\ code = [t \in Tasks |-> NoCode]
    /\ kept = {}

\* The script of a call, where it could be known to live, lives no more.
AtRest(t) == CleanKills => script[t] # "alive"

\* A worker has a directory for a call that is its own.
Prepare(t) ==
    /\ owner[t] # Nobody /\ result[t] = NoResult
    /\ t \notin kept /\ script[t] = "none"
    /\ kept' = kept \cup {t}
    /\ UNCHANGED <<vars, script, code>>

\* The call may have been cancelled or lost meanwhile: its worker has yet to learn of it.
Start(t) ==
    /\ t \in kept /\ script[t] = "none"
    /\ result[t] = NoResult
    /\ \A u \in Tasks : owner[u] = owner[t] => AtRest(u)
    /\ script' = [script EXCEPT ![t] = "alive"]
    /\ UNCHANGED <<vars, code, kept>>

\* A script ends by itself, or is killed.
End(t, c) ==
    /\ script[t] = "alive"
    /\ script' = [script EXCEPT ![t] = "ended"]
    /\ code' = [code EXCEPT ![t] = c]
    /\ UNCHANGED <<vars, kept>>

Kill(t) ==
    /\ script[t] = "alive"
    /\ script' = [script EXCEPT ![t] = "killed"]
    /\ UNCHANGED <<vars, code, kept>>

\* No output is taken from under a script that still writes it.
UploadAtRest(t, o) ==
    /\ t \in kept /\ AtRest(t)
    /\ Upload(t, o)
    /\ UNCHANGED machine

\* A success is earned; no result is ahead of the script.
FinishAtRest(t, r) ==
    /\ t \in kept /\ AtRest(t)
    /\ r \in GoodResults => /\ script[t] = "ended" /\ code[t] = GoodCode
                            /\ Needed \subseteq outputs[t]
    /\ Finish(t, r)
    /\ UNCHANGED machine

\* What may be the only copy of the outputs stays while the result is uncertain.
Discard(t) ==
    /\ t \in kept /\ result[t] # NoResult
    /\ kept' = kept \ {t}
    /\ UNCHANGED <<vars, script, code>>

\* Submissions, cancellations, lost leases and assignments, whatever scripts do.
Proceed ==
    /\ \/ \E t \in Tasks : Accept(t) \/ Cancel(t)
       \/ \E gone \in SUBSET Tasks : Lose(gone)
       \/ \E t \in Tasks, w \in Workers, gone \in SUBSET Tasks : Assign(t, w, gone)
    /\ UNCHANGED machine

ExecNext ==
    \/ Proceed
    \/ \E t \in Tasks :
           \/ Prepare(t) \/ Start(t) \/ Kill(t) \/ Discard(t)
           \/ \E c \in Codes : End(t, c)
           \/ \E o \in Outputs : UploadAtRest(t, o)
           \/ \E r \in Results : FinishAtRest(t, r)

ExecSpec == ExecInit /\ [][ExecNext]_evars

=============================================================================
