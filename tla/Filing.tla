------------------------------- MODULE Filing -------------------------------
(***************************************************************************)
(* What taskport promises about uploads, with no .part file, no directory, *)
(* no transaction and no lease: an upload is filed at one moment or not at *)
(* all, and from that moment on can be downloaded; of two that clash, the  *)
(* first stays; nothing that was filed ever goes; and to file the same     *)
(* thing again changes nothing, so that the newest on a shelf (the default *)
(* version of a function) is the last that was new when it was filed.      *)
(***************************************************************************)
CONSTANTS
    Parcels,    \* uploads
    Things,     \* what may be uploaded
    Nothing,
    Spot,       \* where each thing goes: two in one spot clash
    Shelves,
    Shelf       \* the shelf of each thing

VARIABLES
    progress,   \* where each upload stands
    thing,      \* what it brings
    filed,      \* what has been filed
    readable,   \* what a download would find
    newest      \* on each shelf

filing == <<progress, thing, filed, readable, newest>>

FilingInit ==
    /\ progress = [h \in Parcels |-> "idle"]
    /\ thing = [h \in Parcels |-> Nothing]
    /\ filed = {}
    /\ readable = {}
    /\ newest = [s \in Shelves |-> Nothing]

Begin(h, x) ==
    /\ progress[h] = "idle"
    /\ progress' = [progress EXCEPT ![h] = "underway"]
    /\ thing' = [thing EXCEPT ![h] = x]
    /\ UNCHANGED <<filed, readable, newest>>

\* The upload is answered, and what it brought is there, at once and for good.
File(h) ==
    /\ progress[h] = "underway"
    /\ \A x \in filed : Spot[x] = Spot[thing[h]] => x = thing[h]
    /\ progress' = [progress EXCEPT ![h] = "answered"]
    /\ filed' = filed \cup {thing[h]}
    /\ readable' = readable \cup {thing[h]}
    /\ newest' = [s \in Shelves |-> IF Shelf[thing[h]] = s /\ thing[h] \notin filed
                                    THEN thing[h] ELSE newest[s]]
    /\ UNCHANGED thing

\* Uploads are refused, broken off, or go down together with the server: without a trace.
Fail(gone) ==
    /\ \A h \in gone : progress[h] = "underway"
    /\ progress' = [h \in Parcels |-> IF h \in gone THEN "failed" ELSE progress[h]]
    /\ UNCHANGED <<thing, filed, readable, newest>>

FilingNext ==
    \/ \E h \in Parcels : File(h) \/ \E x \in Things : Begin(h, x)
    \/ \E gone \in SUBSET Parcels : Fail(gone)

FilingSpec == FilingInit /\ [][FilingNext]_filing

=============================================================================
