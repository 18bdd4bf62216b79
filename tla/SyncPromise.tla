---------------------------- MODULE SyncPromise ----------------------------
(***************************************************************************)
(* What a SyncJob row promises to whoever reads it (GET /sync/:id and the  *)
(* synchronisation screen): it is opened once and ends once, it ends in    *)
(* SUCCESS only on the agent's word, and an ERROR is never taken back.     *)
(* SyncWorker implements this module (SyncWorker!Promised).                *)
(***************************************************************************)
CONSTANT Rows     \* every SyncJob row that may ever exist

VARIABLES
    syncJob,      \* SyncJob.status, "none" while there is no such row
    reported      \* rows whose success an agent has reported

promise == <<syncJob, reported>>

Init ==
    /\ syncJob  = [r \in Rows |-> "none"]
    /\ reported = {}

Turn(r, from, to) ==
    /\ syncJob[r] = from
    /\ syncJob' = [syncJob EXCEPT ![r] = to]
    /\ UNCHANGED reported

Open(r) == Turn(r, "none", "IN_PROGRESS")

\* A package with nothing in it fails as it is created.
OpenEmpty(r) == Turn(r, "none", "ERROR")

Report(r) ==
    /\ reported' = reported \cup {r}
    /\ UNCHANGED syncJob

Succeed(r) == r \in reported /\ Turn(r, "IN_PROGRESS", "SUCCESS")

Fail(r) == Turn(r, "IN_PROGRESS", "ERROR")

\* A success whose commit was not acknowledged is reported as an error after all.
Withdraw(r) == Turn(r, "SUCCESS", "ERROR")

\* Deleting a device deletes its history.
Forget(gone) ==
    /\ syncJob' = [r \in Rows |-> IF r \in gone THEN "none" ELSE syncJob[r]]
    /\ UNCHANGED reported

Next ==
    \/ \E r \in Rows :
          Open(r) \/ OpenEmpty(r) \/ Report(r) \/ Succeed(r) \/ Fail(r) \/ Withdraw(r)
    \/ \E gone \in SUBSET Rows : Forget(gone)

Spec == Init /\ [][Next]_promise
=============================================================================
