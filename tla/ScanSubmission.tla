--------------------------- MODULE ScanSubmission ---------------------------
(***************************************************************************)
(* The tail of accept_submission (webapp/app.py): a submission every check *)
(* let through is registered by ScanStore.create, one Redis command at a   *)
(* time, and then enqueued.  submit[s] names the command that comes next.  *)
(***************************************************************************)
EXTENDS ScanStore

CONSTANTS
    ProbeGuard      \* whether prober_for() returns a fingerprint to keep

ASSUME ProbeGuardAssumption == ProbeGuard \in BOOLEAN

VARIABLES
    submit          \* where the handler of each uuid stands

(* Steps of create() still to run, in their order, then the enqueue.        *)
Registering == {"prober", "status", "line", "limit", "enqueue"}

(* "dropped" is an abort before, "aborted" one after the status was set.    *)
SubmitSteps == {"none", "accepted", "dropped", "aborted"} \cup Registering

Unshown == {"prober", "status"}

SubmissionTypeOK == submit \in [Scans -> SubmitSteps]

SubmissionInit == submit = [s \in Scans |-> "none"]

Goto(s, from, to) ==
    /\ submit[s] = from
    /\ submit' = [submit EXCEPT ![s] = to]

CreateMetadata(s) ==
    /\ Goto(s, "none", IF ProbeGuard THEN "prober" ELSE "status")
    /\ SetMetadata(s)

CreateProber(s) ==
    /\ Goto(s, "prober", "status")
    /\ SetProber(s)

CreateStatus(s) ==
    /\ Goto(s, "status", "line")
    /\ SetQueued(s)

CreatePushLine(s) ==
    /\ Goto(s, "line", "limit")
    /\ PushLine(s)

CreateLimitLine(s) ==
    /\ Goto(s, "limit", "enqueue")
    /\ LimitLine

Enqueue(s) ==
    /\ Goto(s, "enqueue", "accepted")
    /\ jobs' = jobs \cup {s}
    /\ UNCHANGED <<namespace, line, lineTTL>>

(* The web process dies, or Redis fails a command and the exception leaves  *)
(* the handler: what was written stays, what was not never will be.         *)
AbortSubmission(s) ==
    /\ submit[s] \in Registering
    /\ submit' = [submit EXCEPT ![s] = IF @ \in Unshown THEN "dropped"
                                       ELSE "aborted"]
    /\ UNCHANGED storeVars

(* What a handler that has begun to register its scan does next.            *)
ContinueSubmission(s) ==
    \/ CreateProber(s)
    \/ CreateStatus(s)
    \/ CreatePushLine(s)
    \/ CreateLimitLine(s)
    \/ Enqueue(s)

=============================================================================
