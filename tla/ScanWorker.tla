----------------------------- MODULE ScanWorker -----------------------------
(***************************************************************************)
(* run_scan (webapp/tasks.py): one ARQ job per scan, MaxJobs of them at a  *)
(* time.  job[s] names the next command of the job of scan s.  A job is    *)
(* tried once (max_tries = 1), so a job whose worker dies is lost.         *)
(***************************************************************************)
EXTENDS ScanStore

CONSTANTS
    MaxJobs         \* COS_WEB_MAX_WORKERS over all workers

ASSUME MaxJobsAssumption == MaxJobs \in Nat \ {0}

VARIABLES
    job,            \* where the job of each scan stands
    named,          \* jobs whose record carried metadata, so a target
    fingerprint,    \* jobs that hold a prober fingerprint in memory
    outcome,        \* how the probing of each running job ended
    strikes         \* scans counted against the network that asked for them

workerVars == <<job, named, fingerprint, outcome, strikes>>

Active == {"lookup", "record", "unline", "read", "start", "take", "forget",
           "probe", "leave", "reread", "finish", "strike"}

JobSteps == {"waiting", "done", "expired", "lost"} \cup Active

(* "refused" is a target the guard rejects, and any other exception that    *)
(* marks the scan failed and counts nothing; "suspicious" is a ScanError or *)
(* a timeout, which _count_non_opencloud holds against the client.          *)
Outcomes == {"completed", "refused", "suspicious"}

WorkerTypeOK ==
    /\ job \in [Scans -> JobSteps]
    /\ named \subseteq Scans
    /\ fingerprint \subseteq Scans
    /\ outcome \in [Scans -> Outcomes \cup {"none"}]
    /\ strikes \subseteq Scans

WorkerInit ==
    /\ job = [s \in Scans |-> "waiting"]
    /\ named = {}
    /\ fingerprint = {}
    /\ outcome = [s \in Scans |-> "none"]
    /\ strikes = {}

Step(s, from, to) ==
    /\ job[s] = from
    /\ job' = [job EXCEPT ![s] = to]

(* The job ends and its local variables go with it.                         *)
Leave(s, to) ==
    /\ job' = [job EXCEPT ![s] = to]
    /\ named' = named \ {s}
    /\ fingerprint' = fingerprint \ {s}
    /\ outcome' = [outcome EXCEPT ![s] = "none"]

FreeSlot == Cardinality({s \in Scans : job[s] \in Active}) < MaxJobs

-----------------------------------------------------------------------------
TakeJob(s) ==
    /\ s \in jobs
    /\ FreeSlot
    /\ Step(s, "waiting", "lookup")
    /\ jobs' = jobs \ {s}
    /\ UNCHANGED <<namespace, line, lineTTL, named, fingerprint, outcome, strikes>>

(* store.get: the status first.  Without one the scan has expired, and the  *)
(* job returns at once: the uuid is left wherever it is in the line.        *)
Lookup(s) ==
    /\ job[s] = "lookup"
    /\ IF status[s] = "none"
       THEN Leave(s, "expired")
       ELSE /\ Step(s, "lookup", "record")
            /\ UNCHANGED <<named, fingerprint, outcome>>
    /\ UNCHANGED <<storeVars, strikes>>

LookupRecord(s) ==
    /\ Step(s, "record", "unline")
    /\ named' = IF s \in meta THEN named \cup {s} ELSE named
    /\ UNCHANGED <<storeVars, fingerprint, outcome, strikes>>

(* Mutant: mark_running without its LREM.                                   *)
MarkRunningStayInLine(s) ==
    /\ Step(s, "unline", "read")
    /\ UNCHANGED <<storeVars, named, fingerprint, outcome, strikes>>

(* mark_running: LREM, then _transition's read, then its conditional write. *)
MarkRunningLeaveLine(s) ==
    /\ Step(s, "unline", "read")
    /\ LeaveLine(s)
    /\ UNCHANGED <<named, fingerprint, outcome, strikes>>

MarkRunningRead(s) ==
    /\ Step(s, "read", IF s \in meta THEN "start" ELSE "take")
    /\ UNCHANGED <<storeVars, named, fingerprint, outcome, strikes>>

MarkRunning(s) ==
    /\ Step(s, "start", "take")
    /\ SetIfExists(s, Running)
    /\ UNCHANGED <<named, fingerprint, outcome, strikes>>

(* take_prober: GET, then DEL.                                              *)
TakeProber(s) ==
    /\ Step(s, "take", "forget")
    /\ fingerprint' = IF s \in prober THEN fingerprint \cup {s} ELSE fingerprint
    /\ UNCHANGED <<storeVars, named, outcome, strikes>>

(* Mutant: take_prober without its DEL.                                     *)
KeepProber(s) ==
    /\ Step(s, "forget", "probe")
    /\ UNCHANGED <<storeVars, named, fingerprint, outcome, strikes>>

ForgetProber(s) ==
    /\ Step(s, "forget", "probe")
    /\ DeleteProber(s)
    /\ UNCHANGED <<named, fingerprint, outcome, strikes>>

(* The exclusions are read, the target is validated and the child process   *)
(* probes it.  A record without metadata names the empty target, which the  *)
(* guard refuses.                                                           *)
Probe(s) ==
    /\ Step(s, "probe", "leave")
    /\ \E end \in Outcomes :
          /\ s \notin named => end = "refused"
          /\ outcome' = [outcome EXCEPT ![s] = end]
    /\ UNCHANGED <<storeVars, named, fingerprint, strikes>>

(* mark_completed or mark_failed: LREM, read, conditional write.            *)
MarkEndLeaveLine(s) ==
    /\ Step(s, "leave", "reread")
    /\ LeaveLine(s)
    /\ UNCHANGED <<named, fingerprint, outcome, strikes>>

FinalState(end) == IF end = "completed" THEN Completed ELSE Failed

Counted(s) == outcome[s] = "suspicious" /\ s \in fingerprint

MarkEndRead(s) ==
    /\ Step(s, "reread", "finish")
    /\ s \in meta
    /\ UNCHANGED <<storeVars, named, fingerprint, outcome, strikes>>

MarkEndMissing(s) ==
    /\ job[s] = "reread"
    /\ s \notin meta
    /\ IF Counted(s)
       THEN /\ Step(s, "reread", "strike")
            /\ UNCHANGED <<named, fingerprint, outcome>>
       ELSE Leave(s, "done")
    /\ UNCHANGED <<storeVars, strikes>>

MarkEnd(s) ==
    /\ job[s] = "finish"
    /\ SetIfExists(s, FinalState(outcome[s]))
    /\ IF Counted(s)
       THEN /\ Step(s, "finish", "strike")
            /\ UNCHANGED <<named, fingerprint, outcome>>
       ELSE Leave(s, "done")
    /\ UNCHANGED strikes

CountStrike(s) ==
    /\ job[s] = "strike"
    /\ strikes' = strikes \cup {s}
    /\ Leave(s, "done")
    /\ UNCHANGED storeVars

(* The worker is killed, restarted into another release, or cancels the job *)
(* (CancelledError is no Exception, so nothing is marked).  ARQ finds one   *)
(* try used up and does not run the job again.                              *)
LoseJob(s) ==
    /\ job[s] \in Active
    /\ Leave(s, "lost")
    /\ UNCHANGED <<storeVars, strikes>>

JobStep(s) ==
    \/ Lookup(s)
    \/ LookupRecord(s)
    \/ MarkRunningLeaveLine(s)
    \/ MarkRunningRead(s)
    \/ MarkRunning(s)
    \/ TakeProber(s)
    \/ ForgetProber(s)
    \/ Probe(s)
    \/ MarkEndLeaveLine(s)
    \/ MarkEndRead(s)
    \/ MarkEndMissing(s)
    \/ MarkEnd(s)
    \/ CountStrike(s)

=============================================================================
