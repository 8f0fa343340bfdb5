----------------------------- MODULE ScanProcess -----------------------------
(***************************************************************************)
(* The one step Probe of ScanWorker in full: the exclusions and the target *)
(* are checked, execute_scan_process spawns a child with a pipe and waits  *)
(* for its message, and the child is killed and reaped before the job goes *)
(* on, whatever ended the wait (webapp/scan_process.py).  The service that *)
(* runs its probes this way implements ScanService.                        *)
(***************************************************************************)
EXTENDS ScanService

VARIABLES
    parent,     \* where execute_scan_process stands for each job
    child,      \* the process that probes for each job
    pipe,       \* the message in its pipe
    verdict,    \* how the wait for it ended
    orphans     \* children whose worker is gone: nobody waits for them

procVars == <<parent, child, pipe, verdict, orphans>>

Messages == {"completed", "rejected", "failed", "error"}

(* A job that is cancelled raises CancelledError out of the wait, and its   *)
(* finally clause runs all the same.                                        *)
Verdicts == Outcomes \cup {"cancelled"}

ProcTypeOK ==
    /\ TypeOK
    /\ parent \in [Scans -> {"idle", "spawn", "wait", "kill", "join"}]
    /\ child \in [Scans -> {"none", "alive", "exited"}]
    /\ pipe \in [Scans -> Messages \cup {"empty"}]
    /\ verdict \in [Scans -> Verdicts \cup {"none"}]
    /\ orphans \subseteq Scans

ProcInit ==
    /\ Init
    /\ parent = [s \in Scans |-> "idle"]
    /\ child = [s \in Scans |-> "none"]
    /\ pipe = [s \in Scans |-> "empty"]
    /\ verdict = [s \in Scans |-> "none"]
    /\ orphans = {}

ParentStep(s, from, to) ==
    /\ job[s] = "probe"
    /\ parent[s] = from
    /\ parent' = [parent EXCEPT ![s] = to]

(* The probing of s has ended in the eyes of run_scan.                      *)
EndProbe(s, end) ==
    /\ Step(s, "probe", "leave")
    /\ outcome' = [outcome EXCEPT ![s] = end]
    /\ UNCHANGED <<storeVars, submit, named, fingerprint, strikes, purge, owed>>

-----------------------------------------------------------------------------
(* Mutant: the child is left to validate the target.                        *)
CheckLater(s) ==
    /\ ParentStep(s, "idle", "spawn")
    /\ UNCHANGED <<vars, child, pipe, verdict, orphans>>

(* The exclusions, validate_target and the reference data, before a process *)
(* exists.  A record without metadata names the empty target.               *)
Check(s) ==
    \/ /\ s \in named
       /\ ParentStep(s, "idle", "spawn")
       /\ UNCHANGED <<vars, child, pipe, verdict, orphans>>
    \/ /\ parent[s] = "idle"
       /\ EndProbe(s, "refused")
       /\ UNCHANGED procVars

(* process.start() - or its OSError, which marks the scan failed.           *)
Spawn(s) ==
    \/ /\ ParentStep(s, "spawn", "wait")
       /\ child' = [child EXCEPT ![s] = "alive"]
       /\ UNCHANGED <<vars, pipe, verdict, orphans>>
    \/ /\ ParentStep(s, "spawn", "idle")
       /\ EndProbe(s, "refused")
       /\ UNCHANGED <<child, pipe, verdict, orphans>>

(* The child sends one message and exits; one that crashes sends none.      *)
ChildSends(s) ==
    /\ child[s] = "alive"
    /\ pipe[s] = "empty"
    /\ s \notin orphans
    /\ \E m \in Messages : pipe' = [pipe EXCEPT ![s] = m]
    /\ UNCHANGED <<vars, parent, child, verdict, orphans>>

(* An orphan's pipe has no reader, and nobody reaps it but init.            *)
ChildExits(s) ==
    /\ child[s] = "alive"
    /\ child' = [child EXCEPT ![s] = IF s \in orphans THEN "none" ELSE "exited"]
    /\ orphans' = orphans \ {s}
    /\ UNCHANGED <<vars, parent, pipe, verdict>>

VerdictOf(m) ==
    CASE m = "completed" -> "completed"
      [] m = "failed"    -> "suspicious"
      [] OTHER           -> "refused"      \* TargetRejected, RuntimeError

Awaited(s, end) ==
    /\ ParentStep(s, "wait", "kill")
    /\ verdict' = [verdict EXCEPT ![s] = end]
    /\ UNCHANGED <<vars, child, pipe, orphans>>

Receive(s) == pipe[s] # "empty" /\ Awaited(s, VerdictOf(pipe[s]))

(* A child that is gone without a message leaves an EOFError.               *)
ReceiveEof(s) == pipe[s] = "empty" /\ child[s] = "exited" /\ Awaited(s, "refused")

(* wait_for gives up, although an answer may just have come.                *)
Timeout(s) == Awaited(s, "suspicious")

(* ARQ's own timeout, or a worker that shuts down.                          *)
Cancel(s) == Awaited(s, "cancelled")

(* Mutant: only the wait is given up, the thread and its child run on.      *)
LeaveRunning(s) ==
    /\ ParentStep(s, "kill", "join")
    /\ UNCHANGED <<vars, child, pipe, verdict, orphans>>

(* finally: kill it if it is alive still ...                                *)
Kill(s) ==
    /\ ParentStep(s, "kill", "join")
    /\ child' = [child EXCEPT ![s] = "exited"]
    /\ UNCHANGED <<vars, pipe, verdict, orphans>>

(* Mutant: the slot is freed without waiting for the child to be gone.      *)
ReturnUnreaped(s) ==
    /\ ParentStep(s, "join", "idle")
    /\ pipe' = [pipe EXCEPT ![s] = "empty"]
    /\ verdict' = [verdict EXCEPT ![s] = "none"]
    /\ EndProbe(s, IF verdict[s] = "cancelled" THEN "refused" ELSE verdict[s])
    /\ UNCHANGED <<child, orphans>>

(* ... join it, close both ends, and only then return, raise or be lost.    *)
Reap(s) ==
    /\ child[s] = "exited"
    /\ ParentStep(s, "join", "idle")
    /\ child' = [child EXCEPT ![s] = "none"]
    /\ pipe' = [pipe EXCEPT ![s] = "empty"]
    /\ verdict' = [verdict EXCEPT ![s] = "none"]
    /\ IF verdict[s] = "cancelled"
       THEN LoseJob(s) /\ UNCHANGED <<submit, purge, owed>>
       ELSE EndProbe(s, verdict[s])
    /\ UNCHANGED orphans

ParentRuns(s) ==
    Check(s) \/ Spawn(s) \/ Receive(s) \/ ReceiveEof(s) \/ Timeout(s) \/ Kill(s) \/ Reap(s)

(* Every other command of a job, which has no process then.                 *)
JobRuns(s) == job[s] # "probe" /\ RunJob(s) /\ UNCHANGED procVars

(* The worker dies, or execve replaces it: no finally clause runs, and a    *)
(* child is left to itself.                                                 *)
WorkerGone(s) ==
    /\ Lose(s)
    /\ parent' = [parent EXCEPT ![s] = "idle"]
    /\ pipe' = [pipe EXCEPT ![s] = "empty"]
    /\ verdict' = [verdict EXCEPT ![s] = "none"]
    /\ child' = [child EXCEPT ![s] = IF @ = "exited" THEN "none" ELSE @]
    /\ orphans' = IF child[s] = "alive" THEN orphans \cup {s} ELSE orphans

ProcNext ==
    \/ \E s \in Scans :
         \/ (Begin(s) \/ Register(s) \/ Abort(s) \/ StartJob(s) \/ ExpireKeys(s))
               /\ UNCHANGED procVars
         \/ JobRuns(s)
         \/ ParentRuns(s)
         \/ Cancel(s)
         \/ ChildSends(s)
         \/ ChildExits(s)
         \/ WorkerGone(s)
    \/ ExpireQueue /\ UNCHANGED procVars

procAllVars == <<vars, procVars>>

ProcSpec == ProcInit /\ [][ProcNext]_procAllVars

(* As in LiveSpec; of a probing job its own side runs on, which ends with   *)
(* its timeout.  Nothing is assumed of the child.                           *)
ProcLiveSpec ==
    /\ ProcSpec
    /\ \A s \in Scans :
         /\ WF_procAllVars(Register(s) /\ UNCHANGED procVars)
         /\ WF_procAllVars(StartJob(s) /\ UNCHANGED procVars)
         /\ WF_procAllVars(JobRuns(s))
         /\ WF_procAllVars(ParentRuns(s))

-----------------------------------------------------------------------------
(* A slot is given back only when the child that used it is gone, on every  *)
(* path - result, rejection, crash, timeout, cancellation - unless the      *)
(* worker itself is gone (scan_process.py, "Reap the scan, including all    *)
(* probe threads, before releasing its slot").                              *)
ReapedBeforeSlotIsFree ==
    \A s \in Scans : child[s] # "none" => job[s] = "probe" \/ s \in orphans

(* With its process and pipe, a job is still the one step of ScanWorker:    *)
(* the detailed service implements ScanService.                             *)
ProbesAsOneStep == Spec

=============================================================================
