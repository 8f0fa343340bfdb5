--------------------------- MODULE ScanProcessProofs ---------------------------
(***************************************************************************)
(* The probing of a scan by a child process, for any scans and slots: a    *)
(* slot is never free while the child that used it lives, and the service  *)
(* with its processes and pipes implements the one without.                *)
(***************************************************************************)
EXTENDS ScanProcess, ScanServiceProofs

(* What a command of one job does to the others, and when it can run.       *)
LEMMA JobMoves ==
    ASSUME TypeOK, NEW s \in Scans, RunJob(s) \/ Lose(s) \/ StartJob(s)
    PROVE  /\ job' \in [Scans -> JobSteps]
           /\ \A t \in Scans \ {s} : job'[t] = job[t] /\ (t \in named' <=> t \in named)
           /\ job[s] # "lost"
           /\ Lose(s) => job'[s] = "lost"
<1> USE DEF TypeOK, WorkerTypeOK, JobSteps, Active, Step, Leave
<1>1. CASE Lose(s)
  BY <1>1 DEF Lose, LoseJob
<1>2. CASE StartJob(s)
  BY <1>2 DEF StartJob, TakeJob, Lose, LoseJob
<1>3. CASE RunJob(s)
  <2>1. CASE Lookup(s) \/ LookupRecord(s) \/ Probe(s)
    BY <2>1, <1>3 DEF Lookup, LookupRecord, Probe, Lose, LoseJob
  <2>2. CASE MarkRunningLeaveLine(s) \/ MarkRunningRead(s) \/ MarkRunning(s)
    BY <2>2, <1>3 DEF MarkRunningLeaveLine, MarkRunningRead, MarkRunning, Lose, LoseJob
  <2>3. CASE TakeProber(s) \/ ForgetProber(s) \/ CountStrike(s)
    BY <2>3, <1>3 DEF TakeProber, ForgetProber, CountStrike, Lose, LoseJob
  <2>4. CASE MarkEndLeaveLine(s) \/ MarkEndRead(s)
    BY <2>4, <1>3 DEF MarkEndLeaveLine, MarkEndRead, Lose, LoseJob
  <2>5. CASE MarkEndMissing(s) \/ MarkEnd(s)
    BY <2>5, <1>3 DEF MarkEndMissing, MarkEnd, Lose, LoseJob
  <2> QED
    BY <1>3, <2>1, <2>2, <2>3, <2>4, <2>5 DEF RunJob, JobStep
<1> QED
  BY <1>1, <1>2, <1>3

-----------------------------------------------------------------------------
(* A wait belongs to a job that probes a target it knows, it ends in one of *)
(* the ways known, a child belongs to a wait or to nobody, and nobody is    *)
(* only where the worker is gone.                                           *)
Attended ==
    \A s \in Scans :
        /\ parent[s] # "idle" => job[s] = "probe" /\ s \in named
        /\ parent[s] \in {"kill", "join"} => verdict[s] \in Verdicts
        /\ parent[s] \in {"idle", "spawn"} => child[s] = "none" \/ s \in orphans
        /\ s \in orphans => job[s] = "lost"

(* The variables of the processes keep their type.                          *)
ProcShape ==
    /\ parent \in [Scans -> {"idle", "spawn", "wait", "kill", "join"}]
    /\ child \in [Scans -> {"none", "alive", "exited"}]
    /\ pipe \in [Scans -> Messages \cup {"empty"}]
    /\ verdict \in [Scans -> Verdicts \cup {"none"}]
    /\ orphans \subseteq Scans

ProcInv == ProcShape /\ Attended /\ ReapedBeforeSlotIsFree

(* At first there is no parent at work and no child.                        *)
LEMMA InitProcInv == ProcInit => ProcInv
BY DEF ProcInit, ProcInv, ProcShape, Attended, ReapedBeforeSlotIsFree

(* The end of a wait is an end of the probing that ScanWorker knows.        *)
LEMMA EndProbeIsProbe ==
    ASSUME NEW s \in Scans, NEW end \in Outcomes, EndProbe(s, end),
           s \notin named => end = "refused"
    PROVE  RunJob(s)
BY DEF EndProbe, RunJob, JobStep, Probe, storeVars

(* Every step of the detailed service is a step of ScanService, or none of  *)
(* its business.                                                            *)
LEMMA ProcStep == ProcInv /\ [ProcNext]_procAllVars => [Next]_vars
<1> SUFFICES ASSUME ProcInv, [ProcNext]_procAllVars PROVE [Next]_vars
  OBVIOUS
<1> USE DEF ProcInv
<1>1. ASSUME NEW s \in Scans,
             Begin(s) \/ Register(s) \/ Abort(s) \/ StartJob(s) \/ ExpireKeys(s)
      PROVE  Next
  BY <1>1 DEF Next
<1>2. ASSUME NEW s \in Scans, JobRuns(s) \/ WorkerGone(s)
      PROVE  Next
  BY <1>2 DEF Next, JobRuns, WorkerGone
<1>3. ASSUME NEW s \in Scans, Check(s) \/ Spawn(s)
      PROVE  [Next]_vars
  <2>1. "refused" \in Outcomes
    BY DEF Outcomes
  <2>2. EndProbe(s, "refused") => Next
    BY <2>1, EndProbeIsProbe DEF Next
  <2> QED
    BY <1>3, <2>2 DEF Check, Spawn
<1>4. ASSUME NEW s \in Scans,
             \/ Receive(s) \/ ReceiveEof(s) \/ Timeout(s) \/ Cancel(s)
             \/ Kill(s) \/ ChildSends(s) \/ ChildExits(s)
      PROVE  UNCHANGED vars
  BY <1>4 DEF Receive, ReceiveEof, Timeout, Cancel, Kill, ChildSends, ChildExits, Awaited
<1>5. ASSUME NEW s \in Scans, Reap(s)
      PROVE  Next
  <2>1. parent[s] = "join" /\ s \in named /\ verdict[s] \in Verdicts
    BY <1>5 DEF Reap, ParentStep, Attended
  <2>2. CASE verdict[s] = "cancelled"
    BY <1>5, <2>2 DEF Reap, Lose, Next
  <2>3. CASE verdict[s] # "cancelled"
    <3>1. verdict[s] \in Outcomes /\ EndProbe(s, verdict[s])
      BY <1>5, <2>1, <2>3 DEF Reap, Verdicts
    <3> QED
      BY <2>1, <3>1, EndProbeIsProbe DEF Next
  <2> QED
    BY <2>2, <2>3
<1>6. CASE ExpireQueue
  BY <1>6 DEF Next
<1>7. CASE UNCHANGED procAllVars
  BY <1>7 DEF procAllVars
<1> QED
  BY <1>1, <1>2, <1>3, <1>4, <1>5, <1>6, <1>7 DEF ProcNext, ParentRuns

(* Every step of a process or of the service keeps parent, child and job    *)
(* together (scan_process.py, execute_scan_process).                        *)
LEMMA NextProcInv == TypeOK /\ ProcInv /\ [ProcNext]_procAllVars => ProcInv'
<1> SUFFICES ASSUME TypeOK, ProcInv, [ProcNext]_procAllVars PROVE ProcInv'
  OBVIOUS
<1> USE DEF ProcInv, ProcShape, Attended, ReapedBeforeSlotIsFree
<1>0. job \in [Scans -> JobSteps]
  BY DEF TypeOK, WorkerTypeOK
<1>1. ASSUME NEW s \in Scans, Begin(s) \/ Register(s) \/ Abort(s) \/ ExpireKeys(s),
             UNCHANGED procVars
      PROVE  ProcInv'
  <2>1. UNCHANGED <<job, named>>
    BY <1>1 DEF Begin, Register, Abort, ExpireKeys, workerVars
  <2> QED
    BY <1>1, <2>1 DEF procVars
<1>2. ASSUME NEW s \in Scans, StartJob(s), UNCHANGED procVars
      PROVE  ProcInv'
  <2>1. job[s] = "waiting" /\ job' = [job EXCEPT ![s] = "lookup"] /\ named' = named
    BY <1>2 DEF StartJob, TakeJob, Step
  <2> QED
    BY <1>0, <1>2, <2>1 DEF procVars
<1>3. ASSUME NEW s \in Scans, JobRuns(s)
      PROVE  ProcInv'
  <2>1. /\ job[s] # "lost" /\ job[s] # "probe"
        /\ \A t \in Scans \ {s} : job'[t] = job[t] /\ (t \in named' <=> t \in named)
    BY <1>3, JobMoves DEF JobRuns
  <2>2. UNCHANGED procVars
    BY <1>3 DEF JobRuns
  <2>3. parent[s] = "idle" /\ child[s] = "none" /\ s \notin orphans
    BY <2>1
  <2> QED
    BY <2>1, <2>2, <2>3 DEF procVars
<1>4. ASSUME NEW s \in Scans, NEW end \in Outcomes, EndProbe(s, end)
      PROVE  job' = [job EXCEPT ![s] = "leave"] /\ job[s] = "probe" /\ named' = named
  BY <1>4 DEF EndProbe, Step
<1>5. ASSUME NEW s \in Scans, Check(s) \/ Spawn(s)
      PROVE  ProcInv'
  <2>0. "refused" \in Outcomes
    BY DEF Outcomes
  <2>1. CASE UNCHANGED vars
    <3>1. UNCHANGED <<job, named>>
      BY <2>1 DEF vars, workerVars
    <3> QED
      BY <1>5, <2>1, <3>1, <1>4, <1>0, <2>0 DEF Check, Spawn, ParentStep, procVars
  <2>2. CASE EndProbe(s, "refused")
    <3>1. job' = [job EXCEPT ![s] = "leave"] /\ job[s] = "probe" /\ named' = named
      BY <2>0, <2>2, <1>4
    <3>2. parent[s] \in {"idle", "spawn"} /\ parent' = [parent EXCEPT ![s] = "idle"]
            /\ UNCHANGED <<child, pipe, verdict, orphans>>
      BY <1>5, <2>2, <3>1, <1>0 DEF Check, Spawn, ParentStep, procVars, vars, workerVars
    <3>3. child[s] = "none" /\ s \notin orphans
      BY <3>1, <3>2
    <3> QED
      BY <1>0, <3>1, <3>2, <3>3
  <2> QED
    BY <1>5, <2>1, <2>2 DEF Check, Spawn
<1>6. ASSUME NEW s \in Scans, Receive(s) \/ ReceiveEof(s) \/ Timeout(s) \/ Cancel(s)
      PROVE  ProcInv'
  <2>1. \A m \in Messages : VerdictOf(m) \in Verdicts
    BY DEF Messages, VerdictOf, Verdicts, Outcomes
  <2>2. PICK end \in Verdicts : Awaited(s, end)
    BY <1>6, <2>1 DEF Receive, ReceiveEof, Timeout, Cancel, Verdicts, Outcomes
  <2>3. /\ parent[s] = "wait" /\ parent' = [parent EXCEPT ![s] = "kill"]
        /\ verdict' = [verdict EXCEPT ![s] = end]
        /\ UNCHANGED <<job, named, child, pipe, orphans>>
    BY <2>2 DEF Awaited, ParentStep, vars, workerVars
  <2> QED
    BY <2>3
<1>7. ASSUME NEW s \in Scans, ChildSends(s) \/ ChildExits(s) \/ Kill(s)
      PROVE  ProcInv'
  <2>1. UNCHANGED <<job, named>>
    BY <1>7 DEF ChildSends, ChildExits, Kill, vars, workerVars
  <2> QED
    BY <1>7, <2>1 DEF ChildSends, ChildExits, Kill, ParentStep
<1>8. ASSUME NEW s \in Scans, Reap(s)
      PROVE  ProcInv'
  <2>1. /\ parent[s] = "join" /\ job[s] = "probe" /\ s \notin orphans
        /\ parent' = [parent EXCEPT ![s] = "idle"]
        /\ child' = [child EXCEPT ![s] = "none"]
        /\ pipe' = [pipe EXCEPT ![s] = "empty"]
        /\ verdict' = [verdict EXCEPT ![s] = "none"]
        /\ orphans' = orphans
    BY <1>8 DEF Reap, ParentStep
  <2>2. \A t \in Scans \ {s} : job'[t] = job[t] /\ (t \in named' <=> t \in named)
    <3>1. CASE verdict[s] = "cancelled"
      BY <1>8, <3>1, JobMoves DEF Reap, Lose
    <3>2. CASE verdict[s] # "cancelled"
      <4>1. verdict[s] \in Outcomes /\ EndProbe(s, verdict[s])
        BY <1>8, <2>1, <3>2 DEF Reap, Verdicts
      <4> QED
        BY <1>0, <4>1, <1>4
    <3> QED
      BY <3>1, <3>2
  <2> QED
    BY <2>1, <2>2
<1>9. ASSUME NEW s \in Scans, WorkerGone(s)
      PROVE  ProcInv'
  <2>1. /\ job'[s] = "lost"
        /\ \A t \in Scans \ {s} : job'[t] = job[t] /\ (t \in named' <=> t \in named)
    BY <1>9, JobMoves DEF WorkerGone
  <2> QED
    BY <1>9, <2>1 DEF WorkerGone
<1>10. CASE ExpireQueue /\ UNCHANGED procVars
  BY <1>10 DEF ExpireQueue, workerVars, procVars
<1>11. CASE UNCHANGED procAllVars
  BY <1>11 DEF procAllVars, procVars, vars, workerVars
<1> QED
  BY <1>1, <1>2, <1>3, <1>5, <1>6, <1>7, <1>8, <1>9, <1>10, <1>11
     DEF ProcNext, ParentRuns

-----------------------------------------------------------------------------
(* Parent, child and job agree, and the service's invariant holds as well.  *)
LEMMA ProcInvariance == ProcSpec => [](ScanInv /\ ProcInv)
<1>1. ProcInit => ScanInv /\ ProcInv
  BY InitProcInv, InitScanInv DEF ProcInit
<1>2. ScanInv /\ ProcInv /\ [ProcNext]_procAllVars => ScanInv' /\ ProcInv'
  BY ProcStep, NextProcInv, NextScanInv DEF ScanInv
<1> QED
  BY <1>1, <1>2, PTL DEF ProcSpec

(* Types, as a theorem of the specification.                                *)
THEOREM ProcTypeCorrect == ProcSpec => []ProcTypeOK
<1>1. ScanInv /\ ProcInv => ProcTypeOK
  BY DEF ScanInv, ProcInv, ProcShape, ProcTypeOK
<1> QED
  BY <1>1, ProcInvariance, PTL

(* However the wait for a child ends - an answer, a crash, a timeout or a   *)
(* cancellation, in whatever order they come - the slot is not free before  *)
(* the child is gone, unless its worker is (webapp/scan_process.py, "Reap   *)
(* the scan, including all probe threads, before releasing its slot").      *)
THEOREM ChildIsReapedFirst == ProcSpec => []ReapedBeforeSlotIsFree
<1>1. ProcInv => ReapedBeforeSlotIsFree
  BY DEF ProcInv
<1> QED
  BY <1>1, ProcInvariance, PTL

(* Refinement: the service whose jobs run execute_scan_process, with all    *)
(* its processes and pipes, implements ScanService, where the probing is    *)
(* one step - so everything proved of that holds of this.                   *)
THEOREM ProbingIsOneStep == ProcSpec => ProbesAsOneStep
<1>1. ProcInit => Init
  BY DEF ProcInit
<1>2. ProcInv /\ [ProcNext]_procAllVars => [Next]_vars
  BY ProcStep
<1> QED
  BY <1>1, <1>2, ProcInvariance, PTL DEF ProcSpec, ProbesAsOneStep, Spec

=============================================================================
