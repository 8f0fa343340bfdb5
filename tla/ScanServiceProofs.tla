------------------------- MODULE ScanServiceProofs -------------------------
(***************************************************************************)
(* Proofs about ScanService, for every set of uuids and hosts.             *)
(***************************************************************************)
EXTENDS ScanService, DataLemmas

(***************************************************************************)
(* Type correctness                                                        *)
(***************************************************************************)

(* The empty store has the types.                                           *)
LEMMA InitTypeOK == Init => TypeOK
<1> SUFFICES ASSUME Init PROVE TypeOK
  OBVIOUS
<1>1. StoreTypeOK
  BY DEF Init, StoreInit, StoreTypeOK, States
<1>2. SubmissionTypeOK
  BY DEF Init, SubmissionInit, SubmissionTypeOK, SubmitSteps
<1>3. WorkerTypeOK
  BY DEF Init, WorkerInit, WorkerTypeOK, JobSteps
<1>4. PurgeTypeOK
  BY HostOfAssumption DEF Init, PurgeInit, PurgeTypeOK, IdlePurge, Purge, PurgeSteps
<1>5. owed \subseteq Scans
  BY DEF Init
<1> QED
  BY <1>1, <1>2, <1>3, <1>4, <1>5 DEF TypeOK

(* What a handler does to the store and to its own program counter.         *)
LEMMA SubmissionTypes ==
  ASSUME NEW s \in Scans, StoreTypeOK, SubmissionTypeOK,
         CreateMetadata(s) \/ ContinueSubmission(s) \/ AbortSubmission(s)
  PROVE  StoreTypeOK' /\ SubmissionTypeOK'
<1> USE DEF StoreTypeOK, SubmissionTypeOK, SubmitSteps, Registering, Goto,
            namespace, storeVars
<1>1. CASE CreateMetadata(s)
  BY <1>1 DEF CreateMetadata, SetMetadata
<1>2. CASE CreateProber(s)
  BY <1>2 DEF CreateProber, SetProber
<1>3. CASE CreateStatus(s)
  BY <1>3 DEF CreateStatus, SetQueued, States, Queued
<1>4. CASE CreatePushLine(s)
  BY <1>4 DEF CreatePushLine, PushLine
<1>5. CASE CreateLimitLine(s)
  BY <1>5 DEF CreateLimitLine, LimitLine
<1>6. CASE Enqueue(s)
  BY <1>6 DEF Enqueue
<1>7. CASE AbortSubmission(s)
  BY <1>7 DEF AbortSubmission, Unshown
<1> QED
  BY <1>1, <1>2, <1>3, <1>4, <1>5, <1>6, <1>7 DEF ContinueSubmission

(* What a job does to the store and to its local variables.                 *)
LEMMA WorkerTypes ==
  ASSUME NEW s \in Scans, StoreTypeOK, WorkerTypeOK,
         TakeJob(s) \/ JobStep(s) \/ LoseJob(s)
  PROVE  StoreTypeOK' /\ WorkerTypeOK'
<1> USE DEF StoreTypeOK, WorkerTypeOK, JobSteps, Active, Outcomes, Step, Leave,
            namespace, storeVars
<1>1. CASE TakeJob(s)
  BY <1>1 DEF TakeJob
<1>2. CASE Lookup(s)
  BY <1>2 DEF Lookup
<1>3. CASE LookupRecord(s)
  BY <1>3 DEF LookupRecord
<1>4. CASE MarkRunningLeaveLine(s)
  BY <1>4 DEF MarkRunningLeaveLine, LeaveLine
<1>5. CASE MarkRunningRead(s)
  BY <1>5 DEF MarkRunningRead
<1>6. CASE MarkRunning(s)
  BY <1>6 DEF MarkRunning, SetIfExists, States, Renewed, Running
<1>7. CASE TakeProber(s)
  BY <1>7 DEF TakeProber
<1>8. CASE ForgetProber(s)
  BY <1>8 DEF ForgetProber, DeleteProber
<1>9. CASE Probe(s)
  BY <1>9 DEF Probe
<1>10. CASE MarkEndLeaveLine(s)
  BY <1>10 DEF MarkEndLeaveLine, LeaveLine
<1>11. CASE MarkEndRead(s)
  BY <1>11 DEF MarkEndRead
<1>12. CASE MarkEndMissing(s)
  BY <1>12 DEF MarkEndMissing
<1>13. CASE MarkEnd(s)
  <2>1. FinalState(outcome[s]) \in Renewed
    BY DEF FinalState, Renewed, Terminal
  <2> QED
    BY <1>13, <2>1 DEF MarkEnd, SetIfExists, States
<1>14. CASE CountStrike(s)
  BY <1>14 DEF CountStrike
<1>15. CASE LoseJob(s)
  BY <1>15 DEF LoseJob
<1> QED
  BY <1>1, <1>2, <1>3, <1>4, <1>5, <1>6, <1>7, <1>8, <1>9, <1>10, <1>11, <1>12,
     <1>13, <1>14, <1>15 DEF JobStep

(* What an erasure does to the store and to its own record.                 *)
LEMMA PurgeTypes ==
  ASSUME StoreTypeOK, PurgeTypeOK, PurgeStep
  PROVE  StoreTypeOK' /\ PurgeTypeOK'
<1> USE DEF StoreTypeOK, PurgeTypeOK, Purge, PurgeSteps, namespace, storeVars
<1>1. CASE \E h \in Hosts : PurgeStart(h)
  BY <1>1 DEF PurgeStart
<1>2. ASSUME NEW s \in Scans, PurgeVisit(s)
      PROVE  StoreTypeOK' /\ PurgeTypeOK'
  BY <1>2 DEF PurgeVisit
<1>3. ASSUME NEW s \in Scans, PurgeDelete(s)
      PROVE  StoreTypeOK' /\ PurgeTypeOK'
  BY <1>3 DEF PurgeDelete, DeleteNamespace, States
<1>4. ASSUME NEW s \in Scans, PurgeRevisit(s)
      PROVE  StoreTypeOK' /\ PurgeTypeOK'
  BY <1>4 DEF PurgeRevisit
<1>5. CASE PurgeWalked
  BY <1>5 DEF PurgeWalked
<1>6. CASE PurgeUnline
  BY <1>6 DEF PurgeUnline, ClearFromLine
<1>7. CASE PurgeRechecked
  BY <1>7 DEF PurgeRechecked
<1>8. CASE PurgeEnd
  BY <1>8, HostOfAssumption DEF PurgeEnd, IdlePurge
<1> QED
  BY <1>1, <1>2, <1>3, <1>4, <1>5, <1>6, <1>7, <1>8 DEF PurgeStep

(* What the clock does to the store.                                        *)
LEMMA ClockTypes ==
  ASSUME StoreTypeOK, (\E s \in Scans : Expire(s)) \/ ExpireLine
  PROVE  StoreTypeOK'
<1> USE DEF StoreTypeOK, States, namespace
<1>1. ASSUME NEW s \in Scans, Expire(s)
      PROVE  StoreTypeOK'
  BY <1>1 DEF Expire, ExpireMetadata, ExpireProber, ExpireStatus, ExpireRecord
<1>2. CASE ExpireLine
  BY <1>2 DEF ExpireLine
<1> QED
  BY <1>1, <1>2

(* Every command of a handler, a job and an erasure, and expiry, keep the   *)
(* types.                                                                   *)
LEMMA NextTypeOK == TypeOK /\ [Next]_vars => TypeOK'
<1> SUFFICES ASSUME TypeOK, [Next]_vars PROVE TypeOK'
  OBVIOUS
<1> USE DEF TypeOK, SubmissionTypeOK, WorkerTypeOK, PurgeTypeOK, workerVars
<1>1. ASSUME NEW s \in Scans, Begin(s) \/ Register(s) \/ Abort(s)
      PROVE  TypeOK'
  BY <1>1, SubmissionTypes DEF Begin, Register, Abort
<1>2. ASSUME NEW s \in Scans, StartJob(s) \/ RunJob(s) \/ Lose(s)
      PROVE  TypeOK'
  BY <1>2, WorkerTypes DEF StartJob, RunJob, Lose
<1>3. CASE Erase
  BY <1>3, PurgeTypes DEF Erase, TrackOwed, Held
<1>4. ASSUME NEW s \in Scans, ExpireKeys(s)
      PROVE  TypeOK'
  BY <1>4, ClockTypes DEF ExpireKeys
<1>5. CASE ExpireQueue
  BY <1>5, ClockTypes DEF ExpireQueue
<1>6. CASE UNCHANGED vars
  BY <1>6 DEF vars, storeVars, StoreTypeOK
<1> QED
  BY <1>1, <1>2, <1>3, <1>4, <1>5, <1>6 DEF Next

(* The keys stay sets of uuids and the states stay states, whatever handler,*)
(* job, erasure or deadline comes next (webapp/store.py, tasks.py).         *)
THEOREM TypeCorrect == Spec => []TypeOK
<1> QED
  BY InitTypeOK, NextTypeOK, PTL DEF Spec

-----------------------------------------------------------------------------
(***************************************************************************)
(* The inductive invariant                                                 *)
(***************************************************************************)

(* The empty store satisfies the invariant.                                 *)
LEMMA InitScanInv == Init => ScanInv
<1> SUFFICES ASSUME Init PROVE ScanInv
  OBVIOUS
<1> USE DEF Init, StoreInit, SubmissionInit, WorkerInit, PurgeInit
<1>1. Registered
  BY DEF Registered, NoKeys, Unshown, Renewed, Terminal, Running, Completed, Failed
<1>2. JobShows
  BY DEF JobShows, Renewed, Terminal, Running, Completed, Failed
<1>3. NamespaceWhole
  BY DEF NamespaceWhole, Renewed, Terminal, Running, Completed, Failed
<1>4. ProberForgotten
  BY DEF ProberForgotten
<1>5. ErasureProgress
  BY DEF ErasureProgress, IdlePurge
<1> QED
  BY <1>1, <1>2, <1>3, <1>4, <1>5, InitTypeOK DEF ScanInv

(* A handler registers only what nobody else has touched yet.               *)
LEMMA SubmissionInv ==
  ASSUME ScanInv, NEW s \in Scans, Begin(s) \/ Register(s) \/ Abort(s)
  PROVE  (Registered /\ JobShows /\ NamespaceWhole /\ ProberForgotten /\ ErasureProgress)'
<1> USE DEF ScanInv, TypeOK, StoreTypeOK, SubmissionTypeOK, WorkerTypeOK, NoKeys,
            Goto, namespace, storeVars, workerVars, Unshown,
            Renewed, Terminal, States, Queued, Running, Completed, Failed,
            Registered, JobShows, NamespaceWhole, ProberForgotten, ErasureProgress
<1>1. CASE Begin(s)
  BY <1>1 DEF Begin, CreateMetadata, SetMetadata
<1>2. CASE CreateProber(s) /\ UNCHANGED <<workerVars, purge, owed>>
  BY <1>2 DEF CreateProber, SetProber
<1>3. CASE CreateStatus(s) /\ UNCHANGED <<workerVars, purge, owed>>
  BY <1>3 DEF CreateStatus, SetQueued
<1>4. CASE CreatePushLine(s) /\ UNCHANGED <<workerVars, purge, owed>>
  BY <1>4 DEF CreatePushLine, PushLine
<1>5. CASE CreateLimitLine(s) /\ UNCHANGED <<workerVars, purge, owed>>
  BY <1>5 DEF CreateLimitLine, LimitLine
<1>6. CASE Enqueue(s) /\ UNCHANGED <<workerVars, purge, owed>>
  BY <1>6 DEF Enqueue
<1>7. CASE Abort(s)
  BY <1>7 DEF Abort, AbortSubmission, Registering
<1> QED
  BY <1>1, <1>2, <1>3, <1>4, <1>5, <1>6, <1>7 DEF Register, ContinueSubmission

(* A job moves its own scan only, and only forwards.                        *)
LEMMA WorkerInv ==
  ASSUME ScanInv, NEW s \in Scans, StartJob(s) \/ RunJob(s) \/ Lose(s)
  PROVE  (Registered /\ JobShows /\ NamespaceWhole /\ ProberForgotten /\ ErasureProgress)'
<1> USE DEF ScanInv, TypeOK, StoreTypeOK, SubmissionTypeOK, WorkerTypeOK, NoKeys,
            Step, Leave, namespace, storeVars, Unshown, Active,
            Renewed, Terminal, States, Queued, Running, Completed, Failed,
            Registered, JobShows, NamespaceWhole, ProberForgotten, ErasureProgress
<1> DEFINE Other == UNCHANGED <<submit, purge, owed>>
<1>1. CASE StartJob(s)
  BY <1>1 DEF StartJob, TakeJob
<1>2. CASE Lookup(s) /\ Other
  BY <1>2 DEF Lookup
<1>3. CASE LookupRecord(s) /\ Other
  BY <1>3 DEF LookupRecord
<1>4. CASE MarkRunningLeaveLine(s) /\ Other
  BY <1>4 DEF MarkRunningLeaveLine, LeaveLine
<1>5. CASE MarkRunningRead(s) /\ Other
  BY <1>5 DEF MarkRunningRead
<1>6. CASE MarkRunning(s) /\ Other
  BY <1>6 DEF MarkRunning, SetIfExists
<1>7. CASE TakeProber(s) /\ Other
  BY <1>7 DEF TakeProber
<1>8. CASE ForgetProber(s) /\ Other
  BY <1>8 DEF ForgetProber, DeleteProber
<1>9. CASE Probe(s) /\ Other
  BY <1>9 DEF Probe
<1>10. CASE MarkEndLeaveLine(s) /\ Other
  BY <1>10 DEF MarkEndLeaveLine, LeaveLine
<1>11. CASE MarkEndRead(s) /\ Other
  BY <1>11 DEF MarkEndRead
<1>12. CASE MarkEndMissing(s) /\ Other
  BY <1>12 DEF MarkEndMissing
<1>13. CASE MarkEnd(s) /\ Other
  BY <1>13 DEF MarkEnd, SetIfExists, FinalState
<1>14. CASE CountStrike(s) /\ Other
  BY <1>14 DEF CountStrike
<1>15. CASE Lose(s)
  BY <1>15 DEF Lose, LoseJob
<1> QED
  BY <1>1, <1>2, <1>3, <1>4, <1>5, <1>6, <1>7, <1>8, <1>9, <1>10, <1>11, <1>12,
     <1>13, <1>14, <1>15 DEF RunJob, JobStep

(* An erasure takes keys away, and keeps on its lists what it still owes.   *)
LEMMA PurgeInv ==
  ASSUME ScanInv, Erase
  PROVE  (Registered /\ JobShows /\ NamespaceWhole /\ ProberForgotten /\ ErasureProgress)'
<1> USE DEF ScanInv, TypeOK, StoreTypeOK, SubmissionTypeOK, WorkerTypeOK, PurgeTypeOK,
            Purge, Erase, TrackOwed, NoKeys, namespace, storeVars, workerVars, Unshown,
            Renewed, Terminal, States, Queued, Running, Completed, Failed,
            Registered, JobShows, NamespaceWhole, ProberForgotten, ErasureProgress
<1>1. ASSUME NEW h \in Hosts, PurgeStart(h)
      PROVE  (Registered /\ JobShows /\ NamespaceWhole /\ ProberForgotten /\ ErasureProgress)'
  BY <1>1 DEF PurgeStart, Held
<1>2. ASSUME NEW s \in Scans, PurgeVisit(s)
      PROVE  (Registered /\ JobShows /\ NamespaceWhole /\ ProberForgotten /\ ErasureProgress)'
  BY <1>2 DEF PurgeVisit, Matches
<1>3. ASSUME NEW s \in Scans, PurgeDelete(s)
      PROVE  (Registered /\ JobShows /\ NamespaceWhole /\ ProberForgotten /\ ErasureProgress)'
  BY <1>3 DEF PurgeDelete, DeleteNamespace
<1>4. ASSUME NEW s \in Scans, PurgeRevisit(s)
      PROVE  (Registered /\ JobShows /\ NamespaceWhole /\ ProberForgotten /\ ErasureProgress)'
  BY <1>4 DEF PurgeRevisit
<1>5. CASE PurgeWalked
  BY <1>5 DEF PurgeWalked
<1>6. CASE PurgeUnline
  BY <1>6 DEF PurgeUnline, ClearFromLine
<1>7. CASE PurgeRechecked
  BY <1>7 DEF PurgeRechecked
<1>8. CASE PurgeEnd
  BY <1>8 DEF PurgeEnd, IdlePurge
<1> QED
  BY <1>1, <1>2, <1>3, <1>4, <1>5, <1>6, <1>7, <1>8 DEF PurgeStep

(* The clock takes keys away, those a transition renewed all at once.       *)
LEMMA ClockInv ==
  ASSUME ScanInv, (\E s \in Scans : ExpireKeys(s)) \/ ExpireQueue
  PROVE  (Registered /\ JobShows /\ NamespaceWhole /\ ProberForgotten /\ ErasureProgress)'
<1> USE DEF ScanInv, TypeOK, StoreTypeOK, SubmissionTypeOK, WorkerTypeOK, NoKeys,
            ExpireKeys, Expire, Settled, namespace, workerVars, Unshown,
            Renewed, Terminal, States, Queued, Running, Completed, Failed,
            Registered, JobShows, NamespaceWhole, ProberForgotten, ErasureProgress
<1>1. ASSUME NEW s \in Scans, ExpireKeys(s), ExpireMetadata(s)
      PROVE  (Registered /\ JobShows /\ NamespaceWhole /\ ProberForgotten /\ ErasureProgress)'
  BY <1>1 DEF ExpireMetadata
<1>2. ASSUME NEW s \in Scans, ExpireKeys(s), ExpireProber(s)
      PROVE  (Registered /\ JobShows /\ NamespaceWhole /\ ProberForgotten /\ ErasureProgress)'
  BY <1>2 DEF ExpireProber
<1>3. ASSUME NEW s \in Scans, ExpireKeys(s), ExpireStatus(s)
      PROVE  (Registered /\ JobShows /\ NamespaceWhole /\ ProberForgotten /\ ErasureProgress)'
  BY <1>3 DEF ExpireStatus
<1>4. ASSUME NEW s \in Scans, ExpireKeys(s), ExpireRecord(s)
      PROVE  (Registered /\ JobShows /\ NamespaceWhole /\ ProberForgotten /\ ErasureProgress)'
  BY <1>4 DEF ExpireRecord
<1>5. CASE ExpireQueue
  BY <1>5 DEF ExpireQueue, ExpireLine
<1> QED
  BY <1>1, <1>2, <1>3, <1>4, <1>5 DEF ExpireKeys, Expire

(* Every step keeps the invariant.                                          *)
LEMMA NextScanInv == ScanInv /\ [Next]_vars => ScanInv'
<1> SUFFICES ASSUME ScanInv, [Next]_vars PROVE ScanInv'
  OBVIOUS
<1>1. TypeOK'
  BY NextTypeOK DEF ScanInv
<1>2. (Registered /\ JobShows /\ NamespaceWhole /\ ProberForgotten /\ ErasureProgress)'
  <2>1. CASE Next
    BY <2>1, SubmissionInv, WorkerInv, PurgeInv, ClockInv DEF Next
  <2>2. CASE UNCHANGED vars
    BY <2>2 DEF vars, storeVars, workerVars, ScanInv, NoKeys, Registered, JobShows,
                NamespaceWhole, ProberForgotten, ErasureProgress
  <2> QED
    BY <2>1, <2>2
<1> QED
  BY <1>1, <1>2 DEF ScanInv

(* The strengthening holds in every reachable state: how far the handler,   *)
(* the job and the erasure have come bounds which keys can exist.           *)
THEOREM Invariance == Spec => []ScanInv
<1> QED
  BY InitScanInv, NextScanInv, PTL DEF Spec

-----------------------------------------------------------------------------
(***************************************************************************)
(* What follows from it                                                    *)
(***************************************************************************)

(* No interleaving of a transition, an erasure and the clock tears a scan's *)
(* namespace apart (webapp/store.py, _transition).                          *)
THEOREM NamespaceStaysWhole == Spec => []NamespaceWhole
<1>1. ScanInv => NamespaceWhole
  BY DEF ScanInv
<1> QED
  BY <1>1, Invariance, PTL

(* The fingerprint of who asked is gone before the probing starts, and no   *)
(* step brings it back (webapp/tasks.py, run_scan).                         *)
THEOREM ProberStaysForgotten == Spec => []ProberForgotten
<1>1. ScanInv => ProberForgotten
  BY DEF ScanInv
<1> QED
  BY <1>1, Invariance, PTL

(* A receipt is honest about every scan that was wholly registered when the *)
(* erasure began, however many scans and jobs there are (webapp/store.py,   *)
(* purge_target).                                                           *)
THEOREM ReceiptIsHonest == Spec => []HonestReceipt
<1>1. ScanInv => HonestReceipt
  <2> SUFFICES ASSUME ScanInv, purge.step = "receipt", NEW s \in owed
               PROVE  s \notin meta \cup result /\ (s \in purge.found => NoKeys(s))
    BY DEF HonestReceipt
  <2>1. s \in Scans /\ purge.left = {}
    BY DEF ScanInv, TypeOK, ErasureProgress
  <2>2. s \notin meta /\ (s \in purge.found => NoKeys(s))
    BY <2>1 DEF ScanInv, ErasureProgress
  <2>3. s \notin result
    BY <2>1, <2>2 DEF ScanInv, NamespaceWhole, Renewed, Terminal
  <2> QED
    BY <2>2, <2>3
<1> QED
  BY <1>1, Invariance, PTL

(* Once a wholly registered scan has no key left, no step writes one: the   *)
(* conditional write of a transition finds neither key it asks for.         *)
LEMMA NoStepRevives ==
  ASSUME NEW s \in Scans, TypeOK, Settled(s), NoKeys(s), [Next]_vars
  PROVE  NoKeys(s)'
<1> USE DEF NoKeys, Settled, TypeOK, StoreTypeOK, namespace, storeVars, Goto,
            Unshown, Registering
<1>1. ASSUME NEW t \in Scans, Begin(t) \/ Register(t) \/ Abort(t)
      PROVE  NoKeys(s)'
  BY <1>1 DEF Begin, Register, Abort, CreateMetadata, ContinueSubmission, AbortSubmission,
              CreateProber, CreateStatus, CreatePushLine, CreateLimitLine, Enqueue,
              SetMetadata, SetProber, SetQueued, PushLine, LimitLine
<1>2. ASSUME NEW t \in Scans, StartJob(t) \/ RunJob(t) \/ Lose(t)
      PROVE  NoKeys(s)'
  <2>1. CASE MarkRunning(t)
    BY <2>1 DEF MarkRunning, SetIfExists
  <2>2. CASE MarkEnd(t)
    BY <2>2 DEF MarkEnd, SetIfExists
  <2>3. CASE ForgetProber(t)
    BY <2>3 DEF ForgetProber, DeleteProber
  <2>4. CASE MarkRunningLeaveLine(t) \/ MarkEndLeaveLine(t)
    BY <2>4 DEF MarkRunningLeaveLine, MarkEndLeaveLine, LeaveLine
  <2>5. CASE StartJob(t) \/ Lose(t)
    BY <2>5 DEF StartJob, Lose, TakeJob, LoseJob
  <2>6. CASE \/ Lookup(t) \/ LookupRecord(t) \/ MarkRunningRead(t) \/ TakeProber(t)
             \/ Probe(t) \/ MarkEndRead(t) \/ MarkEndMissing(t) \/ CountStrike(t)
    BY <2>6 DEF Lookup, LookupRecord, MarkRunningRead, TakeProber, Probe, MarkEndRead,
                MarkEndMissing, CountStrike
  <2> QED
    BY <1>2, <2>1, <2>2, <2>3, <2>4, <2>5, <2>6 DEF RunJob, JobStep
<1>3. CASE Erase
  <2>1. ASSUME NEW t \in Scans, PurgeDelete(t)
        PROVE  NoKeys(s)'
    BY <2>1 DEF PurgeDelete, DeleteNamespace
  <2> QED
    BY <1>3, <2>1 DEF Erase, PurgeStep, PurgeStart, PurgeVisit, PurgeRevisit, PurgeWalked,
                      PurgeUnline, ClearFromLine, PurgeRechecked, PurgeEnd
<1>4. ASSUME NEW t \in Scans, ExpireKeys(t)
      PROVE  NoKeys(s)'
  BY <1>4 DEF ExpireKeys, Expire, ExpireMetadata, ExpireProber, ExpireStatus, ExpireRecord
<1>5. CASE ExpireQueue
  BY <1>5 DEF ExpireQueue, ExpireLine
<1>6. CASE UNCHANGED vars
  BY <1>6 DEF vars
<1> QED
  BY <1>1, <1>2, <1>3, <1>4, <1>5, <1>6 DEF Next

(* An erased or expired scan stays so, whatever its job was doing.          *)
THEOREM NothingIsRevived == Spec => NoRevival
<1>1. TypeOK /\ [Next]_vars
        => [\A s \in Scans : Settled(s) /\ NoKeys(s) => NoKeys(s)']_vars
  BY NoStepRevives
<1> QED
  BY <1>1, TypeCorrect, PTL DEF Spec, NoRevival

-----------------------------------------------------------------------------
(***************************************************************************)
(* The service implements the abstract promise                             *)
(***************************************************************************)

(* Where nothing has been shown yet, and what is shown of a status.         *)
LEMMA ViewValues ==
  ASSUME ScanInv, NEW s \in Scans
  PROVE  /\ status[s] # "none" => View[s] = status[s]
         /\ View[s] = "unknown" <=>
                status[s] = "none" /\ submit[s] \in {"none", "dropped"} \cup Unshown
         /\ View[s] = "gone" <=>
                status[s] = "none" /\ submit[s] \notin {"none", "dropped"} \cup Unshown
BY DEF ScanInv, TypeOK, StoreTypeOK, View, States, Renewed, Terminal, Queued, Running,
       Completed, Failed

(* A step that leaves the states and the handlers alone shows nothing.      *)
LEMMA SilentStep ==
  ASSUME UNCHANGED <<status, submit>>
  PROVE  UNCHANGED View
BY DEF View

(* A command of the handler registers the scan or shows nothing.            *)
LEMMA SubmissionSimulates ==
  ASSUME ScanInv, NEW s \in Scans, Begin(s) \/ Register(s) \/ Abort(s)
  PROVE  Promise!Register(s) \/ UNCHANGED View
<1> USE DEF ScanInv, TypeOK, StoreTypeOK, SubmissionTypeOK, Goto, namespace, storeVars,
            View, Unshown
<1>1. CASE Begin(s)
  BY <1>1 DEF Begin, CreateMetadata, SetMetadata
<1>2. CASE CreateProber(s)
  BY <1>2 DEF CreateProber, SetProber
<1>3. CASE CreateStatus(s)
  <2>1. status[s] = "none"
    BY <1>3 DEF CreateStatus, Registered
  <2>2. View[s] = "unknown"
    BY <1>3, <2>1 DEF CreateStatus
  <2>3. View' = [View EXCEPT ![s] = "queued"]
    BY <1>3 DEF CreateStatus, SetQueued, Queued
  <2> QED
    BY <2>2, <2>3 DEF Promise!Register, Promise!Move
<1>4. CASE CreatePushLine(s) \/ CreateLimitLine(s) \/ Enqueue(s)
  BY <1>4 DEF CreatePushLine, PushLine, CreateLimitLine, LimitLine, Enqueue
<1>5. CASE Abort(s)
  BY <1>5 DEF Abort, AbortSubmission, Registering
<1> QED
  BY <1>1, <1>2, <1>3, <1>4, <1>5 DEF Register, ContinueSubmission

(* A command of the job begins the scan, ends it or shows nothing.          *)
LEMMA WorkerSimulates ==
  ASSUME ScanInv, NEW s \in Scans, StartJob(s) \/ RunJob(s) \/ Lose(s)
  PROVE  Promise!Begin(s) \/ Promise!Finish(s) \/ UNCHANGED View
<1> USE DEF namespace, storeVars
<1>1. CASE MarkRunning(s) /\ UNCHANGED submit
  <2>1. CASE s \in meta /\ status[s] # "none"
    <3>1. status[s] = "queued" /\ View[s] = "queued"
      BY <1>1, <2>1 DEF MarkRunning, Step, ScanInv, TypeOK, StoreTypeOK, JobShows, States,
                        Renewed, Queued, View
    <3>2. View' = [View EXCEPT ![s] = "running"]
      BY <1>1, <2>1 DEF MarkRunning, SetIfExists, ScanInv, TypeOK, StoreTypeOK, View, Running
    <3> QED
      BY <3>1, <3>2 DEF Promise!Begin, Promise!Move
  <2> QED
    BY <1>1, <2>1, SilentStep DEF MarkRunning, SetIfExists
<1>2. CASE MarkEnd(s) /\ UNCHANGED submit
  <2>1. CASE s \in meta /\ status[s] # "none"
    <3>1. View[s] = "running"
      BY <1>2, <2>1 DEF MarkEnd, ScanInv, JobShows, View, Running
    <3>2. PICK end \in {"completed", "failed"} : end = FinalState(outcome[s])
      BY DEF FinalState, Completed, Failed
    <3>3. View' = [View EXCEPT ![s] = end]
      BY <1>2, <2>1, <3>2 DEF MarkEnd, SetIfExists, ScanInv, TypeOK, StoreTypeOK, View
    <3> QED
      BY <3>1, <3>3 DEF Promise!Finish, Promise!Move
  <2> QED
    BY <1>2, <2>1, SilentStep DEF MarkEnd, SetIfExists
<1>3. ASSUME StartJob(s) \/ RunJob(s) \/ Lose(s), ~ MarkRunning(s), ~ MarkEnd(s)
      PROVE  UNCHANGED <<status, submit>>
  BY <1>3 DEF StartJob, RunJob, Lose, TakeJob, JobStep, LoseJob, Lookup, LookupRecord,
              MarkRunningLeaveLine, MarkRunningRead, TakeProber, ForgetProber, Probe,
              MarkEndLeaveLine, MarkEndRead, MarkEndMissing, CountStrike, LeaveLine,
              DeleteProber
<1>4. UNCHANGED submit
  BY DEF StartJob, RunJob, Lose
<1> QED
  BY <1>1, <1>2, <1>3, <1>4, SilentStep

(* Losing the status of a uuid that was shown is forgetting it.             *)
LEMMA ForgettingSimulates ==
  ASSUME ScanInv, NEW s \in Scans, UNCHANGED submit,
         status' = [status EXCEPT ![s] = "none"]
  PROVE  Promise!Forget(s) \/ UNCHANGED View
<1> USE DEF ScanInv, TypeOK, StoreTypeOK
<1>1. CASE status[s] = "none"
  BY <1>1, SilentStep
<1>2. CASE status[s] # "none"
  <2>1. submit[s] \notin {"none", "dropped"} \cup Unshown
    BY <1>2 DEF Registered, NoKeys
  <2>2. View[s] \notin {"unknown", "gone"}
    BY <1>2, ViewValues
  <2>3. View' = [View EXCEPT ![s] = "gone"]
    BY <2>1 DEF View
  <2> QED
    BY <2>2, <2>3 DEF Promise!Forget
<1> QED
  BY <1>1, <1>2

(* Every step is a step of the promise or shows nothing.                    *)
LEMMA StepSimulates == ScanInv /\ [Next]_vars => [Promise!Next]_View
<1> SUFFICES ASSUME ScanInv, [Next]_vars PROVE Promise!Next \/ UNCHANGED View
  OBVIOUS
<1> USE DEF Promise!Next
<1>1. ASSUME NEW s \in Scans, Begin(s) \/ Register(s) \/ Abort(s)
      PROVE  Promise!Next \/ UNCHANGED View
  BY <1>1, SubmissionSimulates
<1>2. ASSUME NEW s \in Scans, StartJob(s) \/ RunJob(s) \/ Lose(s)
      PROVE  Promise!Next \/ UNCHANGED View
  BY <1>2, WorkerSimulates
<1>3. CASE Erase
  <2>1. ASSUME NEW s \in Scans, PurgeDelete(s)
        PROVE  Promise!Next \/ UNCHANGED View
    BY <1>3, <2>1, ForgettingSimulates DEF Erase, PurgeDelete, DeleteNamespace
  <2>2. CASE ~ \E s \in Scans : PurgeDelete(s)
    <3>1. UNCHANGED <<status, submit>>
      BY <1>3, <2>2 DEF Erase, PurgeStep, PurgeStart, PurgeVisit, PurgeRevisit, PurgeWalked,
                        PurgeUnline, ClearFromLine, PurgeRechecked, PurgeEnd, namespace,
                        storeVars
    <3> QED
      BY <3>1, SilentStep
  <2> QED
    BY <2>1, <2>2
<1>4. ASSUME NEW s \in Scans, ExpireKeys(s)
      PROVE  Promise!Next \/ UNCHANGED View
  <2>1. CASE ExpireMetadata(s) \/ ExpireProber(s)
    BY <1>4, <2>1, SilentStep DEF ExpireKeys, ExpireMetadata, ExpireProber
  <2>2. CASE ExpireStatus(s) \/ ExpireRecord(s)
    BY <1>4, <2>2, ForgettingSimulates DEF ExpireKeys, ExpireStatus, ExpireRecord
  <2> QED
    BY <1>4, <2>1, <2>2 DEF ExpireKeys, Expire
<1>5. CASE ExpireQueue
  BY <1>5, SilentStep DEF ExpireQueue, ExpireLine, namespace
<1>6. CASE UNCHANGED vars
  BY <1>6, SilentStep DEF vars, storeVars
<1> QED
  BY <1>1, <1>2, <1>3, <1>4, <1>5, <1>6 DEF Next

(* The service implements AbstractScan: a state is only ever left forwards, *)
(* and what was forgotten is never shown again (webapp/store.py, get and    *)
(* _transition; webapp/openapi.py, the states of a scan).                   *)
THEOREM PromiseIsKept == Spec => KeepsPromise
<1>1. Init => Promise!Init
  BY DEF Init, StoreInit, SubmissionInit, View, Promise!Init
<1> QED
  BY <1>1, StepSimulates, Invariance, PTL DEF Spec, KeepsPromise, Promise!Spec


-----------------------------------------------------------------------------
(***************************************************************************)
(* Strikes                                                                 *)
(***************************************************************************)

(* What a strike is about to be, or was, counted for ended as failed.       *)
FailureCounted ==
    \A s \in Scans :
        /\ s \in strikes => job[s] = "done"
        /\ s \in strikes \/ job[s] = "strike" => (s \in meta => status[s] = Failed)

(* A job comes to count a strike only past marking its scan failed          *)
(* (tasks.py, run_scan).                                                    *)
LEMMA NextFailureCounted == ScanInv /\ FailureCounted /\ [Next]_vars => FailureCounted'
<1> SUFFICES ASSUME ScanInv, FailureCounted, [Next]_vars PROVE FailureCounted'
  OBVIOUS
<1> USE DEF ScanInv, TypeOK, StoreTypeOK, SubmissionTypeOK, WorkerTypeOK, FailureCounted,
            Registered, Unshown, Goto, Step, Leave, namespace, storeVars, workerVars
<1>1. ASSUME NEW s \in Scans, Begin(s) \/ Register(s) \/ Abort(s)
      PROVE  FailureCounted'
  <2>1. job[s] = "waiting" /\ s \notin strikes
    BY <1>1 DEF Begin, Register, Abort, CreateMetadata, ContinueSubmission, AbortSubmission,
                CreateProber, CreateStatus, CreatePushLine, CreateLimitLine, Enqueue,
                Registering
  <2>2. \A t \in Scans \ {s} : (t \in meta' <=> t \in meta) /\ status'[t] = status[t]
    BY <1>1 DEF Begin, Register, Abort, CreateMetadata, ContinueSubmission, AbortSubmission,
                CreateProber, CreateStatus, CreatePushLine, CreateLimitLine, Enqueue,
                SetMetadata, SetProber, SetQueued, PushLine, LimitLine
  <2>3. UNCHANGED <<job, strikes>>
    BY <1>1 DEF Begin, Register, Abort
  <2> QED
    BY <2>1, <2>2, <2>3
<1>2. ASSUME NEW s \in Scans, StartJob(s) \/ RunJob(s) \/ Lose(s)
      PROVE  FailureCounted'
  <2>1. CASE MarkRunning(s)
    BY <2>1 DEF MarkRunning, SetIfExists
  <2>2. CASE MarkEnd(s)
    <3>1. s \in meta => status[s] # "none"
      BY <2>2 DEF MarkEnd
    <3>2. Counted(s) => FinalState(outcome[s]) = Failed
      BY DEF Counted, FinalState
    <3> QED
      BY <2>2, <3>1, <3>2 DEF MarkEnd, SetIfExists
  <2>3. CASE CountStrike(s)
    BY <2>3 DEF CountStrike
  <2>4. CASE MarkEndMissing(s)
    BY <2>4 DEF MarkEndMissing
  <2>5. ASSUME StartJob(s) \/ RunJob(s) \/ Lose(s), ~ MarkRunning(s), ~ MarkEnd(s),
               ~ CountStrike(s), ~ MarkEndMissing(s)
        PROVE  FailureCounted'
    BY <2>5 DEF StartJob, RunJob, Lose, TakeJob, JobStep, LoseJob, Lookup, LookupRecord,
                MarkRunningLeaveLine, MarkRunningRead, TakeProber, ForgetProber, Probe,
                MarkEndLeaveLine, MarkEndRead, LeaveLine, DeleteProber, Active
  <2> QED
    BY <1>2, <2>1, <2>2, <2>3, <2>4, <2>5
<1>3. CASE Erase
  <2>1. ASSUME NEW s \in Scans, PurgeDelete(s)
        PROVE  FailureCounted'
    BY <1>3, <2>1 DEF Erase, PurgeDelete, DeleteNamespace
  <2>2. CASE ~ \E s \in Scans : PurgeDelete(s)
    BY <1>3, <2>2 DEF Erase, PurgeStep, PurgeStart, PurgeVisit, PurgeRevisit, PurgeWalked,
                      PurgeUnline, ClearFromLine, PurgeRechecked, PurgeEnd
  <2> QED
    BY <2>1, <2>2
<1>4. ASSUME NEW s \in Scans, ExpireKeys(s)
      PROVE  FailureCounted'
  BY <1>4 DEF ExpireKeys, Expire, ExpireMetadata, ExpireProber, ExpireStatus, ExpireRecord
<1>5. CASE ExpireQueue
  BY <1>5 DEF ExpireQueue, ExpireLine
<1>6. CASE UNCHANGED vars
  BY <1>6 DEF vars
<1> QED
  BY <1>1, <1>2, <1>3, <1>4, <1>5, <1>6 DEF Next

(* No network is held responsible for a scan that its visitor was told ended*)
(* well, whatever was erased or expired meanwhile (webapp/tasks.py, run_scan*)
(* and _count_non_opencloud).                                               *)
THEOREM StrikesAreForFailures == Spec => []StrikeOnlyForFailure
<1>1. Init => FailureCounted
  BY DEF Init, WorkerInit, FailureCounted
<1>2. FailureCounted /\ TypeOK => StrikeOnlyForFailure
  BY DEF FailureCounted, StrikeOnlyForFailure, TypeOK, WorkerTypeOK
<1> QED
  BY <1>1, <1>2, NextFailureCounted, Invariance, TypeCorrect, PTL DEF Spec

-----------------------------------------------------------------------------
(***************************************************************************)
(* The line                                                                *)
(***************************************************************************)

(* LREM 0: nothing equal to s is left, and nothing else is added.  The      *)
(* function Without is built from exists, because there is one up to every  *)
(* length; what holds of it, holds up to every length.                      *)
LEMMA WithoutIs ==
    ASSUME NEW S, NEW q \in Seq(S), NEW s, Single(q)
    PROVE  Without(q, s) \in Seq(S) /\ Single(Without(q, s))
           /\ ~ Among(s, Without(q, s))
           /\ \A t : Among(t, Without(q, s)) => Among(t, q)
<1> DEFINE N == Len(q)
           Grow(g, n) == IF n = 0 THEN <<>>
                         ELSE IF q[n] = s THEN g[n - 1]
                         ELSE Append(g[n - 1], q[n])
           Solves(g, n) == g = [k \in 0..n |-> Grow(g, k)]
           Unsolved == {n \in 0..N : ~ \E g : Solves(g, n)}
<1>0. N \in Nat /\ q \in [1..N -> S]
  BY LenProperties
<1>1. Unsolved = {}
  <2> SUFFICES ASSUME Unsolved # {} PROVE FALSE
    OBVIOUS
  <2>1. PICK m \in Unsolved : \A n \in Unsolved : m <= n
    <3>1. Unsolved \in SUBSET Nat
      BY <1>0
    <3> HIDE DEF Unsolved
    <3> QED
      BY <3>1, Smallest
  <2>2. m \in Nat /\ m \in 0..N
    BY <1>0
  <2>3. CASE m = 0
    <3> DEFINE g == [k \in 0..0 |-> <<>>]
    <3>1. \A k \in 0..0 : Grow(g, k) = <<>>
      OBVIOUS
    <3>2. g = [k \in 0..0 |-> Grow(g, k)]
      BY <3>1
    <3> QED
      BY <2>3, <3>2
  <2>4. CASE m # 0
    <3>0. m - 1 \in 0..N /\ ~ (m <= m - 1)
      BY <1>0, <2>2, <2>4
    <3>1. m - 1 \in 0..N /\ m - 1 \notin Unsolved
      <4> HIDE DEF Unsolved
      <4> QED
        BY <2>1, <3>0
    <3>2. PICK g : Solves(g, m - 1)
      BY <3>1
    <3> DEFINE h == [k \in 0..m |-> IF k < m THEN g[k] ELSE Grow(g, m)]
    <3>3. \A k \in 0..m : h[k] = Grow(h, k)
      <4> SUFFICES ASSUME NEW k \in 0..m PROVE h[k] = Grow(h, k)
        OBVIOUS
      <4>1. k # 0 => k - 1 \in 0..m /\ k - 1 < m /\ k - 1 \in 0..(m - 1)
        BY <2>2
      <4>2. k # 0 => h[k - 1] = g[k - 1]
        BY <4>1
      <4>3. Grow(h, k) = Grow(g, k)
        BY <4>2
      <4>4. k < m => k \in 0..(m - 1) /\ g[k] = Grow(g, k)
        <5>1. \A j \in 0..(m - 1) : g[j] = Grow(g, j)
          <6> HIDE DEF Grow
          <6> QED
            BY <3>2
        <5> QED
          BY <2>2, <5>1
      <4>5. ~ (k < m) => k = m
        BY <2>2
      <4> QED
        BY <4>3, <4>4, <4>5
    <3>4. Solves(h, m)
      <4> HIDE DEF Grow
      <4>1. h = [k \in 0..m |-> h[k]]
        OBVIOUS
      <4> HIDE DEF h
      <4> QED
        BY <3>3, <4>1
    <3> QED
      BY <3>4
  <2> QED
    BY <2>3, <2>4
<1> DEFINE kept == CHOOSE g : Solves(g, N)
<1>2. Solves(kept, N)
  <2>1. N \in 0..N
    BY <1>0
  <2>2. \E g : Solves(g, N)
    <3> HIDE DEF Solves
    <3> QED
      BY <1>1, <2>1
  <2> HIDE DEF Solves
  <2> QED
    BY <2>2
<1>3. Without(q, s) = kept[N]
  BY DEF Without
<1> HIDE DEF kept
<1>4. \A n \in 0..N : kept[n] = Grow(kept, n)
  BY <1>2
<1> HIDE DEF Solves, Unsolved
<1> DEFINE Good(n) ==
             /\ kept[n] \in Seq(S)
             /\ Single(kept[n])
             /\ \A t : Among(t, kept[n]) => t # s /\ \E k \in 1..n : q[k] = t
           Bad == {n \in 0..N : ~ Good(n)}
<1>5. Good(0)
  <2>1. kept[0] = <<>>
    BY <1>0, <1>4
  <2>2. <<>> \in Seq(S) /\ Len(<<>>) = 0
    BY EmptySeq
  <2> QED
    BY <2>1, <2>2 DEF Single, Among
<1>6. ASSUME NEW n \in 1..N, Good(n - 1) PROVE Good(n)
  <2>1. n \in 0..N /\ n - 1 \in 0..N /\ n # 0 /\ \A k \in 1..(n - 1) : k \in 1..n
    BY <1>0
  <2>2. CASE q[n] = s
    <3>1. kept[n] = kept[n - 1]
      BY <1>4, <2>1, <2>2
    <3> QED
      BY <1>6, <2>1, <3>1
  <2>3. CASE q[n] # s
    <3>1. kept[n] = Append(kept[n - 1], q[n])
      BY <1>4, <2>1, <2>3
    <3>2. ~ Among(q[n], kept[n - 1])
      <4>1. ASSUME NEW k \in 1..(n - 1) PROVE q[k] # q[n]
        BY <1>0 DEF Single
      <4> QED
        BY <1>6, <4>1
    <3>3. q[n] \in S
      BY <1>0
    <3>4. /\ Append(kept[n - 1], q[n]) \in Seq(S)
          /\ Single(Append(kept[n - 1], q[n]))
          /\ \A t : Among(t, Append(kept[n - 1], q[n]))
                    <=> Among(t, kept[n - 1]) \/ t = q[n]
      BY <1>6, <3>2, <3>3, AppendKeepsSingle
    <3>5. n \in 1..n
      BY <1>0
    <3> QED
      BY <1>6, <2>1, <2>3, <3>1, <3>4, <3>5
  <2> QED
    BY <2>2, <2>3
<1>7. Bad = {}
  <2> SUFFICES ASSUME Bad # {} PROVE FALSE
    OBVIOUS
  <2>1. PICK m \in Bad : \A n \in Bad : m <= n
    <3>1. Bad \in SUBSET Nat
      BY <1>0
    <3> HIDE DEF Bad
    <3> QED
      BY <3>1, Smallest
  <2> HIDE DEF Good
  <2>2. m \in 1..N /\ m - 1 \in 0..N /\ ~ (m <= m - 1)
    BY <1>0, <1>5
  <2>3. m - 1 \notin Bad
    BY <2>1, <2>2
  <2> QED
    BY <1>6, <2>2, <2>3
<1>8. Good(N)
  BY <1>0, <1>7
<1> QED
  BY <1>0, <1>3, <1>8 DEF Among

(* Who is in the line has been pushed once and not been taken out since,    *)
(* and of the scans the erasure has dealt with nobody is.                   *)
Cleared(s) ==
    /\ s \in (owed \cap purge.found) \ purge.left
    /\ \/ purge.step \in {"delete", "recheck", "receipt"}
       \/ purge.step = "unline" /\ s \notin purge.current

LineInv ==
    /\ line \in Seq(Scans)
    /\ Single(line)
    /\ \A s \in Scans : Among(s, line) =>
          /\ submit[s] \in {"limit", "enqueue", "accepted", "aborted"}
          /\ job[s] \in {"waiting", "lookup", "record", "unline", "expired", "lost"}
          /\ status[s] \notin Renewed
    /\ \A s \in owed : submit[s] # "line"
    /\ purge.step = "unline" => \E s \in Scans : purge.current = {s}
    /\ \A s \in Scans : Cleared(s) => ~ Among(s, line)

(* The empty line satisfies its invariant.                                  *)
LEMMA InitLineInv == Init => LineInv
<1> SUFFICES ASSUME Init PROVE LineInv
  OBVIOUS
<1>1. line = <<>> /\ line \in Seq(Scans) /\ Len(line) = 0
  BY EmptySeq DEF Init, StoreInit
<1>2. owed = {} /\ purge.step = "idle"
  BY DEF Init, PurgeInit, IdlePurge
<1> QED
  BY <1>1, <1>2 DEF LineInv, Single, Among, Cleared

(* A step that leaves the line and the erasure alone.                       *)
LEMMA SameLine ==
    ASSUME ScanInv, LineInv, UNCHANGED <<line, purge, owed>>,
           \A s \in Scans : Among(s, line) =>
              /\ submit'[s] \in {"limit", "enqueue", "accepted", "aborted"}
              /\ job'[s] \in {"waiting", "lookup", "record", "unline", "expired", "lost"}
              /\ status'[s] \notin Renewed,
           \A s \in owed : submit'[s] # "line"
    PROVE  LineInv'
BY DEF LineInv, Cleared

(* A handler pushes its uuid once.                                          *)
LEMMA SubmissionLine ==
    ASSUME ScanInv, LineInv, NEW s \in Scans, Begin(s) \/ Register(s) \/ Abort(s)
    PROVE  LineInv'
<1> USE DEF ScanInv, TypeOK, StoreTypeOK, SubmissionTypeOK, WorkerTypeOK, Goto,
            namespace, storeVars, workerVars, Unshown
<1>0. owed \subseteq Scans /\ Queued \notin Renewed
  BY DEF Renewed, Terminal, Queued, Running, Completed, Failed
<1>1. CASE CreatePushLine(s) /\ UNCHANGED <<workerVars, purge, owed>>
  <2>1. submit[s] = "line" /\ ~ Among(s, line) /\ s \notin owed
    BY <1>1, <1>0 DEF CreatePushLine, LineInv
  <2>2. /\ submit' = [submit EXCEPT ![s] = "limit"]
        /\ line' = Append(line, s)
        /\ UNCHANGED <<status, job, purge, owed>>
    BY <1>1 DEF CreatePushLine, PushLine
  <2>3. /\ line' \in Seq(Scans) /\ Single(line')
        /\ \A t : Among(t, line') <=> Among(t, line) \/ t = s
    BY <2>1, <2>2, AppendKeepsSingle DEF LineInv
  <2>4. job[s] = "waiting" /\ status[s] \notin Renewed
    BY <2>1 DEF Registered
  <2> QED
    BY <2>1, <2>2, <2>3, <2>4 DEF LineInv, Cleared
<1>2. CASE Begin(s)
  BY <1>2, SameLine DEF Begin, CreateMetadata, SetMetadata, LineInv
<1>3. CASE CreateProber(s) /\ UNCHANGED <<workerVars, purge, owed>>
  BY <1>3, SameLine DEF CreateProber, SetProber, LineInv
<1>4. CASE CreateStatus(s) /\ UNCHANGED <<workerVars, purge, owed>>
  <2>1. s \notin owed /\ ~ Among(s, line)
    BY <1>4 DEF CreateStatus, ErasureProgress, LineInv
  <2> QED
    BY <1>4, <1>0, <2>1, SameLine DEF CreateStatus, SetQueued, LineInv
<1>5. CASE CreateLimitLine(s) /\ UNCHANGED <<workerVars, purge, owed>>
  BY <1>5, SameLine DEF CreateLimitLine, LimitLine, LineInv
<1>6. CASE Enqueue(s) /\ UNCHANGED <<workerVars, purge, owed>>
  BY <1>6, SameLine DEF Enqueue, LineInv
<1>7. CASE Abort(s)
  BY <1>7, SameLine DEF Abort, AbortSubmission, Registering, LineInv
<1> QED
  BY <1>1, <1>2, <1>3, <1>4, <1>5, <1>6, <1>7 DEF Register, ContinueSubmission

(* Taking s out of the line takes nobody else's place.                      *)
LEMMA LeavingLine ==
    ASSUME ScanInv, LineInv, NEW s \in Scans, line' = RemoveFirst(line, s),
           UNCHANGED <<status, submit, purge, owed>>,
           \A t \in Scans \ {s} : job'[t] = job[t]
    PROVE  LineInv'
<1>1. /\ line' \in Seq(Scans) /\ Single(line') /\ ~ Among(s, line')
      /\ \A t : Among(t, line') => Among(t, line)
  BY RemoveFirstIs DEF LineInv
<1> QED
  BY <1>1 DEF LineInv, Cleared

(* A job leaves the line before it shows its scan as running.               *)
LEMMA WorkerLine ==
    ASSUME ScanInv, LineInv, NEW s \in Scans, StartJob(s) \/ RunJob(s) \/ Lose(s)
    PROVE  LineInv'
<1> USE DEF ScanInv, TypeOK, StoreTypeOK, WorkerTypeOK, Step, Leave, namespace, storeVars,
            Active
<1> DEFINE Other == UNCHANGED <<submit, purge, owed>>
<1>0. owed \subseteq Scans
  OBVIOUS
<1>1. CASE StartJob(s)
  BY <1>1, SameLine DEF StartJob, TakeJob, LineInv
<1>2. CASE Lookup(s) /\ Other
  BY <1>2, SameLine DEF Lookup, LineInv
<1>3. CASE LookupRecord(s) /\ Other
  BY <1>3, SameLine DEF LookupRecord, LineInv
<1>4. CASE MarkRunningLeaveLine(s) /\ Other
  BY <1>4, LeavingLine DEF MarkRunningLeaveLine, LeaveLine
<1>5. CASE MarkRunningRead(s) /\ Other
  BY <1>5, SameLine DEF MarkRunningRead, LineInv
<1>6. CASE MarkRunning(s) /\ Other
  BY <1>6, SameLine DEF MarkRunning, SetIfExists, LineInv
<1>7. CASE TakeProber(s) /\ Other
  BY <1>7, SameLine DEF TakeProber, LineInv
<1>8. CASE ForgetProber(s) /\ Other
  BY <1>8, SameLine DEF ForgetProber, DeleteProber, LineInv
<1>9. CASE Probe(s) /\ Other
  BY <1>9, SameLine DEF Probe, LineInv
<1>10. CASE MarkEndLeaveLine(s) /\ Other
  BY <1>10, LeavingLine DEF MarkEndLeaveLine, LeaveLine
<1>11. CASE MarkEndRead(s) /\ Other
  BY <1>11, SameLine DEF MarkEndRead, LineInv
<1>12. CASE MarkEndMissing(s) /\ Other
  BY <1>12, SameLine DEF MarkEndMissing, LineInv
<1>13. CASE MarkEnd(s) /\ Other
  BY <1>13, SameLine DEF MarkEnd, SetIfExists, LineInv
<1>14. CASE CountStrike(s) /\ Other
  BY <1>14, SameLine DEF CountStrike, LineInv
<1>15. CASE Lose(s)
  BY <1>15, SameLine DEF Lose, LoseJob, LineInv
<1> QED
  BY <1>1, <1>2, <1>3, <1>4, <1>5, <1>6, <1>7, <1>8, <1>9, <1>10, <1>11, <1>12,
     <1>13, <1>14, <1>15 DEF RunJob, JobStep

(* An erasure takes a uuid out of the line after its keys.                  *)
LEMMA PurgeLine ==
    ASSUME ScanInv, LineInv, Erase
    PROVE  LineInv'
<1> USE DEF ScanInv, TypeOK, StoreTypeOK, SubmissionTypeOK, PurgeTypeOK, Purge, Erase,
            TrackOwed, namespace, storeVars, workerVars
<1>1. ASSUME NEW h \in Hosts, PurgeStart(h)
      PROVE  LineInv'
  <2>1. purge.step = "idle" /\ purge'.step = "walk" /\ UNCHANGED storeVars
    BY <1>1 DEF PurgeStart
  <2>2. \A s \in owed' : submit[s] \in {"limit", "enqueue", "accepted"}
    BY <2>1 DEF Held
  <2> QED
    BY <2>1, <2>2 DEF LineInv, Cleared
<1>2. ASSUME NEW s \in Scans, PurgeVisit(s) \/ PurgeRevisit(s)
      PROVE  LineInv'
  <2>1. /\ purge.step \in {"walk", "recheck"} /\ purge'.step = purge.step
        /\ purge'.left = purge.left /\ UNCHANGED storeVars
        /\ purge.step = "recheck" => purge'.found = purge.found
    BY <1>2 DEF PurgeVisit, PurgeRevisit
  <2>2. owed' = owed
    BY <2>1
  <2> QED
    BY <2>1, <2>2 DEF LineInv, Cleared
<1>3. ASSUME NEW s \in Scans, PurgeDelete(s)
      PROVE  LineInv'
  <2>1. /\ purge.step = "delete" /\ purge'.step = "unline" /\ purge'.current = {s}
        /\ purge'.left = purge.left \ {s} /\ purge'.found = purge.found
        /\ UNCHANGED <<line, owed, submit, job>>
        /\ status' = [status EXCEPT ![s] = "none"]
    BY <1>3 DEF PurgeDelete, DeleteNamespace
  <2>2. "none" \notin Renewed
    BY DEF Renewed, Terminal, Running, Completed, Failed
  <2> QED
    BY <2>1, <2>2 DEF LineInv, Cleared
<1>4. CASE PurgeWalked
  BY <1>4 DEF PurgeWalked, LineInv, Cleared
<1>5. CASE PurgeUnline
  <2>1. PICK s \in Scans : purge.current = {s}
    BY <1>5 DEF PurgeUnline, LineInv
  <2>2. /\ line' = Without(line, s)
        /\ purge'.left = purge.left /\ purge'.found = purge.found
        /\ purge.step = "unline" /\ purge'.step \in {"recheck", "delete"}
        /\ UNCHANGED <<owed, submit, job, status>>
    BY <1>5, <2>1 DEF PurgeUnline, ClearFromLine
  <2>3. /\ line' \in Seq(Scans) /\ Single(line') /\ ~ Among(s, line')
        /\ \A t : Among(t, line') => Among(t, line)
    BY <2>2, WithoutIs DEF LineInv
  <2> QED
    BY <2>1, <2>2, <2>3 DEF LineInv, Cleared
<1>6. CASE PurgeRechecked
  BY <1>6 DEF PurgeRechecked, LineInv, Cleared
<1>7. CASE PurgeEnd
  BY <1>7 DEF PurgeEnd, IdlePurge, LineInv, Cleared
<1> QED
  BY <1>1, <1>2, <1>3, <1>4, <1>5, <1>6, <1>7 DEF PurgeStep

(* The clock takes the whole line, or keys.                                 *)
LEMMA ClockLine ==
    ASSUME ScanInv, LineInv, (\E s \in Scans : ExpireKeys(s)) \/ ExpireQueue
    PROVE  LineInv'
<1> USE DEF ScanInv, TypeOK, StoreTypeOK, namespace, workerVars
<1>1. ASSUME NEW s \in Scans, ExpireKeys(s)
      PROVE  LineInv'
  <2>1. /\ UNCHANGED <<line, purge, owed, submit, job>>
        /\ \A t \in Scans : status'[t] \in {status[t], "none"}
    BY <1>1 DEF ExpireKeys, Expire, ExpireMetadata, ExpireProber, ExpireStatus,
                ExpireRecord
  <2>2. "none" \notin Renewed
    BY DEF Renewed, Terminal, Running, Completed, Failed
  <2> QED
    BY <2>1, <2>2, SameLine DEF LineInv
<1>2. CASE ExpireQueue
  <2>1. line' = <<>> /\ UNCHANGED <<purge, owed, submit, job, status>>
    BY <1>2 DEF ExpireQueue, ExpireLine
  <2>2. <<>> \in Seq(Scans) /\ Len(<<>>) = 0
    BY EmptySeq
  <2> QED
    BY <2>1, <2>2 DEF LineInv, Single, Among, Cleared
<1> QED
  BY <1>1, <1>2

(* Every step keeps the line's invariant.                                   *)
LEMMA NextLineInv == ScanInv /\ LineInv /\ [Next]_vars => LineInv'
<1> SUFFICES ASSUME ScanInv, LineInv, [Next]_vars PROVE LineInv'
  OBVIOUS
<1>1. CASE UNCHANGED vars
  BY <1>1 DEF vars, storeVars, workerVars, LineInv, Cleared
<1> QED
  BY <1>1, SubmissionLine, WorkerLine, PurgeLine, ClockLine DEF Next

(* The line holds a uuid once and only while its scan waits, and nobody an  *)
(* erasure has found and dealt with - although the LREMs and the writes of  *)
(* the status are commands of their own, and a job, an erasure and the      *)
(* clock may run between them (store.py, mark_running, purge_target).       *)
THEOREM LineIsOfTheWaiting == Spec => []LineHoldsOnlyWaiting
<1>1. ScanInv /\ LineInv => LineHoldsOnlyWaiting
  <2> SUFFICES ASSUME ScanInv, LineInv PROVE LineHoldsOnlyWaiting
    OBVIOUS
  <2>1. Len(line) \in Nat /\ line \in [1..Len(line) -> Scans]
    BY LenProperties DEF LineInv
  <2>2. \A i \in 1..Len(line) : line[i] \in Scans /\ Among(line[i], line)
    BY <2>1 DEF Among
  <2>3. ASSUME purge.step \in {"recheck", "receipt"}, NEW s \in owed \cap purge.found
        PROVE  Position(line, s) = 0
    <3>1. s \in Scans /\ Cleared(s)
      BY <2>3 DEF ScanInv, TypeOK, ErasureProgress, Cleared
    <3> QED
      BY <3>1 DEF LineInv, Among, Position
  <2> QED
    BY <2>2, <2>3 DEF LineHoldsOnlyWaiting, LineInv, Single
<1> QED
  BY <1>1, InitLineInv, NextLineInv, Invariance, PTL DEF Spec

=============================================================================
