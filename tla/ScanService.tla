---------------------------- MODULE ScanService ----------------------------
(***************************************************************************)
(* The scan lifecycle of the web service: submission handlers, ARQ jobs,   *)
(* one erasure at a time and the clock, all over one Redis.  Between any   *)
(* two commands of one of them every other may run.                        *)
(***************************************************************************)
EXTENDS ScanSubmission, ScanWorker, ScanPurge

VARIABLES
    owed            \* history: what the erasure that runs has to have erased

vars == <<storeVars, submit, workerVars, purge, owed>>

Init ==
    /\ StoreInit
    /\ SubmissionInit
    /\ WorkerInit
    /\ PurgeInit
    /\ owed = {}

(* A handler finishes or dies within the TTL its first SET gave the keys.   *)
Settled(s) == submit[s] \in {"accepted", "dropped", "aborted"}

Expire(s) ==
    /\ Settled(s)
    /\ ExpireMetadata(s) \/ ExpireProber(s) \/ ExpireStatus(s) \/ ExpireRecord(s)

(* The scans that are wholly registered for host h.                         *)
Held(h) ==
    {s \in Scans : /\ HostOf[s] = h
                   /\ s \in meta
                   /\ submit[s] \in {"limit", "enqueue", "accepted"}}

TrackOwed ==
    owed' = IF purge.step = "idle" /\ purge'.step = "walk" THEN Held(purge'.host)
            ELSE IF purge'.step = "idle" THEN {}
            ELSE owed

Begin(s) ==
    /\ CreateMetadata(s)
    /\ UNCHANGED <<workerVars, purge, owed>>

Register(s) ==
    /\ ContinueSubmission(s)
    /\ UNCHANGED <<workerVars, purge, owed>>

Abort(s) ==
    /\ AbortSubmission(s)
    /\ UNCHANGED <<workerVars, purge, owed>>

StartJob(s) ==
    /\ TakeJob(s)
    /\ UNCHANGED <<submit, purge, owed>>

RunJob(s) ==
    /\ JobStep(s)
    /\ UNCHANGED <<submit, purge, owed>>

Lose(s) ==
    /\ LoseJob(s)
    /\ UNCHANGED <<submit, purge, owed>>

Erase ==
    /\ PurgeStep
    /\ TrackOwed
    /\ UNCHANGED <<submit, workerVars>>

ExpireKeys(s) ==
    /\ Expire(s)
    /\ UNCHANGED <<submit, workerVars, purge, owed>>

ExpireQueue ==
    /\ ExpireLine
    /\ UNCHANGED <<submit, workerVars, purge, owed>>

Next ==
    \/ \E s \in Scans : Begin(s) \/ Register(s) \/ Abort(s)
    \/ \E s \in Scans : StartJob(s) \/ RunJob(s) \/ Lose(s)
    \/ Erase
    \/ \E s \in Scans : ExpireKeys(s)
    \/ ExpireQueue

Spec == Init /\ [][Next]_vars

(* A handler and a job run on while their process lives, and a worker with  *)
(* a free slot takes the next job.                                          *)
LiveSpec ==
    /\ Spec
    /\ \A s \in Scans :
         /\ WF_vars(Register(s))
         /\ WF_vars(StartJob(s))
         /\ WF_vars(RunJob(s))

TypeOK ==
    /\ StoreTypeOK
    /\ SubmissionTypeOK
    /\ WorkerTypeOK
    /\ PurgeTypeOK
    /\ owed \subseteq Scans

-----------------------------------------------------------------------------
(* Safety *)

(* A scan shown as running or finished still has the metadata that names    *)
(* its target, and a stored result belongs to a scan shown as completed:    *)
(* no interleaving of a transition, an erasure and the clock tears the      *)
(* namespace apart (store.py, _transition and set_if_exists).               *)
NamespaceWhole ==
    \A s \in Scans :
        /\ status[s] \in Renewed => s \in meta
        /\ s \in result <=> status[s] = Completed

(* The line holds a uuid once, and no scan that is shown as running or      *)
(* finished (store.py, mark_running), nor one an erasure found, from its    *)
(* second walk on (ADR 0007, "that scan's entries in the shared queue").    *)
(* The entry of a scan that expired while it waited does stay.              *)
LineHoldsOnlyWaiting ==
    /\ \A i, j \in 1..Len(line) : line[i] = line[j] => i = j
    /\ \A i \in 1..Len(line) : status[line[i]] \notin Renewed
    /\ purge.step \in {"recheck", "receipt"} =>
         \A s \in owed \cap purge.found : Position(line, s) = 0

(* While a job probes, and ever after, the fingerprint of who asked is gone *)
(* from the scan's namespace (tasks.py, run_scan: "taken now ... so the     *)
(* fingerprint is gone for however long the scan itself takes").            *)
ProberForgotten ==
    \A s \in Scans :
        job[s] \in {"probe", "leave", "reread", "finish", "strike", "done"}
            => s \notin prober

(* A strike is held against a network only for a scan whose visitor was     *)
(* told it failed, or that is no longer there to be told about.             *)
StrikeOnlyForFailure ==
    \A s \in strikes : s \in meta => status[s] = Failed

(* When the receipt is written, every scan that was wholly registered when  *)
(* the erasure began has lost its metadata and its result, and those the    *)
(* first walk found have no key left at all.  Jobs of theirs may still be   *)
(* running (purge.py, "we looked again and there is nothing there").        *)
HonestReceipt ==
    purge.step = "receipt" =>
        \A s \in owed :
            /\ s \notin meta \cup result
            /\ s \in purge.found => NoKeys(s)

(* Once a wholly registered scan has no key left - erased or expired - none *)
(* of its keys is ever written again, whatever its job was doing (store.py, *)
(* _transition: "prevents an in-flight worker reviving that UUID").         *)
NoRevival ==
    [][\A s \in Scans : Settled(s) /\ NoKeys(s) => NoKeys(s)']_vars

-----------------------------------------------------------------------------
(* The inductive strengthening the proofs use *)

(* How far the handler is bounds what can exist: nothing before its first   *)
(* SET, no status before its third, no job and no transition before it has  *)
(* enqueued; and metadata that outlived the handler has its status.         *)
Registered ==
    \A s \in Scans :
        /\ submit[s] = "none" => NoKeys(s)
        /\ submit[s] \in Unshown \cup {"dropped"} => status[s] = "none"
        /\ submit[s] # "accepted" => job[s] = "waiting" /\ s \notin jobs
        /\ status[s] \in Renewed => submit[s] = "accepted"
        /\ s \in meta /\ status[s] = "none" => submit[s] \in Unshown \cup {"dropped"}

(* How far the job is bounds the state: no transition before MarkRunning,   *)
(* and between the two a scan that still has its metadata is running.       *)
JobShows ==
    \A s \in Scans :
        /\ job[s] \in {"waiting", "lookup", "record", "unline", "read", "start"}
               => status[s] \notin Renewed
        /\ job[s] \in {"take", "forget", "probe", "leave", "reread", "finish"}
               => (s \in meta => status[s] = Running)

(* What the erasure owes and has not erased yet is still on one of its      *)
(* lists, and what it has erased stays erased.                              *)
ErasureProgress ==
    /\ purge.step \in {"idle", "walk", "recheck", "receipt"} => purge.left = {}
    /\ purge.step = "idle" => owed = {}
    /\ \A s \in owed :
         /\ HostOf[s] = purge.host
         /\ submit[s] \notin {"none", "dropped"} \cup Unshown
         /\ purge.step = "walk" => s \in purge.pending \cup purge.found \/ s \notin meta
         /\ purge.step \in {"delete", "unline", "recheck", "receipt"} =>
                /\ s \in purge.left \/ s \notin meta
                /\ s \in purge.found \ purge.left => NoKeys(s)

ScanInv ==
    /\ TypeOK
    /\ Registered
    /\ JobShows
    /\ NamespaceWhole
    /\ ProberForgotten
    /\ ErasureProgress

-----------------------------------------------------------------------------
(* The abstract promise *)

(* The status key alone decides what a visitor is shown.  A uuid whose      *)
(* status was never written is unknown; one whose status is gone is gone.   *)
View ==
    [s \in Scans |->
        IF status[s] # "none" THEN status[s]
        ELSE IF submit[s] \in {"none", "dropped"} \cup Unshown THEN "unknown"
        ELSE "gone"]

Promise == INSTANCE AbstractScan WITH view <- View

(* The service keeps the promise: whatever is interleaved, every step shows *)
(* the holder of a uuid a legal step of the abstract scan, or nothing.      *)
KeepsPromise == Promise!Spec

-----------------------------------------------------------------------------
(* Liveness *)

(* A scan that was accepted does not wait for ever: its visitor is told how *)
(* it ended, or it is gone - unless its worker died with it, or its metadata*)
(* is gone already, which expires first and which an erasure may take while *)
(* the scan is still being registered.  No deadline has to pass for that    *)
(* (tasks.py, run_scan: "a failed job is still a completed job").           *)
AcceptedScanEnds ==
    \A s \in Scans :
        submit[s] = "accepted"
            ~> \/ status[s] \in Terminal \cup {"none"}
               \/ job[s] = "lost"
               \/ s \notin meta

(* Everything expires on its own (ARCHITECTURE.md, "State and its           *)
(* lifetime"), whatever died on the way: no key of a scan stays for ever,   *)
(* nor does a uuid in a line that was given its expiry.  That each SET has  *)
(* one is in the definitions; a line whose handler died between RPUSH and   *)
(* EXPIRE has to wait for the next submission, and is left out here.        *)
EverythingExpires ==
    \A s \in Scans :
        <>[](NoKeys(s) /\ (lineTTL => Position(line, s) = 0))

-----------------------------------------------------------------------------
(* What the repository says and the code does not do *)

(* purge.py has the receipt say that all scan records held for the target   *)
(* were deleted: every scan a receipt with nothing remaining counts as      *)
(* deleted has no key left.                                                 *)
ReceiptCoversEveryKey ==
    purge.step = "receipt" /\ purge.remaining = {}
        => \A s \in purge.found : NoKeys(s)

=============================================================================
