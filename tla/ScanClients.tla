----------------------------- MODULE ScanClients -----------------------------
(***************************************************************************)
(* What is done with the answers of ScanReader: an agent that polls a      *)
(* bounded number of times and then asks for the plan (await_scan and      *)
(* plan_remediation, webapp/workflows.py), and a visitor who has a stored  *)
(* scan compared with a report (compare_upload, webapp/app.py).  The       *)
(* comparison is held under a key of its own, which an erasure walks over  *)
(* after the scans (webapp/comparisons.py).                                *)
(***************************************************************************)
EXTENDS ScanReader

CONSTANTS
    MaxPolls        \* POLL_MAX_ATTEMPTS

ASSUME MaxPollsAssumption == MaxPolls \in Nat \ {0}

VARIABLES
    goal,           \* what the client that uses the reader is after
    identifier,     \* the uuid its workflow was given, as a set
    polls,          \* answers the running await_scan has had
    told,           \* how its last workflow ended
    compared,       \* scans a comparison is held of
    sweep,          \* where the erasure of comparisons stands
    doomed,         \* comparisons it has found
    owedSweep       \* history: comparisons held when it began

clientVars == <<goal, identifier, polls, told, compared, sweep, doomed, owedSweep>>

Endings == {"none", "finished", "unknown", "unfinished", "gave up",
            "planned", "not finished", "failed"}

ClientTypeOK ==
    /\ ReaderTypeOK
    /\ goal \in {"idle", "await", "sleep", "plan", "compare", "save"}
    /\ identifier \subseteq Scans
    /\ polls \in 0..MaxPolls
    /\ told \in Endings
    /\ compared \subseteq Scans
    /\ sweep \in {"idle", "walk", "delete", "done"}
    /\ doomed \subseteq Scans
    /\ owedSweep \subseteq Scans

ClientInit ==
    /\ ReaderInit
    /\ goal = "idle"
    /\ identifier = {}
    /\ polls = 0
    /\ told = "none"
    /\ compared = {}
    /\ sweep = "idle"
    /\ doomed = {}
    /\ owedSweep = {}

Sweeping == <<compared, sweep, doomed, owedSweep>>

(* A workflow ends and its caller is told how.                              *)
EndWith(ending) ==
    /\ goal' = "idle"
    /\ polls' = 0
    /\ told' = ending

-----------------------------------------------------------------------------
(* await_scan, plan_remediation and compare_upload each begin with a read.  *)
Ask(s, purpose) ==
    /\ goal = "idle"
    /\ ReadStatus(s)
    /\ goal' = purpose
    /\ identifier' = {s}
    /\ told' = "none"
    /\ UNCHANGED <<vars, polls, Sweeping>>

(* The next poll, after POLL_INTERVAL_SECONDS.                              *)
PollAgain(s) ==
    /\ goal = "sleep"
    /\ s \in identifier
    /\ ReadStatus(s)
    /\ goal' = "await"
    /\ UNCHANGED <<vars, identifier, polls, told, Sweeping>>

ReadOn(s) ==
    /\ ReadMetadata(s) \/ ReadResult(s)
    /\ UNCHANGED <<vars, clientVars>>

(* Mutant: polls until the scan has finished, not max_attempts times.       *)
PollUntilFinished(s) ==
    /\ goal = "await"
    /\ Reply(s)
    /\ IF draft.state \in Terminal
       THEN EndWith("finished")
       ELSE goal' = "sleep" /\ UNCHANGED <<polls, told>>
    /\ UNCHANGED <<vars, identifier, Sweeping>>

Poll(s) ==
    /\ goal = "await"
    /\ Reply(s)
    /\ CASE draft.state = "missing"    -> EndWith("unknown")
         [] draft.state \in Terminal   -> EndWith("finished")
         [] draft.state \notin Terminal \cup {"missing"} /\ polls + 1 = MaxPolls
                                       -> EndWith("gave up")
         [] OTHER -> goal' = "sleep" /\ polls' = polls + 1 /\ UNCHANGED told
    /\ UNCHANGED <<vars, identifier, Sweeping>>

(* Mutant: asks for the plan without having waited for the scan.            *)
AskForPlanAtOnce(s) ==
    /\ goal = "idle"
    /\ ReadStatus(s)
    /\ goal' = "plan"
    /\ identifier' = {s}
    /\ UNCHANGED <<vars, polls, told, Sweeping>>

(* plan_remediation has waited, and reads the same scan once more.          *)
AskForPlan(s) ==
    /\ goal = "idle"
    /\ told = "finished"
    /\ s \in identifier
    /\ ReadStatus(s)
    /\ goal' = "plan"
    /\ UNCHANGED <<vars, identifier, polls, told, Sweeping>>

Plan(s) ==
    /\ goal = "plan"
    /\ Reply(s)
    /\ CASE draft.state = "missing"    -> EndWith("unknown")
         [] draft.state = Completed    -> EndWith("planned")
         [] draft.state = Failed       -> EndWith("failed")
         [] OTHER                      -> EndWith("not finished")
    /\ UNCHANGED <<vars, identifier, Sweeping>>

(* 404, 409, or a document in memory that is compared and then saved.       *)
Compare(s) ==
    /\ goal = "compare"
    /\ Reply(s)
    /\ CASE draft.state = "missing"                  -> EndWith("unknown")
         [] draft.state = Completed /\ draft.result
              -> goal' = "save" /\ UNCHANGED <<polls, told>>
         [] OTHER                                    -> EndWith("unfinished")
    /\ UNCHANGED <<vars, identifier, Sweeping>>

(* ComparisonStore.save: a SET under a token of its own; the walk that runs *)
(* does not owe a comparison that was not there when it began.              *)
SaveComparison(s) ==
    /\ goal = "save"
    /\ s \in identifier
    /\ compared' = compared \cup {s}
    /\ owedSweep' = owedSweep \ {s}
    /\ EndWith("none")
    /\ UNCHANGED <<vars, readerVars, identifier, sweep, doomed>>

ExpireComparison(s) ==
    /\ s \in compared
    /\ compared' = compared \ {s}
    /\ UNCHANGED <<vars, readerVars, goal, identifier, polls, told, sweep, doomed, owedSweep>>

-----------------------------------------------------------------------------
(* purge_target of the comparisons: the walk of purge_target_data over the  *)
(* scans has ended, its receipt is not built yet.                           *)
Naming(h) == {s \in compared : HostOf[s] = h}

SweepStep(from, to) ==
    /\ purge.step = "receipt"
    /\ sweep = from
    /\ sweep' = to
    /\ UNCHANGED <<vars, readerVars, goal, identifier, polls, told>>

SweepWalk ==
    /\ SweepStep("idle", "delete")
    /\ doomed' = Naming(purge.host)
    /\ owedSweep' = Naming(purge.host)
    /\ UNCHANGED compared

(* Mutant: what the walk found is counted, and not deleted.                 *)
SweepNothing ==
    /\ doomed # {}
    /\ SweepStep("delete", "delete")
    /\ doomed' = {}
    /\ UNCHANGED <<compared, owedSweep>>

SweepDelete ==
    \E s \in doomed :
        /\ SweepStep("delete", "delete")
        /\ compared' = compared \ {s}
        /\ doomed' = doomed \ {s}
        /\ UNCHANGED owedSweep

(* The second walk counts what still matches into "remaining".              *)
SweepRecheck ==
    /\ doomed = {}
    /\ SweepStep("delete", "done")
    /\ doomed' = Naming(purge.host)
    /\ UNCHANGED <<compared, owedSweep>>

Sweep == SweepWalk \/ SweepDelete \/ SweepRecheck

(* The receipt is sent after the sweep; a handler may die at any moment.    *)
EraseToo ==
    /\ Erase
    /\ IF purge'.step = "idle"
       THEN sweep' = "idle" /\ doomed' = {} /\ owedSweep' = {}
       ELSE UNCHANGED <<sweep, doomed, owedSweep>>
    /\ UNCHANGED <<readerVars, goal, identifier, polls, told, compared>>

-----------------------------------------------------------------------------
ClientStep(s) ==
    \/ Ask(s, "await")
    \/ Ask(s, "compare")
    \/ PollAgain(s)
    \/ ReadOn(s)
    \/ Poll(s)
    \/ AskForPlan(s)
    \/ Plan(s)
    \/ Compare(s)
    \/ SaveComparison(s)

ServiceStep(s) ==
    /\ Begin(s) \/ Register(s) \/ Abort(s) \/ StartJob(s) \/ RunJob(s) \/ Lose(s)
         \/ ExpireKeys(s)
    /\ UNCHANGED <<readerVars, clientVars>>

ClientNext ==
    \/ \E s \in Scans : ClientStep(s) \/ ServiceStep(s) \/ ExpireComparison(s)
    \/ EraseToo
    \/ Sweep
    \/ ExpireQueue /\ UNCHANGED <<readerVars, clientVars>>

clientAllVars == <<vars, readerVars, clientVars>>

ClientSpec == ClientInit /\ [][ClientNext]_clientAllVars

Quiet == UNCHANGED <<readerVars, clientVars>>

(* As in PollingSpec: processes that live run on, time passes, and a client *)
(* that gave up asks again.                                                 *)
AgentSpec ==
    /\ ClientSpec
    /\ \A s \in Scans :
         /\ WF_clientAllVars(Register(s) /\ Quiet)
         /\ WF_clientAllVars(StartJob(s) /\ Quiet)
         /\ WF_clientAllVars(RunJob(s) /\ Quiet)
         /\ WF_clientAllVars(ExpireKeys(s) /\ Quiet)
         /\ WF_clientAllVars(ClientStep(s))
         /\ WF_clientAllVars(ExpireComparison(s))
    /\ WF_clientAllVars(ExpireQueue /\ Quiet)

-----------------------------------------------------------------------------
(* An agent is answered after a bounded number of polls, whatever becomes   *)
(* of the scan, of its worker or of its keys (workflows.py, await_scan).    *)
AgentIsAnswered == goal = "await" ~> goal = "idle"

(* An agent that waited for its scan and then asks for the plan is never    *)
(* told that the scan has not finished: what one answer called final, a     *)
(* later one put together from other reads does not take back               *)
(* (workflows.py, plan_remediation).                                        *)
WaitedPlanIsNeverUnfinished == told # "not finished"

(* When the receipt counts the comparisons as well, none that named the host*)
(* when their walk began is left - whoever read what beside it              *)
(* (comparisons.py, "The second walk is what makes the number in the        *)
(* receipt honest").                                                        *)
ComparisonsAreErased ==
    sweep = "done" => owedSweep \cap compared = {}

=============================================================================
