------------------------------ MODULE PluginRun ------------------------------
(***************************************************************************)
(* The runs of the monitoring plugin for one host with --baseline and      *)
(* --warn-on-new: check_vulnerabilities and the chain it walks             *)
(* (check_opencloud_security.py), over the entry the host has in the       *)
(* baseline file (opencloud_local_scan/baseline.py).                       *)
(*                                                                         *)
(* A run measures, compares, stores and only then delivers its webhook and *)
(* prints: it may be killed in between.  The file may fail to be written,  *)
(* be lost or unreadable, and be written by the run of another host in     *)
(* another process, which puts back the entry it read.                     *)
(***************************************************************************)
EXTENDS FiniteSets, Naturals

CONSTANTS
    Measures,       \* checks the coverage block lists, where they are known
    Advisories      \* advisories that may match the installed version

VARIABLES
    entry,          \* the host's snapshot in the file
    elsewhere,      \* the entry another process has read and will put back
    verdict,        \* what the run under way will print, or the last one did
    running,        \* whether a run is still to print its verdict
    heard,          \* history: failures that were ever reported
    told,           \* history: failures reported since they were last seen gone
    known,          \* history: measures decided once, at most inconclusive since
    harm            \* history: what ever happened to the host's entry in the file

historyVars == <<heard, told, known, harm>>
pluginVars == <<entry, elsewhere, verdict, running, historyVars>>

(* The reason a measure is not passed: "absent" is one the scanner does not *)
(* know or was told to leave out of its coverage.                           *)
Outcomes == {"passed", "failed", "inconclusive", "notChecked", "absent"}

Nothing == [findings |-> {}]

ExitCodes == {"OK", "WARNING", "CRITICAL"}

-----------------------------------------------------------------------------
(* One scan: what became of each measure, and the rest of the result.       *)
Scans == [outcome  : [Measures -> Outcomes],
          matching : SUBSET Advisories,
          support  : {"lasting", "ending", "over"}]   \* "ending": or a waiver is

With(scan, outcomes) == {m \in Measures : scan.outcome[m] \in outcomes}

(* snapshot_of.                                                             *)
SnapshotOf(scan) ==
    [findings     |-> With(scan, {"failed"}) \cup scan.matching,
     measured     |-> With(scan, {"passed", "failed"}),
     inconclusive |-> With(scan, {"inconclusive"}),
     considered   |-> With(scan, Outcomes \ {"absent"}),
     rating       |-> IF scan.support = "over" THEN 0 ELSE IF scan.matching # {} THEN 1 ELSE 2,
     eol          |-> scan.support = "over"]

(* The chain up to the baseline: rating and advisories, then the hardenings,*)
(* the end of support and of waivers, each of which raises an OK only.      *)
ExitCode(scan) ==
    IF scan.support = "over" THEN "CRITICAL"
    ELSE IF scan.matching # {} \/ With(scan, {"failed"}) # {} \/ scan.support = "ending"
    THEN "WARNING" ELSE "OK"

(* What is kept of a snapshot; rating and the undecided are not compared.   *)
Stored(snapshot) ==
    [findings   |-> snapshot.findings,
     measured   |-> snapshot.measured,
     considered |-> snapshot.considered,
     rating     |-> snapshot.rating]

FirstRun == entry = Nothing

(* Baseline.compare.                                                        *)
NewlyMeasured(now) ==
    {f \in now.findings \ entry.findings :
        f \notin entry.considered /\ f \in now.considered}

NewFindings(now) == (now.findings \ entry.findings) \ NewlyMeasured(now)

CoverageLost(now) == IF FirstRun THEN {} ELSE now.inconclusive \cap entry.measured

(* Mutant: a failure measured for the first time is nobody's regression.    *)
RegressedUnlessNewlyMeasured(now) ==
    \/ FirstRun
    \/ NewFindings(now) # {}
    \/ now.rating < entry.rating
    \/ now.eol
    \/ CoverageLost(now) # {}

(* Comparison.regressed.                                                    *)
Regressed(now) ==
    \/ FirstRun
    \/ NewFindings(now) # {}
    \/ NewlyMeasured(now) # {}
    \/ now.rating < entry.rating
    \/ now.eol
    \/ CoverageLost(now) # {}

(* Mutant: only what this run measured is known to be measurable.           *)
NotCarried(now) == Stored(now)

(* A lost measure is carried forward as measurable.                         *)
Carried(now) ==
    [Stored(now) EXCEPT !.measured = @ \cup CoverageLost(now)]

Suppressed(scan, now) == ExitCode(scan) # "OK" /\ ~Regressed(now)

Reported(scan, now) == IF Suppressed(scan, now) THEN {} ELSE now.findings

(* _apply_baseline, and what there is to say of a run that keeps quiet      *)
(* about its findings, and of what it could not decide.                     *)
Verdict(scan) ==
    LET now == SnapshotOf(scan)
        exit == IF Suppressed(scan, now) THEN "OK" ELSE ExitCode(scan)
        hidden == now.findings \ Reported(scan, now)
    IN [exit       |-> IF exit = "OK" /\ CoverageLost(now) # {} THEN "WARNING" ELSE exit,
        suppressed |-> Suppressed(scan, now),
        unheard    |-> hidden \ heard # {},
        unseen     |-> hidden \ told # {},
        blind      |-> now.inconclusive \cap known # {},
        eol        |-> Suppressed(scan, now) /\ now.eol]

NoVerdict == [exit |-> "none", suppressed |-> FALSE, unheard |-> FALSE,
              unseen |-> FALSE, blind |-> FALSE, eol |-> FALSE]

-----------------------------------------------------------------------------
PluginTypeOK ==
    /\ verdict.exit \in ExitCodes \cup {"none", "UNKNOWN"}
    /\ running \in BOOLEAN
    /\ heard \subseteq Measures \cup Advisories
    /\ told \subseteq heard
    /\ known \subseteq Measures
    /\ harm \subseteq {"lost", "overwritten"}

PluginInit ==
    /\ entry = Nothing
    /\ elsewhere = Nothing
    /\ verdict = NoVerdict
    /\ running = FALSE
    /\ heard = {}
    /\ told = {}
    /\ known = {}
    /\ harm = {}

(* What the run of this host adds to the histories, once it has stored its  *)
(* entry: a failure it does not find is gone, and a measure that is not     *)
(* listed or not checked is not known any more.                             *)
Remember(scan, now) ==
    /\ told' = (told \cup Reported(scan, now)) \cap now.findings
    /\ known' = now.measured \cup (now.inconclusive \cap known)

Run ==
    /\ ~running
    /\ \E scan \in Scans :
         LET now == SnapshotOf(scan) IN
         /\ running' = TRUE
         /\ verdict' = Verdict(scan)
         /\ heard' = heard \cup Reported(scan, now)
         /\ \/ entry' = Carried(now) /\ Remember(scan, now)
            \/ /\ told' = told \cup Reported(scan, now)         \* BaselineError
               /\ UNCHANGED <<entry, known>>
    /\ UNCHANGED <<elsewhere, harm>>

(* The scan fails: UNKNOWN, and the baseline is not touched.                *)
ScanFails ==
    /\ ~running
    /\ verdict' = [NoVerdict EXCEPT !.exit = "UNKNOWN"]
    /\ UNCHANGED <<entry, elsewhere, running, historyVars>>

Report ==
    /\ running
    /\ running' = FALSE
    /\ UNCHANGED <<entry, elsewhere, verdict, historyVars>>

(* The monitoring gives up on the run while the webhook is retried: what it *)
(* stored as told was not.                                                  *)
Killed ==
    /\ running
    /\ running' = FALSE
    /\ verdict' = NoVerdict
    /\ UNCHANGED <<entry, elsewhere, historyVars>>

(* A missing, corrupt or newer file is an empty baseline.                   *)
LoseBaseline ==
    /\ ~running
    /\ entry # Nothing
    /\ entry' = Nothing
    /\ harm' = harm \cup {"lost"}
    /\ UNCHANGED <<elsewhere, verdict, running, heard, told, known>>

(* The run of another host, in a process that does not share the lock: it   *)
(* reads the whole file, and later writes it whole.  What was reported and  *)
(* measured meanwhile stays reported and measured.                          *)
OtherReads ==
    /\ elsewhere # entry
    /\ elsewhere' = entry
    /\ UNCHANGED <<entry, verdict, running, historyVars>>

OtherWrites ==
    /\ elsewhere # entry
    /\ entry' = elsewhere
    /\ harm' = harm \cup {"overwritten"}
    /\ UNCHANGED <<elsewhere, verdict, running, heard, told, known>>

PluginNext ==
    \/ Run
    \/ ScanFails
    \/ Report
    \/ Killed
    \/ LoseBaseline
    \/ OtherReads
    \/ OtherWrites

PluginSpec == PluginInit /\ [][PluginNext]_pluginVars

-----------------------------------------------------------------------------
(* A run that says "nothing new since the last run" never says it of a      *)
(* release past its end of life, nor of a failure that was never reported,  *)
(* whatever became of the file.  While no other process wrote an older      *)
(* entry back, it says it of nothing that was not reported since a run last *)
(* stored that it was gone, through lost files, failed writes and checks    *)
(* that come and go (_apply_baseline, Comparison.regressed).  A report      *)
(* counts from the moment its run stored it: one that is killed before it   *)
(* printed is never made up for.                                            *)
NothingUnseenIsUnchanged ==
    ~running /\ verdict.suppressed =>
        /\ ~verdict.eol
        /\ ~verdict.unheard
        /\ "overwritten" \notin harm => ~verdict.unseen

(* As long as the file keeps what this host's runs stored in it - it is     *)
(* neither lost nor overwritten by another process - a measure that was     *)
(* decided keeps every run from OK while it stays inconclusive, and not     *)
(* only the first (Baseline.compare, the lost checks carried forward).  A   *)
(* run that stores it as not checked ends this, as the code has it.         *)
LostCoverageKeepsAlerting ==
    ~running /\ verdict.blind /\ harm = {} => verdict.exit # "OK"

=============================================================================
