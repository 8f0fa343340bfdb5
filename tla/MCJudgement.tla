----------------------------- MODULE MCJudgement -----------------------------
(***************************************************************************)
(* What an operator relies on besides the service: the lifecycle verdict,  *)
(* the waivers, the fix plan, the explanation of a difference, the run of  *)
(* a scan and its verification, the plugin's runs.  They share no state, so *)
(* one run explores each of them, and "topic" says which one moves.        *)
(***************************************************************************)
EXTENDS Lifecycle, Waivers, Remediation, ReportChanges, MCScanRun, PluginRun

CONSTANTS c1, c2, c3, h1, v1

VARIABLE topic

Topics == {"lifecycle", "waivers", "plan", "changes", "scan", "plugin"}

(* Two checks under one ceiling, one of them hardcoded, and one above it and *)
(* one below.                                                                *)
FourChecks == <<"high", "medium", "medium", "low">>

(* A name, and two globs that share a check neither has to itself.          *)
SomePatterns == {{c1}, {c1, c2}, {c2, c3, h1}}

(* A release one schedule ended before the first date, and another keeps    *)
(* for one; a scanner that does not make the check, and an old one.         *)
TwoSchedules ==
    [r \in {"old", "new"} |->
        [s \in {"first", "second"} |->
            IF r = "old" /\ s = "first" THEN 0 ELSE 1]]

ThreeScanners == [s \in {"legacy", "narrow", "wide"} |->
                    IF s = "narrow" THEN {} ELSE {c1}]

(* The scan that is left alone while another topic moves.                   *)
OneScan == [settings |-> Thorough, instance |-> [says |-> Good, nodes |-> {Good},
                                                 families |-> {"ipv4", "ipv6"}]]

JudgementInit ==
    /\ topic \in Topics
    /\ RemediationInit
    /\ topic # "plan" =>
         /\ version = "current"
         /\ target = "current"
         /\ open = {}
         /\ affects
    /\ ReportInit
    /\ topic # "changes" =>
         later.release = "new" /\ later.schedule = "first" /\ later.scanner = "wide"
    /\ IF topic = "scan" THEN ScanInit ELSE StartScan(OneScan)
    /\ LifecycleInit
    /\ WaiversInit
    /\ PluginInit

JudgementNext ==
    \/ /\ topic = "lifecycle"
       /\ LifecycleNext
       /\ UNCHANGED <<topic, waiverVars, remediationVars, pluginVars,
                      reportVars, scanVars>>
    \/ /\ topic = "waivers"
       /\ WaiversNext
       /\ UNCHANGED <<topic, lifecycleVars, remediationVars, pluginVars,
                      reportVars, scanVars>>
    \/ /\ topic = "plan"
       /\ RemediationNext
       /\ UNCHANGED <<topic, lifecycleVars, waiverVars, pluginVars,
                      reportVars, scanVars>>
    \/ /\ topic = "plugin"
       /\ PluginNext
       /\ UNCHANGED <<topic, lifecycleVars, waiverVars, remediationVars,
                      reportVars, scanVars>>
    \/ /\ topic = "changes"
       /\ ReportNext
       /\ UNCHANGED <<topic, lifecycleVars, waiverVars, remediationVars, pluginVars,
                      scanVars>>
    \/ /\ topic = "scan"
       /\ ScanNext
       /\ UNCHANGED <<topic, lifecycleVars, waiverVars, remediationVars, pluginVars,
                      reportVars>>

JudgementSpec ==
    /\ JudgementInit
    /\ [][JudgementNext]_<<topic, lifecycleVars, waiverVars, remediationVars,
                           reportVars, scanVars, pluginVars>>
=============================================================================
