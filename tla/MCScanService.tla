---------------------------- MODULE MCScanService ----------------------------
(***************************************************************************)
(* Small instances of the service a deployment runs - interchangeable      *)
(* scans of one host -, of the reference data its scans are rated against  *)
(* and of the wizard that sets it up, with the stack it writes.  They      *)
(* share no state, so one run explores each of them, and "topic" says      *)
(* which one moves.                                                        *)
(***************************************************************************)
EXTENDS ScanService, ReferenceData, SetupWizard, MCWizardStack

CONSTANTS s1, s2, h1, a1, a2, daily, button

VARIABLE topic

deploymentVars == <<topic, vars, referenceVars, wizardVars, stackVars>>

OneHost == [s \in Scans |-> h1]

YesNo == {TRUE, FALSE}

(* The directory of the audit trail, and for Redis the same, one inside and *)
(* one beside it.                                                           *)
WizardAnswers ==
    [q \in ToSet(Questions) \ OpenQuestions |->
        CASE q = "public_base_url" -> {"https://scan"}
          [] q = "audit_log"       -> {TRUE}
          [] q \in {"audit_storage", "redis_persistence"} -> {"filesystem"}
          [] q = "audit_log_path"  -> {<<"audit">>}
          [] q = "redis_data_path" -> {<<"audit">>, <<"audit", "redis">>, <<"redis">>}
          [] OTHER -> YesNo]

ServiceInit ==
    /\ topic \in {"scans", "reference data", "wizard", "stack"}
    /\ Init
    /\ ReferenceInit
    /\ WizardInit
    /\ StackInit

ServiceNext ==
    \/ /\ topic = "scans"
       /\ Next
       /\ UNCHANGED <<topic, referenceVars, wizardVars, stackVars>>
    \/ /\ topic = "reference data"
       /\ ReferenceNext
       /\ UNCHANGED <<topic, vars, wizardVars, stackVars>>
    \/ /\ topic = "wizard"
       /\ WizardNext
       /\ UNCHANGED <<topic, vars, referenceVars, stackVars>>
    \/ /\ topic = "stack"
       /\ StackNext
       /\ UNCHANGED <<topic, vars, referenceVars, wizardVars>>

ServiceSpec == ServiceInit /\ [][ServiceNext]_deploymentVars

Symmetry == Permutations(Scans)
=============================================================================
