----------------------------- MODULE Remediation -----------------------------
(***************************************************************************)
(* The rating and its fix plan: _compute_rating and _rating_caps of        *)
(* opencloud_local_scan/scanner.py, plan of remediation.py and the changes *)
(* of remediation_groups.py.  An operator is handed the plan of one scan,  *)
(* follows its steps in order or makes one change out of order, and scans  *)
(* again.                                                                  *)
(*                                                                         *)
(* Findings are numbers, in the order of their identifiers.  A version is  *)
(* what the rating asks of it; the release the plan names may itself be    *)
(* the subject of an advisory.                                             *)
(***************************************************************************)
EXTENDS SequencesExt, Integers

CONSTANTS
    Severity,       \* the severity of each check, by its number
    Unactionable    \* checks whose flag OpenCloud hardcodes

Findings == DOMAIN Severity

SeverityRatingCap == [critical |-> 2, high |-> 3, medium |-> 4, low |-> 5]
MinRating == 0
MaxRating == 5

ASSUME RemediationAssumption ==
    /\ Severity \in Seq(DOMAIN SeverityRatingCap)
    /\ Unactionable \subseteq Findings

VARIABLES
    version,        \* what the rating asks of the installed release
    target,         \* the same of the release an upgrade leads to
    open,           \* checks that fail
    waived,         \* checks a waiver covers
    affects,        \* extra_checks_affect_rating
    plan,           \* the plan of the last scan, and its steps still to take
    fresh,          \* whether nothing of it was done yet
    expected,       \* what it says the rating is after what was done
    upgraded        \* whether the upgrade was taken since

remediationVars ==
    <<version, target, open, waived, affects, plan, fresh, expected,
      upgraded>>

(* The base rating of each kind of version.                                 *)
BaseRating ==
    [endOfLife  |-> 0, urgent  |-> 1, advisory |-> 2,
     lineBehind |-> 3, pending |-> 4, current  |-> 5]

-----------------------------------------------------------------------------
(* The rating *)

Cap(check) == SeverityRatingCap[Severity[check]]

(* _rating_with, and _rating_caps: the strictest cap under a ceiling.       *)
RatingWith(ceiling, checks) ==
    Max({MinRating, Min({ceiling} \cup {Cap(c) : c \in checks})})

Counting == open \ waived

(* _compute_rating.  End of life overrides everything else.                 *)
Rating ==
    IF version = "endOfLife" THEN MinRating
    ELSE IF affects THEN RatingWith(BaseRating[version], Counting)
    ELSE BaseRating[version]

-----------------------------------------------------------------------------
(* The plan *)

(* _caps_of: the caps the rating recorded, rebuilt where it recorded none.  *)
Caps == IF version = "endOfLife" \/ affects THEN Counting ELSE {}

Held == Caps \cap Unactionable

(* By cap, then identifier; two severities never share a cap.               *)
Precedes(c, d) == Cap(c) < Cap(d) \/ (Cap(c) = Cap(d) /\ c < d)

Fixable ==
    LET fixed == Caps \ Unactionable
    IN [n \in 1..Cardinality(fixed) |->
          CHOOSE c \in fixed : Cardinality({d \in fixed : Precedes(d, c)}) = n - 1]

Rest(fixed) == Held \cup {Fixable[i] : i \in fixed + 1..Len(Fixable)}

Upgradable == BaseRating[version] < MaxRating

(* _upgrade_position: how many findings are fixed before it changes a thing.*)
UpgradePosition ==
    LET pays == {n \in 0..Len(Fixable) :
                    RatingWith(MaxRating, Rest(n)) > RatingWith(BaseRating[version], Rest(n))}
    IN IF Upgradable /\ pays # {} THEN Min(pays) ELSE Len(Fixable)

(* Mutant: a fixed finding promises what only the upgrade allows.           *)
PromiseAll(n) == RatingWith(MaxRating, Rest(n))

(* The rating after n findings: the version is the ceiling until the upgrade*)
AfterFindings(n) ==
    RatingWith(IF n > UpgradePosition THEN MaxRating ELSE BaseRating[version], Rest(n))

Upgrade == 0        \* the step "versionCurrent", beside the checks

FindingStep(n) == [fix |-> Fixable[n], after |-> AfterFindings(n)]

UpgradeSteps ==
    IF Upgradable
    THEN <<[fix |-> Upgrade, after |-> RatingWith(MaxRating, Rest(UpgradePosition))]>>
    ELSE <<>>

Steps ==
    LET findings == [n \in 1..Len(Fixable) |-> FindingStep(n)]
    IN SubSeq(findings, 1, UpgradePosition)
           \o UpgradeSteps
           \o SubSeq(findings, UpgradePosition + 1, Len(Fixable))

ThePlan == [base     |-> BaseRating[version],
            caps     |-> Caps,
            steps    |-> Steps,
            measured |-> affects \/ version # "endOfLife"]

(* replay: what one change alone, made before any step, would give.         *)
Replay(fixes) ==
    RatingWith(IF Upgrade \in fixes THEN MaxRating ELSE plan.base, plan.caps \ fixes)

-----------------------------------------------------------------------------
RemediationTypeOK ==
    /\ version \in DOMAIN BaseRating
    /\ target \in {"current", "advisory", "urgent"}
    /\ open \subseteq Findings
    /\ waived \subseteq Findings
    /\ affects \in BOOLEAN
    /\ fresh \in BOOLEAN
    /\ expected \in MinRating..MaxRating
    /\ upgraded \in BOOLEAN

RemediationInit ==
    /\ version \in DOMAIN BaseRating
    /\ target \in {"current", "advisory", "urgent"}
    /\ open \in SUBSET Findings
    /\ waived \in SUBSET open
    /\ affects \in BOOLEAN
    /\ plan = ThePlan
    /\ fresh = TRUE
    /\ expected = Rating
    /\ upgraded = FALSE

Apply(fixes) ==
    /\ open' = open \ fixes
    /\ version' = IF Upgrade \in fixes THEN target ELSE version
    /\ upgraded' = (upgraded \/ Upgrade \in fixes)
    /\ UNCHANGED <<target, waived, affects>>

TakeStep ==
    /\ plan.steps # <<>>
    /\ LET step == Head(plan.steps)
       IN Apply({step.fix}) /\ expected' = step.after
    /\ plan' = [plan EXCEPT !.steps = Tail(@)]
    /\ fresh' = FALSE

(* A change of a group: what one edit fixes of the findings of the plan.    *)
MakeChange ==
    /\ fresh
    /\ \E fixes \in SUBSET {plan.steps[i].fix : i \in DOMAIN plan.steps} :
          Apply(fixes) /\ expected' = Replay(fixes)
    /\ plan' = [plan EXCEPT !.steps = <<>>]
    /\ fresh' = FALSE

(* The scan measures again, and hands out the plan of what it found.        *)
ScanAgain ==
    /\ plan' = ThePlan
    /\ fresh' = TRUE
    /\ expected' = Rating
    /\ upgraded' = FALSE
    /\ UNCHANGED <<version, target, open, waived, affects>>

RemediationNext == TakeStep \/ MakeChange \/ ScanAgain

RemediationSpec == RemediationInit /\ [][RemediationNext]_remediationVars

-----------------------------------------------------------------------------
(* The plan puts the upgrade where it gains something, and leaves it without*)
(* a gain only where the hardcoded flags hold the rating anyway: no order of*)
(* its steps would deliver it (remediation.py, _upgrade_position).          *)
UpgradePays ==
    \A i \in DOMAIN Steps :
        Steps[i].fix = Upgrade =>
            \/ Steps[i].after > IF i = 1 THEN Rating ELSE Steps[i - 1].after
            \/ RatingWith(MaxRating, Held) = RatingWith(BaseRating[version], Held)

(* What a step or a change of the plan says the rating will be is what the  *)
(* next scan measures: with several findings under one ceiling, with the    *)
(* upgrade before, between or after them, waived and hardcoded ones beside  *)
(* them, and after end of life, where the rating recorded no caps.  The     *)
(* release upgraded to has to be one without an advisory, and the findings  *)
(* of an end-of-life instance have to affect ratings.  And the upgrade is   *)
(* where it pays (remediation.py, plan and _upgrade_position).              *)
PlanKeepsItsWord ==
    /\ plan.measured /\ (upgraded => target = "current") => Rating = expected
    /\ UpgradePays

=============================================================================
