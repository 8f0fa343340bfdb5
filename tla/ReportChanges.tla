----------------------------- MODULE ReportChanges -----------------------------
(***************************************************************************)
(* Why two scans of one deployment differ, as explain tells it             *)
(* (opencloud_local_scan/changes.py), beside what really happened between  *)
(* them: the deployment, the scanner, the schedule and the waivers change, *)
(* time passes, and the report kept for comparison is renewed.  Advisories *)
(* and release tracks are told like the schedule and left out.             *)
(***************************************************************************)
EXTENDS FiniteSets, Naturals

CONSTANTS
    Watched,        \* extra checks whose failing a report lists
    MadeBy,         \* the checks each version of the scanner makes
    Legacy,         \* the version whose reports carry no blocks yet
    SupportedUntil, \* the last supported date of a release, per schedule
    LastDate        \* bound: dates

ASSUME ReportAssumption ==
    /\ \A s \in DOMAIN MadeBy : MadeBy[s] \subseteq Watched
    /\ LastDate \in Nat
    /\ \A r, q \in DOMAIN SupportedUntil :     \* every schedule tells of each release
         SupportedUntil[r] \in [DOMAIN SupportedUntil[q] -> Nat]

VARIABLES
    earlier,        \* what held at the earlier scan
    later           \* what holds since, and at the later one

reportVars == <<earlier, later>>

Releases == DOMAIN SupportedUntil

(* What a scan depends on.  One waiver covers every check; a measure that   *)
(* is no extra check, and its part of the configuration, may stay undecided *)
(* ("dark").                                                                *)
Worlds == [release  : Releases,
           schedule : UNION {DOMAIN SupportedUntil[r] : r \in Releases},
           config   : {"usual", "other"},
           broken   : SUBSET Watched,
           scanner  : DOMAIN MadeBy,
           dark     : BOOLEAN,
           waiver   : {"none", "active", "expired"},
           date     : 1..LastDate]

ReportTypeOK == earlier \in Worlds /\ later \in Worlds

ReportInit ==
    /\ later \in {w \in Worlds : w.date = 1 /\ ~ w.dark /\ w.waiver = "none"
                                   /\ w.config = "usual" /\ w.broken = {}}
    /\ earlier = later

-----------------------------------------------------------------------------
(* The result document of a scan.                                           *)
HasBlocks(w) == w.scanner # Legacy

Failing(w) == w.broken \cap MadeBy[w.scanner]

Listed(w) == IF w.waiver = "active" THEN {} ELSE Failing(w)

EndOfLife(w) == w.date > SupportedUntil[w.release][w.schedule]

Grade(w) ==
    IF EndOfLife(w) THEN 0 ELSE IF Listed(w) # {} THEN 1 ELSE 2

(* The digest of a configuration group, over the facts the scan could read, *)
(* and the number of checks it came to a conclusion on.                     *)
Fingerprint(w) == [scope |-> ~ w.dark, digest |-> w.config]

Measured(w) == Cardinality(MadeBy[w.scanner]) + (IF w.dark THEN 0 ELSE 1)

-----------------------------------------------------------------------------
(* _one_sided_checks: what only the second of two scans considered.         *)
OnlyIn(b, a) ==
    IF HasBlocks(a) /\ HasBlocks(b)
    THEN MadeBy[b.scanner] \ MadeBy[a.scanner]
    ELSE {}

(* Mutant: a check that was not made before counts as one that passed.      *)
AppearedSinceMade(a, b) == Listed(b) \ Listed(a)

Appeared(a, b) == (Listed(b) \ Listed(a)) \ OnlyIn(b, a)

Resolved(a, b) == (Listed(a) \ Listed(b)) \ OnlyIn(a, b)

(* drift compares a group when both scans looked at the same facts.         *)
Drifted(a, b) ==
    /\ HasBlocks(a) /\ HasBlocks(b)
    /\ Fingerprint(a).scope = Fingerprint(b).scope
    /\ Fingerprint(a).digest # Fingerprint(b).digest

If(condition, code) == IF condition THEN {code} ELSE {}

InstanceChanges(a, b) ==
         If(a.release # b.release, "versionChanged")
    \cup If(Drifted(a, b), "configurationChanged")
    \cup If(Appeared(a, b) # {}, "findingsAppeared")
    \cup If(Resolved(a, b) # {}, "findingsResolved")

ReferenceChanges(a, b) ==
    IF ~ (HasBlocks(a) /\ HasBlocks(b))
    THEN {}
    ELSE If(a.schedule # b.schedule, "scheduleDataChanged")
         \cup If(a.schedule = b.schedule /\ ~ EndOfLife(a) /\ EndOfLife(b),
                 "supportWindowElapsed")

ScannerChanges(a, b) ==
    IF ~ (HasBlocks(a) /\ HasBlocks(b))
    THEN {}
    ELSE      If(a.scanner # b.scanner, "scannerVersionChanged")
         \cup If(OnlyIn(b, a) # {}, "checksNewlyMeasured")
         \cup If(OnlyIn(a, b) # {}, "checksNoLongerMeasured")
         \cup If(Measured(a) # Measured(b), "coverageChanged")
         \cup If(~ a.dark /\ b.dark, "coverageRegressed")

PolicyChanges(a, b) ==
    LET newlyExpired == a.waiver # "expired" /\ b.waiver = "expired"
    IN  IF ~ (HasBlocks(a) /\ HasBlocks(b))
        THEN {}
        ELSE      If(newlyExpired, "waiversExpired")
             \cup If(a.waiver # "active" /\ b.waiver = "active", "waiversAdded")
             \cup If(a.waiver = "active" /\ b.waiver # "active" /\ ~ newlyExpired,
                     "waiversRemoved")

Causes(a, b) ==
    InstanceChanges(a, b) \cup ReferenceChanges(a, b)
        \cup ScannerChanges(a, b) \cup PolicyChanges(a, b)

Limitations(a, b) ==
         If(~ (HasBlocks(a) /\ HasBlocks(b)), "a report lacks its blocks")
    \cup If(HasBlocks(a) /\ HasBlocks(b) /\ Fingerprint(a).scope # Fingerprint(b).scope,
            "groups not compared")
    \cup If({"findingsResolved", "coverageChanged"} \subseteq Causes(a, b)
              /\ Measured(b) < Measured(a),
            "some may not have been measured")
    \cup If(Grade(a) # Grade(b) /\ Causes(a, b) = {}, "nothing accounts for it")

-----------------------------------------------------------------------------
(* Between two scans.                                                       *)
Becomes(w) == later' = w /\ UNCHANGED earlier

Install(r) == r # later.release /\ Becomes([later EXCEPT !.release = r])

Reconfigure ==
    \E c \in {"usual", "other"} :
        c # later.config /\ Becomes([later EXCEPT !.config = c])

BreakOrMend(c) ==
    \/ c \in later.broken /\ Becomes([later EXCEPT !.broken = @ \ {c}])
    \/ c \notin later.broken /\ Becomes([later EXCEPT !.broken = @ \cup {c}])

ReplaceScanner(s) == s # later.scanner /\ Becomes([later EXCEPT !.scanner = s])

LoseOrFindMeasure == Becomes([later EXCEPT !.dark = ~ @])

RefreshSchedule ==
    \E s \in DOMAIN SupportedUntil[later.release] :
        s # later.schedule /\ Becomes([later EXCEPT !.schedule = s])

EditWaivers ==
    \E w \in {"none", "active"} :
        w # later.waiver /\ Becomes([later EXCEPT !.waiver = w])

LetWaiverExpire ==
    later.waiver = "active" /\ Becomes([later EXCEPT !.waiver = "expired"])

LetDatePass == later.date < LastDate /\ Becomes([later EXCEPT !.date = @ + 1])

(* The later report is kept, as what the next one is compared with.         *)
KeepReport == earlier' = later /\ UNCHANGED later

ReportNext ==
    \/ \E r \in Releases : Install(r)
    \/ Reconfigure
    \/ \E c \in Watched : BreakOrMend(c)
    \/ \E s \in DOMAIN MadeBy : ReplaceScanner(s)
    \/ LoseOrFindMeasure
    \/ RefreshSchedule
    \/ EditWaivers
    \/ LetWaiverExpire
    \/ LetDatePass
    \/ KeepReport

ReportSpec == ReportInit /\ [][ReportNext]_reportVars

-----------------------------------------------------------------------------
(* Of two full reports, explain claims of the instance only what happened   *)
(* to it: a check that is said to have started or stopped failing did, or a *)
(* change of the waivers is told with it, and a drift is a reconfiguration. *)
(* And a grade that moved is never left without a cause.                    *)
ExplanationFitsTheFacts ==
    HasBlocks(earlier) /\ HasBlocks(later) =>
        /\ \A c \in Appeared(earlier, later) \cup Resolved(earlier, later) :
              \/ (c \in earlier.broken) # (c \in later.broken)
              \/ PolicyChanges(earlier, later) # {}
        /\ Drifted(earlier, later) => earlier.config # later.config
        /\ Grade(earlier) # Grade(later) => Causes(earlier, later) # {}

=============================================================================
