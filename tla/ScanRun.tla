-------------------------------- MODULE ScanRun --------------------------------
(***************************************************************************)
(* One run of scan (opencloud_local_scan/scanner.py): it reaches the       *)
(* instance, verified or as far down the ladder as it has to go, reads     *)
(* what answers, records beside each decision what was covered             *)
(* (coverage.py), collects findings, applies the waivers - and what verify *)
(* (verification.py) says of the same answers afterwards.  Any request may *)
(* stay unanswered: an instance that throttles or restarts stops in the    *)
(* middle of a scan.  What each check makes of its answers is in Checks.   *)
(***************************************************************************)
EXTENDS Checks

CONSTANT Encounters      \* pairs of the settings of a scan and the instance it meets

Ways == {"first", "insecure", "plain"}

ScanSettings == [verify : BOOLEAN, stop : BOOLEAN, extra : BOOLEAN, ports : BOOLEAN,
                 everywhere : BOOLEAN, ipv6 : BOOLEAN]

(* says: what each request is answered, or Silent; families: those of the   *)
(* addresses of the name; nodes: what the other addresses answer.           *)
ASSUME EncountersAssumption ==
    \A s \in Encounters :
        /\ \E r \in ScanSettings : \A f \in DOMAIN r : s.settings[f] = r[f]
        /\ DOMAIN s.instance.says = Sources
        /\ s.instance.families \subseteq {"ipv4", "ipv6"}
        /\ Answered(s.instance.says["status"])

ScanSteps == Ways \cup {"opening", "advise", "inspect", "collect", "waive", "cover",
                    "done", "failed"}
States == {"passed", "failed", "not_checked", "inconclusive"}

VARIABLES
    settings,       \* what the scan was asked, with its waivers
    instance,       \* what it meets
    step,
    reached,        \* the way the instance was reached
    foreign,        \* history: something answered that is not OpenCloud
    coverage,       \* CoverageRecorder.entries: check |-> state
    findings,       \* extraChecks: check |-> passed
    ignored         \* identifiers the waivers took out of the alert

scanVars == <<settings, instance, step, reached, foreign, coverage, findings, ignored>>

StateOf(passed) == IF passed THEN "passed" ELSE "failed"

said == instance.says

-----------------------------------------------------------------------------
(* The findings that need more than one answer.                             *)
OverHttps == reached # "plain"

(* _address_parity_may_run and its finding, of one address per family.      *)
FamiliesCompared == settings.ipv6 /\ instance.families = {"ipv4", "ipv6"} /\ OverHttps

TlsParityFinding ==
    When(FamiliesCompared, "tlsAddressParity", SameIdentity(said["ipv4"], said["ipv6"]))

(* _content_parity_finding: the others against the first address.           *)
NodesCompared == settings.everywhere /\ instance.nodes # {}

ContentParityFinding ==
    When(NodesCompared, "addressParity",
         \A other \in instance.nodes :
            Answered(other) /\ SameContent(said, other, reached, settings.waived))

TlsFindings ==
    IF OverHttps THEN TlsChecks(said["handshake"], settings.verify) ELSE <<>>

(* The DNS is asked over HTTPS only.                                        *)
DnsFindings == IF OverHttps THEN CaaFinding(said) ++ DnssecFinding(said) ELSE <<>>

(* _collect_extra_findings and the finding that HTTPS was unusable.         *)
ExtraFindings ==
    TlsFindings ++ DnsFindings ++ TlsParityFinding ++ ContentParityFinding
        ++ CookieFindings(said) ++ AuthenticationFinding(said) ++ BasicAuthFinding(said)
        ++ IdentityProviderFinding(said) ++ DemoUserFinding(said) ++ ReverseProxyFinding(said)
        ++ ExposedPathFinding(said) ++ CompanionFindings(said) ++ DirectoryListingFinding(said)
        ++ DebugEndpointFinding(said) ++ WebEmbedFindings(said)
        ++ CorsFinding(said) ++ TraceFinding(said) ++ ForwardedHostFinding(said)
        ++ (IF settings.ports THEN PortFindings(said) ELSE <<>>)
        ++ DisclosureFindings(said) ++ WebfingerFinding(said)
        ++ VersionFindings(VersionOf(said) = "known")
        ++ When(~OverHttps, "httpsAvailable", FALSE)

-----------------------------------------------------------------------------
(* Mutant: the last write wins.                                             *)
RecordOver(entries) == coverage' = entries ++ coverage

(* CoverageRecorder: the first write wins.                                  *)
Record(entries) == coverage' = coverage ++ entries

(* Where each hardening is read: HARDENING_PREREQUISITES.                   *)
HardeningSource ==
    [hstsLongMaxAge |-> "root", hstsPreload |-> "root", cspWithoutUnsafeInline |-> "root",
     basicAuthDisabled |-> "challenge",
     publicLinkPasswordEnforced |-> "capabilities",
     publicLinkExpirationEnforced |-> "capabilities",
     userEnumerationRestricted |-> "capabilities",
     passwordPolicyEnforced |-> "capabilities",
     passwordPolicyComplexity |-> "capabilities",
     oidcPkceSupported |-> "provider", oidcImplicitFlowDisabled |-> "provider",
     oidcSigningAlgorithmStrong |-> "provider", oidcEndpointsUseHttps |-> "provider"]

(* record_hardening_coverage: why a measure was left out.                   *)
NotApplicable(c) ==
    \/ HardeningSource[c] = "provider" /\ ~Detected(said)
    \/ c = "oidcImplicitFlowDisabled" /\ ~External(said)

HardeningCoverage ==
    LET rated == Hardenings(said, reached)
    IN [c \in DOMAIN HardeningSource |->
          IF c \in DOMAIN rated THEN StateOf(rated[c])
          ELSE IF Answered(said["root"]) \/ NotApplicable(c) THEN "not_checked"
          ELSE "inconclusive"]

HeaderCoverage ==
    LET measured == Headers(said) ++ AdvisoryHeaders(said)
    IN [c \in DOMAIN measured |->
          IF Answered(said["root"]) THEN StateOf(measured[c]) ELSE "inconclusive"]

AdvisoryCoverage ==
    [c \in DOMAIN AdvisoryChecks(said) |->
        IF settings.extra THEN StateOf(AdvisoryChecks(said)[c]) ELSE "not_checked"]

CapabilitiesCoverage ==
    [capabilities |-> IF Answered(said["capabilities"]) THEN "passed" ELSE "not_checked"]

(* Observations of what is integrated.                                      *)
IntegrationCoverage ==
    [office   |-> IF settings.extra THEN StateOf(said["apps"] = "present") ELSE "not_checked",
     calendar |-> IF settings.extra THEN StateOf(said["calendar"] = "present")
                  ELSE "not_checked"]

(* inspect always returns an inspection, of a failed handshake too.         *)
TransportCoverage ==
    LET Due(state) == IF settings.extra /\ OverHttps THEN state ELSE "not_checked"
    IN [tlsInspection |-> Due("passed"),
        caaRecord     |-> Due(IF Answered(said["caa"]) THEN "passed" ELSE "inconclusive"),
        dnssec        |-> Due(IF DnssecAnswered(said) THEN "passed" ELSE "inconclusive")]

(* Whether there was a comparison, not what it said; of an IPv6 address not *)
(* even that.                                                               *)
AddressCoverage ==
    LET Compared(observed) ==
            IF settings.extra /\ observed THEN "passed" ELSE "not_checked"
        Undecided == settings.extra /\ OverHttps /\ ~FamiliesCompared /\ NodesCompared
    IN [tlsByAddress        |-> IF Undecided THEN "inconclusive"
                                ELSE Compared(FamiliesCompared),
        addressObservations |-> Compared(NodesCompared),
        ipv6Reachability    |-> IF settings.ipv6 /\ "ipv6" \in instance.families
                                THEN "passed" ELSE "not_checked"]

-----------------------------------------------------------------------------
StartScan(encounter) ==
    /\ settings = encounter.settings
    /\ instance = encounter.instance
    /\ step = "first"
    /\ reached = "none"
    /\ foreign = FALSE
    /\ coverage = <<>>
    /\ findings = <<>>
    /\ ignored = {}

ScanInit == \E encounter \in Encounters : StartScan(encounter)

(* Mutant: only the first answer is asked what it was.                      *)
NextWayAfterFirst(way, other) ==
    IF way = "plain" \/ (way = "first" /\ settings.stop /\ other) THEN "failed"
    ELSE IF way = "first" /\ settings.verify THEN "insecure"
    ELSE "plain"

(* _open_instance of an https:// host: where it turns when one way was of   *)
(* no use, because nothing answered or because it was not OpenCloud.        *)
NextWay(way, other) ==
    IF way = "plain" \/ (settings.stop /\ other) THEN "failed"
    ELSE IF way = "first" /\ settings.verify THEN "insecure"
    ELSE "plain"

Refuse(way, other) ==
    /\ step = way
    /\ step' = NextWay(way, other)
    /\ foreign' = (foreign \/ other)
    /\ UNCHANGED <<settings, instance, reached, coverage, findings, ignored>>

(* A client that verifies is let in by a certificate it trusts only, and no *)
(* client speaks the old versions on its own.                               *)
LetIn(way) ==
    LET endpoint == said["handshake"]
        verifying == way = "first" /\ settings.verify
    IN way # "plain" /\ Answered(endpoint) =>
        Trust(endpoint) \in IF verifying THEN {"trusted"} ELSE {"trusted", "refused"}

Reach(way) ==
    /\ step = way
    /\ LetIn(way)
    /\ step' = "opening"
    /\ reached' = way
    /\ UNCHANGED <<settings, instance, foreign, coverage, findings, ignored>>

(* The opening batch, and the coverage of what it decides.                  *)
ReadOpening ==
    /\ step = "opening"
    /\ step' = "advise"
    /\ Record(HardeningCoverage ++ HeaderCoverage)
    /\ UNCHANGED <<settings, instance, reached, foreign, findings, ignored>>

Advise ==
    /\ step = "advise"
    /\ step' = "inspect"
    /\ Record(AdvisoryCoverage ++ CapabilitiesCoverage)
    /\ UNCHANGED <<settings, instance, reached, foreign, findings, ignored>>

(* The handshakes, the DNS and the other addresses.                         *)
InspectTransport ==
    /\ step = "inspect"
    /\ step' = "collect"
    /\ Record(IntegrationCoverage ++ TransportCoverage ++ AddressCoverage)
    /\ UNCHANGED <<settings, instance, reached, foreign, findings, ignored>>

Collect ==
    /\ step = "collect"
    /\ step' = "waive"
    /\ findings' = IF settings.extra THEN ExtraFindings ELSE <<>>
    /\ UNCHANGED <<settings, instance, reached, foreign, coverage, ignored>>

ApplyWaivers ==
    /\ step = "waive"
    /\ step' = "cover"
    /\ ignored' = settings.waived
         \cap (FailedIn(findings) \cup FailedIn(Hardenings(said, reached))
                 \cup FailedIn(Headers(said)) \cup FailedIn(HttpsEnforced(said, reached)))
    /\ UNCHANGED <<settings, instance, reached, foreign, coverage, findings>>

(* Mutant: a waived finding is recorded as one that did not fail.           *)
CoverAlerts ==
    /\ step = "cover"
    /\ step' = "done"
    /\ Record([c \in DOMAIN findings |-> StateOf(findings[c] \/ c \in ignored)])
    /\ UNCHANGED <<settings, instance, reached, foreign, findings, ignored>>

CoverFindings ==
    /\ step = "cover"
    /\ step' = "done"
    /\ Record([c \in DOMAIN findings |-> StateOf(findings[c])])
    /\ UNCHANGED <<settings, instance, reached, foreign, findings, ignored>>

ScanNext ==
    \/ \E way \in Ways :
         \/ \E other \in BOOLEAN : Refuse(way, other)
         \/ Reach(way)
    \/ ReadOpening
    \/ Advise
    \/ InspectTransport
    \/ Collect
    \/ ApplyWaivers
    \/ CoverFindings

ScanSpec == ScanInit /\ [][ScanNext]_scanVars

-----------------------------------------------------------------------------
(* verify: what the probe groups of verification.py make of the same        *)
(* answers, over the way the scan came.                                     *)

(* Mutant: the hardenings are derived without the page.                     *)
HardeningsWithoutPage(way) == Hardenings([said EXCEPT !["root"] = Silent], way)

(* _group_hardenings.                                                       *)
HardeningsAgain(way) == Hardenings(said, way)

(* _group_root and _group_identity.                                         *)
PageAgain ==
    Headers(said) ++ AdvisoryHeaders(said) ++ CookieFindings(said) ++ ReverseProxyFinding(said)
        ++ DisclosureFindings(said)

IdentityAgain ==
    BasicAuthFinding(said) ++ IdentityProviderFinding(said) ++ DemoUserFinding(said)

(* Each group on its own; the version is read off status.php alone, and the *)
(* DNS is asked over plain HTTP as well.                                    *)
Verified(way) ==
    PageAgain ++ IdentityAgain ++ HardeningsAgain(way)
        ++ HttpsEnforced(said, way) ++ AdvisoryChecks(said) ++ TlsFindings
        ++ CaaFinding(said) ++ DnssecFinding(said) ++ PortFindings(said)
        ++ ExposedPathFinding(said) ++ AuthenticationFinding(said) ++ DebugEndpointFinding(said)
        ++ CompanionFindings(said) ++ WebEmbedFindings(said) ++ DirectoryListingFinding(said)
        ++ CorsFinding(said) ++ TraceFinding(said) ++ ForwardedHostFinding(said)
        ++ WebfingerFinding(said) ++ VersionFindings(said["status"] = "named")

Unverifiable == {"httpsAvailable", "addressParity", "tlsAddressParity"}

(* What the scan's document shows as failing, and what of it may alert.     *)
Alerting ==
    FailedIn(findings) \cup FailedIn(Hardenings(said, reached)) \cup FailedIn(Headers(said))
        \cup FailedIn(HttpsEnforced(said, reached))
Shown == Alerting \cup FailedIn(AdvisoryHeaders(said)) \cup FailedIn(AdvisoryChecks(said))

FullScanDone == step = "done" /\ settings.extra

-----------------------------------------------------------------------------
ScanTypeOK ==
    /\ step \in ScanSteps
    /\ reached \in Ways \cup {"none"}
    /\ foreign \in BOOLEAN
    /\ \A c \in DOMAIN coverage : coverage[c] \in States
    /\ \A c \in DOMAIN findings : findings[c] \in BOOLEAN
    /\ ignored \subseteq settings.waived

(* A measure read from the opening answers is covered as measured exactly   *)
(* when it was rated, as it was rated, and never when its request was lost; *)
(* no later, coarser write changes that: a finding of the same name passes  *)
(* when nobody was there to challenge it (coverage.py, "First write wins";  *)
(* scanner.py, _basic_auth_finding).                                        *)
OpeningCoverageIsHonest ==
    step = "done" =>
        LET rated == Hardenings(said, reached)
        IN /\ \A c \in DOMAIN HardeningSource :
                IF c \in DOMAIN rated
                THEN Answered(said[HardeningSource[c]]) /\ coverage[c] = StateOf(rated[c])
                ELSE coverage[c] \in {"not_checked", "inconclusive"}
           /\ \A c \in DOMAIN Headers(said) :
                coverage[c] \in {"passed", "failed"} <=> Answered(said["root"])
           /\ coverage["capabilities"] = "passed" <=> Answered(said["capabilities"])

(* Waivers hide alerts and no evidence: whatever the finding that fails,    *)
(* the coverage says so, under its own name, waived or not; and only what   *)
(* fails is waived (scanner.py, _apply_waivers and the coverage after it).  *)
WaiversHideNoEvidence ==
    step = "done" =>
        /\ \A c \in FailedIn(findings) : coverage[c] = "failed"
        /\ ignored \subseteq Alerting

(* A host that has answered, and not as OpenCloud, is asked nothing more by *)
(* a scan that was told to stop there, however it had been reached          *)
(* (scanner.py, stop_when_not_opencloud).                                   *)
NotOpenCloudIsLeftAlone == settings.stop /\ foreign => step = "failed"

(* What a scan shows as failing still fails when it is verified at once, on *)
(* the same answers: nobody is told that a thing is fixed that is not       *)
(* (verification.py, verify).  Answers that depend on the way in are not    *)
(* looked at.                                                               *)
StillFailingWhenAskedAgain ==
    FullScanDone =>
        Shown \ Unverifiable \subseteq FailedIn(Verified(reached))

(* Where coverage that rests on a request of its own got its answer.        *)
CheckSource == HardeningSource ++
    [exposed          |-> "path",
     authentication   |-> "protected",
     debugEndpoint    |-> "debugEndpoint",
     tlsInspection    |-> "handshake",
     caaRecord        |-> "caa",
     ipv6Reachability |-> "ipv6"]

(* "A missing measurement is never a pass" (coverage.py:17).                *)
MissingIsNeverAPass ==
    FullScanDone =>
        \A c \in DOMAIN CheckSource :
            coverage[c] = "passed" => Answered(said[CheckSource[c]])

=============================================================================
