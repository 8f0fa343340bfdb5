--------------------------- MODULE JudgementProofs ---------------------------
(***************************************************************************)
(* What an operator relies on besides the service, for every value of the  *)
(* constants: the plugin's runs, the explanation of a difference, the run  *)
(* of a scan, the waivers, the lifecycle verdict and the fix plan.         *)
(***************************************************************************)
EXTENDS Lifecycle, Waivers, Remediation, ReportChanges, ScanRun, PluginRun, DataLemmas

-----------------------------------------------------------------------------
(* The runs of the plugin.  What the entry lists was reported, and so was   *)
(* what another process may put back; since it was last seen gone, until    *)
(* such an older entry is.  In a file that keeps what was stored in it, the *)
(* entry knows every measure that was decided to be measurable.             *)
EntryWasTold == "overwritten" \notin harm => entry.findings \subseteq told

EntriesWereHeard == entry.findings \cup elsewhere.findings \subseteq heard

KnownIsStored ==
    harm = {} /\ known # {} => entry # Nothing /\ known \subseteq entry.measured

VerdictIsHonest ==
    /\ verdict.suppressed =>
         /\ ~verdict.eol
         /\ ~verdict.unheard
         /\ "overwritten" \notin harm => ~verdict.unseen
    /\ verdict.blind /\ harm = {} => verdict.exit # "OK"

PluginInv == EntryWasTold /\ EntriesWereHeard /\ KnownIsStored /\ VerdictIsHonest

(* A run that carries an entry over keeps its findings, and adds the lost   *)
(* coverage to what it knows to be measurable (baseline.py).                *)
LEMMA CarriedIsAnEntry ==
    ASSUME NEW snap
    PROVE  /\ Carried(snap).findings = snap.findings
           /\ Carried(snap).measured = snap.measured \cup CoverageLost(snap)
           /\ Carried(snap) # Nothing
<1>1. "measured" \in DOMAIN Carried(snap)
  BY DEF Carried, Stored
<1>2. "measured" \notin DOMAIN Nothing
  BY DEF Nothing
<1> QED
  BY <1>1, <1>2 DEF Carried, Stored

(* A run that keeps quiet has nothing failing that is not in the entry.     *)
LEMMA QuietRunsAreKnown ==
    ASSUME NEW scan, Suppressed(scan, SnapshotOf(scan))
    PROVE  /\ SnapshotOf(scan).findings \subseteq entry.findings
           /\ ~ SnapshotOf(scan).eol
BY DEF Suppressed, Regressed, NewFindings, NewlyMeasured

(* One run of the plugin, whether its entry is stored or not, keeps the     *)
(* invariant.                                                               *)
LEMMA RunKeepsPluginInv == PluginInv /\ Run => PluginInv'
<1> SUFFICES ASSUME PluginInv, Run PROVE PluginInv'
  OBVIOUS
<1> PICK scan \in Scans :
      LET snap == SnapshotOf(scan) IN
      /\ verdict' = Verdict(scan)
      /\ heard' = heard \cup Reported(scan, snap)
      /\ \/ entry' = Carried(snap) /\ Remember(scan, snap)
         \/ /\ told' = told \cup Reported(scan, snap)
            /\ UNCHANGED <<entry, known>>
      /\ UNCHANGED <<elsewhere, harm>>
  BY DEF Run
<1> DEFINE snap == SnapshotOf(scan)
<1>1. VerdictIsHonest'
  <2>1. verdict' = Verdict(scan) /\ harm' = harm
    OBVIOUS
  <2>2. Verdict(scan).suppressed =>
          /\ ~Verdict(scan).eol
          /\ ~Verdict(scan).unheard
          /\ "overwritten" \notin harm => ~Verdict(scan).unseen
    <3>1. Suppressed(scan, snap) => snap.findings \ heard = {} /\ ~ snap.eol
      BY QuietRunsAreKnown DEF PluginInv, EntriesWereHeard
    <3>2. Suppressed(scan, snap) /\ "overwritten" \notin harm => snap.findings \ told = {}
      BY QuietRunsAreKnown DEF PluginInv, EntryWasTold
    <3>3. Suppressed(scan, snap) => Reported(scan, snap) = {}
      BY DEF Reported
    <3>4. /\ Verdict(scan).suppressed = Suppressed(scan, snap)
          /\ Verdict(scan).eol = (Suppressed(scan, snap) /\ snap.eol)
          /\ Verdict(scan).unheard =
               ((snap.findings \ Reported(scan, snap)) \ heard # {})
          /\ Verdict(scan).unseen =
               ((snap.findings \ Reported(scan, snap)) \ told # {})
      BY Zenon DEF Verdict
    <3> QED
      BY <3>1, <3>2, <3>3, <3>4
  <2>3. Verdict(scan).blind /\ harm = {} => Verdict(scan).exit # "OK"
    <3>1. harm = {} /\ snap.inconclusive \cap known # {} => CoverageLost(snap) # {}
      BY DEF PluginInv, KnownIsStored, CoverageLost, FirstRun
    <3> QED
      BY <3>1 DEF Verdict
  <2> QED
    BY <2>1, <2>2, <2>3 DEF VerdictIsHonest
<1>2. snap.findings \subseteq heard \cup Reported(scan, snap)
  BY QuietRunsAreKnown DEF Reported, PluginInv, EntriesWereHeard
<1>3. "overwritten" \notin harm => snap.findings \subseteq told \cup Reported(scan, snap)
  BY QuietRunsAreKnown DEF Reported, PluginInv, EntryWasTold
<1>4. CASE entry' = Carried(snap) /\ Remember(scan, snap)
  <2>1. EntryWasTold'
    BY <1>3, <1>4, CarriedIsAnEntry DEF EntryWasTold, Remember
  <2>2. EntriesWereHeard'
    BY <1>2, <1>4, CarriedIsAnEntry DEF EntriesWereHeard, PluginInv
  <2>3. harm = {} => known' \subseteq snap.measured \cup CoverageLost(snap)
    BY <1>4 DEF Remember, CoverageLost, FirstRun, PluginInv, KnownIsStored
  <2>4. KnownIsStored'
    BY <1>4, <2>3, CarriedIsAnEntry DEF KnownIsStored
  <2> QED
    BY <1>1, <2>1, <2>2, <2>4 DEF PluginInv
<1>5. CASE told' = told \cup Reported(scan, snap) /\ UNCHANGED <<entry, known>>
  BY <1>1, <1>5 DEF PluginInv, EntryWasTold, EntriesWereHeard, KnownIsStored
<1> QED
  BY <1>4, <1>5

(* The invariant holds in every behaviour, whatever becomes of the file.    *)
LEMMA PluginInvHolds == PluginSpec => []PluginInv
<1>1. PluginInit => PluginInv
  BY DEF PluginInit, PluginInv, EntryWasTold, EntriesWereHeard, KnownIsStored,
         VerdictIsHonest, NoVerdict, Nothing
<1>2. PluginInv /\ [PluginNext]_pluginVars => PluginInv'
  <2> SUFFICES ASSUME PluginInv, [PluginNext]_pluginVars PROVE PluginInv'
    OBVIOUS
  <2> USE DEF PluginInv, EntryWasTold, EntriesWereHeard, KnownIsStored, VerdictIsHonest,
          historyVars
  <2>1. CASE Run
    BY <2>1, RunKeepsPluginInv
  <2>2. CASE ScanFails
    BY <2>2 DEF ScanFails, NoVerdict
  <2>3. CASE Report
    BY <2>3 DEF Report
  <2>4. CASE Killed
    BY <2>4 DEF Killed, NoVerdict
  <2>5. CASE LoseBaseline
    BY <2>5 DEF LoseBaseline, Nothing
  <2>6. CASE OtherReads
    BY <2>6 DEF OtherReads
  <2>7. CASE OtherWrites
    BY <2>7 DEF OtherWrites
  <2>8. CASE UNCHANGED pluginVars
    BY <2>8 DEF pluginVars
  <2> QED
    BY <2>1, <2>2, <2>3, <2>4, <2>5, <2>6, <2>7, <2>8 DEF PluginNext
<1> QED
  BY <1>1, <1>2, PTL DEF PluginSpec

(* For any checks and advisories: "nothing new" is never said of a failure  *)
(* that was never reported, nor past an end of life, through failed writes, *)
(* lost files and entries put back by other processes; and of nothing seen  *)
(* gone since it was reported, as long as no process puts an older entry    *)
(* back - after which the code does say it (baseline.py, compare;           *)
(* check_opencloud_security.py, _apply_baseline).                           *)
THEOREM QuietMeansTold == PluginSpec => []NothingUnseenIsUnchanged
<1>1. PluginInv => NothingUnseenIsUnchanged
  BY DEF PluginInv, VerdictIsHonest, NothingUnseenIsUnchanged
<1> QED
  BY <1>1, PluginInvHolds, PTL

(* A measure once decided keeps each run from OK while it stays undecided,  *)
(* for any checks, in a file that is neither lost nor overwritten by        *)
(* another process: a gap that either of them makes the entry forget is     *)
(* outside the theorem (baseline.py, coverage_lost;                         *)
(* check_opencloud_security.py, _apply_baseline).                           *)
THEOREM GapsKeepAlerting == PluginSpec => []LostCoverageKeepsAlerting
<1>1. PluginInv => LostCoverageKeepsAlerting
  BY DEF PluginInv, VerdictIsHonest, LostCoverageKeepsAlerting
<1> QED
  BY <1>1, PluginInvHolds, PTL


-----------------------------------------------------------------------------
(* The explanation of a difference.  Between two scans time only passes.    *)
ReportInv == ReportTypeOK /\ earlier.date <= later.date

(* Two reports are compared in the order of their dates.                    *)
LEMMA ReportInvHolds == ReportSpec => []ReportInv
<1>1. ReportInit => ReportInv
  BY DEF ReportInit, ReportInv, ReportTypeOK, Worlds
<1>2. ReportInv /\ [ReportNext]_reportVars => ReportInv'
  <2> SUFFICES ASSUME ReportInv, [ReportNext]_reportVars PROVE ReportInv'
    OBVIOUS
  <2>0. earlier \in Worlds /\ later \in Worlds /\ earlier.date <= later.date
    BY DEF ReportInv, ReportTypeOK
  <2>1. ASSUME NEW w \in Worlds, w.date >= later.date, Becomes(w) PROVE ReportInv'
    BY <2>0, <2>1 DEF Becomes, ReportInv, ReportTypeOK, Worlds
  <2>2. ASSUME NEW r \in Releases, Install(r) PROVE ReportInv'
    BY <2>0, <2>1, <2>2 DEF Install, Worlds
  <2>3. CASE Reconfigure
    BY <2>0, <2>1, <2>3 DEF Reconfigure, Worlds
  <2>4. ASSUME NEW c \in Watched, BreakOrMend(c) PROVE ReportInv'
    <3>1. [later EXCEPT !.broken = @ \ {c}] \in Worlds
      BY <2>0 DEF Worlds
    <3>2. [later EXCEPT !.broken = @ \cup {c}] \in Worlds
      BY <2>0 DEF Worlds
    <3> QED
      BY <2>0, <2>1, <2>4, <3>1, <3>2 DEF BreakOrMend, Worlds
  <2>5. ASSUME NEW s \in DOMAIN MadeBy, ReplaceScanner(s) PROVE ReportInv'
    BY <2>0, <2>1, <2>5 DEF ReplaceScanner, Worlds
  <2>6. CASE LoseOrFindMeasure
    <3>1. \A d \in BOOLEAN : [later EXCEPT !.dark = d] \in Worlds
      BY <2>0 DEF Worlds
    <3>2. (~ later.dark) \in BOOLEAN
      BY Zenon
    <3>3. [later EXCEPT !.dark = ~ @] \in Worlds
      BY <3>1, <3>2
    <3>4. [later EXCEPT !.dark = ~ @].date >= later.date
      BY <2>0 DEF Worlds
    <3> QED
      BY <2>1, <2>6, <3>3, <3>4, Zenon DEF LoseOrFindMeasure
  <2>7. CASE RefreshSchedule
    <3>1. PICK s \in DOMAIN SupportedUntil[later.release] :
             Becomes([later EXCEPT !.schedule = s])
      BY <2>7 DEF RefreshSchedule
    <3>2. later.release \in Releases
      BY <2>0 DEF Worlds
    <3>3. [later EXCEPT !.schedule = s] \in Worlds
      BY <2>0, <3>1, <3>2 DEF Worlds
    <3> QED
      BY <2>0, <2>1, <3>1, <3>3 DEF Worlds
  <2>8. CASE EditWaivers
    BY <2>0, <2>1, <2>8 DEF EditWaivers, Worlds
  <2>9. CASE LetWaiverExpire
    BY <2>0, <2>1, <2>9 DEF LetWaiverExpire, Worlds
  <2>10. CASE LetDatePass
    <3>1. [later EXCEPT !.date = @ + 1] \in Worlds
      BY <2>0, <2>10, ReportAssumption DEF LetDatePass, Worlds
    <3> QED
      BY <2>0, <2>1, <2>10, <3>1 DEF LetDatePass, Worlds
  <2>11. CASE KeepReport \/ UNCHANGED reportVars
    BY <2>0, <2>11 DEF KeepReport, reportVars, ReportInv, ReportTypeOK, Worlds
  <2> QED
    BY <2>2, <2>3, <2>4, <2>5, <2>6, <2>7, <2>8, <2>9, <2>10, <2>11 DEF ReportNext
<1> QED
  BY <1>1, <1>2, PTL DEF ReportSpec

(* A conditional sentence of the explanation is there iff its condition is. *)
LEMMA IfIs == ASSUME NEW c \in BOOLEAN, NEW x PROVE If(c, x) # {} <=> c
BY DEF If

(* Waivers that stop covering what they covered are told.                   *)
LEMMA WaiversAreTold ==
    ASSUME NEW a \in Worlds, NEW b \in Worlds, HasBlocks(a), HasBlocks(b),
           (a.waiver = "active") # (b.waiver = "active")
    PROVE  PolicyChanges(a, b) # {}
BY DEF PolicyChanges, If

(* A release supported before, and no more, has moved or its date passed.   *)
LEMMA SupportEndsForACause ==
    ASSUME NEW a \in Worlds, NEW b \in Worlds, HasBlocks(a), HasBlocks(b),
           a.date <= b.date, EndOfLife(a) # EndOfLife(b)
    PROVE  Causes(a, b) # {}
<1>1. CASE a.release # b.release
  BY <1>1 DEF Causes, InstanceChanges, If
<1>2. CASE a.schedule # b.schedule
  BY <1>2 DEF Causes, ReferenceChanges, If
<1>3. CASE a.release = b.release /\ a.schedule = b.schedule
  <2>1. a.date \in Nat /\ b.date \in Nat
    BY ReportAssumption DEF Worlds
  <2>2. a.schedule \in DOMAIN SupportedUntil[a.release] /\ a.release \in Releases
    BY ReportAssumption DEF Worlds, Releases
  <2>3. SupportedUntil[a.release][a.schedule] \in Nat
    BY <2>2, ReportAssumption DEF Releases
  <2>4. ~ EndOfLife(a) /\ EndOfLife(b)
    BY <1>3, <2>1, <2>3 DEF EndOfLife
  <2> QED
    BY <1>3, <2>4 DEF Causes, ReferenceChanges, If
<1> QED
  BY <1>1, <1>2, <1>3

(* Nothing starts to be listed, or stops, without a cause that is told.     *)
LEMMA ListingMovesForACause ==
    ASSUME NEW a \in Worlds, NEW b \in Worlds, HasBlocks(a), HasBlocks(b),
           Listed(a) # Listed(b)
    PROVE  Causes(a, b) # {}
<1>1. CASE Appeared(a, b) # {} \/ Resolved(a, b) # {}
  BY <1>1 DEF Causes, InstanceChanges, If
<1>2. CASE OnlyIn(b, a) # {} \/ OnlyIn(a, b) # {}
  BY <1>2 DEF Causes, ScannerChanges, If
<1> QED
  BY <1>1, <1>2 DEF Appeared, Resolved

(* Of the instance only what happened to it is claimed, and a grade that    *)
(* moved has a cause, whatever the scanner, the schedule and the waivers did *)
(* in between (opencloud_local_scan/changes.py, explain).                   *)
THEOREM ExplanationsFit == ReportSpec => []ExplanationFitsTheFacts
<1>1. ReportInv => ExplanationFitsTheFacts
  <2> SUFFICES ASSUME ReportInv, HasBlocks(earlier), HasBlocks(later)
               PROVE  /\ \A c \in Appeared(earlier, later) \cup Resolved(earlier, later) :
                            \/ (c \in earlier.broken) # (c \in later.broken)
                            \/ PolicyChanges(earlier, later) # {}
                      /\ Drifted(earlier, later) => earlier.config # later.config
                      /\ Grade(earlier) # Grade(later) => Causes(earlier, later) # {}
    BY DEF ExplanationFitsTheFacts
  <2>0. earlier \in Worlds /\ later \in Worlds /\ earlier.date <= later.date
    BY DEF ReportInv, ReportTypeOK
  <2>1. ASSUME NEW c \in Appeared(earlier, later) \cup Resolved(earlier, later),
               PolicyChanges(earlier, later) = {}
        PROVE  (c \in earlier.broken) # (c \in later.broken)
    <3>1. (earlier.waiver = "active") = (later.waiver = "active")
      BY <2>0, <2>1, WaiversAreTold
    <3> QED
      BY <2>1, <3>1 DEF Appeared, Resolved, OnlyIn, Listed, Failing
  <2>2. Drifted(earlier, later) => earlier.config # later.config
    BY DEF Drifted, Fingerprint
  <2>3. Grade(earlier) # Grade(later) => Causes(earlier, later) # {}
    <3>1. SUFFICES ASSUME Causes(earlier, later) = {} PROVE Grade(earlier) = Grade(later)
      OBVIOUS
    <3>2. EndOfLife(earlier) = EndOfLife(later)
      BY <2>0, <3>1, SupportEndsForACause
    <3>3. Listed(earlier) = Listed(later)
      BY <2>0, <3>1, ListingMovesForACause
    <3> QED
      BY <3>2, <3>3 DEF Grade
  <2> QED
    BY <2>1, <2>2, <2>3
<1> QED
  BY <1>1, ReportInvHolds, PTL


-----------------------------------------------------------------------------
(* The run of a scan.  A host that answered as something else is asked      *)
(* nothing more by a scan told to stop there, over any way down the ladder  *)
(* and for any instance (scanner.py, _open_instance).                       *)
THEOREM OthersAreLeftAlone == ScanSpec => []NotOpenCloudIsLeftAlone
<1>1. ScanInit => NotOpenCloudIsLeftAlone
  BY DEF ScanInit, StartScan, NotOpenCloudIsLeftAlone
<1>2. NotOpenCloudIsLeftAlone /\ [ScanNext]_scanVars => NotOpenCloudIsLeftAlone'
  <2> SUFFICES ASSUME NotOpenCloudIsLeftAlone, [ScanNext]_scanVars
               PROVE  NotOpenCloudIsLeftAlone'
    OBVIOUS
  <2> USE DEF NotOpenCloudIsLeftAlone
  <2>1. ASSUME NEW way \in Ways, NEW other \in BOOLEAN, Refuse(way, other)
        PROVE  NotOpenCloudIsLeftAlone'
    BY <2>1 DEF Refuse, NextWay, Ways
  <2>2. ASSUME NEW way \in Ways, Reach(way) PROVE NotOpenCloudIsLeftAlone'
    BY <2>2 DEF Reach, Ways
  <2>3. CASE \/ ReadOpening \/ Advise \/ InspectTransport \/ Collect \/ ApplyWaivers
             \/ CoverFindings
    BY <2>3 DEF ReadOpening, Advise, InspectTransport, Collect, ApplyWaivers, CoverFindings
  <2>4. CASE UNCHANGED scanVars
    BY <2>4 DEF scanVars
  <2> QED
    BY <2>1, <2>2, <2>3, <2>4 DEF ScanNext
<1> QED
  BY <1>1, <1>2, PTL DEF ScanSpec


-----------------------------------------------------------------------------
(* Waivers.  Types, as a theorem of the specification.                      *)
THEOREM WaiversTypeCorrect == WaiversSpec => []WaiversTypeOK
<1> USE WaiversAssumption DEF WaiversTypeOK
<1>1. WaiversInit => WaiversTypeOK
  BY DEF WaiversInit
<1>2. WaiversTypeOK /\ [WaiversNext]_waiverVars => WaiversTypeOK'
  BY DEF WaiversNext, WriteWaiver, WithdrawWaiver, Turn, TimePasses, waiverVars
<1> QED
  BY <1>1, <1>2, PTL DEF WaiversSpec

(* A check some record covers now fails, and that record matches it.        *)
LEMMA CoveringIs ==
    ASSUME NEW c
    PROVE  Covering(c) = {r \in records : ActiveAt(r, now) /\ c \in r.matches \cap failing}
<1> DEFINE Entry(r) == [record |-> r, active |-> ActiveAt(r, now),
                        matched |-> r.matches \cap failing]
<1>1. Block = {Entry(r) : r \in records}
  BY DEF Block
<1>2. \A r : /\ Entry(r).record = r
             /\ Entry(r).active <=> ActiveAt(r, now)
             /\ Entry(r).matched = r.matches \cap failing
  OBVIOUS
<1> HIDE DEF Entry
<1> QED
  BY <1>1, <1>2 DEF Covering

(* The last deadline of the records that cover a check is one of theirs,    *)
(* and lies ahead.                                                          *)
LEMMA EndsIs ==
    ASSUME WaiversTypeOK, NEW c \in OnBorrowedTime
    PROVE  /\ Ends(c) \in (now + 1)..LastMoment
           /\ \E r \in Covering(c) : r.expires = Ends(c)
           /\ \A r \in Covering(c) : r.expires <= Ends(c)
<1> DEFINE S == {r.expires : r \in Covering(c)}
<1>1. /\ now \in 0..LastMoment /\ LastMoment \in Nat
      /\ \A r \in records : r.expires \in 1..(LastMoment + 1)
  BY WaiversAssumption DEF WaiversTypeOK, Waiver, Permanent
<1>2. \A r \in Covering(c) : /\ r \in records
                             /\ r.expires # LastMoment + 1
                             /\ now < r.expires
  BY CoveringIs DEF OnBorrowedTime, Temporary, ActiveAt, Permanent
<1>3. S \subseteq (now + 1)..LastMoment
  BY <1>1, <1>2
<1>4. S # {}
  BY DEF OnBorrowedTime
<1>5. IsFiniteSet((now + 1)..LastMoment)
  BY <1>1, FS_Interval
<1>6. IsFiniteSet(S)
  BY <1>3, <1>5, FS_Subset
<1>7. S \in SUBSET Int
  BY <1>1, <1>3
<1>8. Ends(c) = Max(S)
  BY DEF Ends
<1> HIDE DEF S
<1>9. Max(S) \in S /\ \A n \in S : n <= Max(S)
  BY <1>4, <1>6, <1>7, MaxIsGreatest
<1> USE DEF S
<1> QED
  BY <1>3, <1>8, <1>9

(* A check on borrowed time is waived until its last deadline; of the other *)
(* failing checks nothing changes any more.                                 *)
LEMMA WaivedUntilTheEnd ==
    ASSUME WaiversTypeOK, NEW c \in failing \cap Actionable,
           NEW m \in now..Permanent
    PROVE  /\ c \in OnBorrowedTime => (WaivedAt(c, m) <=> m < Ends(c))
           /\ c \notin OnBorrowedTime => (WaivedAt(c, m) <=> WaivedAt(c, now))
<1>1. /\ now \in 0..LastMoment /\ LastMoment \in Nat /\ m \in Nat /\ now <= m
      /\ \A r \in records : r.expires \in 1..(LastMoment + 1)
  BY WaiversAssumption DEF WaiversTypeOK, Waiver, Permanent
<1>2. \A r \in records : ActiveAt(r, m) => ActiveAt(r, now)
  BY <1>1 DEF ActiveAt
<1>3. \A r : r \in Covering(c) <=> r \in records /\ ActiveAt(r, now) /\ c \in r.matches
  BY CoveringIs
<1>4. WaivedAt(c, m) <=> \E r \in Covering(c) : ActiveAt(r, m)
  BY <1>2, <1>3 DEF WaivedAt
<1>5. ASSUME c \in OnBorrowedTime PROVE WaivedAt(c, m) <=> m < Ends(c)
  <2>1. \A r \in Covering(c) : ActiveAt(r, m) <=> m < r.expires
    BY <1>5 DEF OnBorrowedTime, ActiveAt
  <2>2. \A r \in Covering(c) : r.expires \in Nat
    BY <1>1, <1>3
  <2>3. /\ Ends(c) \in Nat
        /\ \E r \in Covering(c) : r.expires = Ends(c)
        /\ \A r \in Covering(c) : r.expires <= Ends(c)
    BY <1>1, <1>5, EndsIs
  <2> QED
    BY <1>1, <1>4, <2>1, <2>2, <2>3
<1>6. ASSUME c \notin OnBorrowedTime PROVE WaivedAt(c, m) <=> WaivedAt(c, now)
  <2>1. CASE Covering(c) = {}
    BY <1>3, <1>4, <2>1 DEF WaivedAt
  <2>2. CASE \E r \in Covering(c) : ~ Temporary(r)
    BY <1>3, <1>4, <2>2 DEF ActiveAt, WaivedAt
  <2> QED
    BY <1>6, <2>1, <2>2 DEF OnBorrowedTime
<1> QED
  BY <1>5, <1>6

(* What is acknowledged for a time is a failure that could alert.           *)
LEMMA BorrowedChecksFail == OnBorrowedTime \subseteq failing \cap Actionable
BY CoveringIs DEF OnBorrowedTime

(* The next expiry is that of some check, and of no later than any other.   *)
LEMMA NextExpiryIs ==
    ASSUME WaiversTypeOK, OnBorrowedTime # {}
    PROVE  /\ NextExpiry # NoExpiry
           /\ NextExpiry.at \in (now + 1)..LastMoment
           /\ \A c \in OnBorrowedTime : NextExpiry.at <= Ends(c)
           /\ NextExpiry.checks = {c \in OnBorrowedTime : Ends(c) = NextExpiry.at}
           /\ NextExpiry.checks # {}
<1> DEFINE S == {Ends(c) : c \in OnBorrowedTime}
<1>1. now \in 0..LastMoment /\ LastMoment \in Nat
  BY WaiversAssumption DEF WaiversTypeOK
<1>2. S \subseteq (now + 1)..LastMoment /\ S # {}
  BY EndsIs
<1>3. S \in SUBSET Nat
  BY <1>1, <1>2
<1>4. NextExpiry.at = Min(S) /\ NextExpiry.checks = {c \in OnBorrowedTime : Ends(c) = Min(S)}
  BY DEF NextExpiry
<1> HIDE DEF S
<1>5. Min(S) \in S /\ \A n \in S : Min(S) <= n
  BY <1>2, <1>3, MinIsLeast
<1>6. NextExpiry # NoExpiry
  BY <1>1, <1>2, <1>4, <1>5 DEF NoExpiry
<1> USE DEF S
<1>7. \E c \in OnBorrowedTime : Ends(c) = Min(S)
  BY <1>5
<1>8. \A c \in OnBorrowedTime : Min(S) <= Ends(c)
  BY <1>5
<1> QED
  BY <1>2, <1>4, <1>5, <1>6, <1>7, <1>8

(* Until the announced expiry the same checks alert, and at it exactly the  *)
(* announced ones join them (waivers.py, next_expiry).                      *)
LEMMA ExpiryIsExactAlways == WaiversTypeOK => ExpiryIsExact(NextExpiry)
<1> SUFFICES ASSUME WaiversTypeOK PROVE ExpiryIsExact(NextExpiry)
  OBVIOUS
<1>1. now \in 0..LastMoment /\ LastMoment \in Nat
  BY WaiversAssumption DEF WaiversTypeOK
<1>2. \A m \in now..Permanent : \A c \in failing \cap Actionable :
        /\ c \in OnBorrowedTime => (WaivedAt(c, m) <=> m < Ends(c))
        /\ c \notin OnBorrowedTime => (WaivedAt(c, m) <=> WaivedAt(c, now))
  BY WaivedUntilTheEnd
<1>3. \A c \in OnBorrowedTime : Ends(c) \in (now + 1)..LastMoment
  BY EndsIs
<1>4. CASE OnBorrowedTime = {}
  <2>1. NextExpiry = NoExpiry
    BY <1>4 DEF NextExpiry
  <2>2. \A m \in now..LastMoment : AlertingAt(m) = AlertingAt(now)
    BY <1>1, <1>2, <1>4 DEF AlertingAt, Permanent
  <2> QED
    BY <2>1, <2>2 DEF ExpiryIsExact
<1>5. CASE OnBorrowedTime # {}
  <2>1. /\ NextExpiry # NoExpiry
        /\ NextExpiry.at \in (now + 1)..LastMoment
        /\ \A c \in OnBorrowedTime : NextExpiry.at <= Ends(c)
        /\ NextExpiry.checks = {c \in OnBorrowedTime : Ends(c) = NextExpiry.at}
        /\ NextExpiry.checks # {}
    BY <1>5, NextExpiryIs
  <2> DEFINE at == NextExpiry.at
  <2>2. ASSUME NEW m \in now..LastMoment, m < at PROVE AlertingAt(m) = AlertingAt(now)
    <3>1. \A c \in OnBorrowedTime : m < Ends(c) /\ now < Ends(c)
      BY <1>1, <1>3, <2>1, <2>2
    <3>2. m \in now..Permanent /\ now \in now..Permanent
      BY <1>1 DEF Permanent
    <3> QED
      BY <1>2, <3>1, <3>2 DEF AlertingAt
  <2>3. NextExpiry.checks \cap AlertingAt(now) = {}
    <3>1. \A c \in OnBorrowedTime : now < Ends(c) /\ now \in now..Permanent
      BY <1>1, <1>3 DEF Permanent
    <3> QED
      BY <1>2, <2>1, <3>1 DEF AlertingAt
  <2>4. AlertingAt(at) = AlertingAt(now) \cup NextExpiry.checks
    <3>1. at \in now..Permanent /\ now \in now..Permanent
      BY <1>1, <2>1 DEF Permanent
    <3>2. \A c \in OnBorrowedTime : (at < Ends(c) <=> Ends(c) # at) /\ now < Ends(c)
      BY <1>1, <1>3, <2>1
    <3>3. \A c \in failing \cap Actionable :
            ~ WaivedAt(c, at) <=> ~ WaivedAt(c, now) \/ c \in NextExpiry.checks
      BY <1>2, <2>1, <3>1, <3>2
    <3>4. NextExpiry.checks \subseteq failing \cap Actionable
      BY <2>1, BorrowedChecksFail
    <3> QED
      BY <3>3, <3>4 DEF AlertingAt
  <2> QED
    BY <2>1, <2>2, <2>3, <2>4 DEF ExpiryIsExact
<1> QED
  BY <1>4, <1>5

(* What the review says of the deadlines agrees with the announcement       *)
(* (waivers.py, review).                                                    *)
LEMMA ReviewAgreesAlways == WaiversTypeOK => ReviewAgrees(NextExpiry)
<1> SUFFICES ASSUME WaiversTypeOK PROVE ReviewAgrees(NextExpiry)
  OBVIOUS
<1>1. /\ now \in 0..LastMoment /\ LastMoment \in Nat /\ Window \in Nat
      /\ \A r \in records : r.expires \in 1..(LastMoment + 1)
  BY WaiversAssumption DEF WaiversTypeOK, Waiver, Permanent
<1>2. \A r : /\ Item(r).record = r
             /\ Item(r).alerts = Uncovered(r)
  BY DEF Item
<1>3. ASSUME NextExpiry # NoExpiry, NextExpiry.at - now <= Window,
             NEW c \in NextExpiry.checks
      PROVE  \E i \in Expiring : c \in Matched(i.record) /\ i.record.expires = NextExpiry.at
  <2>1. OnBorrowedTime # {}
    BY <1>3 DEF NextExpiry
  <2>2. c \in OnBorrowedTime /\ Ends(c) = NextExpiry.at
    BY <1>3, <2>1, NextExpiryIs
  <2>3. PICK r \in Covering(c) : r.expires = NextExpiry.at
    BY <2>2, EndsIs
  <2>4. r \in records /\ Temporary(r) /\ ActiveAt(r, now) /\ c \in r.matches \cap failing
    BY <2>2, <2>3, CoveringIs DEF OnBorrowedTime
  <2>5. Item(r) \in Expiring
    BY <1>3, <2>3, <2>4 DEF Expiring
  <2>6. c \in Matched(r)
    BY <2>2, <2>4, BorrowedChecksFail DEF Matched
  <2> QED
    BY <1>2, <2>3, <2>5, <2>6
<1>4. ASSUME NEW i \in Expiring, NEW c \in i.alerts
      PROVE  c \in AlertingAt(i.record.expires) /\ c \notin AlertingAt(now)
  <2>1. PICK r \in records : i = Item(r) /\ Temporary(r) /\ ActiveAt(r, now)
    BY DEF Expiring
  <2>2. /\ c \in r.matches \cap failing \cap Actionable
        /\ \A q \in records : ActiveAt(q, now) /\ c \in q.matches => q = r
    BY <1>2, <1>4, <2>1 DEF Uncovered, Matched, StillCovered
  <2>3. now < r.expires
    BY <2>1 DEF ActiveAt
  <2>4. \A q \in records : ActiveAt(q, r.expires) => ActiveAt(q, now)
    BY <1>1, <2>1, <2>3 DEF ActiveAt
  <2>5. ~ ActiveAt(r, r.expires)
    BY <1>1, <2>1 DEF ActiveAt
  <2>6. ~ WaivedAt(c, r.expires) /\ WaivedAt(c, now)
    BY <2>1, <2>2, <2>4, <2>5 DEF WaivedAt
  <2> QED
    BY <1>2, <2>1, <2>2, <2>6 DEF AlertingAt
<1> QED
  BY <1>3, <1>4 DEF ReviewAgrees

(* What is announced of the next deadline happens at it, for any checks,    *)
(* patterns and deadlines, however many records cover one check             *)
(* (opencloud_local_scan/waivers.py, next_expiry and review).               *)
THEOREM DeadlinesAreKept == WaiversSpec => []NextExpiryIsExact
<1>1. WaiversTypeOK => NextExpiryIsExact
  BY ExpiryIsExactAlways, ReviewAgreesAlways DEF NextExpiryIsExact
<1> QED
  BY <1>1, WaiversTypeCorrect, PTL


-----------------------------------------------------------------------------
(* The lifecycle verdict.  Lines are numbered without gaps, and each was    *)
(* published on a track whose support a successor ends.                     *)
Line(r) ==
    /\ r \in [tracks : SUBSET Tracks, released : 0..LastDay, latest : 0..MaxPatch]
    /\ r.tracks \cap {"rolling", "production"} # {}

LifecycleInv ==
    /\ \E n \in 0..MaxLine : Known = 1..n
    /\ \A l \in Known : Line(lines[l])
    /\ today \in 0..LastDay

(* The bounds are numbers, and a patch fits below the next line.            *)
LEMMA LifecycleBounds ==
    MaxLine \in Nat /\ MaxPatch \in 0..9 /\ LtsWindow \in Nat /\ LastDay \in Nat
BY LifecycleAssumption DEF Base

(* Lines are numbered without gaps, and their patches are bounded.          *)
LEMMA LifecycleInvHolds == LifecycleSpec => []LifecycleInv
<1> USE LifecycleBounds
<1>1. LifecycleInit => LifecycleInv
  <2> SUFFICES ASSUME LifecycleInit PROVE LifecycleInv
    OBVIOUS
  <2>1. Known = {} /\ 1..0 = {}
    BY DEF LifecycleInit, Known
  <2> QED
    BY <2>1 DEF LifecycleInit, LifecycleInv
<1>2. LifecycleInv /\ [LifecycleNext]_lifecycleVars => LifecycleInv'
  <2> SUFFICES ASSUME LifecycleInv, [LifecycleNext]_lifecycleVars PROVE LifecycleInv'
    OBVIOUS
  <2>0. PICK n \in 0..MaxLine : Known = 1..n
    BY DEF LifecycleInv
  <2>1. CASE PublishLine
    <3>1. Cardinality(Known) = n
      BY <2>0, FS_Interval
    <3>2. PICK tracks \in FirstTracks :
             lines' = [l \in Known \cup {n + 1} |->
                         IF l \in Known THEN lines[l]
                         ELSE [tracks |-> tracks, released |-> today, latest |-> 0]]
      BY <2>1, <3>1 DEF PublishLine
    <3>3. n < MaxLine /\ UNCHANGED today
      BY <2>1, <3>1 DEF PublishLine
    <3>4. Known' = 1..(n + 1) /\ n + 1 \in 0..MaxLine
      <4>1. 1..n \cup {n + 1} = 1..(n + 1)
        OBVIOUS
      <4>2. DOMAIN lines' = Known \cup {n + 1}
        BY <3>2
      <4> QED
        BY <2>0, <3>3, <4>1, <4>2 DEF Known
    <3>5. \A l \in Known : lines'[l] = lines[l]
      BY <3>2
    <3>6. lines'[n + 1] = [tracks |-> tracks, released |-> today, latest |-> 0]
      BY <2>0, <3>2
    <3>7. Line([tracks |-> tracks, released |-> today, latest |-> 0])
      <4>1. today \in 0..LastDay /\ 0 \in 0..MaxPatch
        BY DEF LifecycleInv
      <4>2. tracks \in SUBSET Tracks /\ tracks \cap {"rolling", "production"} # {}
        BY <3>2 DEF FirstTracks, Tracks
      <4> QED
        BY <4>1, <4>2 DEF Line
    <3>8. \A l \in Known' : l \in Known \/ l = n + 1
      BY <2>0, <3>4
    <3> QED
      BY <3>3, <3>4, <3>5, <3>6, <3>7, <3>8 DEF LifecycleInv
  <2>2. ASSUME NEW l \in Known, PublishPatch(l) PROVE LifecycleInv'
    <3>1. lines' = [lines EXCEPT ![l].latest = @ + 1] /\ lines[l].latest < MaxPatch
            /\ UNCHANGED today
      BY <2>2 DEF PublishPatch
    <3>2. Known' = Known
      BY <3>1 DEF Known
    <3>3. \A m \in Known :
             lines'[m] = IF m = l THEN [lines[m] EXCEPT !.latest = @ + 1] ELSE lines[m]
      BY <3>1 DEF Known
    <3>4. Line(lines[l]) => Line([lines[l] EXCEPT !.latest = @ + 1])
      BY <3>1 DEF Line
    <3> QED
      BY <3>1, <3>2, <3>3, <3>4 DEF LifecycleInv
  <2>3. ASSUME NEW l \in Known, Promote(l) PROVE LifecycleInv'
    <3>1. PICK u \in Tracks : lines' = [lines EXCEPT ![l].tracks = @ \cup {u}]
      BY <2>3 DEF Promote
    <3>2. Known' = Known /\ UNCHANGED today
      BY <2>3, <3>1 DEF Known, Promote
    <3>3. \A m \in Known :
             lines'[m] = IF m = l THEN [lines[m] EXCEPT !.tracks = @ \cup {u}] ELSE lines[m]
      BY <3>1 DEF Known
    <3>4. Line(lines[l]) => Line([lines[l] EXCEPT !.tracks = @ \cup {u}])
      BY DEF Line
    <3> QED
      BY <3>2, <3>3, <3>4 DEF LifecycleInv
  <2>4. CASE NextDay
    BY <2>4 DEF NextDay, LifecycleInv, Known
  <2>5. CASE UNCHANGED lifecycleVars
    BY <2>5 DEF lifecycleVars, LifecycleInv, Known
  <2> QED
    BY <2>1, <2>2, <2>3, <2>4, <2>5 DEF LifecycleNext
<1> QED
  BY <1>1, <1>2, PTL DEF LifecycleSpec

(* A version says which line it is of, and later lines have later versions. *)
LEMMA NewestIs ==
    ASSUME LifecycleInv
    PROVE  /\ \A l \in Known : Newest(l) \in Nat /\ LineOf(Newest(l)) = l
           /\ \A l, m \in Known : l < m <=> Newest(l) < Newest(m)
<1>1. \A l \in Known : l \in Nat /\ lines[l].latest \in 0..9
  <2> SUFFICES ASSUME NEW l \in Known PROVE l \in Nat /\ lines[l].latest \in 0..9
    OBVIOUS
  <2>1. l \in Nat
    BY DEF LifecycleInv
  <2>2. lines[l].latest \in 0..MaxPatch
    BY DEF LifecycleInv, Line
  <2> QED
    BY <2>1, <2>2, LifecycleBounds
<1> QED
  BY <1>1 DEF Newest, Version, LineOf, Base

(* A version is a number, and its line can be told from it.                 *)
LEMMA VersionIs ==
    ASSUME NEW v \in Versions
    PROVE  v \in Nat /\ LineOf(v) \in 0..MaxLine
<1>1. PICK l \in 0..MaxLine, p \in 0..MaxPatch : v = Version(l, p)
  BY DEF Versions
<1>2. l \in Nat /\ p \in 0..9
  BY LifecycleBounds
<1> QED
  BY <1>1, <1>2 DEF Version, LineOf, Base

(* The highest of the newest releases of some lines is that of the last.    *)
LEMMA HighestIs ==
    ASSUME LifecycleInv, NEW K \in SUBSET Known, K # {}
    PROVE  \E m \in K : /\ Highest({Newest(l) : l \in K}) = Newest(m)
                        /\ \A l \in K : l <= m
<1> DEFINE S == {Newest(l) : l \in K}
<1>1. PICK n \in 0..MaxLine : Known = 1..n
  BY DEF LifecycleInv
<1>2. K \in SUBSET Int /\ IsFiniteSet(K)
  <2>1. 1 \in Int /\ n \in Int /\ K \subseteq 1..n
    BY <1>1, LifecycleBounds
  <2>2. IsFiniteSet(1..n)
    BY <2>1, FS_Interval
  <2>3. K \in SUBSET (1..n) /\ K \subseteq Int
    BY <2>1
  <2> QED
    BY <2>2, <2>3, FS_Subset
<1>3. PICK m \in K : \A l \in K : l <= m
  BY <1>2, Greatest
<1>4. \A l \in K : Newest(l) \in Nat /\ (l = m \/ Newest(l) < Newest(m))
  <2> SUFFICES ASSUME NEW l \in K PROVE Newest(l) \in Nat /\ (l = m \/ Newest(l) < Newest(m))
    OBVIOUS
  <2>1. l \in Int /\ m \in Int /\ l <= m /\ l \in Known /\ m \in Known
    BY <1>2, <1>3
  <2> QED
    BY <2>1, NewestIs
<1>5. Newest(m) \in S /\ \A x \in S : x \in Int /\ x <= Newest(m)
  BY <1>4
<1>6. S # {} /\ Highest(S) = Max(S)
  BY <1>5 DEF Highest
<1> HIDE DEF S
<1>7. Max(S) = Newest(m)
  <2>1. Max(S) = CHOOSE x \in S : \A y \in S : x >= y
    BY DEF Max
  <2>2. \A y \in S : Newest(m) >= y
    BY <1>5
  <2>3. Max(S) \in S /\ \A y \in S : Max(S) >= y
    BY <1>5, <2>1, <2>2
  <2> QED
    BY <1>5, <2>3
<1> USE DEF S
<1> QED
  BY <1>3, <1>6, <1>7

-----------------------------------------------------------------------------
(* Of the tracks of a line one outlasts the others.                         *)
EndOf(l, t) == IF TrackEnd(l, t) = None THEN LastDay + LtsWindow + 1 ELSE TrackEnd(l, t)

(* But for LTS, a line ends on a track when the next line on it is          *)
(* released, and has no end while there is none (versions.py,               *)
(* _track_end_of_life).                                                     *)
LEMMA TrackEndIs ==
    ASSUME LifecycleInv, NEW l \in Known, NEW t
    PROVE  /\ TrackEnd(l, t) = None \/ TrackEnd(l, t) \in 0..(LastDay + LtsWindow)
           /\ t # "lts" => (TrackEnd(l, t) = None <=> \A m \in On(t) : ~ (m > l))
           /\ t # "lts" => \A k \in On(t) :
                 k > l /\ (\A m \in On(t) : m > l => k <= m) => TrackEnd(l, t) = lines[k].released
<1> DEFINE after == {m \in On(t) : m > l}
<1>0. \A m \in Known : m \in Nat /\ lines[m].released \in 0..LastDay
  BY DEF LifecycleInv, Line
<1>1. after \in SUBSET Nat /\ after \subseteq Known
  BY <1>0 DEF On
<1>2. LastDay \in Nat /\ LtsWindow \in Nat
  BY LifecycleBounds
<1>3. CASE t = "lts"
  BY <1>0, <1>2, <1>3 DEF TrackEnd
<1>4. CASE t # "lts"
  <2>1. TrackEnd(l, t) = IF after = {} THEN None ELSE lines[Min(after)].released
    BY <1>4 DEF TrackEnd
  <2>2. after # {} => Min(after) \in after /\ \A k \in after : Min(after) <= k
    <3> HIDE DEF after
    <3> QED
      BY <1>1, MinIsLeast
  <2>3. after # {} => lines[Min(after)].released \in 0..LastDay
    BY <1>0, <1>1, <2>2
  <2>4. \A k \in after : (\A m \in after : k <= m) => k = Min(after)
    BY <1>1, <2>2
  <2>5. after # {} => TrackEnd(l, t) # None
    BY <2>1, <2>3, <1>2 DEF None
  <2>6. TrackEnd(l, t) = None <=> \A m \in On(t) : ~ (m > l)
    BY <2>1, <2>5
  <2>7. ASSUME NEW k \in On(t), k > l, \A m \in On(t) : m > l => k <= m
        PROVE  TrackEnd(l, t) = lines[k].released
    BY <2>1, <2>4, <2>7
  <2>8. TrackEnd(l, t) = None \/ TrackEnd(l, t) \in 0..(LastDay + LtsWindow)
    BY <2>1, <2>3, <1>2
  <2> QED
    BY <1>4, <2>6, <2>7, <2>8
<1> QED
  BY <1>3, <1>4

(* A line is judged on a track of its own that ends last.                   *)
LEMMA BestTrackIs ==
    ASSUME LifecycleInv, NEW l \in Known
    PROVE  /\ BestTrack(l) \in lines[l].tracks
           /\ \A u \in lines[l].tracks : EndOf(l, BestTrack(l)) >= EndOf(l, u)
<1> DEFINE T == lines[l].tracks
           w(t) == 3 * EndOf(l, t) + TrackRank[t]
<1>0. LastDay \in Nat /\ LtsWindow \in Nat
  BY LifecycleBounds
<1>1. T \in SUBSET Tracks /\ T # {}
  BY DEF LifecycleInv, Line
<1>2. \A t \in T : EndOf(l, t) \in Nat /\ TrackRank[t] \in 0..2
  <2> SUFFICES ASSUME NEW t \in T PROVE EndOf(l, t) \in Nat /\ TrackRank[t] \in 0..2
    OBVIOUS
  <2>1. EndOf(l, t) \in Nat
    BY <1>0, TrackEndIs DEF EndOf
  <2>2. TrackRank[t] \in 0..2
    BY <1>1 DEF Tracks, TrackRank
  <2> QED
    BY <2>1, <2>2
<1>3. \A t, u \in T : Outlasts(l, t, u) <=> w(t) >= w(u)
  <2> SUFFICES ASSUME NEW t \in T, NEW u \in T PROVE Outlasts(l, t, u) <=> w(t) >= w(u)
    OBVIOUS
  <2> DEFINE a == TrackEnd(l, t)
             b == TrackEnd(l, u)
  <2>1. /\ a = None \/ a \in 0..(LastDay + LtsWindow)
        /\ b = None \/ b \in 0..(LastDay + LtsWindow)
    BY TrackEndIs
  <2>2. None \notin 0..(LastDay + LtsWindow)
    BY <1>0 DEF None
  <2>3. Outlasts(l, t, u) <=>
          \/ a = None /\ b = None /\ TrackRank[t] >= TrackRank[u]
          \/ a = None /\ b # None
          \/ a # None /\ b # None /\ a = b /\ TrackRank[t] >= TrackRank[u]
          \/ a # None /\ b # None /\ a # b /\ a > b
    BY DEF Outlasts
  <2>4. TrackRank[t] \in 0..2 /\ TrackRank[u] \in 0..2
    BY <1>2
  <2> DEFINE e == EndOf(l, t)
             f == EndOf(l, u)
  <2>5. /\ e = IF a = None THEN LastDay + LtsWindow + 1 ELSE a
        /\ f = IF b = None THEN LastDay + LtsWindow + 1 ELSE b
    BY DEF EndOf
  <2> HIDE DEF a, b, e, f
  <2>6. Outlasts(l, t, u) <=> (e > f \/ (e = f /\ TrackRank[t] >= TrackRank[u]))
    <3>0. CASE a = None /\ b = None
      BY <1>0, <2>3, <2>4, <2>5, <3>0
    <3>1. CASE a = None /\ b # None
      <4>1. e = LastDay + LtsWindow + 1 /\ f \in 0..(LastDay + LtsWindow)
        BY <2>1, <2>5, <3>1
      <4>2. e > f
        BY <1>0, <4>1
      <4> QED
        BY <2>3, <3>1, <4>2
    <3>2. CASE a # None /\ b = None
      BY <1>0, <2>1, <2>2, <2>3, <2>5, <3>2
    <3>3. CASE a # None /\ b # None
      BY <1>0, <2>1, <2>2, <2>3, <2>5, <3>3
    <3> QED
      BY <3>0, <3>1, <3>2, <3>3
  <2>7. e \in Nat /\ f \in Nat
    BY <1>2 DEF e, f
  <2>8. (e > f \/ (e = f /\ TrackRank[t] >= TrackRank[u]))
          <=> 3 * e + TrackRank[t] >= 3 * f + TrackRank[u]
    BY <2>4, <2>7
  <2> QED
    BY <2>6, <2>8 DEF e, f
<1>4. \E t \in T : \A u \in T : w(t) >= w(u)
  <2> DEFINE g(t) == IF t \in T THEN w(t) ELSE -1
  <2>1. \A t \in T : w(t) \in Nat
    BY <1>2
  <2>2. \A t \in Tracks : g(t) \in Int
    BY <2>1
  <2>3. \A t \in T : t \in Tracks /\ g(t) = w(t) /\ g(t) >= 0
    BY <1>1, <2>1
  <2>4. \A t \in Tracks : t \notin T => g(t) = -1
    OBVIOUS
  <2> HIDE DEF g, w, T
  <2>5. \E t \in Tracks : \A u \in Tracks : g(t) >= g(u)
    BY <2>2 DEF Tracks
  <2>6. PICK t \in Tracks : \A u \in Tracks : g(t) >= g(u)
    BY <2>5
  <2>7. t \in T
    BY <1>1, <2>2, <2>3, <2>4, <2>6
  <2> QED
    BY <2>3, <2>6, <2>7
<1>5. \E t \in T : \A u \in T : Outlasts(l, t, u)
  BY <1>3, <1>4
<1>6. BestTrack(l) \in T /\ \A u \in T : Outlasts(l, BestTrack(l), u)
  BY <1>5 DEF BestTrack
<1>7. \A u \in T : w(BestTrack(l)) >= w(u)
  BY <1>3, <1>6
<1> QED
  BY <1>2, <1>6, <1>7

-----------------------------------------------------------------------------
(* Where advice points: the last line of the schedule, or of a track that   *)
(* only a successor ends.                                                   *)
LEMMA LatestIs ==
    LifecycleInv => \A t \in Tracks :
        /\ \/ LatestFor(t) = None
           \/ t \in Named /\ \E m \in On(t) : /\ LatestFor(t) = Newest(m)
                                              /\ \A k \in On(t) : k <= m
        /\ On(t) = {} => CurrentRelease(t) = None
        /\ On(t) # {} => \E m \in On(t) : /\ CurrentRelease(t) = Newest(m)
                                          /\ \A k \in On(t) : k <= m
<1> SUFFICES ASSUME LifecycleInv, NEW t \in Tracks
             PROVE  /\ \/ LatestFor(t) = None
                       \/ t \in Named /\ \E m \in On(t) : /\ LatestFor(t) = Newest(m)
                                                          /\ \A k \in On(t) : k <= m
                    /\ On(t) = {} => CurrentRelease(t) = None
                    /\ On(t) # {} => \E m \in On(t) : /\ CurrentRelease(t) = Newest(m)
                                                      /\ \A k \in On(t) : k <= m
  OBVIOUS
<1> DEFINE high == Highest({Newest(l) : l \in On(t)})
<1>1. On(t) = {} => high = None
  BY DEF Highest
<1>2. On(t) # {} => \E m \in On(t) : high = Newest(m) /\ \A k \in On(t) : k <= m
  <2> SUFFICES ASSUME On(t) # {}
               PROVE  \E m \in On(t) : high = Newest(m) /\ \A k \in On(t) : k <= m
    OBVIOUS
  <2>1. On(t) \in SUBSET Known
    BY DEF On
  <2> QED
    BY <2>1, HighestIs
<1>3. LatestFor(t) = IF t \in Named THEN high ELSE None
  BY DEF LatestFor
<1>4. CurrentRelease(t) = IF LatestFor(t) # None THEN LatestFor(t) ELSE high
  BY DEF CurrentRelease
<1> HIDE DEF high
<1> QED
  BY <1>1, <1>2, <1>3, <1>4

(* The latest release is the latest of a track or, with none named, the     *)
(* newest patch of the newest line (versions.py, latest_release).           *)
LEMMA LatestOfAllIs ==
    ASSUME LifecycleInv
    PROVE  \/ LatestOfAll = None
           \/ \E t \in Tracks : LatestOfAll = LatestFor(t) /\ LatestFor(t) # None
           \/ \E m \in Known : LatestOfAll = Newest(m) /\ \A k \in Known : k <= m
<1> DEFINE recorded == {LatestFor(t) : t \in Tracks} \ {None}
<1>1. CASE recorded = {} /\ Known = {}
  <2>1. {Newest(l) : l \in Known} = {}
    BY <1>1
  <2> QED
    BY <1>1, <2>1 DEF LatestOfAll, Highest
<1>2. CASE recorded = {} /\ Known # {}
  <2>1. LatestOfAll = Highest({Newest(l) : l \in Known})
    BY <1>2 DEF LatestOfAll
  <2> QED
    BY <1>2, <2>1, HighestIs
<1>3. CASE recorded # {}
  <2>1. LatestOfAll = Max(recorded)
    BY <1>3 DEF LatestOfAll, Highest
  <2>2. recorded \in SUBSET Int
    <3>1. \A m \in Known : Newest(m) \in Int
      BY NewestIs
    <3>2. \A t \in Tracks : LatestFor(t) = None \/ LatestFor(t) \in Int
      BY <3>1, LatestIs DEF On
    <3> QED
      BY <3>2
  <2>3. IsFiniteSet(recorded)
    <3> DEFINE a == {LatestFor("rolling")} \cup {LatestFor("production")}
               b == a \cup {LatestFor("lts")}
    <3>1. /\ IsFiniteSet({LatestFor("rolling")})
          /\ IsFiniteSet({LatestFor("production")})
          /\ IsFiniteSet({LatestFor("lts")})
      BY FS_Singleton
    <3>2. IsFiniteSet(a)
      BY <3>1, FS_Union
    <3>3. recorded \in SUBSET b
      BY DEF Tracks
    <3> HIDE DEF a, recorded
    <3>4. IsFiniteSet(b)
      BY <3>1, <3>2, FS_Union
    <3> HIDE DEF b
    <3> QED
      BY <3>3, <3>4, FS_Subset
  <2> HIDE DEF recorded
  <2>4. Max(recorded) \in recorded
    BY <1>3, <2>2, <2>3, MaxIsGreatest
  <2> QED
    BY <2>1, <2>4 DEF recorded
<1> QED
  BY <1>1, <1>2, <1>3

Current(u) ==
    \E m \in Known :
        /\ u = Newest(m)
        /\ \E t \in lines[m].tracks \ {"lts"} : \A k \in On(t) : k <= m

(* With no LTS release named, the advice is always the current release of a *)
(* track (versions.py, upgrade_target).                                     *)
LEMMA TargetIsCurrent ==
    ASSUME LifecycleInv, "lts" \notin Named
    PROVE  /\ LatestOfAll = None \/ Current(LatestOfAll)
           /\ \A t : UpgradeTarget(t) = None \/ Current(UpgradeTarget(t))
<1>1. \A t \in Tracks : LatestFor(t) = None \/ Current(LatestFor(t))
  <2> SUFFICES ASSUME NEW t \in Tracks, LatestFor(t) # None PROVE Current(LatestFor(t))
    OBVIOUS
  <2>1. PICK m \in On(t) : LatestFor(t) = Newest(m) /\ \A k \in On(t) : k <= m
    BY LatestIs
  <2>2. t # "lts"
    BY LatestIs
  <2> QED
    BY <2>1, <2>2 DEF Current, On
<1>2. ASSUME NEW m \in Known, \A k \in Known : k <= m PROVE Current(Newest(m))
  <2>1. PICK t \in lines[m].tracks : t \in {"rolling", "production"}
    BY DEF LifecycleInv, Line
  <2>2. t # "lts" /\ \A k \in On(t) : k <= m
    BY <1>2, <2>1 DEF On
  <2> QED
    BY <2>1, <2>2 DEF Current
<1>3. LatestOfAll = None \/ Current(LatestOfAll)
  BY <1>1, <1>2, LatestOfAllIs
<1>4. \A t : \/ UpgradeTarget(t) = LatestOfAll
             \/ \E u \in Tracks : UpgradeTarget(t) = LatestFor(u)
  BY DEF UpgradeTarget, Tracks
<1> QED
  BY <1>1, <1>3, <1>4

(* Who runs such a release is supported by the track that lasts longest.    *)
LEMMA CurrentIsJudged ==
    ASSUME LifecycleInv, NEW u, Current(u)
    PROVE  Judge(u, "auto").state = "supported"
<1>1. PICK m \in Known : /\ u = Newest(m)
                         /\ \E t \in lines[m].tracks \ {"lts"} : \A k \in On(t) : k <= m
  BY DEF Current
<1>2. PICK t \in lines[m].tracks \ {"lts"} : \A k \in On(t) : k <= m
  BY <1>1
<1>3. LineOf(u) = m
  BY <1>1, NewestIs
<1>4. TrackEnd(m, t) = None
  <2>1. \A k \in On(t) : k \in Nat /\ m \in Nat
    BY DEF LifecycleInv, On
  <2>2. \A k \in On(t) : ~ (k > m)
    BY <1>2, <2>1
  <2> QED
    BY <1>2, <2>2, TrackEndIs
<1>5. TrackEnd(m, BestTrack(m)) = None
  <2>1. EndOf(m, BestTrack(m)) >= LastDay + LtsWindow + 1
    <3>1. EndOf(m, BestTrack(m)) >= EndOf(m, t)
      BY BestTrackIs
    <3> QED
      BY <1>4, <3>1 DEF EndOf
  <2> QED
    BY <2>1, TrackEndIs, LifecycleBounds DEF EndOf
<1>6. Judge(u, "auto") = OnTrack(m, u, BestTrack(m))
  BY <1>1, <1>3 DEF Judge
<1> QED
  BY <1>5, <1>6 DEF OnTrack, Status

-----------------------------------------------------------------------------
(* The three parts of a sound verdict.                                      *)
LEMMA ArrowsPointForwards ==
    ASSUME NEW v, NEW d
    PROVE  ArrowPointsForwards(v, Judge(v, d))
<1> DEFINE l == LineOf(v)
           Fine(s) == s.upgrade # None => s.upgrade > v
<1>1. \A st : Fine(Status(st, None))
  BY DEF Status
<1>2. \A st : Fine(Status(st, NewerOnLine(l, v)))
  BY DEF Status, NewerOnLine
<1>3. \A st : Fine(Status(st, ForwardTarget(d, v)))
  BY DEF Status, ForwardTarget
<1>4. Fine(OffTrack(l, v, d))
  BY <1>1, <1>2 DEF OffTrack, Status
<1>5. \A t : Fine(OnTrack(l, v, t))
  BY <1>2 DEF OnTrack, Status
<1> QED
  BY <1>1, <1>3, <1>4, <1>5 DEF Judge, ArrowPointsForwards

(* The current release of a declared track is never told it is at its end   *)
(* (versions.py, _off_track_status).                                        *)
LEMMA CurrentIsSupportedAlways ==
    ASSUME LifecycleInv, NEW v \in Versions, NEW d
    PROVE  CurrentIsSupported(v, d, Judge(v, d))
<1> SUFFICES ASSUME d \in {"rolling", "production"}, LineOf(v) \in Known, On(d) # {},
                    v >= CurrentRelease(d)
             PROVE  Judge(v, d).state = "supported"
  BY DEF CurrentIsSupported
<1> DEFINE l == LineOf(v)
<1>1. PICK m \in On(d) : CurrentRelease(d) = Newest(m) /\ \A k \in On(d) : k <= m
  BY LatestIs DEF Tracks
<1>2. /\ v \in Nat /\ l \in Nat /\ m \in Nat /\ m \in Known
      /\ Newest(m) \in Nat /\ LineOf(Newest(m)) = m
  BY <1>1, VersionIs, NewestIs DEF LifecycleInv, On
<1>3. l >= m
  BY <1>1, <1>2 DEF LineOf, Base
<1>4. CASE d \notin lines[l].tracks
  <2>1. v # Newest(m)
    BY <1>1, <1>2, <1>4 DEF On
  <2>2. CurrentRelease(d) # None /\ v > CurrentRelease(d)
    BY <1>1, <1>2, <2>1 DEF None
  <2>3. Judge(v, d) = OffTrack(l, v, d)
    BY <1>4 DEF Judge
  <2> QED
    BY <2>2, <2>3 DEF OffTrack, Status
<1>5. CASE d \in lines[l].tracks
  <2>1. l \in On(d) /\ l = m
    BY <1>1, <1>2, <1>3, <1>5 DEF On
  <2>2. \A k \in On(d) : ~ (k > l)
    <3>1. \A k \in On(d) : k \in Nat
      BY DEF LifecycleInv, On
    <3> QED
      BY <1>1, <1>2, <2>1, <3>1
  <2>3. TrackEnd(l, d) = None
    BY <2>2, TrackEndIs
  <2>4. Judge(v, d) = OnTrack(l, v, d)
    BY <1>5 DEF Judge
  <2> QED
    BY <2>3, <2>4 DEF OnTrack, Status
<1> QED
  BY <1>4, <1>5

(* Who follows the advice to another line is supported there.               *)
LEMMA AdviceAlwaysLeadsOut ==
    ASSUME LifecycleInv, NEW v \in Versions, "lts" \notin Named
    PROVE  AdviceLeadsOut(v, Judge(v, "auto"))
<1> SUFFICES ASSUME Judge(v, "auto").state = "endOfLife",
                    Judge(v, "auto").upgrade # None,
                    LineOf(Judge(v, "auto").upgrade) # LineOf(v)
             PROVE  Current(Judge(v, "auto").upgrade)
  BY CurrentIsJudged DEF AdviceLeadsOut
<1> DEFINE l == LineOf(v)
<1>1. CASE l \notin Known
  <2>1. Judge(v, "auto") = Status("endOfLife", ForwardTarget("auto", v))
    BY <1>1 DEF Judge, Status
  <2> QED
    BY <2>1, TargetIsCurrent DEF ForwardTarget, Status
<1>2. CASE l \in Known
  <2> DEFINE t == BestTrack(l)
  <2>1. Judge(v, "auto") = OnTrack(l, v, t)
    BY <1>2 DEF Judge
  <2>2. NewerOnLine(l, v) \in {None, Newest(l)} /\ LineOf(Newest(l)) = l
    BY <1>2, NewestIs DEF NewerOnLine
  <2>3. OnTrack(l, v, t).upgrade \in {UpgradeTarget(t), NewerOnLine(l, v)}
    BY DEF OnTrack, Status
  <2> QED
    BY <2>1, <2>2, <2>3, TargetIsCurrent
<1> QED
  BY <1>1, <1>2

(* Whatever the schedule, the window of an LTS line and the recorded tracks *)
(* (without LTS for the last part): an arrow points forwards, the current   *)
(* release of a declared track is not end of life, and who follows the      *)
(* advice to another line is supported there (versions.py, _status_for,     *)
(* upgrade_target).                                                         *)
THEOREM AdviceIsSound == LifecycleSpec => []LifecycleIsSound
<1>1. LifecycleInv => LifecycleIsSound
  <2> SUFFICES ASSUME LifecycleInv, NEW v \in Versions, NEW d \in Declarable
               PROVE  /\ ArrowPointsForwards(v, Judge(v, d))
                      /\ CurrentIsSupported(v, d, Judge(v, d))
                      /\ d = "auto" /\ "lts" \notin Named
                            => AdviceLeadsOut(v, Judge(v, d))
    BY DEF LifecycleIsSound
  <2> QED
    BY ArrowsPointForwards, CurrentIsSupportedAlways, AdviceAlwaysLeadsOut
<1> QED
  BY <1>1, LifecycleInvHolds, PTL

-----------------------------------------------------------------------------
(* End of life is for good.  What a step adds to the schedule comes after   *)
(* what was there.                                                          *)
Grows ==
    /\ Known \subseteq Known'
    /\ \A l \in Known' \ Known, k \in Known : l > k
    /\ \A l \in Known : /\ lines'[l].tracks = lines[l].tracks
                        /\ lines'[l].released = lines[l].released
                        /\ lines'[l].latest >= lines[l].latest
    /\ today <= today'

(* A step that promotes no line leaves what was published as it was, and    *)
(* adds to it.                                                              *)
LEMMA ScheduleGrows ==
    ASSUME LifecycleInv, [LifecycleNext]_lifecycleVars,
           \A l \in Known : lines'[l].tracks = lines[l].tracks
    PROVE  Grows
<1> USE LifecycleBounds
<1>0. today \in Int /\ \A l \in Known : lines[l].latest \in Int
  BY DEF LifecycleInv, Line
<1>1. CASE PublishLine
  <2>1. PICK n \in 0..MaxLine : Known = 1..n
    BY DEF LifecycleInv
  <2>2. Cardinality(Known) = n
    BY <2>1, FS_Interval
  <2>3. PICK tracks \in FirstTracks :
           lines' = [l \in Known \cup {n + 1} |->
                       IF l \in Known THEN lines[l]
                       ELSE [tracks |-> tracks, released |-> today, latest |-> 0]]
    BY <1>1, <2>2 DEF PublishLine
  <2>4. /\ DOMAIN lines' = Known \cup {n + 1}
        /\ \A l \in Known : lines'[l] = lines[l]
    BY <2>3
  <2>5. \A l \in Known' \ Known, k \in Known : l > k
    <3>1. Known' = Known \cup {n + 1}
      BY <2>4 DEF Known
    <3> QED
      BY <2>1, <3>1
  <2>6. today' = today
    BY <1>1 DEF PublishLine
  <2>7. Known \subseteq Known'
    BY <2>4 DEF Known
  <2> QED
    BY <1>0, <2>4, <2>5, <2>6, <2>7 DEF Grows
<1>2. ASSUME NEW m \in Known, PublishPatch(m) PROVE Grows
  <2>1. lines' = [lines EXCEPT ![m].latest = @ + 1] /\ today' = today
    BY <1>2 DEF PublishPatch
  <2>2. Known' = Known
    BY <2>1 DEF Known
  <2>3. \A l \in Known :
           lines'[l] = IF l = m THEN [lines[l] EXCEPT !.latest = @ + 1] ELSE lines[l]
    BY <2>1 DEF Known
  <2>4. /\ lines'[m].released = lines[m].released
        /\ lines'[m].latest = lines[m].latest + 1
    BY <2>3 DEF LifecycleInv, Line
  <2> QED
    BY <1>0, <2>1, <2>2, <2>3, <2>4 DEF Grows
<1>3. ASSUME NEW m \in Known, Promote(m) PROVE Grows
  <2>1. PICK u \in Tracks : lines' = [lines EXCEPT ![m].tracks = @ \cup {u}]
    BY <1>3 DEF Promote
  <2>2. Known' = Known /\ today' = today
    BY <1>3, <2>1 DEF Known, Promote
  <2>3. \A l \in Known :
           lines'[l] = IF l = m THEN [lines[l] EXCEPT !.tracks = @ \cup {u}] ELSE lines[l]
    BY <2>1 DEF Known
  <2>4. lines'[m].released = lines[m].released /\ lines'[m].latest = lines[m].latest
    BY <2>3 DEF LifecycleInv, Line
  <2>5. \A l \in Known : /\ lines'[l].released = lines[l].released
                        /\ lines'[l].latest = lines[l].latest
    BY <2>3, <2>4
  <2> QED
    BY <1>0, <2>2, <2>5 DEF Grows
<1>4. CASE NextDay
  BY <1>0, <1>4 DEF NextDay, Grows, Known, LifecycleInv
<1>5. CASE UNCHANGED lifecycleVars
  BY <1>0, <1>5 DEF lifecycleVars, Grows, Known, LifecycleInv
<1> QED
  BY <1>1, <1>2, <1>3, <1>4, <1>5 DEF LifecycleNext

(* A track of a growing schedule keeps its lines.                           *)
LEMMA TracksGrow ==
    ASSUME Grows, NEW t
    PROVE  On(t) \subseteq On(t)' /\ On(t) = On(t)' \cap Known
BY DEF Grows, On

(* The day a line ended on a track is kept.                                 *)
LEMMA EndStays ==
    ASSUME LifecycleInv, LifecycleInv', Grows, NEW l \in Known, NEW t,
           TrackEnd(l, t) # None
    PROVE  TrackEnd(l, t)' = TrackEnd(l, t)
<1>1. CASE t = "lts"
  BY <1>1 DEF TrackEnd, Grows
<1>2. CASE t # "lts"
  <2> DEFINE before == {m \in On(t) : m > l}
             after == {m \in On(t)' : m > l}
  <2>1. /\ before # {}
        /\ TrackEnd(l, t) = lines[Min(before)].released
    BY <1>2 DEF TrackEnd
  <2>2. TrackEnd(l, t)' = IF after = {} THEN None ELSE lines'[Min(after)].released
    BY <1>2 DEF TrackEnd
  <2>3. Known \in SUBSET Nat /\ Known' \in SUBSET Nat
    BY DEF LifecycleInv
  <2>4. before \in SUBSET Nat /\ after \in SUBSET Nat /\ before \subseteq after
    BY <2>3, TracksGrow DEF On
  <2>5. \A m \in after \ before : m \in Known' \ Known
    BY TracksGrow DEF On
  <2>6. before \subseteq Known
    BY DEF On
  <2> HIDE DEF before, after
  <2> DEFINE b == Min(before)
             a == Min(after)
  <2>7. /\ b \in before /\ \A m \in before : b <= m
        /\ a \in after /\ \A m \in after : a <= m
    BY <2>1, <2>4, MinIsLeast
  <2> HIDE DEF a, b
  <2>8. a \in Nat /\ b \in Nat /\ a <= b
    BY <2>4, <2>7
  <2>9. a = b
    <3>1. a \in before \/ a > b
      BY <2>5, <2>6, <2>7 DEF Grows
    <3> QED
      BY <2>7, <2>8, <3>1
  <2> USE DEF a, b
  <2> QED
    BY <2>1, <2>2, <2>4, <2>6, <2>7, <2>9 DEF Grows
<1> QED
  BY <1>1, <1>2

(* Of a line that ended, the end of every track is behind.                  *)
LEMMA EveryTrackEnded ==
    ASSUME LifecycleInv, NEW l \in Known, NEW t \in lines[l].tracks,
           TrackEnd(l, BestTrack(l)) # None, TrackEnd(l, BestTrack(l)) <= today
    PROVE  TrackEnd(l, t) # None /\ TrackEnd(l, t) <= today
<1>1. EndOf(l, BestTrack(l)) >= EndOf(l, t)
  BY BestTrackIs
<1>2. /\ TrackEnd(l, BestTrack(l)) \in 0..(LastDay + LtsWindow)
      /\ TrackEnd(l, t) = None \/ TrackEnd(l, t) \in 0..(LastDay + LtsWindow)
  BY TrackEndIs
<1>3. today \in Int
  BY LifecycleBounds DEF LifecycleInv
<1> QED
  BY <1>1, <1>2, <1>3, LifecycleBounds DEF EndOf, None

(* A version is judged on one of the tracks of its line.                    *)
LEMMA JudgedByOneOfItsTracks ==
    LifecycleInv => \A v \in Versions :
        LineOf(v) \in Known =>
            \E t \in Tracks : /\ t \in lines[LineOf(v)].tracks
                             /\ Judge(v, "auto") = OnTrack(LineOf(v), v, t)
<1> SUFFICES ASSUME LifecycleInv, NEW v \in Versions, LineOf(v) \in Known
             PROVE  \E t \in Tracks : /\ t \in lines[LineOf(v)].tracks
                                      /\ Judge(v, "auto") = OnTrack(LineOf(v), v, t)
  OBVIOUS
<1>1. BestTrack(LineOf(v)) \in lines[LineOf(v)].tracks /\ BestTrack(LineOf(v)) \in Tracks
  BY BestTrackIs DEF LifecycleInv, Line
<1> QED
  BY <1>1 DEF Judge

(* The same, of the schedule after the step.                                *)
LEMMA JudgedNext ==
    LifecycleInv' => \A v \in Versions :
        LineOf(v) \in Known' =>
            \E t \in Tracks : /\ t \in lines'[LineOf(v)].tracks
                             /\ Judge(v, "auto")' = OnTrack(LineOf(v), v, t)'
<1>1. (LifecycleInv => \A v \in Versions :
          LineOf(v) \in Known =>
              \E t \in Tracks : /\ t \in lines[LineOf(v)].tracks
                               /\ Judge(v, "auto") = OnTrack(LineOf(v), v, t))'
  BY JudgedByOneOfItsTracks, PTL
<1> QED
  BY <1>1 DEF LineOf

(* The current release of a track never goes back.                          *)
NewestRises == \A l, m \in Known : l < m <=> Newest(l) < Newest(m)

(* After the step the newest patches are numbers that rise with the lines.  *)
LEMMA NewestIsNext ==
    LifecycleInv' => /\ \A l \in Known' : Newest(l)' \in Nat
                     /\ NewestRises'
<1>1. LifecycleInv => (\A l \in Known : Newest(l) \in Nat) /\ NewestRises
  BY NewestIs DEF NewestRises
<1>2. (LifecycleInv => (\A l \in Known : Newest(l) \in Nat) /\ NewestRises)'
  BY <1>1, PTL
<1> QED
  BY <1>2

(* After the step a track's current release is on its last line.            *)
LEMMA CurrentReleaseNext ==
    LifecycleInv' => \A t \in Tracks :
        On(t)' # {} => \E m \in On(t)' : /\ CurrentRelease(t)' = Newest(m)'
                                         /\ \A k \in On(t)' : k <= m
<1> DEFINE Is == \A t \in Tracks :
                    On(t) # {} => \E m \in On(t) : /\ CurrentRelease(t) = Newest(m)
                                                   /\ \A k \in On(t) : k <= m
<1>1. LifecycleInv => Is
  BY LatestIs
<1>2. (LifecycleInv => Is)'
  BY <1>1, PTL
<1> QED
  BY <1>2

(* The current release of a track never falls back.                         *)
LEMMA CurrentReleaseGrows ==
    ASSUME LifecycleInv, LifecycleInv', Grows, NEW t \in Tracks,
           CurrentRelease(t) # None
    PROVE  /\ CurrentRelease(t) \in Nat /\ CurrentRelease(t)' \in Nat
           /\ CurrentRelease(t)' >= CurrentRelease(t)
<1>1. PICK m \in On(t) : CurrentRelease(t) = Newest(m) /\ \A k \in On(t) : k <= m
  BY LatestIs
<1>2. PICK n \in On(t)' : CurrentRelease(t)' = Newest(n)' /\ \A k \in On(t)' : k <= n
  BY <1>1, TracksGrow, CurrentReleaseNext
<1>3. m \in Known /\ m \in Known' /\ n \in Known' /\ m <= n
  BY <1>1, <1>2, TracksGrow DEF On
<1>4. m \in Nat /\ n \in Nat
  BY <1>3 DEF LifecycleInv
<1>5. Newest(m)' >= Newest(m)
  <2>1. lines[m].latest \in Int /\ lines'[m].latest \in Int
    <3>1. Line(lines[m]) /\ Line(lines'[m])
      BY <1>3 DEF LifecycleInv
    <3>2. lines[m].latest \in 0..MaxPatch /\ lines'[m].latest \in 0..MaxPatch
      BY <3>1 DEF Line
    <3> QED
      BY <3>2, LifecycleBounds
  <2>2. lines'[m].latest >= lines[m].latest
    BY <1>3 DEF Grows
  <2> QED
    BY <1>4, <2>1, <2>2 DEF Newest, Version, Base
<1>6. Newest(m) \in Nat /\ Newest(m)' \in Nat /\ Newest(n)' \in Nat
  BY <1>3, NewestIs, NewestIsNext
<1>7. n = m \/ Newest(m)' < Newest(n)'
  BY <1>3, <1>4, NewestIsNext DEF NewestRises
<1> QED
  BY <1>1, <1>2, <1>5, <1>6, <1>7 DEF None

(* A growing schedule leaves end of life as it was.                         *)
LEMMA VerdictStays ==
    ASSUME LifecycleInv, LifecycleInv', Grows, NEW v \in Versions,
           NEW d \in {"auto", "production"}, Judge(v, d).state = "endOfLife"
    PROVE  (Judge(v, d)').state = "endOfLife"
<1> DEFINE l == LineOf(v)
<1>1. today \in Int /\ today' \in Int /\ today <= today'
  BY LifecycleBounds DEF LifecycleInv, Grows
<1>2. CASE l \notin Known
  <2>1. PICK n \in 0..MaxLine : Known = 1..n
    BY DEF LifecycleInv
  <2>2. PICK k \in 0..MaxLine : Known' = 1..k
    BY DEF LifecycleInv
  <2>3. Known # {} /\ ~ (l > Max(Known))
    BY <1>2 DEF Judge, Status
  <2>4. n \in Nat /\ 1 <= n /\ k \in Nat /\ n <= k
    BY <2>1, <2>2, <2>3 DEF Grows
  <2>5. Max(Known) = n /\ Max(Known') = k
    <3>1. n \in 1..n /\ (\A i \in 1..n : n >= i) /\ k \in 1..k /\ (\A i \in 1..k : k >= i)
      BY <2>4
    <3>2. Max(1..n) \in 1..n /\ (\A i \in 1..n : Max(1..n) >= i)
      BY <3>1 DEF Max
    <3>3. Max(1..k) \in 1..k /\ (\A i \in 1..k : Max(1..k) >= i)
      BY <3>1 DEF Max
    <3> QED
      BY <2>1, <2>2, <2>4, <3>1, <3>2, <3>3
  <2>6. l = 0
    BY <1>2, <2>1, <2>3, <2>4, <2>5, VersionIs, LifecycleBounds
  <2>7. l \notin Known' /\ Known' # {} /\ ~ (l > Max(Known'))
    <3>1. 0 \notin 1..k /\ 1 \in 1..k /\ ~ (0 > k)
      BY <2>4
    <3> QED
      BY <2>2, <2>5, <2>6, <3>1
  <2> QED
    BY <2>7 DEF Judge, Status, LineOf
<1>3. CASE l \in Known /\ d = "auto"
  <2> DEFINE t == BestTrack(l)
  <2>1. Judge(v, d) = OnTrack(l, v, t)
    BY <1>3 DEF Judge
  <2>2. TrackEnd(l, t) # None /\ ~ (TrackEnd(l, t) > today)
    BY <2>1 DEF OnTrack, Status
  <2>3. TrackEnd(l, t) <= today
    BY <1>1, <1>3, <2>2, TrackEndIs, LifecycleBounds
  <2>4. PICK u \in Tracks : u \in lines'[l].tracks /\ Judge(v, d)' = OnTrack(l, v, u)'
    <3>1. l \in Known'
      BY <1>3 DEF Grows
    <3> QED
      BY <1>3, <3>1, JudgedNext
  <2>5. u \in lines[l].tracks
    BY <1>3, <2>4 DEF Grows
  <2>6. TrackEnd(l, u) # None /\ TrackEnd(l, u) <= today
    BY <1>3, <2>2, <2>3, <2>5, EveryTrackEnded
  <2>7. TrackEnd(l, u)' = TrackEnd(l, u) /\ TrackEnd(l, u) \in Int
    BY <1>3, <2>6, EndStays, TrackEndIs, LifecycleBounds
  <2> QED
    BY <1>1, <2>4, <2>6, <2>7 DEF OnTrack, Status
<1>4. CASE l \in Known /\ d = "production"
  <2>1. l \in Known' /\ lines'[l].tracks = lines[l].tracks
    BY <1>4 DEF Grows
  <2>2. CASE d \in lines[l].tracks
    <3>1. Judge(v, d) = OnTrack(l, v, d) /\ Judge(v, d)' = OnTrack(l, v, d)'
      BY <1>4, <2>1, <2>2 DEF Judge, LineOf
    <3>2. TrackEnd(l, d) # None /\ ~ (TrackEnd(l, d) > today)
      BY <3>1 DEF OnTrack, Status
    <3>3. TrackEnd(l, d)' = TrackEnd(l, d)
      BY <1>4, <3>2, EndStays
    <3>4. TrackEnd(l, d) \in Int
      BY <1>4, <3>2, TrackEndIs, LifecycleBounds
    <3> QED
      BY <1>1, <3>1, <3>2, <3>3, <3>4 DEF OnTrack, Status
  <2>3. CASE d \notin lines[l].tracks
    <3>1. Judge(v, d) = OffTrack(l, v, d) /\ Judge(v, d)' = OffTrack(l, v, d)'
      BY <1>4, <2>1, <2>3 DEF Judge, LineOf
    <3>2. CurrentRelease(d) # None /\ ~ (v > CurrentRelease(d))
      BY <3>1 DEF OffTrack, Status
    <3>3. /\ CurrentRelease(d) \in Nat /\ CurrentRelease(d)' \in Nat
          /\ CurrentRelease(d)' >= CurrentRelease(d)
      BY <1>4, <3>2, CurrentReleaseGrows DEF Tracks
    <3>4. CurrentRelease(d)' # None /\ ~ (v > CurrentRelease(d)')
      BY <3>2, <3>3, VersionIs DEF None
    <3> QED
      BY <3>1, <3>4 DEF OffTrack, Status
  <2> QED
    BY <2>2, <2>3
<1> QED
  BY <1>2, <1>3, <1>4

(* Neither a day nor a release takes end of life back, whoever asks without *)
(* a track or on production; only promoting the line itself may             *)
(* (versions.py, _track_end_of_life and _off_track_status).                 *)
THEOREM EndedForGood == LifecycleSpec => EndOfLifeIsForGood
<1>1. LifecycleInv /\ LifecycleInv' /\ [LifecycleNext]_lifecycleVars
      => [(\A l \in Known : lines'[l].tracks = lines[l].tracks)
            => \A v \in Versions, d \in {"auto", "production"} :
                  Judge(v, d).state = "endOfLife"
                      => (Judge(v, d).state)' = "endOfLife"]_lifecycleVars
  BY ScheduleGrows, VerdictStays
<1> QED
  BY <1>1, LifecycleInvHolds, PTL DEF LifecycleSpec, EndOfLifeIsForGood

-----------------------------------------------------------------------------
(* A scan's run (ScanRun).  The results of checks are functions by name,    *)
(* put together so that the first that has a name keeps it; what fails in   *)
(* one put together fails in a part, and the other way round where the      *)
(* names are apart.                                                         *)

(* A check failed iff it was made and did not pass.                         *)
LEMMA FailedInIs == \A results, c : c \in FailedIn(results) <=>
                                    c \in DOMAIN results /\ results[c] = FALSE
BY DEF FailedIn

(* The failures of merged results are those of the first and those of the   *)
(* second the first says nothing of.                                        *)
LEMMA FailuresOfMerged ==
    \A f, g, c : /\ c \in FailedIn(f ++ g) => c \in FailedIn(f) \/ c \in FailedIn(g)
                 /\ c \in FailedIn(f) => c \in FailedIn(f ++ g)
                 /\ c \in FailedIn(g) /\ c \notin DOMAIN f => c \in FailedIn(f ++ g)
BY FailedInIs, NamesOfMerged, FirstIsKept, SecondIsAdded

(* A check that is decided is there with its answer, and absent otherwise.  *)
LEMMA WhenIs ==
    \A decided, check, passed :
        /\ \A c : c \in DOMAIN When(decided, check, passed) <=> decided /\ c = check
        /\ decided => When(decided, check, passed)[check] = passed
<1>1. DOMAIN <<>> = {}
  OBVIOUS
<1> QED
  BY <1>1 DEF When, Only

(* A check that cannot be decided is absent.                                *)
LEMMA UnlessIs ==
    ASSUME NEW undecided, NEW check, NEW passed
    PROVE  DOMAIN Unless(undecided, check, passed) \subseteq {check}
<1>1. DOMAIN <<>> = {}
  OBVIOUS
<1> QED
  BY <1>1 DEF Unless, Only

PageMeasures == {"hstsLongMaxAge", "hstsPreload", "cspWithoutUnsafeInline"}
SharingMeasures == {"publicLinkPasswordEnforced", "publicLinkExpirationEnforced",
                    "userEnumerationRestricted", "passwordPolicyEnforced",
                    "passwordPolicyComplexity"}
ProviderMeasures == {"oidcPkceSupported", "oidcSigningAlgorithmStrong",
                     "oidcImplicitFlowDisabled", "oidcEndpointsUseHttps"}

(* The measures read from the page are known by name, and there is one only *)
(* if the page was answered (scanner.py, the hardenings).                   *)
LEMMA PageHardeningsAre ==
    ASSUME NEW page
    PROVE  /\ DOMAIN PageHardenings(page) \subseteq PageMeasures
           /\ DOMAIN PageHardenings(page) # {} => Answered(page)
<1> DEFINE a == When(page.hsts # "none", "hstsLongMaxAge", page.hsts # "short")
           b == When(page.hsts # "none", "hstsPreload", page.hsts \in {"preload", "eligible"})
           c == When(page.csp # "none", "cspWithoutUnsafeInline",
                     page.csp \notin {"inline", "eval"})
<1>1. PageHardenings(page) = IF ~Answered(page) THEN <<>> ELSE (a ++ b) ++ c
  BY DEF PageHardenings
<1>2. /\ DOMAIN a \subseteq {"hstsLongMaxAge"}
      /\ DOMAIN b \subseteq {"hstsPreload"}
      /\ DOMAIN c \subseteq {"cspWithoutUnsafeInline"}
  BY WhenIs
<1> HIDE DEF a, b, c
<1>3. /\ \A x : x \in DOMAIN ((a ++ b) ++ c) =>
                 x \in DOMAIN a \cup DOMAIN b \cup DOMAIN c
      /\ DOMAIN <<>> = {}
  BY NamesOfMerged
<1> QED
  BY <1>1, <1>2, <1>3 DEF PageMeasures

(* Basic authentication is judged iff the challenge was answered.           *)
LEMMA ChallengeHardeningIs ==
    ASSUME NEW e
    PROVE  /\ \A c : c \in DOMAIN ChallengeHardening(e) <=>
                    Challenged(e) /\ c = "basicAuthDisabled"
           /\ Challenged(e) => ChallengeHardening(e)["basicAuthDisabled"]
                                  = (e["challenge"] # "basic")
BY WhenIs DEF ChallengeHardening

(* Likewise for the measures read from the capabilities.                    *)
LEMMA CapabilityHardeningsAre ==
    ASSUME NEW caps
    PROVE  /\ DOMAIN CapabilityHardenings(caps) \subseteq SharingMeasures
           /\ DOMAIN CapabilityHardenings(caps) # {} => Answered(caps)
<1> DEFINE Rate(check, value) ==
               When(caps.sharing /\ value # "absent", check, value = "good")
           a == Rate("publicLinkPasswordEnforced", caps.password)
           b == Rate("publicLinkExpirationEnforced", caps.expiry)
           c == Rate("userEnumerationRestricted", caps.enumeration)
           d == Rate("passwordPolicyEnforced", caps.policy)
           f == Rate("passwordPolicyComplexity", caps.complexity)
<1>1. CapabilityHardenings(caps)
        = IF ~Answered(caps) THEN <<>> ELSE (((a ++ b) ++ c) ++ d) ++ f
  BY DEF CapabilityHardenings
<1>0. \A check, value : DOMAIN Rate(check, value) \subseteq {check}
  BY WhenIs
<1> HIDE DEF Rate
<1>2. /\ DOMAIN a \subseteq {"publicLinkPasswordEnforced"}
      /\ DOMAIN b \subseteq {"publicLinkExpirationEnforced"}
      /\ DOMAIN c \subseteq {"userEnumerationRestricted"}
      /\ DOMAIN d \subseteq {"passwordPolicyEnforced"}
      /\ DOMAIN f \subseteq {"passwordPolicyComplexity"}
  BY <1>0
<1> HIDE DEF a, b, c, d, f
<1>3. /\ \A x : x \in DOMAIN ((((a ++ b) ++ c) ++ d) ++ f) =>
                 x \in DOMAIN a \cup DOMAIN b \cup DOMAIN c \cup DOMAIN d \cup DOMAIN f
      /\ DOMAIN <<>> = {}
  BY NamesOfMerged
<1> QED
  BY <1>1, <1>2, <1>3 DEF SharingMeasures

(* Likewise for the measures read from the provider.                        *)
LEMMA OpenidHardeningsAre ==
    ASSUME NEW e, NEW way
    PROVE  /\ DOMAIN OpenidHardenings(e, way) \subseteq ProviderMeasures
           /\ DOMAIN OpenidHardenings(e, way) # {} => Answered(e["provider"])
<1> DEFINE provider == e["provider"]
           Rate(check, value) == When(value # "absent", check, value = "good")
           a == Rate("oidcPkceSupported", provider.pkce)
           b == Rate("oidcSigningAlgorithmStrong", provider.signing)
           c == IF External(e) THEN Rate("oidcImplicitFlowDisabled", provider.responses)
                ELSE <<>>
           d == IF way # "plain" THEN Rate("oidcEndpointsUseHttps", provider.endpoints)
                ELSE <<>>
<1>0. DOMAIN <<>> = {}
  OBVIOUS
<1>1. OpenidHardenings(e, way)
        = IF ~Detected(e) THEN <<>> ELSE ((a ++ b) ++ c) ++ d
  BY DEF OpenidHardenings
<1>2. /\ DOMAIN a \subseteq {"oidcPkceSupported"}
      /\ DOMAIN b \subseteq {"oidcSigningAlgorithmStrong"}
      /\ DOMAIN c \subseteq {"oidcImplicitFlowDisabled"}
      /\ DOMAIN d \subseteq {"oidcEndpointsUseHttps"}
  BY <1>0, WhenIs
<1> HIDE DEF a, b, c, d
<1>3. \A x : x \in DOMAIN (((a ++ b) ++ c) ++ d) =>
              x \in DOMAIN a \cup DOMAIN b \cup DOMAIN c \cup DOMAIN d
  BY NamesOfMerged
<1>4. Detected(e) => Answered(e["provider"])
  BY DEF Detected
<1> QED
  BY <1>0, <1>1, <1>2, <1>3, <1>4 DEF ProviderMeasures

HeaderNames == {"Strict-Transport-Security", "Content-Security-Policy", "X-Frame-Options"}

(* Every header is judged, whatever the page says.                          *)
LEMMA HeadersAre ==
    ASSUME NEW e
    PROVE  /\ DOMAIN Headers(e) = HeaderNames
           /\ DOMAIN AdvisoryHeaders(e) = {"Cross-Origin-Opener-Policy"}
<1> DEFINE page == e["root"]
           a == Only("Strict-Transport-Security", Answered(page) /\ page.hsts # "none")
           b == Only("Content-Security-Policy", Answered(page) /\ page.csp # "none")
           c == Only("X-Frame-Options", Answered(page) /\ page.framing # "open")
<1>1. Headers(e) = (a ++ b) ++ c
  BY DEF Headers
<1>2. /\ DOMAIN a = {"Strict-Transport-Security"}
      /\ DOMAIN b = {"Content-Security-Policy"}
      /\ DOMAIN c = {"X-Frame-Options"}
      /\ DOMAIN AdvisoryHeaders(e) = {"Cross-Origin-Opener-Policy"}
  BY DEF Only, AdvisoryHeaders
<1> HIDE DEF a, b, c
<1>3. \A x : x \in DOMAIN ((a ++ b) ++ c) <=>
              x \in DOMAIN a \cup DOMAIN b \cup DOMAIN c
  BY NamesOfMerged
<1> QED
  BY <1>1, <1>2, <1>3 DEF HeaderNames

(* A measure is decided only if the request it is read from was answered.   *)
LEMMA HardeningsAre ==
    ASSUME NEW e, NEW way
    PROVE  /\ \A c \in DOMAIN Hardenings(e, way) :
                 c \in DOMAIN HardeningSource /\ Answered(e[HardeningSource[c]])
           /\ "basicAuthDisabled" \in DOMAIN Hardenings(e, way) <=> Challenged(e)
           /\ Challenged(e) =>
                 Hardenings(e, way)["basicAuthDisabled"] = (e["challenge"] # "basic")
<1> DEFINE page == PageHardenings(e["root"])
           asked == ChallengeHardening(e)
           sharing == CapabilityHardenings(e["capabilities"])
           openid == OpenidHardenings(e, way)
<1>1. Hardenings(e, way) = ((page ++ asked) ++ sharing) ++ openid
  BY DEF Hardenings
<1>2. /\ DOMAIN page \subseteq PageMeasures /\ (DOMAIN page # {} => Answered(e["root"]))
      /\ \A c : c \in DOMAIN asked <=> Challenged(e) /\ c = "basicAuthDisabled"
      /\ DOMAIN sharing \subseteq SharingMeasures
      /\ DOMAIN sharing # {} => Answered(e["capabilities"])
      /\ DOMAIN openid \subseteq ProviderMeasures
      /\ DOMAIN openid # {} => Answered(e["provider"])
  BY PageHardeningsAre, ChallengeHardeningIs, CapabilityHardeningsAre, OpenidHardeningsAre
<1>3. Challenged(e) => asked["basicAuthDisabled"] = (e["challenge"] # "basic")
  BY ChallengeHardeningIs
<1>4. Challenged(e) => Answered(e["challenge"])
  <2>1. Silent \notin AnswersTo("challenge")
    BY SilenceIsNoAnswer DEF Sources, Opening
  <2>2. AnswersTo("challenge") = {"none", "bearer", "basic"}
    BY DEF AnswersTo
  <2> QED
    BY <2>1, <2>2 DEF Challenged, Answered
<1> HIDE DEF page, asked, sharing, openid
<1>5. \A c : c \in DOMAIN Hardenings(e, way) <=>
              c \in DOMAIN page \cup DOMAIN asked \cup DOMAIN sharing \cup DOMAIN openid
  BY <1>1, NamesOfMerged
<1>6. \A c \in PageMeasures : c \in DOMAIN HardeningSource /\ HardeningSource[c] = "root"
  BY DEF PageMeasures, HardeningSource
<1>7. \A c \in SharingMeasures :
         c \in DOMAIN HardeningSource /\ HardeningSource[c] = "capabilities"
  BY DEF SharingMeasures, HardeningSource
<1>8. \A c \in ProviderMeasures :
         c \in DOMAIN HardeningSource /\ HardeningSource[c] = "provider"
  BY DEF ProviderMeasures, HardeningSource
<1>9. /\ "basicAuthDisabled" \in DOMAIN HardeningSource
      /\ HardeningSource["basicAuthDisabled"] = "challenge"
  BY DEF HardeningSource
<1>10. "basicAuthDisabled" \notin PageMeasures \cup SharingMeasures \cup ProviderMeasures
  BY DEF PageMeasures, SharingMeasures, ProviderMeasures
<1>11. \A c \in DOMAIN Hardenings(e, way) :
          c \in DOMAIN HardeningSource /\ Answered(e[HardeningSource[c]])
  BY <1>2, <1>4, <1>5, <1>6, <1>7, <1>8, <1>9
<1>12. "basicAuthDisabled" \in DOMAIN Hardenings(e, way) <=> Challenged(e)
  BY <1>2, <1>5, <1>10
<1>13. Challenged(e) =>
          Hardenings(e, way)["basicAuthDisabled"] = asked["basicAuthDisabled"]
  <2> SUFFICES ASSUME Challenged(e)
               PROVE  Hardenings(e, way)["basicAuthDisabled"] = asked["basicAuthDisabled"]
    OBVIOUS
  <2>1. "basicAuthDisabled" \in DOMAIN asked \ DOMAIN page
    BY <1>2, <1>10
  <2>2. (page ++ asked)["basicAuthDisabled"] = asked["basicAuthDisabled"]
    BY <2>1, NamesOfMerged, FirstIsKept, SecondIsAdded
  <2>3. "basicAuthDisabled" \in DOMAIN (page ++ asked)
    BY <2>1, NamesOfMerged, FirstIsKept, SecondIsAdded
  <2> QED
    BY <1>1, <2>2, <2>3, NamesOfMerged, FirstIsKept, SecondIsAdded
<1> QED
  BY <1>3, <1>11, <1>12, <1>13

-----------------------------------------------------------------------------
Opened == {"advise", "inspect", "collect", "waive", "cover", "done"}
OpeningEntries == HardeningCoverage ++ HeaderCoverage

OpeningNames == DOMAIN HardeningSource \cup HeaderNames \cup {"Cross-Origin-Opener-Policy"}
CoveredNames ==
    OpeningNames \cup {"securityTxtPublished", "hstsPreloadEligible", "capabilities",
                       "office", "calendar", "tlsInspection", "caaRecord", "dnssec",
                       "tlsByAddress", "addressObservations", "ipv6Reachability"}

Keeps(entries) == \A c \in DOMAIN entries : c \in DOMAIN coverage /\ coverage[c] = entries[c]

(* What the opening answers decided is covered first, and nothing written   *)
(* before the findings has a name of theirs, but for one.                   *)
OpeningIsKept ==
    /\ step \in Ways \cup {"opening"} => coverage = <<>>
    /\ step \in Opened => Keeps(OpeningEntries)
    /\ step \in Opened \ {"advise"} => Keeps(CapabilitiesCoverage)
    /\ step = "advise" => DOMAIN coverage \subseteq OpeningNames
    /\ step \in Opened \ {"advise", "done"} => DOMAIN coverage \subseteq CoveredNames

(* The opening records measures and headers, each by its own rule           *)
(* (coverage.py).                                                           *)
LEMMA OpeningEntriesAre ==
    /\ \A c : c \in DOMAIN OpeningEntries <=> c \in OpeningNames
    /\ \A c \in DOMAIN HardeningSource : OpeningEntries[c] = HardeningCoverage[c]
    /\ \A c \in HeaderNames : OpeningEntries[c] = HeaderCoverage[c]
<1>1. DOMAIN HardeningCoverage = DOMAIN HardeningSource
  BY DEF HardeningCoverage
<1>2. DOMAIN HeaderCoverage = HeaderNames \cup {"Cross-Origin-Opener-Policy"}
  BY HeadersAre, NamesOfMerged, FirstIsKept, SecondIsAdded DEF HeaderCoverage
<1>3. HeaderNames \cap DOMAIN HardeningSource = {}
  BY DEF HeaderNames, HardeningSource
<1> QED
  BY <1>1, <1>2, <1>3, NamesOfMerged, FirstIsKept, SecondIsAdded
     DEF OpeningEntries, OpeningNames

(* What is recorded stays: a later entry of the same name changes nothing   *)
(* (coverage.py, first write wins).                                         *)
LEMMA RecordKeeps ==
    ASSUME NEW more, Record(more)
    PROVE  /\ \A c : c \in DOMAIN coverage' <=> c \in DOMAIN coverage \/ c \in DOMAIN more
           /\ \A c : c \in DOMAIN coverage => coverage'[c] = coverage[c]
           /\ \A c : c \in DOMAIN more /\ c \notin DOMAIN coverage => coverage'[c] = more[c]
<1>1. coverage' = coverage ++ more
  BY DEF Record
<1> QED
  BY <1>1, NamesOfMerged, FirstIsKept, SecondIsAdded

(* What coverage and alerts are made of changes with the instance only.     *)
LEMMA ReadingsStay ==
    ASSUME UNCHANGED <<settings, instance, reached>>
    PROVE  /\ OpeningEntries' = OpeningEntries
           /\ CapabilitiesCoverage' = CapabilitiesCoverage
           /\ Alerting' = (FailedIn(findings') \cup FailedIn(Hardenings(said, reached))
                            \cup FailedIn(Headers(said)) \cup FailedIn(HttpsEnforced(said, reached)))
<1>1. said' = said
  BY DEF said
<1>2. HardeningCoverage' = HardeningCoverage
  BY <1>1 DEF HardeningCoverage, NotApplicable, StateOf, Hardenings
<1>3. HeaderCoverage' = HeaderCoverage
  BY <1>1 DEF HeaderCoverage, StateOf
<1>4. CapabilitiesCoverage' = CapabilitiesCoverage
  BY <1>1 DEF CapabilitiesCoverage
<1> QED
  BY <1>1, <1>2, <1>3, <1>4 DEF OpeningEntries, Alerting

(* What the opening recorded is there until the document is written.        *)
LEMMA OpeningIsKeptAlways == ScanSpec => []OpeningIsKept
<1>1. ScanInit => OpeningIsKept
  BY DEF ScanInit, StartScan, OpeningIsKept, Opened
<1>2. OpeningIsKept /\ [ScanNext]_scanVars => OpeningIsKept'
  <2> SUFFICES ASSUME OpeningIsKept, [ScanNext]_scanVars PROVE OpeningIsKept'
    OBVIOUS
  <2>1. ASSUME NEW way \in Ways, NEW other \in BOOLEAN, Refuse(way, other)
        PROVE  OpeningIsKept'
    <3>1. /\ step \in Ways /\ step' \in Ways \cup {"failed"} /\ coverage' = coverage
      BY <2>1 DEF Refuse, NextWay, Ways
    <3> QED
      BY <3>1 DEF OpeningIsKept, Opened, Ways
  <2>2. ASSUME NEW way \in Ways, Reach(way) PROVE OpeningIsKept'
    BY <2>2 DEF Reach, OpeningIsKept, Opened, Ways
  <2>3. CASE ReadOpening
    <3>1. step = "opening" /\ step' = "advise" /\ Record(OpeningEntries)
      BY <2>3 DEF ReadOpening, OpeningEntries
    <3>2. DOMAIN coverage = {}
      BY <3>1 DEF OpeningIsKept
    <3>3. OpeningEntries' = OpeningEntries
      BY <2>3, ReadingsStay DEF ReadOpening
    <3>4. \A c : c \in DOMAIN coverage' <=> c \in DOMAIN OpeningEntries
      BY <3>1, <3>2, RecordKeeps
    <3>5. \A c : c \in DOMAIN OpeningEntries => coverage'[c] = OpeningEntries[c]
      BY <3>1, <3>2, RecordKeeps
    <3>6. DOMAIN coverage' \subseteq OpeningNames
      BY <3>4, OpeningEntriesAre
    <3> QED
      BY <3>1, <3>3, <3>4, <3>5, <3>6 DEF OpeningIsKept, Keeps, Ways
  <2>4. CASE Advise
    <3>1. /\ step = "advise" /\ step' = "inspect"
          /\ Record(AdvisoryCoverage ++ CapabilitiesCoverage)
      BY <2>4 DEF Advise
    <3>2. OpeningEntries' = OpeningEntries /\ CapabilitiesCoverage' = CapabilitiesCoverage
      BY <2>4, ReadingsStay DEF Advise
    <3>3. Keeps(OpeningEntries) /\ DOMAIN coverage \subseteq OpeningNames
      BY <3>1 DEF OpeningIsKept, Opened
    <3>4. \A c : c \in DOMAIN CapabilitiesCoverage <=> c = "capabilities"
      BY DEF CapabilitiesCoverage
    <3>5. \A c : c \in DOMAIN AdvisoryCoverage <=>
                 c \in {"securityTxtPublished", "hstsPreloadEligible"}
      BY DEF AdvisoryCoverage, AdvisoryChecks
    <3>6. "capabilities" \notin OpeningNames
      BY DEF OpeningNames, HeaderNames, HardeningSource
    <3>7. \A c : c \in DOMAIN OpeningEntries =>
             c \in DOMAIN coverage' /\ coverage'[c] = OpeningEntries[c]
      BY <3>1, <3>3, RecordKeeps DEF Keeps
    <3>8. \A c : c \in DOMAIN CapabilitiesCoverage =>
             c \in DOMAIN coverage' /\ coverage'[c] = CapabilitiesCoverage[c]
      BY <3>1, <3>3, <3>4, <3>5, <3>6, RecordKeeps, NamesOfMerged, SecondIsAdded
    <3>9. DOMAIN coverage' \subseteq CoveredNames
      BY <3>1, <3>3, <3>4, <3>5, RecordKeeps, NamesOfMerged DEF CoveredNames
    <3> QED
      BY <3>1, <3>2, <3>7, <3>8, <3>9 DEF OpeningIsKept, Keeps, Ways
  <2>5. ASSUME step \in {"inspect", "collect", "waive", "cover"},
               step' \in {"collect", "waive", "cover", "done"},
               UNCHANGED <<settings, instance, reached>>,
               \/ UNCHANGED coverage
               \/ \E more : /\ Record(more)
                            /\ step' # "done" => DOMAIN more \subseteq CoveredNames
        PROVE  OpeningIsKept'
    <3>1. OpeningEntries' = OpeningEntries /\ CapabilitiesCoverage' = CapabilitiesCoverage
      BY <2>5, ReadingsStay
    <3>2. /\ Keeps(OpeningEntries) /\ Keeps(CapabilitiesCoverage)
          /\ DOMAIN coverage \subseteq CoveredNames
      BY <2>5 DEF OpeningIsKept, Opened
    <3>3. \A c : c \in DOMAIN coverage =>
             c \in DOMAIN coverage' /\ coverage'[c] = coverage[c]
      BY <2>5, RecordKeeps
    <3>4. step' # "done" => DOMAIN coverage' \subseteq CoveredNames
      BY <2>5, <3>2, RecordKeeps
    <3>5. \A c \in DOMAIN OpeningEntries :
             c \in DOMAIN coverage' /\ coverage'[c] = OpeningEntries[c]
      BY <3>2, <3>3 DEF Keeps
    <3>6. \A c \in DOMAIN CapabilitiesCoverage :
             c \in DOMAIN coverage' /\ coverage'[c] = CapabilitiesCoverage[c]
      BY <3>2, <3>3 DEF Keeps
    <3> QED
      BY <2>5, <3>1, <3>4, <3>5, <3>6 DEF OpeningIsKept, Keeps, Ways
  <2>6. CASE InspectTransport
    <3> DEFINE more == IntegrationCoverage ++ TransportCoverage ++ AddressCoverage
    <3>1. DOMAIN more \subseteq CoveredNames
      <4>1. /\ \A c : c \in DOMAIN IntegrationCoverage => c \in CoveredNames
            /\ \A c : c \in DOMAIN TransportCoverage => c \in CoveredNames
            /\ \A c : c \in DOMAIN AddressCoverage => c \in CoveredNames
        BY DEF IntegrationCoverage, TransportCoverage, AddressCoverage, CoveredNames
      <4> QED
        BY <4>1, NamesOfMerged
    <3>2. Record(more) /\ step = "inspect" /\ step' = "collect"
             /\ UNCHANGED <<settings, instance, reached>>
      BY <2>6 DEF InspectTransport
    <3> QED
      BY <2>5, <3>1, <3>2
  <2>8. CASE Collect \/ ApplyWaivers
    BY <2>5, <2>8 DEF Collect, ApplyWaivers
  <2>9. CASE CoverFindings
    BY <2>5, <2>9 DEF CoverFindings
  <2>7. CASE UNCHANGED scanVars
    BY <2>7, ReadingsStay DEF scanVars, OpeningIsKept, Keeps
  <2> QED
    BY <2>1, <2>2, <2>3, <2>4, <2>6, <2>7, <2>8, <2>9 DEF ScanNext
<1> QED
  BY <1>1, <1>2, PTL DEF ScanSpec

(* A measure read from the opening answers is covered as it was rated, and  *)
(* never as measured when its request was lost, whatever is written after   *)
(* it (coverage.py, "First write wins").                                    *)
THEOREM CoverageIsHonest == ScanSpec => []OpeningCoverageIsHonest
<1>1. OpeningIsKept => OpeningCoverageIsHonest
  <2> SUFFICES ASSUME OpeningIsKept, step = "done"
               PROVE  LET rated == Hardenings(said, reached)
        IN /\ \A c \in DOMAIN HardeningSource :
                IF c \in DOMAIN rated
                THEN Answered(said[HardeningSource[c]]) /\ coverage[c] = StateOf(rated[c])
                ELSE coverage[c] \in {"not_checked", "inconclusive"}
           /\ \A c \in DOMAIN Headers(said) :
                coverage[c] \in {"passed", "failed"} <=> Answered(said["root"])
           /\ coverage["capabilities"] = "passed" <=> Answered(said["capabilities"])
    BY DEF OpeningCoverageIsHonest
  <2> DEFINE rated == Hardenings(said, reached)
  <2>1. Keeps(OpeningEntries) /\ Keeps(CapabilitiesCoverage)
    BY DEF OpeningIsKept, Opened
  <2>2. ASSUME NEW c \in DOMAIN HardeningSource
        PROVE  IF c \in DOMAIN rated
               THEN Answered(said[HardeningSource[c]]) /\ coverage[c] = StateOf(rated[c])
               ELSE coverage[c] \in {"not_checked", "inconclusive"}
    <3>1. coverage[c] = HardeningCoverage[c]
      BY <2>1, OpeningEntriesAre DEF Keeps, OpeningNames
    <3> QED
      BY <3>1, HardeningsAre DEF HardeningCoverage
  <2>3. ASSUME NEW c \in DOMAIN Headers(said)
        PROVE  coverage[c] \in {"passed", "failed"} <=> Answered(said["root"])
    <3>1. c \in HeaderNames
      BY HeadersAre
    <3>2. coverage[c] = HeaderCoverage[c]
      BY <2>1, <3>1, OpeningEntriesAre DEF Keeps, OpeningNames
    <3>3. c \in DOMAIN (Headers(said) ++ AdvisoryHeaders(said))
      BY NamesOfMerged, FirstIsKept, SecondIsAdded
    <3> QED
      BY <3>2, <3>3 DEF HeaderCoverage, StateOf
  <2>4. coverage["capabilities"] = "passed" <=> Answered(said["capabilities"])
    BY <2>1 DEF Keeps, CapabilitiesCoverage
  <2> QED
    BY <2>2, <2>3, <2>4
<1> QED
  BY <1>1, OpeningIsKeptAlways, PTL

-----------------------------------------------------------------------------
(* The names of the findings: no two families share one.                    *)
TlsNames ==
    {"tlsHandshake", "tlsProtocol", "tlsDeprecatedProtocol", "tlsHostname",
     "tlsCipherSuite", "tlsTrusted", "tlsChain", "tlsCertificate",
     "tlsCertificateLifetime", "tlsCertificatePolicy", "tlsOcspStapling",
     "tlsCertificateTransparency", "tlsEarlyData"}
DnsNames == {"tlsCaaRecord", "tlsDnssec"}
ParityNames == {"tlsAddressParity", "addressParity"}
CookieNames == {"cookieSecure", "cookieHttpOnly", "cookieSameSite", "cookiePrefix"}
CompanionNames == {"companionEditorHttps", "companionAdminConsole"}
EmbedNames == {"webEmbedMessageOriginRestricted", "webEmbedDelegatedAuthenticationRestricted"}
PortNames == {"debugPort", "backendPortClosed"}

(* The checks of an endpoint are known by name.                             *)
LEMMA TlsChecksAre ==
    ASSUME NEW endpoint, NEW verifying
    PROVE  DOMAIN TlsChecks(endpoint, verifying) \subseteq TlsNames
<1> DEFINE ep == endpoint
           read == [tlsHandshake          |-> TRUE,
                    tlsProtocol           |-> Protocol(ep) = "modern",
                    tlsDeprecatedProtocol |-> "legacy" \notin ep.speaks,
                    tlsHostname           |-> HostnameVerdict(ep),
                    tlsCipherSuite        |-> ep.cipher = "forward"]
           trusted == Unless(Trust(ep) = "unknown", "tlsTrusted",
                             Trust(ep) = "trusted" \/ ~verifying)
           chain == Unless(ChainVerdict(ep) = "unknown", "tlsChain",
                           ChainVerdict(ep) = "complete")
           dates == [tlsCertificate         |-> ep.cert.validity = "long",
                     tlsCertificateLifetime |-> ~ep.cert.longLived]
           policy == Unless(ep.cert.policy = "unknown", "tlsCertificatePolicy",
                            ep.cert.policy = "strong")
           failed == [tlsHandshake |-> FALSE]
<1>1. TlsChecks(ep, verifying) =
         IF ep = Silent THEN failed
         ELSE (((((read ++ trusted) ++ chain) ++ CertificateChecks(ep.cert)) ++ OcspCheck(ep))
                 ++ TransparencyCheck(ep)) ++ EarlyDataCheck(ep)
  BY DEF TlsChecks
<1>2. CertificateChecks(ep.cert) = dates ++ policy
  BY DEF CertificateChecks
<1>3. /\ DOMAIN trusted \subseteq {"tlsTrusted"}
      /\ DOMAIN chain \subseteq {"tlsChain"}
      /\ DOMAIN policy \subseteq {"tlsCertificatePolicy"}
      /\ DOMAIN OcspCheck(ep) \subseteq {"tlsOcspStapling"}
      /\ DOMAIN TransparencyCheck(ep) \subseteq {"tlsCertificateTransparency"}
      /\ DOMAIN EarlyDataCheck(ep) \subseteq {"tlsEarlyData"}
  BY UnlessIs DEF OcspCheck, TransparencyCheck, EarlyDataCheck
<1>4. /\ DOMAIN read = {"tlsHandshake", "tlsProtocol", "tlsDeprecatedProtocol", "tlsHostname",
                        "tlsCipherSuite"}
      /\ DOMAIN dates = {"tlsCertificate", "tlsCertificateLifetime"}
      /\ DOMAIN failed = {"tlsHandshake"}
  OBVIOUS
<1> HIDE DEF read, trusted, chain, dates, policy, failed
<1>5. \A c : c \in DOMAIN CertificateChecks(ep.cert) =>
              c \in DOMAIN dates \/ c \in DOMAIN policy
  BY <1>2, NamesOfMerged
<1>6. \A c : c \in DOMAIN TlsChecks(ep, verifying) =>
              \/ c \in DOMAIN failed \/ c \in DOMAIN read \/ c \in DOMAIN trusted
              \/ c \in DOMAIN chain \/ c \in DOMAIN CertificateChecks(ep.cert)
              \/ c \in DOMAIN OcspCheck(ep) \/ c \in DOMAIN TransparencyCheck(ep)
              \/ c \in DOMAIN EarlyDataCheck(ep)
  BY <1>1, NamesOfMerged
<1> QED
  BY <1>3, <1>4, <1>5, <1>6 DEF TlsNames

(* So are those of every other finding.                                     *)
LEMMA FindingsAre ==
    ASSUME NEW e
    PROVE  /\ DOMAIN CaaFinding(e) \subseteq {"tlsCaaRecord"}
           /\ DOMAIN DnssecFinding(e) \subseteq {"tlsDnssec"}
           /\ DOMAIN CookieFindings(e) \subseteq CookieNames
           /\ DOMAIN AuthenticationFinding(e) = {"authentication"}
           /\ DOMAIN BasicAuthFinding(e) = {"basicAuthDisabled"}
           /\ DOMAIN IdentityProviderFinding(e) = {"identityProviderDetected"}
           /\ DOMAIN DemoUserFinding(e) \subseteq {"demoUsersDisabled"}
           /\ DOMAIN ReverseProxyFinding(e) = {"reverseProxyDetected"}
           /\ DOMAIN ExposedPathFinding(e) = {"exposed"}
           /\ DOMAIN CompanionFindings(e) \subseteq CompanionNames
           /\ DOMAIN DirectoryListingFinding(e) = {"directoryListing"}
           /\ DOMAIN DebugEndpointFinding(e) = {"debugEndpoint"}
           /\ DOMAIN WebEmbedFindings(e) = EmbedNames
           /\ DOMAIN CorsFinding(e) \subseteq {"corsOriginRestricted"}
           /\ DOMAIN TraceFinding(e) \subseteq {"traceMethodDisabled"}
           /\ DOMAIN ForwardedHostFinding(e) \subseteq {"forwardedHostIgnored"}
           /\ DOMAIN PortFindings(e) = PortNames
           /\ DOMAIN DisclosureFindings(e) \subseteq {"versionDisclosure"}
           /\ DOMAIN WebfingerFinding(e) \subseteq {"webfingerVersionDisclosure"}
           /\ \A named : DOMAIN VersionFindings(named) \subseteq {"versionDetection"}
<1>0. DOMAIN <<>> = {}
  OBVIOUS
<1>1. /\ DOMAIN CaaFinding(e) \subseteq {"tlsCaaRecord"}
      /\ DOMAIN DnssecFinding(e) \subseteq {"tlsDnssec"}
      /\ DOMAIN DemoUserFinding(e) \subseteq {"demoUsersDisabled"}
      /\ DOMAIN CorsFinding(e) \subseteq {"corsOriginRestricted"}
  BY WhenIs DEF CaaFinding, DnssecFinding, DemoUserFinding, CorsFinding
<1>2. /\ DOMAIN TraceFinding(e) \subseteq {"traceMethodDisabled"}
      /\ DOMAIN DisclosureFindings(e) \subseteq {"versionDisclosure"}
      /\ DOMAIN WebfingerFinding(e) \subseteq {"webfingerVersionDisclosure"}
  BY WhenIs DEF TraceFinding, DisclosureFindings, WebfingerFinding
<1>6. DOMAIN ForwardedHostFinding(e) \subseteq {"forwardedHostIgnored"}
  BY WhenIs DEF ForwardedHostFinding
<1>7. \A named : DOMAIN VersionFindings(named) \subseteq {"versionDetection"}
  BY <1>0 DEF VersionFindings, When, Only
<1>3. /\ DOMAIN AuthenticationFinding(e) = {"authentication"}
      /\ DOMAIN BasicAuthFinding(e) = {"basicAuthDisabled"}
      /\ DOMAIN IdentityProviderFinding(e) = {"identityProviderDetected"}
      /\ DOMAIN ReverseProxyFinding(e) = {"reverseProxyDetected"}
      /\ DOMAIN ExposedPathFinding(e) = {"exposed"}
      /\ DOMAIN DirectoryListingFinding(e) = {"directoryListing"}
      /\ DOMAIN DebugEndpointFinding(e) = {"debugEndpoint"}
      /\ DOMAIN WebEmbedFindings(e) = EmbedNames
      /\ DOMAIN PortFindings(e) = PortNames
  BY DEF AuthenticationFinding, BasicAuthFinding, IdentityProviderFinding,
         ReverseProxyFinding, ExposedPathFinding, DirectoryListingFinding,
         DebugEndpointFinding, WebEmbedFindings, EmbedNames, PortFindings, PortNames
<1>4. DOMAIN CookieFindings(e) \subseteq CookieNames
  BY <1>0 DEF CookieFindings, CookieNames
<1>5. DOMAIN CompanionFindings(e) \subseteq CompanionNames
  BY <1>0 DEF CompanionFindings, CompanionNames
<1> QED
  BY <1>1, <1>2, <1>3, <1>4, <1>5, <1>6, <1>7

Ports == IF settings.ports THEN PortFindings(said) ELSE <<>>

(* A finding of the scan that fails is one of a family, or it is of those   *)
(* that are about the addresses and the way.                                *)
LEMMA FailedFindings ==
    \A c \in FailedIn(ExtraFindings) :
        \/ c \in FailedIn(TlsFindings) \/ c \in FailedIn(DnsFindings)
        \/ c \in Unverifiable
        \/ c \in FailedIn(CookieFindings(said)) \/ c \in FailedIn(AuthenticationFinding(said))
        \/ c \in FailedIn(BasicAuthFinding(said))
        \/ c \in FailedIn(IdentityProviderFinding(said))
        \/ c \in FailedIn(DemoUserFinding(said)) \/ c \in FailedIn(ReverseProxyFinding(said))
        \/ c \in FailedIn(ExposedPathFinding(said)) \/ c \in FailedIn(CompanionFindings(said))
        \/ c \in FailedIn(DirectoryListingFinding(said))
        \/ c \in FailedIn(DebugEndpointFinding(said)) \/ c \in FailedIn(WebEmbedFindings(said))
        \/ c \in FailedIn(CorsFinding(said)) \/ c \in FailedIn(TraceFinding(said))
        \/ c \in FailedIn(ForwardedHostFinding(said)) \/ c \in FailedIn(Ports)
        \/ c \in FailedIn(DisclosureFindings(said)) \/ c \in FailedIn(WebfingerFinding(said))
        \/ c \in FailedIn(VersionFindings(VersionOf(said) = "known"))
<1>0. DOMAIN <<>> = {}
  OBVIOUS
<1>1. DOMAIN TlsParityFinding \subseteq Unverifiable
  <2> DEFINE same == SameIdentity(said["ipv4"], said["ipv6"])
  <2>1. TlsParityFinding = When(FamiliesCompared, "tlsAddressParity", same)
    BY DEF TlsParityFinding
  <2> HIDE DEF same
  <2> QED
    BY <1>0, <2>1 DEF When, Only, Unverifiable
<1>2. DOMAIN ContentParityFinding \subseteq Unverifiable
  <2> DEFINE same == \A other \in instance.nodes :
                        Answered(other) /\ SameContent(said, other, reached, settings.waived)
  <2>1. ContentParityFinding = When(NodesCompared, "addressParity", same)
    BY DEF ContentParityFinding
  <2> HIDE DEF same
  <2> QED
    BY <1>0, <2>1 DEF When, Only, Unverifiable
<1>3. DOMAIN When(~OverHttps, "httpsAvailable", FALSE) \subseteq Unverifiable
  BY <1>0 DEF When, Only, Unverifiable
<1> DEFINE versions == VersionFindings(VersionOf(said) = "known")
           https == When(~OverHttps, "httpsAvailable", FALSE)
           a == TlsFindings ++ DnsFindings ++ TlsParityFinding ++ ContentParityFinding
           b == a ++ CookieFindings(said) ++ AuthenticationFinding(said)
                  ++ BasicAuthFinding(said)
           d == b ++ IdentityProviderFinding(said) ++ DemoUserFinding(said)
                  ++ ReverseProxyFinding(said)
           f == d ++ ExposedPathFinding(said) ++ CompanionFindings(said)
                  ++ DirectoryListingFinding(said)
           g == f ++ DebugEndpointFinding(said) ++ WebEmbedFindings(said)
           h == g ++ CorsFinding(said) ++ TraceFinding(said) ++ ForwardedHostFinding(said)
           i == h ++ Ports ++ DisclosureFindings(said) ++ WebfingerFinding(said)
<1>4. ExtraFindings = (i ++ versions) ++ https
  BY DEF ExtraFindings, Ports
<1> HIDE DEF versions, https
<1>5. \A c \in FailedIn(a) :
         \/ c \in FailedIn(TlsFindings) \/ c \in FailedIn(DnsFindings)
         \/ c \in Unverifiable
  BY <1>1, <1>2, FailuresOfMerged, FailedInIs
<1> HIDE DEF a
<1>6. \A c \in FailedIn(b) :
         \/ c \in FailedIn(a) \/ c \in FailedIn(CookieFindings(said))
         \/ c \in FailedIn(AuthenticationFinding(said))
         \/ c \in FailedIn(BasicAuthFinding(said))
  BY FailuresOfMerged
<1> HIDE DEF b
<1>7. \A c \in FailedIn(d) :
         \/ c \in FailedIn(b) \/ c \in FailedIn(IdentityProviderFinding(said))
         \/ c \in FailedIn(DemoUserFinding(said)) \/ c \in FailedIn(ReverseProxyFinding(said))
  BY FailuresOfMerged
<1> HIDE DEF d
<1>8. \A c \in FailedIn(f) :
         \/ c \in FailedIn(d) \/ c \in FailedIn(ExposedPathFinding(said))
         \/ c \in FailedIn(CompanionFindings(said))
         \/ c \in FailedIn(DirectoryListingFinding(said))
  BY FailuresOfMerged
<1> HIDE DEF f
<1>9. \A c \in FailedIn(g) :
         \/ c \in FailedIn(f) \/ c \in FailedIn(DebugEndpointFinding(said))
         \/ c \in FailedIn(WebEmbedFindings(said))
  BY FailuresOfMerged
<1> HIDE DEF g
<1>10. \A c \in FailedIn(h) :
         \/ c \in FailedIn(g) \/ c \in FailedIn(CorsFinding(said))
         \/ c \in FailedIn(TraceFinding(said)) \/ c \in FailedIn(ForwardedHostFinding(said))
  BY FailuresOfMerged
<1> HIDE DEF h
<1>11. \A c \in FailedIn(i) :
         \/ c \in FailedIn(h) \/ c \in FailedIn(Ports)
         \/ c \in FailedIn(DisclosureFindings(said)) \/ c \in FailedIn(WebfingerFinding(said))
  BY FailuresOfMerged
<1> HIDE DEF i
<1>12. \A c \in FailedIn(ExtraFindings) :
         c \in FailedIn(i) \/ c \in FailedIn(versions) \/ c \in Unverifiable
  <2>1. DOMAIN https \subseteq Unverifiable
    BY <1>3 DEF https
  <2> QED
    BY <1>4, <2>1, FailuresOfMerged, FailedInIs
<1> QED
  BY <1>5, <1>6, <1>7, <1>8, <1>9, <1>10, <1>11, <1>12 DEF versions


-----------------------------------------------------------------------------
(* The findings are those of the answers, what is ignored is something that *)
(* may alert, and what fails is covered as failed.                          *)
EvidenceIsKept ==
    /\ step \in {"waive", "cover", "done"} =>
          findings = IF settings.extra THEN ExtraFindings ELSE <<>>
    /\ step \in {"cover", "done"} => ignored \subseteq Alerting
    /\ step = "done" => \A c \in FailedIn(findings) : coverage[c] = "failed"

(* One failing finding bears the name of an opening measure:                *)
(* basicAuthDisabled, which both judge by the same challenge (scanner.py).  *)
LEMMA OnlyOneNameIsShared ==
    ASSUME NEW c \in FailedIn(ExtraFindings), c \in CoveredNames
    PROVE  c \in FailedIn(BasicAuthFinding(said))
<1>0. \A results : FailedIn(results) \subseteq DOMAIN results
  BY FailedInIs
<1>1. c \notin TlsNames \cup DnsNames \cup Unverifiable \cup CookieNames \cup CompanionNames
         \cup EmbedNames \cup PortNames
         \cup {"authentication", "identityProviderDetected", "demoUsersDisabled",
               "reverseProxyDetected", "exposed", "directoryListing", "debugEndpoint",
               "corsOriginRestricted", "traceMethodDisabled", "forwardedHostIgnored",
               "versionDisclosure", "webfingerVersionDisclosure", "versionDetection"}
  BY DEF CoveredNames, OpeningNames, HardeningSource, HeaderNames, TlsNames, DnsNames,
         Unverifiable, CookieNames, CompanionNames, EmbedNames, PortNames
<1>2. c \notin FailedIn(TlsFindings)
  <2>1. DOMAIN TlsFindings \subseteq TlsNames
    <3>1. DOMAIN <<>> = {}
      OBVIOUS
    <3> QED
      BY <3>1, TlsChecksAre DEF TlsFindings
  <2> QED
    BY <1>0, <1>1, <2>1
<1>3. c \notin FailedIn(DnsFindings)
  <2>1. DOMAIN <<>> = {}
    OBVIOUS
  <2>2. \A x : x \in DOMAIN DnsFindings => x \in DnsNames
    BY <2>1, FindingsAre, NamesOfMerged DEF DnsFindings, DnsNames
  <2> QED
    BY <1>0, <1>1, <2>2
<1>4. c \notin FailedIn(Ports)
  <2>1. DOMAIN <<>> = {}
    OBVIOUS
  <2> QED
    BY <1>0, <1>1, <2>1, FindingsAre DEF Ports
<1>5. /\ c \notin FailedIn(CookieFindings(said))
      /\ c \notin FailedIn(AuthenticationFinding(said))
      /\ c \notin FailedIn(IdentityProviderFinding(said))
      /\ c \notin FailedIn(DemoUserFinding(said))
      /\ c \notin FailedIn(ReverseProxyFinding(said))
      /\ c \notin FailedIn(ExposedPathFinding(said))
      /\ c \notin FailedIn(CompanionFindings(said))
      /\ c \notin FailedIn(DirectoryListingFinding(said))
      /\ c \notin FailedIn(DebugEndpointFinding(said))
      /\ c \notin FailedIn(WebEmbedFindings(said))
  BY <1>0, <1>1, FindingsAre
<1>6. /\ c \notin FailedIn(CorsFinding(said))
      /\ c \notin FailedIn(TraceFinding(said))
      /\ c \notin FailedIn(ForwardedHostFinding(said))
      /\ c \notin FailedIn(DisclosureFindings(said))
      /\ c \notin FailedIn(WebfingerFinding(said))
  BY <1>0, <1>1, FindingsAre
<1>7. c \notin FailedIn(VersionFindings(VersionOf(said) = "known"))
  <2>1. DOMAIN VersionFindings(VersionOf(said) = "known") \subseteq {"versionDetection"}
    BY FindingsAre
  <2> QED
    BY <1>0, <1>1, <2>1
<1> QED
  BY <1>1, <1>2, <1>3, <1>4, <1>5, <1>6, <1>7, FailedFindings

(* The one name is covered as failed where the finding fails: there was a   *)
(* challenge, so the measure was rated.                                     *)
LEMMA ChallengeIsCovered ==
    ASSUME Keeps(OpeningEntries), NEW c \in FailedIn(BasicAuthFinding(said))
    PROVE  coverage[c] = "failed"
<1>1. c = "basicAuthDisabled" /\ said["challenge"] = "basic"
  <2>1. c \in DOMAIN BasicAuthFinding(said) /\ BasicAuthFinding(said)[c] = FALSE
    BY FailedInIs
  <2>2. c = "basicAuthDisabled"
    BY <2>1, FindingsAre
  <2>3. BasicAuthFinding(said)["basicAuthDisabled"] = (said["challenge"] # "basic")
    BY DEF BasicAuthFinding
  <2> QED
    BY <2>1, <2>2, <2>3
<1>2. /\ c \in DOMAIN HardeningSource
      /\ c \in DOMAIN Hardenings(said, reached)
      /\ Hardenings(said, reached)[c] = FALSE
  BY <1>1, HardeningsAre DEF Challenged, HardeningSource
<1>3. coverage[c] = HardeningCoverage[c]
  BY <1>2, OpeningEntriesAre DEF Keeps, OpeningNames
<1> QED
  BY <1>2, <1>3 DEF HardeningCoverage, StateOf

(* What is found changes with the instance only.                            *)
LEMMA FindingsStay ==
    ASSUME UNCHANGED <<settings, instance, reached>>
    PROVE  ExtraFindings' = ExtraFindings
<1>1. said' = said
  BY DEF said
<1>2. TlsFindings' = TlsFindings /\ DnsFindings' = DnsFindings /\ Ports' = Ports
  BY <1>1 DEF TlsFindings, DnsFindings, OverHttps, Ports
<1>3. TlsParityFinding' = TlsParityFinding
  BY <1>1 DEF TlsParityFinding, FamiliesCompared, OverHttps
<1>4. ContentParityFinding' = ContentParityFinding
  BY <1>1 DEF ContentParityFinding, NodesCompared
<1> QED
  BY <1>1, <1>2, <1>3, <1>4 DEF ExtraFindings, Ports, OverHttps

(* The findings are those of the checks until the document is written.      *)
LEMMA EvidenceIsKeptAlways == ScanSpec => []EvidenceIsKept
<1>1. ScanInit => EvidenceIsKept
  BY DEF ScanInit, StartScan, EvidenceIsKept
<1>2. OpeningIsKept /\ EvidenceIsKept /\ [ScanNext]_scanVars => EvidenceIsKept'
  <2> SUFFICES ASSUME OpeningIsKept, EvidenceIsKept, [ScanNext]_scanVars
               PROVE  EvidenceIsKept'
    OBVIOUS
  <2>1. CASE \/ \E way \in Ways : (\E other \in BOOLEAN : Refuse(way, other)) \/ Reach(way)
             \/ ReadOpening \/ Advise \/ InspectTransport
    <3>1. step' \notin {"waive", "cover", "done"}
      BY <2>1 DEF Refuse, NextWay, Reach, Ways, ReadOpening, Advise, InspectTransport
    <3> QED
      BY <3>1 DEF EvidenceIsKept
  <2>2. CASE Collect
    <3>1. ExtraFindings' = ExtraFindings
      BY <2>2, FindingsStay DEF Collect
    <3> QED
      BY <2>2, <3>1 DEF Collect, EvidenceIsKept
  <2>3. CASE ApplyWaivers
    <3>1. ExtraFindings' = ExtraFindings
      BY <2>3, FindingsStay DEF ApplyWaivers
    <3>2. Alerting' = Alerting
      BY <2>3, ReadingsStay DEF ApplyWaivers, Alerting
    <3>3. ignored' \subseteq Alerting
      BY <2>3 DEF ApplyWaivers, Alerting
    <3> QED
      BY <2>3, <3>1, <3>2, <3>3 DEF ApplyWaivers, EvidenceIsKept
  <2>4. CASE CoverFindings
    <3> DEFINE entries == [c \in DOMAIN findings |-> StateOf(findings[c])]
    <3>1. /\ step = "cover" /\ Record(entries) /\ step' = "done"
          /\ UNCHANGED <<settings, instance, reached, findings, ignored>>
      BY <2>4 DEF CoverFindings
    <3>2. ExtraFindings' = ExtraFindings
      BY <3>1, FindingsStay
    <3>3. Alerting' = Alerting
      BY <3>1, ReadingsStay DEF Alerting
    <3>4. ASSUME NEW c \in FailedIn(findings) PROVE coverage'[c] = "failed"
      <4>1. c \in DOMAIN entries /\ entries[c] = "failed"
        BY FailedInIs DEF StateOf
      <4>2. CASE c \notin DOMAIN coverage
        BY <3>1, <4>1, <4>2, RecordKeeps
      <4>3. CASE c \in DOMAIN coverage
        <5>1. coverage'[c] = coverage[c]
          BY <3>1, <4>3, RecordKeeps
        <5>2. Keeps(OpeningEntries) /\ c \in CoveredNames
          BY <3>1, <4>3 DEF OpeningIsKept, Opened
        <5>3. DOMAIN <<>> = {}
          OBVIOUS
        <5>4. c \in FailedIn(ExtraFindings)
          BY <3>1, <5>3, FailedInIs DEF EvidenceIsKept
        <5> QED
          BY <5>1, <5>2, <5>4, OnlyOneNameIsShared, ChallengeIsCovered
      <4> QED
        BY <4>2, <4>3
    <3>5. FailedIn(findings)' = FailedIn(findings)
      BY <3>1 DEF FailedIn
    <3> QED
      BY <3>1, <3>2, <3>3, <3>4, <3>5 DEF EvidenceIsKept
  <2>5. CASE UNCHANGED scanVars
    <3>1. ExtraFindings' = ExtraFindings /\ Alerting' = Alerting
             /\ FailedIn(findings)' = FailedIn(findings)
      BY <2>5, FindingsStay, ReadingsStay DEF scanVars, Alerting, FailedIn
    <3> QED
      BY <2>5, <3>1 DEF scanVars, EvidenceIsKept
  <2> QED
    BY <2>1, <2>2, <2>3, <2>4, <2>5 DEF ScanNext
<1> QED
  BY <1>1, <1>2, OpeningIsKeptAlways, PTL DEF ScanSpec

(* Waivers hide alerts and no evidence, whatever the waivers and the        *)
(* instance are: what fails is covered as failing (scanner.py,              *)
(* _apply_waivers and the coverage after it).                               *)
THEOREM EvidenceStays == ScanSpec => []WaiversHideNoEvidence
<1>1. EvidenceIsKept => WaiversHideNoEvidence
  BY DEF EvidenceIsKept, WaiversHideNoEvidence
<1> QED
  BY <1>1, EvidenceIsKeptAlways, PTL


-----------------------------------------------------------------------------
(* Merging results of different checks loses no failure.                    *)
LEMMA NothingIsLost ==
    ASSUME NEW f, NEW g, \A c : c \in DOMAIN f => c \notin DOMAIN g
    PROVE  /\ \A c : c \in DOMAIN (f ++ g) => c \in DOMAIN f \/ c \in DOMAIN g
           /\ \A c : c \in FailedIn(f) \/ c \in FailedIn(g) => c \in FailedIn(f ++ g)
<1>1. \A c : c \in FailedIn(g) => c \in DOMAIN g
  BY FailedInIs
<1> QED
  BY <1>1, NamesOfMerged, FailuresOfMerged

PageNames ==
    HeaderNames \cup {"Cross-Origin-Opener-Policy"} \cup CookieNames
        \cup {"reverseProxyDetected", "versionDisclosure"}
IdentityNames == {"basicAuthDisabled", "identityProviderDetected", "demoUsersDisabled"}

(* What failed on the page fails when the page is asked again               *)
(* (verification.py).                                                       *)
LEMMA PageIsReadAgain ==
    /\ DOMAIN PageAgain \subseteq PageNames
    /\ \A c : \/ c \in FailedIn(Headers(said)) \/ c \in FailedIn(AdvisoryHeaders(said))
              \/ c \in FailedIn(CookieFindings(said)) \/ c \in FailedIn(ReverseProxyFinding(said))
              \/ c \in FailedIn(DisclosureFindings(said))
              => c \in FailedIn(PageAgain)
<1> DEFINE headers == Headers(said)
           advised == AdvisoryHeaders(said)
           cookies == CookieFindings(said)
           proxy == ReverseProxyFinding(said)
           disclosed == DisclosureFindings(said)
           a == headers ++ advised
           b == a ++ cookies
           d == b ++ proxy
<1>1. /\ \A c : c \in DOMAIN headers => c \in HeaderNames
      /\ \A c : c \in DOMAIN advised => c = "Cross-Origin-Opener-Policy"
      /\ \A c : c \in DOMAIN cookies => c \in CookieNames
      /\ \A c : c \in DOMAIN proxy => c = "reverseProxyDetected"
      /\ \A c : c \in DOMAIN disclosed => c = "versionDisclosure"
  BY HeadersAre, FindingsAre
<1>2. PageAgain = d ++ disclosed
  BY DEF PageAgain
<1> HIDE DEF headers, advised, cookies, proxy, disclosed
<1>3. /\ \A c : c \in DOMAIN a => c \in DOMAIN headers \/ c \in DOMAIN advised
      /\ \A c : c \in FailedIn(headers) \/ c \in FailedIn(advised) => c \in FailedIn(a)
  <2>1. \A c : c \in DOMAIN headers => c \notin DOMAIN advised
    BY <1>1 DEF HeaderNames
  <2> QED
    BY <2>1, NothingIsLost
<1> HIDE DEF a
<1>4. /\ \A c : c \in DOMAIN b => c \in DOMAIN a \/ c \in DOMAIN cookies
      /\ \A c : c \in FailedIn(a) \/ c \in FailedIn(cookies) => c \in FailedIn(b)
  <2>1. \A c : c \in DOMAIN a => c \notin DOMAIN cookies
    BY <1>1, <1>3 DEF HeaderNames, CookieNames
  <2> QED
    BY <2>1, NothingIsLost
<1> HIDE DEF b
<1>5. /\ \A c : c \in DOMAIN d => c \in DOMAIN b \/ c \in DOMAIN proxy
      /\ \A c : c \in FailedIn(b) \/ c \in FailedIn(proxy) => c \in FailedIn(d)
  <2>1. \A c : c \in DOMAIN b => c \notin DOMAIN proxy
    BY <1>1, <1>3, <1>4 DEF HeaderNames, CookieNames
  <2> QED
    BY <2>1, NothingIsLost
<1> HIDE DEF d
<1>6. /\ \A c : c \in DOMAIN PageAgain => c \in DOMAIN d \/ c \in DOMAIN disclosed
      /\ \A c : c \in FailedIn(d) \/ c \in FailedIn(disclosed) => c \in FailedIn(PageAgain)
  <2>1. \A c : c \in DOMAIN d => c \notin DOMAIN disclosed
    BY <1>1, <1>3, <1>4, <1>5 DEF HeaderNames, CookieNames
  <2> QED
    BY <1>2, <2>1, NothingIsLost
<1>7. DOMAIN PageAgain \subseteq PageNames
  BY <1>1, <1>3, <1>4, <1>5, <1>6 DEF PageNames
<1> QED
  BY <1>3, <1>4, <1>5, <1>6, <1>7 DEF headers, advised, cookies, proxy, disclosed

(* Likewise for what the challenge and the provider showed.                 *)
LEMMA IdentityIsAskedAgain ==
    /\ DOMAIN IdentityAgain \subseteq IdentityNames
    /\ \A c : \/ c \in FailedIn(BasicAuthFinding(said))
              \/ c \in FailedIn(IdentityProviderFinding(said))
              \/ c \in FailedIn(DemoUserFinding(said))
              => c \in FailedIn(IdentityAgain)
<1> DEFINE challenge == BasicAuthFinding(said)
           provider == IdentityProviderFinding(said)
           demo == DemoUserFinding(said)
           a == challenge ++ provider
<1>1. /\ \A c : c \in DOMAIN challenge => c = "basicAuthDisabled"
      /\ \A c : c \in DOMAIN provider => c = "identityProviderDetected"
      /\ \A c : c \in DOMAIN demo => c = "demoUsersDisabled"
  BY FindingsAre
<1>2. IdentityAgain = a ++ demo
  BY DEF IdentityAgain
<1> HIDE DEF challenge, provider, demo
<1>3. /\ \A c : c \in DOMAIN a => c \in DOMAIN challenge \/ c \in DOMAIN provider
      /\ \A c : c \in FailedIn(challenge) \/ c \in FailedIn(provider) => c \in FailedIn(a)
  <2>1. \A c : c \in DOMAIN challenge => c \notin DOMAIN provider
    BY <1>1
  <2> QED
    BY <2>1, NothingIsLost
<1> HIDE DEF a
<1>4. /\ \A c : c \in DOMAIN IdentityAgain => c \in DOMAIN a \/ c \in DOMAIN demo
      /\ \A c : c \in FailedIn(a) \/ c \in FailedIn(demo) => c \in FailedIn(IdentityAgain)
  <2>1. \A c : c \in DOMAIN a => c \notin DOMAIN demo
    BY <1>1, <1>3
  <2> QED
    BY <1>2, <2>1, NothingIsLost
<1>5. DOMAIN IdentityAgain \subseteq IdentityNames
  BY <1>1, <1>3, <1>4 DEF IdentityNames
<1> QED
  BY <1>3, <1>4, <1>5 DEF challenge, provider, demo

(* The measures come after the finding that shares a name with one of them, *)
(* and the two agree where both fail.                                       *)
LEMMA MeasuresAreTakenAgain ==
    ASSUME NEW before, NEW way, DOMAIN before \subseteq PageNames \cup IdentityNames,
           \A c : c \in FailedIn(BasicAuthFinding(said)) => c \in FailedIn(before)
    PROVE  /\ DOMAIN (before ++ HardeningsAgain(way))
                 \subseteq PageNames \cup IdentityNames \cup DOMAIN HardeningSource
           /\ \A c : c \in FailedIn(before) \/ c \in FailedIn(Hardenings(said, way))
                     => c \in FailedIn(before ++ HardeningsAgain(way))
<1> DEFINE taken == Hardenings(said, way)
<1>1. HardeningsAgain(way) = taken
  BY DEF HardeningsAgain
<1>2. \A c \in DOMAIN taken : c \in DOMAIN HardeningSource
  BY HardeningsAre
<1>3. \A c \in DOMAIN HardeningSource :
         c \in PageNames \cup IdentityNames => c = "basicAuthDisabled"
  BY DEF HardeningSource, PageNames, HeaderNames, CookieNames, IdentityNames
<1>4. "basicAuthDisabled" \in FailedIn(taken)
         => "basicAuthDisabled" \in FailedIn(BasicAuthFinding(said))
  <2> SUFFICES ASSUME "basicAuthDisabled" \in FailedIn(taken)
               PROVE  "basicAuthDisabled" \in FailedIn(BasicAuthFinding(said))
    OBVIOUS
  <2>1. /\ "basicAuthDisabled" \in DOMAIN taken
        /\ taken["basicAuthDisabled"] = FALSE
    BY FailedInIs
  <2>2. said["challenge"] = "basic"
    BY <2>1, HardeningsAre
  <2>3. BasicAuthFinding(said)["basicAuthDisabled"] = FALSE
    BY <2>2 DEF BasicAuthFinding
  <2> QED
    BY <2>3, FailedInIs, FindingsAre
<1> HIDE DEF taken
<1>5. ASSUME NEW c \in FailedIn(taken) PROVE c \in FailedIn(before ++ taken)
  <2>1. CASE c = "basicAuthDisabled"
    BY <1>4, <2>1, FailuresOfMerged
  <2>2. CASE c # "basicAuthDisabled"
    <3>1. c \notin DOMAIN before
      BY <1>2, <1>3, <2>2, FailedInIs
    <3> QED
      BY <3>1, FailuresOfMerged
  <2> QED
    BY <2>1, <2>2
<1>6. \A c : c \in DOMAIN (before ++ taken) => c \in DOMAIN before \/ c \in DOMAIN taken
  BY NamesOfMerged
<1>7. DOMAIN (before ++ taken) \subseteq PageNames \cup IdentityNames \cup DOMAIN HardeningSource
  BY <1>2, <1>6
<1>8. \A c : c \in FailedIn(before) => c \in FailedIn(before ++ taken)
  BY FailuresOfMerged
<1> QED
  BY <1>1, <1>5, <1>7, <1>8 DEF taken


(* Merging four results of different checks loses no failure.               *)
LEMMA ThreeMore ==
    ASSUME NEW f, NEW g, NEW h, NEW i,
           \A c : c \in DOMAIN f => c \notin DOMAIN g \cup DOMAIN h \cup DOMAIN i,
           \A c : c \in DOMAIN g => c \notin DOMAIN h \cup DOMAIN i,
           \A c : c \in DOMAIN h => c \notin DOMAIN i
    PROVE  /\ \A c : c \in DOMAIN (((f ++ g) ++ h) ++ i)
                     => c \in DOMAIN f \cup DOMAIN g \cup DOMAIN h \cup DOMAIN i
           /\ \A c : c \in FailedIn(f) \cup FailedIn(g) \cup FailedIn(h) \cup FailedIn(i)
                     => c \in FailedIn(((f ++ g) ++ h) ++ i)
<1>1. \A c : c \in DOMAIN ((f ++ g) ++ h) => c \in DOMAIN f \cup DOMAIN g \cup DOMAIN h
  BY NamesOfMerged
<1>2. \A c : c \in FailedIn(f) \cup FailedIn(g) => c \in FailedIn(f ++ g)
  BY NothingIsLost
<1>3. \A c : c \in FailedIn(f) \cup FailedIn(g) \cup FailedIn(h) => c \in FailedIn((f ++ g) ++ h)
  <2>1. \A c : c \in DOMAIN (f ++ g) => c \notin DOMAIN h
    BY NamesOfMerged
  <2> QED
    BY <1>2, <2>1, NothingIsLost
<1>4. \A c : c \in DOMAIN ((f ++ g) ++ h) => c \notin DOMAIN i
  BY <1>1
<1> QED
  BY <1>1, <1>3, <1>4, NothingIsLost

TransportNames == TlsNames \cup DnsNames
PathNames == PortNames \cup {"exposed", "authentication"}
CompanyNames == {"debugEndpoint"} \cup CompanionNames \cup EmbedNames
MethodNames == {"directoryListing", "corsOriginRestricted", "traceMethodDisabled"}
LastNames == {"forwardedHostIgnored", "webfingerVersionDisclosure", "versionDetection"}
MeasureNames ==
    PageNames \cup IdentityNames \cup DOMAIN HardeningSource
        \cup {"httpsEnforced", "securityTxtPublished", "hstsPreloadEligible"}

(* No check belongs to two families of measures.                            *)
LEMMA NoNameIsGivenTwice ==
    /\ \A c \in MeasureNames :
          c \notin TransportNames \cup PathNames \cup CompanyNames \cup MethodNames \cup LastNames
    /\ \A c \in TransportNames :
          c \notin PathNames \cup CompanyNames \cup MethodNames \cup LastNames
    /\ \A c \in PathNames : c \notin CompanyNames \cup MethodNames \cup LastNames
    /\ \A c \in CompanyNames : c \notin MethodNames \cup LastNames
    /\ \A c \in MethodNames : c \notin LastNames
<1> USE DEF TransportNames, PathNames, CompanyNames, MethodNames, LastNames, TlsNames, DnsNames,
        PortNames, CompanionNames, EmbedNames
<1>1. \A c \in MeasureNames :
         c \notin TransportNames \cup PathNames \cup CompanyNames \cup MethodNames \cup LastNames
  <2>1. \A c \in PageNames \cup IdentityNames :
           c \notin TransportNames \cup PathNames \cup CompanyNames \cup MethodNames
                       \cup LastNames
    BY DEF PageNames, HeaderNames, CookieNames, IdentityNames
  <2>2. \A c \in DOMAIN HardeningSource :
           c \notin TransportNames \cup PathNames \cup CompanyNames \cup MethodNames
                       \cup LastNames
    BY DEF HardeningSource
  <2> QED
    BY <2>1, <2>2 DEF MeasureNames
<1>2. \A c \in TransportNames :
         c \notin PathNames \cup CompanyNames \cup MethodNames \cup LastNames
  OBVIOUS
<1>3. \A c \in PathNames : c \notin CompanyNames \cup MethodNames \cup LastNames
  OBVIOUS
<1> QED
  BY <1>1, <1>2, <1>3

(* Whatever a group of verification.py finds to fail is in what it says.    *)
LEMMA EveryGroupIsHeard ==
    ASSUME NEW way, NEW c,
           \/ c \in FailedIn(PageAgain) \/ c \in FailedIn(IdentityAgain)
           \/ c \in FailedIn(Hardenings(said, way)) \/ c \in FailedIn(HttpsEnforced(said, way))
           \/ c \in FailedIn(AdvisoryChecks(said)) \/ c \in FailedIn(TlsFindings)
           \/ c \in FailedIn(CaaFinding(said)) \/ c \in FailedIn(DnssecFinding(said))
           \/ c \in FailedIn(PortFindings(said)) \/ c \in FailedIn(ExposedPathFinding(said))
           \/ c \in FailedIn(AuthenticationFinding(said))
           \/ c \in FailedIn(DebugEndpointFinding(said))
           \/ c \in FailedIn(CompanionFindings(said)) \/ c \in FailedIn(WebEmbedFindings(said))
           \/ c \in FailedIn(DirectoryListingFinding(said))
           \/ c \in FailedIn(CorsFinding(said)) \/ c \in FailedIn(TraceFinding(said))
           \/ c \in FailedIn(ForwardedHostFinding(said))
           \/ c \in FailedIn(WebfingerFinding(said))
           \/ c \in FailedIn(VersionFindings(said["status"] = "named"))
    PROVE  c \in FailedIn(Verified(way))
<1> DEFINE before == PageAgain ++ IdentityAgain
           taken == before ++ HardeningsAgain(way)
           https == HttpsEnforced(said, way)
           advisory == AdvisoryChecks(said)
           tls == TlsFindings
           caa == CaaFinding(said)
           dnssec == DnssecFinding(said)
           ports == PortFindings(said)
           exposed == ExposedPathFinding(said)
           login == AuthenticationFinding(said)
           debug == DebugEndpointFinding(said)
           companion == CompanionFindings(said)
           embed == WebEmbedFindings(said)
           listing == DirectoryListingFinding(said)
           cors == CorsFinding(said)
           trace == TraceFinding(said)
           forwarded == ForwardedHostFinding(said)
           webfinger == WebfingerFinding(said)
           versions == VersionFindings(said["status"] = "named")
           a == (taken ++ https) ++ advisory
           b == ((a ++ tls) ++ caa) ++ dnssec
           d == ((b ++ ports) ++ exposed) ++ login
           f == ((d ++ debug) ++ companion) ++ embed
           g == ((f ++ listing) ++ cors) ++ trace
           h == ((g ++ forwarded) ++ webfinger) ++ versions
<1>1. Verified(way) = h
  BY DEF Verified
<1>2. /\ \A x : x \in DOMAIN https => x = "httpsEnforced"
      /\ \A x : x \in DOMAIN advisory => x \in {"securityTxtPublished", "hstsPreloadEligible"}
  BY DEF HttpsEnforced, AdvisoryChecks
<1>3. /\ \A x : x \in DOMAIN tls => x \in TlsNames
      /\ \A x : x \in DOMAIN caa => x = "tlsCaaRecord"
      /\ \A x : x \in DOMAIN dnssec => x = "tlsDnssec"
  <2>1. DOMAIN <<>> = {}
    OBVIOUS
  <2> QED
    BY <2>1, TlsChecksAre, FindingsAre DEF TlsFindings
<1>4. /\ \A x : x \in DOMAIN ports => x \in PortNames
      /\ \A x : x \in DOMAIN exposed => x = "exposed"
      /\ \A x : x \in DOMAIN login => x = "authentication"
  BY FindingsAre
<1>5. /\ \A x : x \in DOMAIN debug => x = "debugEndpoint"
      /\ \A x : x \in DOMAIN companion => x \in CompanionNames
      /\ \A x : x \in DOMAIN embed => x \in EmbedNames
  BY FindingsAre
<1>6. /\ \A x : x \in DOMAIN listing => x = "directoryListing"
      /\ \A x : x \in DOMAIN cors => x = "corsOriginRestricted"
      /\ \A x : x \in DOMAIN trace => x = "traceMethodDisabled"
  BY FindingsAre
<1>7. /\ \A x : x \in DOMAIN forwarded => x = "forwardedHostIgnored"
      /\ \A x : x \in DOMAIN webfinger => x = "webfingerVersionDisclosure"
      /\ \A x : x \in DOMAIN versions => x = "versionDetection"
  <2>1. DOMAIN versions \subseteq {"versionDetection"}
    BY FindingsAre
  <2> QED
    BY <2>1, FindingsAre
<1>8. /\ \A x : x \in DOMAIN before => x \in PageNames \cup IdentityNames
      /\ \A x : x \in FailedIn(PageAgain) \cup FailedIn(IdentityAgain) => x \in FailedIn(before)
  <2>1. \A x \in PageNames : x \notin IdentityNames
    BY DEF PageNames, HeaderNames, CookieNames, IdentityNames
  <2>2. \A x : x \in DOMAIN PageAgain => x \notin DOMAIN IdentityAgain
    BY <2>1, PageIsReadAgain, IdentityIsAskedAgain
  <2> QED
    BY <2>2, PageIsReadAgain, IdentityIsAskedAgain, NothingIsLost
<1>9. /\ \A x : x \in DOMAIN taken
                => x \in PageNames \cup IdentityNames \cup DOMAIN HardeningSource
      /\ \A x : x \in FailedIn(before) \cup FailedIn(Hardenings(said, way))
                => x \in FailedIn(taken)
  <2>1. DOMAIN before \subseteq PageNames \cup IdentityNames
    BY <1>8
  <2>2. \A x : x \in FailedIn(BasicAuthFinding(said)) => x \in FailedIn(before)
    BY <1>8, IdentityIsAskedAgain
  <2> HIDE DEF before
  <2> QED
    BY <2>1, <2>2, MeasuresAreTakenAgain
<1> HIDE DEF before, taken, https, advisory, tls, caa, dnssec, ports, exposed, login, debug,
         companion, embed, listing, cors, trace, forwarded, webfinger, versions
<1>10. /\ \A x : x \in DOMAIN a => x \in MeasureNames
       /\ \A x : x \in FailedIn(taken) \cup FailedIn(https) \cup FailedIn(advisory)
                 => x \in FailedIn(a)
  <2>1. \A x \in PageNames \cup IdentityNames \cup DOMAIN HardeningSource :
           x \notin {"httpsEnforced", "securityTxtPublished", "hstsPreloadEligible"}
    BY DEF PageNames, HeaderNames, CookieNames, IdentityNames, HardeningSource
  <2>2. \A x : x \in DOMAIN taken => x \notin DOMAIN https
    BY <1>2, <1>9, <2>1
  <2>3. /\ \A x : x \in DOMAIN (taken ++ https) => x \in DOMAIN taken \/ x \in DOMAIN https
        /\ \A x : x \in FailedIn(taken) \/ x \in FailedIn(https)
                  => x \in FailedIn(taken ++ https)
    BY <2>2, NothingIsLost
  <2>4. \A x : x \in DOMAIN (taken ++ https) => x \notin DOMAIN advisory
    BY <1>2, <1>9, <2>1, <2>3
  <2>5. /\ \A x : x \in DOMAIN a => x \in DOMAIN (taken ++ https) \/ x \in DOMAIN advisory
        /\ \A x : x \in FailedIn(taken ++ https) \/ x \in FailedIn(advisory)
                  => x \in FailedIn(a)
    BY <2>4, NothingIsLost
  <2> QED
    BY <1>2, <1>9, <2>3, <2>5 DEF MeasureNames
<1> HIDE DEF a
<1>11. /\ \A x : x \in DOMAIN b => x \in MeasureNames \cup TransportNames
       /\ \A x : x \in FailedIn(a) \cup FailedIn(tls) \cup FailedIn(caa) \cup FailedIn(dnssec)
                 => x \in FailedIn(b)
  <2>1. \A x : x \in DOMAIN tls \cup DOMAIN caa \cup DOMAIN dnssec => x \in TransportNames
    BY <1>3 DEF TransportNames, DnsNames
  <2>2. /\ \A x : x \in DOMAIN tls => x \notin DOMAIN caa \cup DOMAIN dnssec
        /\ \A x : x \in DOMAIN caa => x \notin DOMAIN dnssec
    BY <1>3 DEF TlsNames
  <2>3. \A x : x \in DOMAIN a => x \notin DOMAIN tls \cup DOMAIN caa \cup DOMAIN dnssec
    BY <1>10, <2>1, NoNameIsGivenTwice
  <2> QED
    BY <1>10, <2>1, <2>2, <2>3, ThreeMore
<1> HIDE DEF b
<1>12. /\ \A x : x \in DOMAIN d => x \in MeasureNames \cup TransportNames \cup PathNames
       /\ \A x : x \in FailedIn(b) \cup FailedIn(ports) \cup FailedIn(exposed)
                          \cup FailedIn(login)
                 => x \in FailedIn(d)
  <2>1. \A x : x \in DOMAIN ports \cup DOMAIN exposed \cup DOMAIN login => x \in PathNames
    BY <1>4 DEF PathNames
  <2>2. /\ \A x : x \in DOMAIN ports => x \notin DOMAIN exposed \cup DOMAIN login
        /\ \A x : x \in DOMAIN exposed => x \notin DOMAIN login
    BY <1>4 DEF PortNames
  <2>3. \A x : x \in DOMAIN b => x \notin DOMAIN ports \cup DOMAIN exposed \cup DOMAIN login
    BY <1>11, <2>1, NoNameIsGivenTwice
  <2> QED
    BY <1>11, <2>1, <2>2, <2>3, ThreeMore
<1> HIDE DEF d
<1>13. /\ \A x : x \in DOMAIN f
                 => x \in MeasureNames \cup TransportNames \cup PathNames \cup CompanyNames
       /\ \A x : x \in FailedIn(d) \cup FailedIn(debug) \cup FailedIn(companion)
                          \cup FailedIn(embed)
                 => x \in FailedIn(f)
  <2>1. \A x : x \in DOMAIN debug \cup DOMAIN companion \cup DOMAIN embed => x \in CompanyNames
    BY <1>5 DEF CompanyNames
  <2>2. /\ \A x : x \in DOMAIN debug => x \notin DOMAIN companion \cup DOMAIN embed
        /\ \A x : x \in DOMAIN companion => x \notin DOMAIN embed
    BY <1>5 DEF CompanionNames, EmbedNames
  <2>3. \A x : x \in DOMAIN d => x \notin DOMAIN debug \cup DOMAIN companion \cup DOMAIN embed
    BY <1>12, <2>1, NoNameIsGivenTwice
  <2> QED
    BY <1>12, <2>1, <2>2, <2>3, ThreeMore
<1> HIDE DEF f
<1>14. /\ \A x : x \in DOMAIN g
                 => x \in MeasureNames \cup TransportNames \cup PathNames \cup CompanyNames
                             \cup MethodNames
       /\ \A x : x \in FailedIn(f) \cup FailedIn(listing) \cup FailedIn(cors)
                          \cup FailedIn(trace)
                 => x \in FailedIn(g)
  <2>1. \A x : x \in DOMAIN listing \cup DOMAIN cors \cup DOMAIN trace => x \in MethodNames
    BY <1>6 DEF MethodNames
  <2>2. /\ \A x : x \in DOMAIN listing => x \notin DOMAIN cors \cup DOMAIN trace
        /\ \A x : x \in DOMAIN cors => x \notin DOMAIN trace
    BY <1>6
  <2>3. \A x : x \in DOMAIN f => x \notin DOMAIN listing \cup DOMAIN cors \cup DOMAIN trace
    BY <1>13, <2>1, NoNameIsGivenTwice
  <2> QED
    BY <1>13, <2>1, <2>2, <2>3, ThreeMore
<1> HIDE DEF g
<1>15. \A x : x \in FailedIn(g) \cup FailedIn(forwarded) \cup FailedIn(webfinger)
                       \cup FailedIn(versions)
              => x \in FailedIn(h)
  <2>1. \A x : x \in DOMAIN forwarded \cup DOMAIN webfinger \cup DOMAIN versions
               => x \in LastNames
    BY <1>7 DEF LastNames
  <2>2. /\ \A x : x \in DOMAIN forwarded => x \notin DOMAIN webfinger \cup DOMAIN versions
        /\ \A x : x \in DOMAIN webfinger => x \notin DOMAIN versions
    BY <1>7
  <2>3. \A x : x \in DOMAIN g
               => x \notin DOMAIN forwarded \cup DOMAIN webfinger \cup DOMAIN versions
    BY <1>14, <2>1, NoNameIsGivenTwice
  <2> QED
    BY <2>2, <2>3, ThreeMore
<1> HIDE DEF h
<1> QED
  BY <1>1, <1>8, <1>9, <1>10, <1>11, <1>12, <1>13, <1>14, <1>15
     DEF https, advisory, tls, caa, dnssec, ports, exposed, login, debug, companion, embed,
         listing, cors, trace, forwarded, webfinger, versions

(* What a scan shows as failing still fails when it is verified on the same *)
(* answers, whatever the instance answers and leaves unanswered: nobody is  *)
(* told that a thing is fixed that is not (verification.py, verify).        *)
THEOREM NothingIsFixedByAsking == ScanSpec => []StillFailingWhenAskedAgain
<1>1. EvidenceIsKept => StillFailingWhenAskedAgain
  <2> SUFFICES ASSUME EvidenceIsKept, FullScanDone, NEW c \in Shown \ Unverifiable
               PROVE  c \in FailedIn(Verified(reached))
    BY DEF StillFailingWhenAskedAgain
  <2>1. findings = ExtraFindings
    BY DEF EvidenceIsKept, FullScanDone
  <2>2. CASE c \in FailedIn(findings)
    <3>1. c \in FailedIn(DnsFindings) =>
             c \in FailedIn(CaaFinding(said)) \/ c \in FailedIn(DnssecFinding(said))
      <4>1. DOMAIN <<>> = {}
        OBVIOUS
      <4> QED
        BY <4>1, FailedInIs, FailuresOfMerged DEF DnsFindings
    <3>2. c \in FailedIn(Ports) => c \in FailedIn(PortFindings(said))
      <4>1. DOMAIN <<>> = {}
        OBVIOUS
      <4> QED
        BY <4>1, FailedInIs DEF Ports
    <3>3. c \in FailedIn(VersionFindings(VersionOf(said) = "known"))
             => c \in FailedIn(VersionFindings(said["status"] = "named"))
      <4>1. DOMAIN <<>> = {}
        OBVIOUS
      <4>2. CASE VersionOf(said) = "known"
        BY <4>1, <4>2, FailedInIs DEF VersionFindings, When
      <4>3. CASE VersionOf(said) # "known"
        <5>1. said["status"] # "named"
          BY <4>3 DEF VersionOf
        <5> QED
          BY <4>3, <5>1 DEF VersionFindings, When
      <4> QED
        BY <4>2, <4>3
    <3> QED
      BY <2>1, <2>2, <3>1, <3>2, <3>3, FailedFindings, EveryGroupIsHeard, PageIsReadAgain,
         IdentityIsAskedAgain
  <2>3. CASE c \notin FailedIn(findings)
    BY <2>3, EveryGroupIsHeard, PageIsReadAgain DEF Shown, Alerting
  <2> QED
    BY <2>2, <2>3
<1> QED
  BY <1>1, EvidenceIsKeptAlways, PTL


-----------------------------------------------------------------------------
(* The fix plan (Remediation).  What is left to count against the rating,   *)
(* and what a plan's steps say they leave.                                  *)
Left == IF affects THEN Counting ELSE {}

PlanSteps == [fix : Findings \cup {Upgrade}, after : MinRating..MaxRating]

Plans == [base : MinRating..MaxRating, caps : SUBSET Findings, steps : Seq(PlanSteps),
          measured : BOOLEAN]

FixesOf(steps, n) == {steps[i].fix : i \in 1..n}

Honest(steps, ceiling, left) ==
    \A n \in 1..Len(steps) :
        steps[n].after
          = RatingWith(IF Upgrade \in FixesOf(steps, n) THEN MaxRating ELSE ceiling,
                       left \ FixesOf(steps, n))

Ceiling == IF upgraded THEN MaxRating ELSE BaseRating[version]

(* A measured plan is honest of what is left now, however many of its steps *)
(* were taken; one of which nothing was done is about all that is left.     *)
PlanInv ==
    /\ RemediationTypeOK
    /\ plan \in Plans
    /\ upgraded => version = target
    /\ plan.measured => expected = RatingWith(Ceiling, Left) /\ Honest(plan.steps, Ceiling, Left)
    /\ plan.measured /\ fresh =>
          plan.caps = Left /\ plan.base = BaseRating[version] /\ ~upgraded

(* A cap leaves at least a rating of two, and a finding is not the upgrade. *)
LEMMA CapsAre == \A c \in Findings : Cap(c) \in 2..5 /\ c \in Nat \ {0}
<1> SUFFICES ASSUME NEW c \in Findings PROVE Cap(c) \in 2..5 /\ c \in Nat \ {0}
  OBVIOUS
<1>1. Findings = 1..Len(Severity) /\ Len(Severity) \in Nat
  BY RemediationAssumption, LenProperties DEF Findings
<1>2. Severity[c] \in DOMAIN SeverityRatingCap
  BY <1>1, RemediationAssumption, ElementOfSeq
<1> QED
  BY <1>1, <1>2 DEF Cap, SeverityRatingCap

(* A rating is one, without caps it is its ceiling, and a higher ceiling    *)
(* does not lower it.                                                       *)
LEMMA RatingWithIs ==
    ASSUME NEW ceiling \in MinRating..MaxRating, NEW checks \in SUBSET Findings
    PROVE  /\ RatingWith(ceiling, checks) \in MinRating..MaxRating
           /\ checks = {} => RatingWith(ceiling, checks) = ceiling
           /\ ceiling = 0 => RatingWith(ceiling, checks) = 0
           /\ RatingWith(ceiling, checks) <= RatingWith(MaxRating, checks)
<1> USE DEF MinRating, MaxRating
<1> DEFINE caps == {Cap(c) : c \in checks}
<1>0. caps \in SUBSET (2..5)
  BY CapsAre
<1> HIDE DEF caps
<1>1. ASSUME NEW top \in 0..5
      PROVE  /\ Min({top} \cup caps) \in {top} \cup caps
             /\ \A n \in {top} \cup caps : Min({top} \cup caps) <= n
  <2>1. {top} \cup caps \in SUBSET Nat
    BY <1>0
  <2> QED
    BY <2>1, MinIsLeast
<1>2. ASSUME NEW m \in 0..5 PROVE Max({0, m}) = m
  BY <1>2 DEF Max
<1>3. \A top \in 0..5 : RatingWith(top, checks) = Min({top} \cup caps)
  <2> SUFFICES ASSUME NEW top \in 0..5 PROVE RatingWith(top, checks) = Min({top} \cup caps)
    OBVIOUS
  <2>1. RatingWith(top, checks) = Max({0, Min({top} \cup caps)})
    BY DEF RatingWith, caps
  <2>2. Min({top} \cup caps) \in 0..5
    <3>1. Min({top} \cup caps) \in {top} \cup caps
      BY <1>1
    <3>2. \A n \in caps : n \in 0..5
      BY <1>0
    <3> QED
      BY <3>1, <3>2
  <2> QED
    BY <1>2, <2>1, <2>2
<1> QED
  <2> DEFINE low == Min({ceiling} \cup caps)
             high == Min({5} \cup caps)
  <2>1. RatingWith(ceiling, checks) = low /\ RatingWith(MaxRating, checks) = high
    BY <1>3
  <2>2. checks = {} => caps = {}
    BY DEF caps
  <2>3. /\ low \in {ceiling} \cup caps /\ \A n \in {ceiling} \cup caps : low <= n
        /\ high \in {5} \cup caps
    BY <1>1
  <2>4. \A n \in caps : n \in Nat /\ 2 <= n /\ n <= 5
    BY <1>0
  <2> HIDE DEF low, high
  <2>5. low \in 0..5 /\ high \in 0..5
    BY <2>3, <2>4
  <2>6. low <= high
    <3>1. CASE high = 5
      BY <2>5, <3>1
    <3>2. CASE high \in caps
      BY <2>3, <3>2
    <3> QED
      BY <2>3, <3>1, <3>2
  <2>7. checks = {} => low = ceiling
    BY <2>2, <2>3
  <2>8. ceiling = 0 => low = 0
    BY <2>3, <2>5
  <2> QED
    BY <2>1, <2>5, <2>6, <2>7, <2>8

(* A base rating is a rating.                                               *)
LEMMA BasesAre == \A v \in DOMAIN BaseRating : BaseRating[v] \in MinRating..MaxRating
BY DEF BaseRating, MinRating, MaxRating

(* The rating is that of what is left, after end of life as well.           *)
LEMMA RatingIs ==
    ASSUME RemediationTypeOK
    PROVE  /\ Left \in SUBSET Findings
           /\ BaseRating[version] \in MinRating..MaxRating
           /\ Rating = RatingWith(BaseRating[version], Left)
<1>1. Left \in SUBSET Findings /\ Counting \in SUBSET Findings
  BY DEF Left, Counting, RemediationTypeOK
<1>2. BaseRating[version] \in MinRating..MaxRating
  BY BasesAre DEF RemediationTypeOK
<1>3. version = "endOfLife" => BaseRating[version] = 0
  BY DEF BaseRating
<1> QED
  BY <1>1, <1>2, <1>3, RatingWithIs DEF Rating, Left, MinRating

-----------------------------------------------------------------------------
(* The order in which findings are fixed names each of them once.           *)
LEMMA FixableIs ==
    ASSUME RemediationTypeOK
    PROVE  /\ Fixable \in Seq(Caps \ Unactionable)
           /\ Len(Fixable) \in Nat
           /\ \A c \in Caps \ Unactionable : \E n \in 1..Len(Fixable) : Fixable[n] = c
           /\ \A n, m \in 1..Len(Fixable) : Fixable[n] = Fixable[m] => n = m
<1> DEFINE fixed == Caps \ Unactionable
           Before(c) == {d \in fixed : Precedes(d, c)}
           rank == [c \in fixed |-> Cardinality(Before(c)) + 1]
           size == Cardinality(fixed)
<1>1. /\ fixed \in SUBSET Findings /\ IsFiniteSet(fixed) /\ size \in Nat
      /\ IsFiniteSet(1..size) /\ Cardinality(1..size) = size
  <2>1. Findings = 1..Len(Severity) /\ Len(Severity) \in Nat
    BY RemediationAssumption, LenProperties DEF Findings
  <2>2. IsFiniteSet(Findings)
    BY <2>1, FS_Interval
  <2>3. fixed \in SUBSET Findings
    BY DEF Caps, Counting, RemediationTypeOK
  <2>4. IsFiniteSet(fixed)
    BY <2>2, <2>3, FS_Subset
  <2>5. size \in Nat
    BY <2>4, FS_CardinalityType
  <2> QED
    BY <2>3, <2>4, <2>5, FS_Interval
<1>2. ASSUME NEW c \in fixed
      PROVE  /\ Before(c) \in SUBSET fixed /\ c \notin Before(c)
             /\ Cardinality(Before(c)) \in Nat /\ Cardinality(Before(c)) < size
  <2>1. Before(c) \in SUBSET fixed /\ c \notin Before(c)
    BY <1>1, CapsAre DEF Precedes
  <2> HIDE DEF Before, fixed
  <2>2. Before(c) # fixed
    BY <2>1
  <2>3. IsFiniteSet(Before(c)) /\ Cardinality(Before(c)) <= Cardinality(fixed)
          /\ Cardinality(Before(c)) # Cardinality(fixed)
    BY <1>1, <2>1, <2>2, FS_Subset
  <2>4. Cardinality(Before(c)) \in Nat
    BY <2>3, FS_CardinalityType
  <2> QED
    BY <1>1, <2>1, <2>3, <2>4
<1>3. ASSUME NEW c \in fixed, NEW d \in fixed, Precedes(c, d)
      PROVE  Cardinality(Before(c)) < Cardinality(Before(d))
  <2>1. Before(c) \subseteq Before(d)
    BY <1>1, <1>3, CapsAre DEF Precedes
  <2>2. c \in Before(d) /\ c \notin Before(c)
    BY <1>2, <1>3
  <2>3. Before(d) \in SUBSET fixed
    BY <1>2
  <2> HIDE DEF Before, fixed
  <2>4. IsFiniteSet(Before(d))
    BY <1>1, <2>3, FS_Subset
  <2>5. Before(c) \in SUBSET Before(d) /\ Before(c) # Before(d)
    BY <2>1, <2>2
  <2>6. Cardinality(Before(c)) <= Cardinality(Before(d))
          /\ Cardinality(Before(c)) # Cardinality(Before(d))
    BY <2>4, <2>5, FS_Subset
  <2> QED
    BY <1>2, <2>6
<1>4. \A c, d \in fixed : c # d => Precedes(c, d) \/ Precedes(d, c)
  BY <1>1, CapsAre DEF Precedes
<1>5. rank \in [fixed -> 1..size]
  <2> SUFFICES ASSUME NEW c \in fixed PROVE Cardinality(Before(c)) + 1 \in 1..size
    OBVIOUS
  <2> HIDE DEF Before, fixed
  <2> QED
    BY <1>1, <1>2
<1>6. \A c, d \in fixed : rank[c] = rank[d] => c = d
  <2> SUFFICES ASSUME NEW c \in fixed, NEW d \in fixed, c # d PROVE rank[c] # rank[d]
    OBVIOUS
  <2>1. rank[c] = Cardinality(Before(c)) + 1 /\ rank[d] = Cardinality(Before(d)) + 1
    OBVIOUS
  <2> HIDE DEF Before, fixed, rank
  <2> QED
    BY <1>2, <1>3, <1>4, <2>1
<1>7. \A n \in 1..size : \E c \in fixed : rank[c] = n
  <2> HIDE DEF rank, fixed
  <2>1. rank \in Injection(fixed, 1..size)
    BY <1>5, <1>6 DEF Injection, IsInjective
  <2>2. rank \in Surjection(fixed, 1..size)
    BY <1>1, <2>1, FS_Injection DEF size
  <2> QED
    BY <2>2 DEF Surjection
<1>8. \A c \in fixed : Cardinality(Before(c)) = rank[c] - 1
  <2> SUFFICES ASSUME NEW c \in fixed PROVE Cardinality(Before(c)) = rank[c] - 1
    OBVIOUS
  <2>1. rank[c] = Cardinality(Before(c)) + 1
    OBVIOUS
  <2> HIDE DEF Before, fixed, rank
  <2> QED
    BY <1>2, <2>1
<1>9. Fixable = [n \in 1..size |-> CHOOSE c \in fixed : Cardinality(Before(c)) = n - 1]
  BY DEF Fixable
<1> HIDE DEF Before, fixed, rank, size
<1>10. ASSUME NEW n \in 1..size PROVE Fixable[n] \in fixed /\ rank[Fixable[n]] = n
  <2>1. PICK c \in fixed : rank[c] = n
    BY <1>7
  <2>2. Cardinality(Before(c)) = n - 1
    BY <1>8, <2>1
  <2>3. Fixable[n] \in fixed /\ Cardinality(Before(Fixable[n])) = n - 1
    BY <1>9, <2>2
  <2>4. rank[Fixable[n]] \in 1..size /\ rank[Fixable[n]] - 1 = n - 1
    BY <1>5, <1>8, <2>3
  <2> QED
    BY <1>1, <2>3, <2>4
<1>11. Fixable \in Seq(fixed) /\ Len(Fixable) = size
  <2>1. Fixable \in [1..size -> fixed]
    BY <1>9, <1>10
  <2> QED
    BY <1>1, <2>1
<1>12. \A c \in fixed : \E n \in 1..size : Fixable[n] = c
  <2> SUFFICES ASSUME NEW c \in fixed PROVE \E n \in 1..size : Fixable[n] = c
    OBVIOUS
  <2>1. rank[c] \in 1..size
    BY <1>5
  <2>2. Fixable[rank[c]] = c
    BY <1>6, <1>10, <2>1
  <2> QED
    BY <2>1, <2>2
<1>13. \A n, m \in 1..size : Fixable[n] = Fixable[m] => n = m
  BY <1>10
<1> QED
  BY <1>1, <1>11, <1>12, <1>13 DEF fixed

(* A sequence put into another after its first p members.                   *)
Inserted(f, size, p, middle) == (SubSeq(f, 1, p) \o middle) \o SubSeq(f, p + 1, size)

IsInserted(s, S, f, size, p, middle) ==
    /\ s \in Seq(S)
    /\ Len(s) = size + Len(middle)
    /\ \A i \in 1..p : s[i] = f[i]
    /\ Len(middle) = 1 => s[p + 1] = middle[1]
    /\ \A i \in p + 1..size : s[i + Len(middle)] = f[i]

(* A sequence inserted after a position leaves what is before and shifts    *)
(* what is after.                                                           *)
LEMMA InsertedIs ==
    ASSUME NEW S, NEW size \in Nat, NEW f \in [1..size -> S], NEW p \in 0..size,
           NEW middle \in Seq(S)
    PROVE  IsInserted(Inserted(f, size, p, middle), S, f, size, p, middle)
<1> DEFINE before == SubSeq(f, 1, p)
           after == SubSeq(f, p + 1, size)
           s == (before \o middle) \o after
<1>0. Len(middle) \in Nat
  BY LenProperties
<1>1. /\ before \in Seq(S) /\ Len(before) = p
      /\ \A i \in 1..p : before[i] = f[i]
  <2>1. /\ before \in Seq(S)
        /\ Len(before) = IF 1 <= p THEN p - 1 + 1 ELSE 0
        /\ \A i \in 1..p - 1 + 1 : before[i] = f[1 + i - 1]
    BY SubSeqProperties
  <2> HIDE DEF before
  <2> QED
    BY <2>1
<1>2. /\ after \in Seq(S) /\ Len(after) = size - p
      /\ \A i \in 1..size - p : after[i] = f[p + i]
  <2>1. /\ after \in Seq(S)
        /\ Len(after) = IF p + 1 <= size THEN size - (p + 1) + 1 ELSE 0
        /\ \A i \in 1..size - (p + 1) + 1 : after[i] = f[p + 1 + i - 1]
    BY SubSeqProperties
  <2> HIDE DEF after
  <2>2. Len(after) = size - p
    BY <2>1
  <2>3. ASSUME NEW i \in 1..size - p PROVE after[i] = f[p + i]
    <3>1. i \in 1..size - (p + 1) + 1 /\ p + 1 + i - 1 = p + i
      OBVIOUS
    <3> QED
      BY <2>1, <3>1
  <2> QED
    BY <2>1, <2>2, <2>3
<1> HIDE DEF before, after
<1>3. /\ before \o middle \in Seq(S)
      /\ Len(before \o middle) = p + Len(middle)
      /\ \A i \in 1..p + Len(middle) :
            (before \o middle)[i] = IF i <= p THEN before[i] ELSE middle[i - p]
  BY <1>1, ConcatProperties
<1> DEFINE most == before \o middle
<1> HIDE DEF most
<1>5. s = most \o after
  BY DEF s, most
<1>4. /\ s \in Seq(S)
      /\ Len(s) = p + Len(middle) + (size - p)
      /\ \A i \in 1..p + Len(middle) + (size - p) :
            s[i] = IF i <= p + Len(middle) THEN most[i] ELSE after[i - (p + Len(middle))]
  <2>1. most \in Seq(S) /\ Len(most) = p + Len(middle)
    BY <1>3 DEF most
  <2>2. /\ most \o after \in Seq(S)
        /\ Len(most \o after) = Len(most) + Len(after)
        /\ \A i \in 1..Len(most) + Len(after) :
              (most \o after)[i] = IF i <= Len(most) THEN most[i] ELSE after[i - Len(most)]
    BY <1>2, <2>1, ConcatProperties
  <2>3. /\ s \in Seq(S)
        /\ Len(s) = Len(most) + Len(after)
        /\ \A i \in 1..Len(most) + Len(after) :
              s[i] = IF i <= Len(most) THEN most[i] ELSE after[i - Len(most)]
    BY <1>5, <2>2, Zenon
  <2> HIDE DEF s
  <2> QED
    BY <1>2, <2>1, <2>3
<1> HIDE DEF s
<1>6. /\ s \in Seq(S) /\ Len(s) = size + Len(middle)
  BY <1>0, <1>4
<1>7. \A i \in 1..p : s[i] = f[i]
  <2> SUFFICES ASSUME NEW i \in 1..p PROVE s[i] = f[i]
    OBVIOUS
  <2>1. /\ i \in 1..p + Len(middle) + (size - p)
        /\ i <= p + Len(middle)
        /\ i \in 1..p + Len(middle)
        /\ i <= p
    BY <1>0
  <2>2. most[i] = before[i]
    BY <1>3, <2>1 DEF most
  <2> QED
    BY <1>1, <1>4, <2>1, <2>2
<1>8. Len(middle) = 1 => s[p + 1] = middle[1]
  <2> SUFFICES ASSUME Len(middle) = 1 PROVE s[p + 1] = middle[1]
    OBVIOUS
  <2>1. p + 1 \in 1..p + Len(middle) /\ p + 1 > p /\ p + 1 - p = 1
    BY <1>0
  <2>2. most[p + 1] = middle[1]
    BY <1>3, <2>1 DEF most
  <2>3. p + 1 \in 1..p + Len(middle) + (size - p) /\ p + 1 <= p + Len(middle)
    BY <1>0
  <2> QED
    BY <1>4, <2>2, <2>3
<1>9. \A i \in p + 1..size : s[i + Len(middle)] = f[i]
  <2> SUFFICES ASSUME NEW i \in p + 1..size PROVE s[i + Len(middle)] = f[i]
    OBVIOUS
  <2>1. /\ i + Len(middle) \in 1..p + Len(middle) + (size - p)
        /\ ~ (i + Len(middle) <= p + Len(middle))
        /\ i + Len(middle) - (p + Len(middle)) = i - p
    BY <1>0
  <2>2. s[i + Len(middle)] = after[i - p]
    BY <1>4, <2>1
  <2>3. i - p \in 1..size - p /\ p + (i - p) = i
    OBVIOUS
  <2> QED
    BY <1>2, <2>2, <2>3
<1> QED
  <2>1. Inserted(f, size, p, middle) = s
    BY DEF Inserted, s, before, after
  <2>2. IsInserted(s, S, f, size, p, middle)
    BY <1>6, <1>7, <1>8, <1>9 DEF IsInserted
  <2> QED
    BY <2>1, <2>2

-----------------------------------------------------------------------------
(* The steps of a plan: the findings up to the upgrade, the upgrade if      *)
(* there is one, and the findings after it.                                 *)
LEMMA PositionIs ==
    ASSUME RemediationTypeOK
    PROVE  /\ UpgradePosition \in 0..Len(Fixable)
           /\ ~Upgradable => UpgradePosition = Len(Fixable)
           /\ Upgradable /\ UpgradePosition < Len(Fixable)
                 => RatingWith(MaxRating, Rest(UpgradePosition))
                       > RatingWith(BaseRating[version], Rest(UpgradePosition))
<1> DEFINE pays == {n \in 0..Len(Fixable) :
                      RatingWith(MaxRating, Rest(n)) > RatingWith(BaseRating[version], Rest(n))}
<1>1. Len(Fixable) \in Nat
  BY FixableIs
<1>2. UpgradePosition = IF Upgradable /\ pays # {} THEN Min(pays) ELSE Len(Fixable)
  BY DEF UpgradePosition
<1>3. pays \in SUBSET Nat
  BY <1>1
<1>4. pays # {} => Min(pays) \in pays
  <2> HIDE DEF pays
  <2> QED
    BY <1>3, MinIsLeast
<1> QED
  BY <1>1, <1>2, <1>4

(* After the first n fixes the caps are those of the other findings.        *)
LEMMA RestIs ==
    ASSUME RemediationTypeOK, NEW n \in 0..Len(Fixable)
    PROVE  /\ Rest(n) \in SUBSET Findings
           /\ Rest(n) = Caps \ {Fixable[i] : i \in 1..n}
           /\ n = Len(Fixable) => Rest(n) = Held
<1>1. /\ Fixable \in Seq(Caps \ Unactionable)
      /\ Len(Fixable) \in Nat
      /\ \A c \in Caps \ Unactionable : \E i \in 1..Len(Fixable) : Fixable[i] = c
      /\ \A i, j \in 1..Len(Fixable) : Fixable[i] = Fixable[j] => i = j
  BY FixableIs
<1>2. \A i \in 1..Len(Fixable) : Fixable[i] \in Caps \ Unactionable
  BY <1>1, ElementOfSeq
<1>3. Caps \in SUBSET Findings
  BY DEF Caps, Counting, RemediationTypeOK
<1>4. Rest(n) = Held \cup {Fixable[i] : i \in n + 1..Len(Fixable)}
  BY DEF Rest
<1>5. \A c : c \in Rest(n) <=> c \in Caps /\ \A i \in 1..n : Fixable[i] # c
  <2>1. ASSUME NEW c \in Rest(n) PROVE c \in Caps /\ \A i \in 1..n : Fixable[i] # c
    <3>1. CASE c \in Held
      <4>1. c \in Caps /\ c \in Unactionable
        BY <3>1 DEF Held
      <4>2. \A i \in 1..n : i \in 1..Len(Fixable)
        BY <1>1
      <4> QED
        BY <1>2, <4>1, <4>2
    <3>2. CASE c \notin Held
      <4>0. c \in {Fixable[i] : i \in n + 1..Len(Fixable)}
        BY <1>4, <2>1, <3>2
      <4>1. PICK i \in n + 1..Len(Fixable) : Fixable[i] = c
        BY <4>0
      <4>2. i \in 1..Len(Fixable) /\ \A m \in 1..n : m \in 1..Len(Fixable) /\ m # i
        BY <1>1
      <4> QED
        BY <1>1, <1>2, <4>1, <4>2
    <3> QED
      BY <3>1, <3>2
  <2>2. ASSUME NEW c \in Caps, \A i \in 1..n : Fixable[i] # c PROVE c \in Rest(n)
    <3>1. CASE c \in Unactionable
      BY <1>4, <3>1 DEF Held
    <3>2. CASE c \notin Unactionable
      <4>1. PICK i \in 1..Len(Fixable) : Fixable[i] = c
        BY <1>1, <3>2
      <4>2. i \in n + 1..Len(Fixable)
        BY <1>1, <2>2, <4>1
      <4> QED
        BY <1>4, <4>1, <4>2
    <3> QED
      BY <3>1, <3>2
  <2> QED
    BY <2>1, <2>2
<1>6. n = Len(Fixable) => Rest(n) = Held
  <2>1. \A i : i \notin Len(Fixable) + 1..Len(Fixable)
    BY <1>1
  <2> QED
    BY <1>4, <2>1
<1> QED
  BY <1>3, <1>5, <1>6

(* The plan is the fixes in their order with the upgrade where it pays, and *)
(* each step announces the rating of what is left (remediation.py, plan).   *)
LEMMA StepsAre ==
    ASSUME RemediationTypeOK
    PROVE  /\ Steps \in Seq(PlanSteps)
           /\ Upgradable => Len(Steps) = Len(Fixable) + 1
           /\ ~Upgradable => Len(Steps) = Len(Fixable)
           /\ \A i \in 1..UpgradePosition :
                 /\ Steps[i].fix = Fixable[i]
                 /\ Steps[i].after = RatingWith(BaseRating[version], Rest(i))
           /\ Upgradable =>
                 /\ Steps[UpgradePosition + 1].fix = Upgrade
                 /\ Steps[UpgradePosition + 1].after = RatingWith(MaxRating, Rest(UpgradePosition))
           /\ Upgradable =>
                 \A i \in UpgradePosition + 1..Len(Fixable) :
                    /\ Steps[i + 1].fix = Fixable[i]
                    /\ Steps[i + 1].after = RatingWith(MaxRating, Rest(i))
<1> DEFINE p == UpgradePosition
           size == Len(Fixable)
           listed == [n \in 1..size |-> FindingStep(n)]
           lift == [fix |-> Upgrade, after |-> RatingWith(MaxRating, Rest(p))]
<1>1. size \in Nat /\ p \in 0..size /\ (~Upgradable => p = size)
  BY FixableIs, PositionIs
<1>3. UpgradeSteps = IF Upgradable THEN <<lift>> ELSE <<>>
  BY DEF UpgradeSteps
<1>4. \A n \in 0..size : Rest(n) \in SUBSET Findings
  BY RestIs
<1>5. ASSUME NEW n \in 1..size PROVE FindingStep(n) \in PlanSteps
  <2>1. Fixable[n] \in Findings
    <3>1. Fixable \in Seq(Caps \ Unactionable) /\ Caps \in SUBSET Findings
      BY FixableIs DEF Caps, Counting, RemediationTypeOK
    <3> QED
      BY <3>1, ElementOfSeq
  <2>2. /\ MaxRating \in MinRating..MaxRating
        /\ BaseRating[version] \in MinRating..MaxRating
    BY RatingIs DEF MinRating, MaxRating
  <2>3. AfterFindings(n) \in MinRating..MaxRating
    BY <1>1, <1>4, <2>2, RatingWithIs DEF AfterFindings
  <2> QED
    BY <2>1, <2>3 DEF FindingStep, PlanSteps
<1>6. lift \in PlanSteps
  <2>1. MaxRating \in MinRating..MaxRating
    BY DEF MinRating, MaxRating
  <2> QED
    BY <1>1, <1>4, <2>1, RatingWithIs DEF PlanSteps
<1>7. /\ UpgradeSteps \in Seq(PlanSteps)
      /\ Upgradable => Len(UpgradeSteps) = 1 /\ UpgradeSteps[1] = lift
      /\ ~Upgradable => Len(UpgradeSteps) = 0
  BY <1>3, <1>6
<1>8. listed \in Seq(PlanSteps) /\ \A n \in 1..size : listed[n] = FindingStep(n)
  <2>1. listed \in [1..size -> PlanSteps]
    BY <1>5
  <2> QED
    BY <1>1, <2>1
<1>9. listed \in [1..size -> PlanSteps]
  BY <1>5
<1>10. Steps = Inserted(listed, size, p, UpgradeSteps)
  BY DEF Steps, Inserted
<1> HIDE DEF listed, lift, p, size
<1>11. size \in Nat /\ p \in 0..size /\ UpgradeSteps \in Seq(PlanSteps)
  BY <1>1, <1>7
<1>15. IsInserted(Steps, PlanSteps, listed, size, p, UpgradeSteps)
  BY <1>9, <1>10, <1>11, InsertedIs
<1>16. /\ Steps \in Seq(PlanSteps)
       /\ Len(Steps) = size + Len(UpgradeSteps)
       /\ \A i \in 1..p : Steps[i] = listed[i]
       /\ Len(UpgradeSteps) = 1 => Steps[p + 1] = UpgradeSteps[1]
       /\ \A i \in p + 1..size : Steps[i + Len(UpgradeSteps)] = listed[i]
  BY <1>15 DEF IsInserted
<1>12. ASSUME NEW i \in 1..p
       PROVE  /\ Steps[i].fix = Fixable[i]
              /\ Steps[i].after = RatingWith(BaseRating[version], Rest(i))
  <2>1. i \in 1..size /\ ~ (i > p)
    BY <1>1
  <2>2. Steps[i] = FindingStep(i)
    BY <1>8, <1>16, <2>1
  <2> QED
    BY <2>1, <2>2 DEF FindingStep, AfterFindings, p
<1>13. ASSUME Upgradable
       PROVE  /\ Steps[p + 1].fix = Upgrade
              /\ Steps[p + 1].after = RatingWith(MaxRating, Rest(p))
  <2>1. Steps[p + 1] = lift
    BY <1>7, <1>13, <1>16
  <2> QED
    BY <2>1 DEF lift
<1>14. ASSUME Upgradable, NEW i \in p + 1..size
       PROVE  /\ Steps[i + 1].fix = Fixable[i]
              /\ Steps[i + 1].after = RatingWith(MaxRating, Rest(i))
  <2>1. i \in 1..size /\ i > p
    BY <1>1
  <2>2. Steps[i + 1] = FindingStep(i)
    BY <1>7, <1>8, <1>14, <1>16, <2>1
  <2> QED
    BY <2>1, <2>2 DEF FindingStep, AfterFindings, p
<1>17. (Upgradable => Len(Steps) = size + 1) /\ (~Upgradable => Len(Steps) = size)
  <2>1. Len(Steps) = size + Len(UpgradeSteps)
    BY <1>16
  <2>2. Len(UpgradeSteps) = IF Upgradable THEN 1 ELSE 0
    BY <1>7
  <2> QED
    BY <1>1, <2>1, <2>2
<1>18. Steps \in Seq(PlanSteps)
  BY <1>16
<1> QED
  <2> HIDE DEF listed
  <2> USE DEF p, size
  <2> QED
    BY <1>12, <1>13, <1>14, <1>17, <1>18


(* The caps of a plan that was measured are what is left.                   *)
LEMMA CapsAreLeft ==
    ASSUME affects \/ version # "endOfLife"
    PROVE  Caps = Left
BY DEF Caps, Left

(* What the first n steps fix are the first n fixes and, past its position, *)
(* the upgrade.                                                             *)
LEMMA FixesAre ==
    ASSUME RemediationTypeOK
    PROVE  /\ \A n \in 1..UpgradePosition : FixesOf(Steps, n) = {Fixable[i] : i \in 1..n}
           /\ Upgradable =>
                \A n \in UpgradePosition..Len(Fixable) :
                   FixesOf(Steps, n + 1) = {Fixable[i] : i \in 1..n} \cup {Upgrade}
<1> DEFINE p == UpgradePosition
           size == Len(Fixable)
<1>1. size \in Nat /\ p \in 0..size
  BY FixableIs, PositionIs
<1>2. \A i \in 1..p : Steps[i].fix = Fixable[i]
  BY StepsAre
<1>3. Upgradable => /\ Steps[p + 1].fix = Upgrade
                    /\ \A i \in p + 1..size : Steps[i + 1].fix = Fixable[i]
  BY StepsAre
<1> HIDE DEF p, size
<1>4. ASSUME NEW n \in 1..p PROVE FixesOf(Steps, n) = {Fixable[i] : i \in 1..n}
  <2>1. \A i \in 1..n : Steps[i].fix = Fixable[i]
    BY <1>1, <1>2
  <2> QED
    BY <2>1 DEF FixesOf
<1>5. ASSUME Upgradable, NEW n \in p..size
      PROVE  FixesOf(Steps, n + 1) = {Fixable[i] : i \in 1..n} \cup {Upgrade}
  <2>1. ASSUME NEW c, c \in FixesOf(Steps, n + 1)
        PROVE  c \in {Fixable[i] : i \in 1..n} \cup {Upgrade}
    <3>1. PICK j \in 1..n + 1 : c = Steps[j].fix
      BY <2>1 DEF FixesOf
    <3>2. CASE j <= p
      BY <1>1, <1>2, <3>1, <3>2
    <3>3. CASE j = p + 1
      BY <1>3, <1>5, <3>1, <3>3
    <3>4. CASE j > p + 1
      <4>1. j - 1 \in p + 1..size /\ j - 1 \in 1..n /\ (j - 1) + 1 = j
        BY <1>1, <3>4
      <4> QED
        BY <1>3, <1>5, <3>1, <4>1
    <3> QED
      BY <1>1, <3>2, <3>3, <3>4
  <2>2. Upgrade \in FixesOf(Steps, n + 1)
    <3>1. p + 1 \in 1..n + 1
      BY <1>1
    <3> QED
      BY <1>3, <1>5, <3>1 DEF FixesOf
  <2>3. ASSUME NEW i \in 1..n PROVE Fixable[i] \in FixesOf(Steps, n + 1)
    <3>1. CASE i <= p
      <4>1. i \in 1..p /\ i \in 1..n + 1
        BY <1>1, <3>1
      <4> QED
        BY <1>2, <4>1 DEF FixesOf
    <3>2. CASE i > p
      <4>1. i \in p + 1..size /\ i + 1 \in 1..n + 1
        BY <1>1, <3>2
      <4> QED
        BY <1>3, <1>5, <4>1 DEF FixesOf
    <3> QED
      BY <1>1, <3>1, <3>2
  <2> QED
    BY <2>1, <2>2, <2>3
<1> QED
  BY <1>4, <1>5 DEF p, size

(* What a plan says before anything of it was done.                         *)
LEMMA StepsAreHonest ==
    ASSUME RemediationTypeOK, Caps = Left
    PROVE  Honest(Steps, BaseRating[version], Left)
<1> DEFINE p == UpgradePosition
           size == Len(Fixable)
           base == BaseRating[version]
           First(n) == {Fixable[i] : i \in 1..n}
<1>1. /\ size \in Nat /\ p \in 0..size
      /\ ~Upgradable => p = size
  BY FixableIs, PositionIs
<1>2. /\ \A n \in 0..size : Rest(n) = Left \ First(n)
      /\ \A c \in Left : c # Upgrade
      /\ \A i \in 1..size : Fixable[i] # Upgrade
  <2>1. Caps \in SUBSET Findings /\ Fixable \in Seq(Caps \ Unactionable)
    BY FixableIs DEF Caps, Counting, RemediationTypeOK
  <2>2. \A i \in 1..size : Fixable[i] \in Findings
    BY <2>1, ElementOfSeq
  <2>3. \A c \in Findings : c # Upgrade
    BY CapsAre DEF Upgrade
  <2> QED
    BY <2>1, <2>2, <2>3, RestIs
<1>3. /\ \A n \in 1..p : /\ FixesOf(Steps, n) = First(n)
                         /\ Steps[n].after = RatingWith(base, Rest(n))
      /\ Upgradable => Len(Steps) = size + 1
      /\ ~Upgradable => Len(Steps) = size
  BY StepsAre, FixesAre
<1>4. Upgradable =>
         \A n \in p..size : /\ FixesOf(Steps, n + 1) = First(n) \cup {Upgrade}
                            /\ Steps[n + 1].after = RatingWith(MaxRating, Rest(n))
  <2> SUFFICES ASSUME Upgradable, NEW n \in p..size
               PROVE  /\ FixesOf(Steps, n + 1) = First(n) \cup {Upgrade}
                      /\ Steps[n + 1].after = RatingWith(MaxRating, Rest(n))
    OBVIOUS
  <2>1. FixesOf(Steps, n + 1) = First(n) \cup {Upgrade}
    BY FixesAre
  <2>2. CASE n = p
    BY <2>1, <2>2, StepsAre
  <2>3. CASE n > p
    <3>1. n \in p + 1..size
      BY <1>1, <2>3
    <3> QED
      BY <2>1, <3>1, StepsAre
  <2> QED
    BY <1>1, <2>2, <2>3
<1> HIDE DEF p, size, base, First
<1>5. ASSUME NEW n \in 1..p
      PROVE  /\ Upgrade \notin FixesOf(Steps, n)
             /\ Steps[n].after = RatingWith(base, Left \ FixesOf(Steps, n))
  <2>1. n \in 0..size /\ \A i \in 1..n : i \in 1..size
    BY <1>1
  <2>2. FixesOf(Steps, n) = First(n) /\ Rest(n) = Left \ First(n)
    BY <1>2, <1>3, <2>1
  <2>3. Upgrade \notin First(n)
    BY <1>2, <2>1 DEF First
  <2>4. Steps[n].after = RatingWith(base, Rest(n))
    BY <1>3
  <2> QED
    BY <2>2, <2>3, <2>4
<1>6. ASSUME Upgradable, NEW n \in p..size
      PROVE  /\ Upgrade \in FixesOf(Steps, n + 1)
             /\ Steps[n + 1].after = RatingWith(MaxRating, Left \ FixesOf(Steps, n + 1))
  <2>1. n \in 0..size
    BY <1>1
  <2>2. Rest(n) = Left \ (First(n) \cup {Upgrade})
    BY <1>2, <2>1
  <2> QED
    BY <1>4, <1>6, <2>2
<1>7. ASSUME NEW n \in 1..Len(Steps)
      PROVE  Steps[n].after
               = RatingWith(IF Upgrade \in FixesOf(Steps, n) THEN MaxRating ELSE base,
                            Left \ FixesOf(Steps, n))
  <2>1. CASE n \in 1..p
    BY <1>5, <2>1
  <2>2. CASE n \notin 1..p
    <3>1. Upgradable /\ n - 1 \in p..size /\ (n - 1) + 1 = n
      BY <1>1, <1>3, <2>2
    <3> QED
      BY <1>6, <3>1
  <2> QED
    BY <2>1, <2>2
<1> QED
  BY <1>7 DEF Honest, base

(* The upgrade is where it gains something, or nothing could.               *)
LEMMA UpgradePaysAlways ==
    ASSUME RemediationTypeOK
    PROVE  UpgradePays
<1> SUFFICES ASSUME NEW i \in DOMAIN Steps, Steps[i].fix = Upgrade
             PROVE  \/ Steps[i].after > IF i = 1 THEN Rating ELSE Steps[i - 1].after
                    \/ RatingWith(MaxRating, Held) = RatingWith(BaseRating[version], Held)
  BY DEF UpgradePays
<1> DEFINE p == UpgradePosition
           size == Len(Fixable)
           base == BaseRating[version]
<1>1. /\ size \in Nat /\ p \in 0..size
      /\ ~Upgradable => p = size
      /\ Upgradable /\ p < size => RatingWith(MaxRating, Rest(p)) > RatingWith(base, Rest(p))
  BY FixableIs, PositionIs
<1>2. \A n \in 1..size : Fixable[n] # Upgrade
  <2>1. Caps \in SUBSET Findings /\ Fixable \in Seq(Caps \ Unactionable)
    BY FixableIs DEF Caps, Counting, RemediationTypeOK
  <2>2. \A n \in 1..size : Fixable[n] \in Findings
    BY <2>1, ElementOfSeq
  <2> QED
    BY <2>2, CapsAre DEF Upgrade
<1>3. /\ Steps \in Seq(PlanSteps)
      /\ (Upgradable => Len(Steps) = size + 1) /\ (~Upgradable => Len(Steps) = size)
      /\ Upgradable => Steps[p + 1].after = RatingWith(MaxRating, Rest(p))
  BY StepsAre
<1>4. \A n \in 0..size : Rest(n) \in SUBSET Findings
  BY RestIs
<1>5. base \in MinRating..MaxRating
  BY RatingIs
<1>6. Rating = RatingWith(base, Rest(0))
  <2>1. Rest(0) = Caps
    <3>1. 0 \in 0..size /\ \A n : n \notin 1..0
      BY <1>1
    <3> QED
      BY <3>1, RestIs
  <2>2. CASE affects \/ version # "endOfLife"
    BY <2>1, <2>2, CapsAreLeft, RatingIs
  <2>3. CASE ~ affects /\ version = "endOfLife"
    <3>1. base = 0
      BY <2>3 DEF BaseRating
    <3>2. 0 \in 0..size
      BY <1>1
    <3>3. RatingWith(base, Rest(0)) = 0
      BY <1>4, <1>5, <3>1, <3>2, RatingWithIs
    <3> QED
      BY <2>3, <3>3 DEF Rating, MinRating
  <2> QED
    BY <2>2, <2>3
<1>7. \A n \in 1..p : Steps[n].after = RatingWith(base, Rest(n)) /\ Steps[n].fix = Fixable[n]
  BY StepsAre
<1>8. Upgradable => \A n \in p + 1..size : Steps[n + 1].fix = Fixable[n]
  BY StepsAre
<1> HIDE DEF p, size, base
<1>9. i \in 1..Len(Steps)
  BY <1>3
<1>10. Upgradable /\ i = p + 1
  <2>1. i \notin 1..p
    BY <1>1, <1>2, <1>7
  <2>2. Upgradable
    BY <1>1, <1>3, <1>9, <2>1
  <2>3. ASSUME i > p + 1 PROVE FALSE
    <3>1. i - 1 \in p + 1..size /\ i - 1 \in 1..size /\ (i - 1) + 1 = i
      BY <1>1, <1>3, <1>9, <2>2, <2>3
    <3> QED
      BY <1>2, <1>8, <2>2, <3>1
  <2> QED
    BY <1>1, <1>9, <2>1, <2>2, <2>3
<1>11. (IF i = 1 THEN Rating ELSE Steps[i - 1].after) = RatingWith(base, Rest(p))
  <2>1. CASE p = 0
    BY <1>6, <1>10, <2>1
  <2>2. CASE p # 0
    <3>1. p \in 1..p /\ i # 1 /\ i - 1 = p
      BY <1>1, <1>10, <2>2
    <3> QED
      BY <1>7, <3>1
  <2> QED
    BY <2>1, <2>2
<1>12. CASE p < size
  BY <1>1, <1>3, <1>10, <1>11, <1>12
<1>13. CASE p = size
  <2>1. Rest(p) = Held /\ Rest(p) \in SUBSET Findings
    <3>1. size \in 0..size
      BY <1>1
    <3> QED
      BY <1>13, <3>1, RestIs DEF size
  <2>2. /\ RatingWith(base, Rest(p)) <= RatingWith(MaxRating, Rest(p))
        /\ RatingWith(base, Rest(p)) \in MinRating..MaxRating
        /\ RatingWith(MaxRating, Rest(p)) \in MinRating..MaxRating
    <3>1. MaxRating \in MinRating..MaxRating
      BY DEF MinRating, MaxRating
    <3> QED
      BY <1>5, <2>1, <3>1, RatingWithIs
  <2>3. CASE RatingWith(MaxRating, Rest(p)) = RatingWith(base, Rest(p))
    BY <2>1, <2>3 DEF base
  <2>4. CASE RatingWith(MaxRating, Rest(p)) # RatingWith(base, Rest(p))
    <3>1. RatingWith(MaxRating, Rest(p)) > RatingWith(base, Rest(p))
      BY <2>2, <2>4 DEF MinRating, MaxRating
    <3> QED
      BY <1>3, <1>10, <1>11, <3>1
  <2> QED
    BY <2>3, <2>4
<1> QED
  BY <1>1, <1>12, <1>13


(* The plan of a scan, as Init and every new scan hand it out.              *)
LEMMA ThePlanIs ==
    ASSUME RemediationTypeOK
    PROVE  /\ ThePlan \in Plans
           /\ ThePlan.base = BaseRating[version]
           /\ Rating \in MinRating..MaxRating
           /\ ThePlan.measured =>
                 /\ ThePlan.caps = Left
                 /\ Rating = RatingWith(BaseRating[version], Left)
                 /\ Honest(ThePlan.steps, BaseRating[version], Left)
<1>1. /\ ThePlan.base = BaseRating[version] /\ ThePlan.caps = Caps /\ ThePlan.steps = Steps
      /\ ThePlan.measured <=> (affects \/ version # "endOfLife")
  BY DEF ThePlan
<1>2. /\ Left \in SUBSET Findings /\ BaseRating[version] \in MinRating..MaxRating
      /\ Rating = RatingWith(BaseRating[version], Left)
  BY RatingIs
<1>3. Rating \in MinRating..MaxRating
  BY <1>2, RatingWithIs
<1>4. ThePlan \in Plans
  <2>1. Caps \in SUBSET Findings
    BY DEF Caps, Counting, RemediationTypeOK
  <2>2. Steps \in Seq(PlanSteps)
    BY StepsAre
  <2>3. (affects \/ version # "endOfLife") \in BOOLEAN
    OBVIOUS
  <2> QED
    BY <1>2, <2>1, <2>2, <2>3 DEF ThePlan, Plans
<1>5. ASSUME ThePlan.measured
      PROVE  /\ ThePlan.caps = Left
             /\ Honest(ThePlan.steps, BaseRating[version], Left)
  <2>1. Caps = Left
    BY <1>1, <1>5, CapsAreLeft
  <2>2. Honest(Steps, BaseRating[version], Left)
    BY <2>1, StepsAreHonest
  <2> QED
    BY <1>1, <2>1, <2>2
<1> QED
  BY <1>1, <1>2, <1>3, <1>4, <1>5

(* A plan stays honest when its first step is taken.                        *)
LEMMA TailStaysHonest ==
    ASSUME NEW steps \in Seq(PlanSteps), steps # <<>>, NEW ceiling, NEW left,
           Honest(steps, ceiling, left)
    PROVE  LET fix == Head(steps).fix
               above == IF Upgrade = fix THEN MaxRating ELSE ceiling
           IN /\ Head(steps).after = RatingWith(above, left \ {fix})
              /\ Honest(Tail(steps), above, left \ {fix})
<1> DEFINE fix == Head(steps).fix
           rest == Tail(steps)
           above == IF Upgrade = fix THEN MaxRating ELSE ceiling
<1>1. /\ Head(steps) = steps[1] /\ 1 \in 1..Len(steps) /\ Len(steps) \in Nat
      /\ rest \in Seq(PlanSteps) /\ Len(rest) = Len(steps) - 1
      /\ \A n \in 1..Len(rest) : rest[n] = steps[n + 1]
  BY LenProperties, EmptySeq, HeadTailProperties
<1> HIDE DEF rest
<1>3. FixesOf(steps, 1) = {fix}
  BY <1>1 DEF FixesOf
<1>4. Head(steps).after = RatingWith(above, left \ {fix})
  <2>1. steps[1].after
          = RatingWith(IF Upgrade \in FixesOf(steps, 1) THEN MaxRating ELSE ceiling,
                       left \ FixesOf(steps, 1))
    BY <1>1 DEF Honest
  <2>2. Upgrade \in FixesOf(steps, 1) <=> Upgrade = fix
    BY <1>3
  <2> QED
    BY <1>1, <1>3, <2>1, <2>2
<1>5. ASSUME NEW n \in 1..Len(rest)
      PROVE  rest[n].after
               = RatingWith(IF Upgrade \in FixesOf(rest, n) THEN MaxRating ELSE above,
                            (left \ {fix}) \ FixesOf(rest, n))
  <2>1. n + 1 \in 1..Len(steps)
    BY <1>1
  <2>2. steps[n + 1].after
          = RatingWith(IF Upgrade \in FixesOf(steps, n + 1) THEN MaxRating ELSE ceiling,
                       left \ FixesOf(steps, n + 1))
    BY <2>1 DEF Honest
  <2>3. FixesOf(steps, n + 1) = {fix} \cup FixesOf(rest, n)
    <3>1. ASSUME NEW i \in 1..n + 1
          PROVE  steps[i].fix = fix \/ \E j \in 1..n : steps[i].fix = rest[j].fix
      <4>1. CASE i = 1
        BY <1>1, <4>1
      <4>2. CASE i # 1
        <5>1. i - 1 \in 1..n /\ i - 1 \in 1..Len(rest) /\ (i - 1) + 1 = i
          BY <1>1, <4>2
        <5> QED
          BY <1>1, <5>1
      <4> QED
        BY <4>1, <4>2
    <3>2. \A j \in 1..n : j + 1 \in 1..n + 1 /\ rest[j] = steps[j + 1]
      BY <1>1
    <3>3. 1 \in 1..n + 1
      OBVIOUS
    <3>4. FixesOf(steps, n + 1) \subseteq {fix} \cup FixesOf(rest, n)
      BY <3>1 DEF FixesOf
    <3>5. fix \in FixesOf(steps, n + 1)
      BY <1>1, <3>3 DEF FixesOf
    <3>6. FixesOf(rest, n) \subseteq FixesOf(steps, n + 1)
      BY <3>2 DEF FixesOf
    <3> QED
      BY <3>4, <3>5, <3>6
  <2>4. left \ FixesOf(steps, n + 1) = (left \ {fix}) \ FixesOf(rest, n)
    BY <2>3
  <2>5. Upgrade \in FixesOf(steps, n + 1) <=> Upgrade = fix \/ Upgrade \in FixesOf(rest, n)
    BY <2>3
  <2> QED
    BY <1>1, <2>2, <2>4, <2>5
<1>6. Honest(rest, above, left \ {fix})
  BY <1>5 DEF Honest
<1> QED
  BY <1>4, <1>6 DEF rest

-----------------------------------------------------------------------------
(* Before the first plan there is nothing to keep.                          *)
LEMMA PlanStartsHonest == RemediationInit => PlanInv
<1> SUFFICES ASSUME RemediationInit PROVE PlanInv
  OBVIOUS
<1>1. /\ version \in DOMAIN BaseRating /\ target \in {"current", "advisory", "urgent"}
      /\ open \subseteq Findings /\ waived \subseteq Findings
      /\ affects \in BOOLEAN /\ fresh = TRUE /\ upgraded = FALSE
      /\ plan = ThePlan /\ expected = Rating
  BY DEF RemediationInit
<1>2. Rating \in MinRating..MaxRating
  <2>1. version \in DOMAIN BaseRating /\ open \subseteq Findings
    BY <1>1
  <2>2. Left \in SUBSET Findings /\ Counting \in SUBSET Findings
    BY <1>1 DEF Left, Counting
  <2>3. BaseRating[version] \in MinRating..MaxRating
    BY <1>1, BasesAre
  <2>4. RatingWith(BaseRating[version], Counting) \in MinRating..MaxRating
    BY <2>2, <2>3, RatingWithIs
  <2> QED
    BY <2>3, <2>4 DEF Rating, MinRating, MaxRating
<1>3. RemediationTypeOK
  BY <1>1, <1>2 DEF RemediationTypeOK
<1>4. /\ plan \in Plans /\ plan.base = BaseRating[version]
      /\ plan.measured =>
            /\ plan.caps = Left
            /\ expected = RatingWith(BaseRating[version], Left)
            /\ Honest(plan.steps, BaseRating[version], Left)
  BY <1>1, <1>3, ThePlanIs
<1> QED
  BY <1>1, <1>3, <1>4 DEF PlanInv, Ceiling

(* What a fix leaves to count against the rating.                           *)
LEMMA FixesLeave ==
    ASSUME RemediationTypeOK, NEW fixes \in SUBSET (Findings \cup {Upgrade}), Apply(fixes)
    PROVE  /\ Left' = Left \ fixes
           /\ version' \in DOMAIN BaseRating /\ target' \in {"current", "advisory", "urgent"}
           /\ open' \subseteq Findings /\ waived' \subseteq Findings /\ affects' \in BOOLEAN
           /\ upgraded' \in BOOLEAN
           /\ (upgraded => version = target) => (upgraded' => version' = target')
           /\ Ceiling' = IF Upgrade \in fixes THEN MaxRating ELSE Ceiling
<1>1. /\ open' = open \ fixes /\ waived' = waived /\ affects' = affects /\ target' = target
      /\ version' = IF Upgrade \in fixes THEN target ELSE version
      /\ upgraded' = (upgraded \/ Upgrade \in fixes)
  BY DEF Apply
<1>2. Left' = Left \ fixes
  BY <1>1 DEF Left, Counting
<1>3. /\ version \in DOMAIN BaseRating /\ target \in {"current", "advisory", "urgent"}
      /\ open \subseteq Findings /\ waived \subseteq Findings /\ affects \in BOOLEAN
      /\ upgraded \in BOOLEAN
  BY DEF RemediationTypeOK
<1>4. {"current", "advisory", "urgent"} \subseteq DOMAIN BaseRating
  BY DEF BaseRating
<1>5. version' \in DOMAIN BaseRating
  BY <1>1, <1>3, <1>4
<1>6. /\ target' \in {"current", "advisory", "urgent"}
      /\ open' \subseteq Findings /\ waived' \subseteq Findings /\ affects' \in BOOLEAN
  BY <1>1, <1>3
<1>7. upgraded' \in BOOLEAN
  BY <1>1
<1>8. (upgraded => version = target) => (upgraded' => version' = target')
  BY <1>1
<1>9. Ceiling' = IF Upgrade \in fixes THEN MaxRating ELSE Ceiling
  BY <1>1 DEF Ceiling
<1> QED
  BY <1>1, <1>2, <1>5, <1>6, <1>7, <1>8, <1>9

(* Taking the next step leaves a plan whose rest is honest.                 *)
LEMMA StepKeepsThePlanHonest ==
    ASSUME PlanInv, TakeStep
    PROVE  PlanInv'
<1> DEFINE steps == plan.steps
           first == Head(steps)
           above == IF Upgrade = first.fix THEN MaxRating ELSE Ceiling
<1>1. /\ RemediationTypeOK /\ plan \in Plans
      /\ upgraded => version = target
      /\ plan.measured => Honest(steps, Ceiling, Left)
  BY DEF PlanInv
<1>2. /\ steps # <<>> /\ Apply({first.fix}) /\ expected' = first.after
      /\ plan' = [plan EXCEPT !.steps = Tail(@)] /\ fresh' = FALSE
  BY DEF TakeStep
<1>3. /\ plan.base \in MinRating..MaxRating /\ plan.caps \in SUBSET Findings
      /\ steps \in Seq(PlanSteps) /\ plan.measured \in BOOLEAN
  BY <1>1 DEF Plans
<1>4. first \in PlanSteps /\ Tail(steps) \in Seq(PlanSteps)
  BY <1>2, <1>3, HeadTailProperties
<1>5. first.fix \in Findings \cup {Upgrade} /\ first.after \in MinRating..MaxRating
  BY <1>4 DEF PlanSteps
<1>6. /\ Left' = Left \ {first.fix}
      /\ version' \in DOMAIN BaseRating /\ target' \in {"current", "advisory", "urgent"}
      /\ open' \subseteq Findings /\ waived' \subseteq Findings /\ affects' \in BOOLEAN
      /\ upgraded' \in BOOLEAN
      /\ (upgraded => version = target) => (upgraded' => version' = target')
      /\ Ceiling' = IF Upgrade \in {first.fix} THEN MaxRating ELSE Ceiling
  BY <1>1, <1>2, <1>5, FixesLeave
<1>7. Ceiling' = above
  BY <1>6
<1>8. /\ plan' \in Plans /\ plan'.base = plan.base /\ plan'.steps = Tail(steps)
      /\ plan'.measured = plan.measured
  BY <1>1, <1>2, <1>4 DEF Plans
<1>9. RemediationTypeOK'
  BY <1>2, <1>5, <1>6 DEF RemediationTypeOK
<1>10. ASSUME plan'.measured
       PROVE  /\ first.after = RatingWith(above, Left \ {first.fix})
              /\ Honest(Tail(steps), above, Left \ {first.fix})
  <2>1. Honest(steps, Ceiling, Left)
    BY <1>1, <1>8, <1>10
  <2> QED
    BY <1>2, <1>3, <2>1, TailStaysHonest
<1> HIDE DEF above, first, steps
<1>11. ASSUME plan'.measured
       PROVE  expected' = RatingWith(Ceiling', Left') /\ Honest(plan'.steps, Ceiling', Left')
  BY <1>2, <1>6, <1>7, <1>8, <1>10, <1>11
<1> QED
  BY <1>1, <1>2, <1>6, <1>8, <1>9, <1>11 DEF PlanInv

(* So does making a change, which takes findings away together              *)
(* (remediation_groups.py).                                                 *)
LEMMA ChangeKeepsThePlanHonest ==
    ASSUME PlanInv, MakeChange
    PROVE  PlanInv'
<1>1. /\ RemediationTypeOK /\ plan \in Plans
      /\ upgraded => version = target
      /\ plan.measured /\ fresh =>
            plan.caps = Left /\ plan.base = BaseRating[version] /\ ~upgraded
  BY DEF PlanInv
<1>2. PICK fixes \in SUBSET {plan.steps[i].fix : i \in DOMAIN plan.steps} :
          Apply(fixes) /\ expected' = Replay(fixes)
  BY DEF MakeChange
<1>3. fresh /\ plan' = [plan EXCEPT !.steps = <<>>] /\ fresh' = FALSE
  BY DEF MakeChange
<1>4. /\ plan.base \in MinRating..MaxRating /\ plan.caps \in SUBSET Findings
      /\ plan.steps \in Seq(PlanSteps)
  BY <1>1 DEF Plans
<1>5. fixes \in SUBSET (Findings \cup {Upgrade})
  <2>1. \A i \in DOMAIN plan.steps : plan.steps[i] \in PlanSteps
    BY <1>4, ElementOfSeq, LenProperties
  <2>2. \A i \in DOMAIN plan.steps : plan.steps[i].fix \in Findings \cup {Upgrade}
    BY <2>1 DEF PlanSteps
  <2> QED
    BY <1>2, <2>2
<1>6. /\ Left' = Left \ fixes
      /\ version' \in DOMAIN BaseRating /\ target' \in {"current", "advisory", "urgent"}
      /\ open' \subseteq Findings /\ waived' \subseteq Findings /\ affects' \in BOOLEAN
      /\ upgraded' \in BOOLEAN
      /\ (upgraded => version = target) => (upgraded' => version' = target')
      /\ Ceiling' = IF Upgrade \in fixes THEN MaxRating ELSE Ceiling
  BY <1>1, <1>2, <1>5, FixesLeave
<1>7. expected'
        = RatingWith(IF Upgrade \in fixes THEN MaxRating ELSE plan.base, plan.caps \ fixes)
  BY <1>2 DEF Replay
<1>8. expected' \in MinRating..MaxRating
  <2>1. plan.caps \ fixes \in SUBSET Findings /\ MaxRating \in MinRating..MaxRating
    BY <1>4 DEF MinRating, MaxRating
  <2> QED
    BY <1>4, <1>7, <2>1, RatingWithIs
<1>9. /\ plan' \in Plans /\ plan'.steps = <<>> /\ plan'.measured = plan.measured
  <2>1. <<>> \in Seq(PlanSteps)
    BY EmptySeq
  <2> QED
    BY <1>1, <1>3, <2>1 DEF Plans
<1>10. RemediationTypeOK'
  BY <1>3, <1>6, <1>8 DEF RemediationTypeOK
<1>11. ASSUME plan'.measured
       PROVE  expected' = RatingWith(Ceiling', Left') /\ Honest(plan'.steps, Ceiling', Left')
  <2>1. plan.caps = Left /\ plan.base = Ceiling
    BY <1>1, <1>3, <1>9, <1>11 DEF Ceiling
  <2>2. expected' = RatingWith(Ceiling', Left')
    BY <1>6, <1>7, <2>1
  <2>3. Honest(plan'.steps, Ceiling', Left')
    BY <1>9, EmptySeq DEF Honest
  <2> QED
    BY <2>2, <2>3
<1> QED
  BY <1>1, <1>3, <1>6, <1>9, <1>10, <1>11 DEF PlanInv

(* A plan drawn up by a new scan is honest.                                 *)
LEMMA NewPlanIsHonest ==
    ASSUME PlanInv, ScanAgain
    PROVE  PlanInv'
<1>1. RemediationTypeOK
  BY DEF PlanInv
<1>2. /\ plan' = ThePlan /\ fresh' = TRUE /\ expected' = Rating /\ upgraded' = FALSE
      /\ version' = version /\ target' = target /\ open' = open /\ waived' = waived
      /\ affects' = affects
  BY DEF ScanAgain
<1>3. Left' = Left
  BY <1>2 DEF Left, Counting
<1>4. /\ plan' \in Plans /\ plan'.base = BaseRating[version]
      /\ Rating \in MinRating..MaxRating
      /\ plan'.measured =>
            /\ plan'.caps = Left
            /\ Rating = RatingWith(BaseRating[version], Left)
            /\ Honest(plan'.steps, BaseRating[version], Left)
  BY <1>1, <1>2, ThePlanIs
<1>5. RemediationTypeOK'
  BY <1>1, <1>2, <1>4 DEF RemediationTypeOK
<1>6. Ceiling' = BaseRating[version]
  BY <1>2 DEF Ceiling
<1> QED
  BY <1>2, <1>3, <1>4, <1>5, <1>6 DEF PlanInv

(* A measured plan is honest of what is left of it.                         *)
LEMMA PlanStaysHonest == RemediationSpec => []PlanInv
<1>1. RemediationInit => PlanInv
  BY PlanStartsHonest
<1>2. PlanInv /\ [RemediationNext]_remediationVars => PlanInv'
  <2> SUFFICES ASSUME PlanInv, [RemediationNext]_remediationVars PROVE PlanInv'
    OBVIOUS
  <2>1. CASE TakeStep
    BY <2>1, StepKeepsThePlanHonest
  <2>2. CASE MakeChange
    BY <2>2, ChangeKeepsThePlanHonest
  <2>3. CASE ScanAgain
    BY <2>3, NewPlanIsHonest
  <2>4. CASE UNCHANGED remediationVars
    <3>1. Left' = Left /\ Ceiling' = Ceiling
      BY <2>4 DEF Left, Counting, Ceiling, remediationVars
    <3> QED
      BY <2>4, <3>1 DEF PlanInv, RemediationTypeOK, remediationVars
  <2> QED
    BY <2>1, <2>2, <2>3, <2>4 DEF RemediationNext
<1> QED
  BY <1>1, <1>2, PTL DEF RemediationSpec

(* The type invariant of the plan (remediation.py, plan).                   *)
THEOREM PlanTypeCorrect == RemediationSpec => []RemediationTypeOK
<1>1. PlanInv => RemediationTypeOK
  BY DEF PlanInv
<1> QED
  BY <1>1, PlanStaysHonest, PTL

(* What a step or a change of the plan says the rating will be is what the  *)
(* next scan measures, whatever was fixed, waived or upgraded before, and   *)
(* the upgrade stands where it pays (remediation.py, plan, _upgrade_position*)
(* and replay).                                                             *)
THEOREM PlanIsKept == RemediationSpec => []PlanKeepsItsWord
<1>1. PlanInv => PlanKeepsItsWord
  <2> SUFFICES ASSUME PlanInv PROVE PlanKeepsItsWord
    OBVIOUS
  <2>1. RemediationTypeOK
    BY DEF PlanInv
  <2>2. ASSUME plan.measured, upgraded => target = "current" PROVE Rating = expected
    <3>1. expected = RatingWith(IF upgraded THEN MaxRating ELSE BaseRating[version], Left)
      BY <2>2 DEF PlanInv, Ceiling
    <3>2. upgraded => BaseRating[version] = MaxRating
      <4>1. upgraded => version = "current"
        BY <2>2 DEF PlanInv
      <4> QED
        BY <4>1 DEF BaseRating, MaxRating
    <3> QED
      BY <2>1, <3>1, <3>2, RatingIs
  <2> QED
    BY <2>1, <2>2, UpgradePaysAlways DEF PlanKeepsItsWord
<1> QED
  BY <1>1, PlanStaysHonest, PTL

=============================================================================
