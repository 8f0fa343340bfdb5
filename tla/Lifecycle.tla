------------------------------- MODULE Lifecycle -------------------------------
(***************************************************************************)
(* The lifecycle verdict (opencloud_local_scan/versions.py): where a       *)
(* reported version stands in the release schedule, judged while the       *)
(* vendor publishes lines and patches, promotes lines to better supported  *)
(* tracks, and days pass.                                                  *)
(***************************************************************************)
EXTENDS FiniteSetsExt, Integers

CONSTANTS
    MaxLine,        \* bound: release lines published
    MaxPatch,       \* bound: patches of a line
    LtsWindow,      \* lifetime_days["lts"]
    LastDay,        \* bound: days
    Named           \* the tracks latest_release has an entry for

Base == 10          \* no line has more patches

ASSUME LifecycleAssumption ==
    /\ {MaxLine, MaxPatch, LtsWindow, LastDay} \subseteq Nat
    /\ MaxPatch < Base
    /\ Named \subseteq {"rolling", "production", "lts"}

VARIABLES
    lines,          \* the schedule: line |-> its tracks, first day, newest patch
    today

lifecycleVars == <<lines, today>>

Tracks == {"rolling", "production", "lts"}
TrackRank == [rolling |-> 0, production |-> 1, lts |-> 2]
None == -1

(* A version is its line and patch in one number; compare_versions is <.    *)
Version(line, patch) == line * Base + patch
LineOf(version) == version \div Base

Known == DOMAIN lines
Newest(l) == Version(l, lines[l].latest)
On(track) == {l \in Known : track \in lines[l].tracks}
Highest(set) == IF set = {} THEN None ELSE Max(set)

LifecycleTypeOK ==
    /\ Known \subseteq 1..MaxLine
    /\ \A l \in Known : lines[l] \in [tracks : SUBSET Tracks \ {{}},
                                      released : 0..LastDay,
                                      latest : 0..MaxPatch]
    /\ today \in 0..LastDay

-----------------------------------------------------------------------------
(* latest_for, with and without a track.                                    *)
LatestFor(track) ==
    IF track \in Named THEN Highest({Newest(l) : l \in On(track)}) ELSE None

LatestOfAll ==
    LET recorded == {LatestFor(t) : t \in Tracks} \ {None}
    IN Highest(IF recorded # {} THEN recorded ELSE {Newest(l) : l \in Known})

CurrentRelease(track) ==
    IF LatestFor(track) # None THEN LatestFor(track)
    ELSE Highest({Newest(l) : l \in On(track)})

(* upgrade_target: the best supported track up to this one that has one.    *)
UpgradeTarget(track) ==
    IF track = "lts" /\ LatestFor("lts") # None THEN LatestFor("lts")
    ELSE IF track # "rolling" /\ LatestFor("production") # None
         THEN LatestFor("production")
    ELSE IF LatestFor("rolling") # None THEN LatestFor("rolling")
    ELSE LatestOfAll

ForwardTarget(declared, version) ==
    IF declared # "auto" /\ UpgradeTarget(declared) > version
    THEN UpgradeTarget(declared)
    ELSE IF LatestOfAll > version THEN LatestOfAll ELSE None

(* Mutant: the newest LTS line's release counts for every LTS line.         *)
TrackEndOfNewest(l, track) ==
    LET later == {m \in On(track) : m > l}
    IN IF track = "lts" THEN lines[Max(On("lts"))].released + LtsWindow
       ELSE IF later = {} THEN None ELSE lines[Min(later)].released

(* _track_end_of_life: the clock ends an LTS line, a successor the others.  *)
TrackEnd(l, track) ==
    LET later == {m \in On(track) : m > l}
    IN IF track = "lts" THEN lines[l].released + LtsWindow
       ELSE IF later = {} THEN None ELSE lines[Min(later)].released

(* max() over the tracks of a line: no end, then the latest, then the rank. *)
Outlasts(l, t, u) ==
    LET a == TrackEnd(l, t)
        b == TrackEnd(l, u)
    IN IF a = b THEN TrackRank[t] >= TrackRank[u]
       ELSE a = None \/ (b # None /\ a > b)

BestTrack(l) ==
    CHOOSE t \in lines[l].tracks : \A u \in lines[l].tracks : Outlasts(l, t, u)

-----------------------------------------------------------------------------
Status(state, upgrade) == [state |-> state, upgrade |-> upgrade]

NewerOnLine(l, version) == IF Newest(l) > version THEN Newest(l) ELSE None

(* _off_track_status: the line was never published on the declared track.   *)
OffTrack(l, version, declared) ==
    IF CurrentRelease(declared) = None THEN Status("unknown", None)
    ELSE IF version > CurrentRelease(declared)
    THEN Status("supported", NewerOnLine(l, version))
    ELSE Status("endOfLife", IF UpgradeTarget(declared) > version
                             THEN UpgradeTarget(declared) ELSE None)

(* Mutant: the arrow of a line that ended points at the track's release.    *)
OnTrackAnyArrow(l, version, track) ==
    LET end == TrackEnd(l, track) IN
    IF end = None \/ end > today
    THEN Status("supported", NewerOnLine(l, version))
    ELSE Status("endOfLife", UpgradeTarget(track))

(* The verdict on a line by one of its own tracks.                          *)
OnTrack(l, version, track) ==
    LET end == TrackEnd(l, track) IN
    IF end = None \/ end > today
    THEN Status("supported", NewerOnLine(l, version))
    ELSE Status("endOfLife", IF UpgradeTarget(track) > version
                             THEN UpgradeTarget(track)
                             ELSE NewerOnLine(l, version))

(* _status_for.  One guard holds: a CASE of which two hold may be either.   *)
Judge(version, declared) ==
    LET l == LineOf(version) IN
    CASE Known = {} -> Status("unknown", None)
      [] Known # {} /\ l \notin Known ->
            IF l > Max(Known) THEN Status("supported", None)
            ELSE Status("endOfLife", ForwardTarget(declared, version))
      [] l \in Known /\ declared = "auto" -> OnTrack(l, version, BestTrack(l))
      [] l \in Known /\ declared # "auto" ->
            IF declared \in lines[l].tracks THEN OnTrack(l, version, declared)
            ELSE OffTrack(l, version, declared)

-----------------------------------------------------------------------------
LifecycleInit ==
    /\ lines = <<>>
    /\ today = 0

(* A line appears on one of these, and may be promoted later.               *)
FirstTracks == {{"rolling"}, {"production"}, {"production", "lts"}}

PublishLine ==
    /\ Cardinality(Known) < MaxLine
    /\ \E tracks \in FirstTracks :
          lines' = [l \in Known \cup {Cardinality(Known) + 1} |->
                      IF l \in Known THEN lines[l]
                      ELSE [tracks |-> tracks, released |-> today, latest |-> 0]]
    /\ UNCHANGED today

PublishPatch(l) ==
    /\ lines[l].latest < MaxPatch
    /\ lines' = [lines EXCEPT ![l].latest = @ + 1]
    /\ UNCHANGED today

Promote(l) ==
    /\ \E t \in Tracks \ lines[l].tracks :
          lines' = [lines EXCEPT ![l].tracks = @ \cup {t}]
    /\ UNCHANGED today

NextDay ==
    /\ today < LastDay
    /\ today' = today + 1
    /\ UNCHANGED lines

LifecycleNext ==
    \/ PublishLine
    \/ \E l \in Known : PublishPatch(l) \/ Promote(l)
    \/ NextDay

LifecycleSpec == LifecycleInit /\ [][LifecycleNext]_lifecycleVars

-----------------------------------------------------------------------------
(* Every version there may be, also when the schedule has not heard of it.  *)
Versions == {Version(l, p) : l \in 0..MaxLine, p \in 0..MaxPatch}
Declarable == Tracks \cup {"auto"}

ArrowPointsForwards(v, verdict) == verdict.upgrade # None => verdict.upgrade > v

CurrentIsSupported(v, d, verdict) ==
    /\ d \in {"rolling", "production"}
    /\ LineOf(v) \in Known
    /\ On(d) # {}
    /\ v >= CurrentRelease(d)
    => verdict.state = "supported"

AdviceLeadsOut(v, verdict) ==
    /\ verdict.state = "endOfLife"
    /\ verdict.upgrade # None
    /\ LineOf(verdict.upgrade) # LineOf(v)
    => Judge(verdict.upgrade, "auto").state = "supported"

(* No branch of the verdict draws an arrow backwards; who runs the current  *)
(* release of a declared track, or a newer one on record, is never told it  *)
(* is end of life; and who follows the advice to another line ends up       *)
(* supported, as long as latest_release names no LTS release, which the     *)
(* clock may have ended (versions.py, forward_target, _off_track_status).   *)
LifecycleIsSound ==
    \A v \in Versions, d \in Declarable :
        LET verdict == Judge(v, d) IN
        /\ ArrowPointsForwards(v, verdict)
        /\ CurrentIsSupported(v, d, verdict)
        /\ d = "auto" /\ "lts" \notin Named => AdviceLeadsOut(v, verdict)

(* End of life is for good: neither days nor releases take it back, only a  *)
(* promotion of the line itself (versions.py, _track_end_of_life).          *)
EndOfLifeIsForGood ==
    [][(\A l \in Known : lines'[l].tracks = lines[l].tracks)
          => \A v \in Versions, d \in {"auto", "production"} :
                Judge(v, d).state = "endOfLife"
                    => (Judge(v, d).state)' = "endOfLife"]_lifecycleVars

=============================================================================
