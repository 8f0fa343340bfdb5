--------------------------- MODULE OperationsProofs ---------------------------
(***************************************************************************)
(* Proofs about what runs beside the scans: the counters of the client     *)
(* limits, the heartbeat, the in-place update and the refreshes of the     *)
(* reference data - for any number of clients, workers, containers, jobs,  *)
(* parts and advisories, and any intervals.                                *)
(***************************************************************************)
EXTENDS ClientLimit, Heartbeat, Updates, ReferenceData, TLAPS

-----------------------------------------------------------------------------
(* The counter of a client limit *)

(* What TTL answers never exceeds the window.                               *)
LEMMA SecondsBound ==
  ASSUME NEW ticks \in 0..Ticks(Window), NEW seconds \in SecondsLeft(ticks)
  PROVE  seconds \in 0..Window
BY WindowAssumption, SMT DEF SecondsLeft, Ticks

(* The counter starts empty.                                                *)
LEMMA LimitInitTypeOK == LimitInit => LimitTypeOK
BY LimitAssumption, WindowAssumption, MaxDeathsAssumption
   DEF LimitInit, LimitTypeOK, Ceiling, Ticks

(* Every round trip, tick and death keep the types.                         *)
LEMMA LimitNextTypeOK == LimitTypeOK /\ [LimitNext]_limitVars => LimitTypeOK'
<1> SUFFICES ASSUME LimitTypeOK, [LimitNext]_limitVars PROVE LimitTypeOK'
  OBVIOUS
<1> USE LimitAssumption, WindowAssumption, MaxDeathsAssumption
        DEF LimitTypeOK, Go, Ceiling, NextCount
<1>1. ASSUME NEW c \in Clients, Count(c)
      PROVE  LimitTypeOK'
  BY <1>1 DEF Count
<1>2. ASSUME NEW c \in Clients, ExpireFirst(c)
      PROVE  LimitTypeOK'
  BY <1>2 DEF ExpireFirst, SetWindow, Ticks
<1>3. ASSUME NEW c \in Clients, ReadWindow(c)
      PROVE  LimitTypeOK'
  <2>1. PICK seconds \in SecondsLeft(left) :
            /\ IF seconds > 0
               THEN Go(c, "ttl", "idle") /\ Refuse(c, seconds)
               ELSE Go(c, "ttl", "repair") /\ UNCHANGED <<wait, refused>>
            /\ UNCHANGED <<count, left, granted, deaths>>
    BY <1>3 DEF ReadWindow
  <2>2. seconds \in 0..Window
    BY SecondsBound
  <2>3. Ticks(seconds) \in 0..Ticks(Window)
    BY <2>2 DEF Ticks
  <2> QED
    BY <2>1, <2>3 DEF Refuse
<1>4. ASSUME NEW c \in Clients, RepairWindow(c)
      PROVE  LimitTypeOK'
  BY <1>4 DEF RepairWindow, SetWindow, Refuse, Ticks
<1>5. ASSUME NEW c \in Clients, Die(c)
      PROVE  LimitTypeOK'
  BY <1>5 DEF Die
<1>6. CASE Tick
  BY <1>6 DEF Tick, Ticks
<1>7. CASE UNCHANGED limitVars
  BY <1>7 DEF limitVars
<1> QED
  BY <1>1, <1>2, <1>3, <1>4, <1>5, <1>6, <1>7 DEF LimitNext, Proceed

(* The counter never passes the limit by more than one, a wait is never     *)
(* longer than the window (webapp/ratelimit.py, check_client).              *)
THEOREM LimitTypeCorrect == LimitSpec => []LimitTypeOK
<1> QED
  BY LimitInitTypeOK, LimitNextTypeOK, PTL DEF LimitSpec

-----------------------------------------------------------------------------
(* The counter counts what it lets through, up to the limit, and an expiry  *)
(* belongs to a counter that exists.                                        *)
Ledger ==
    /\ granted <= count
    /\ granted <= Limit
    /\ count <= Limit => granted = count
    /\ count = 0 => left = 0
    /\ OpenEndedOnlyByDeath

(* At first nothing was let through.                                        *)
LEMMA InitLedger == LimitInit => Ledger
BY LimitAssumption DEF LimitInit, Ledger, OpenEndedOnlyByDeath

(* Every step keeps what was let through within what was counted            *)
(* (ratelimit.py, check_client).                                            *)
LEMMA NextLedger == LimitTypeOK /\ Ledger /\ [LimitNext]_limitVars => Ledger'
<1> SUFFICES ASSUME LimitTypeOK, Ledger, [LimitNext]_limitVars PROVE Ledger'
  OBVIOUS
<1> USE LimitAssumption, WindowAssumption, MaxDeathsAssumption
        DEF LimitTypeOK, Ledger, OpenEndedOnlyByDeath, Go, Ceiling
<1>1. ASSUME NEW c \in Clients, Count(c)
      PROVE  Ledger'
  BY <1>1 DEF Count, NextCount
<1>2. ASSUME NEW c \in Clients, ExpireFirst(c)
      PROVE  Ledger'
  BY <1>2 DEF ExpireFirst, SetWindow, Ticks
<1>3. ASSUME NEW c \in Clients, ReadWindow(c)
      PROVE  Ledger'
  BY <1>3 DEF ReadWindow
<1>4. ASSUME NEW c \in Clients, RepairWindow(c)
      PROVE  Ledger'
  BY <1>4 DEF RepairWindow, SetWindow, Ticks
<1>5. ASSUME NEW c \in Clients, Die(c)
      PROVE  Ledger'
  BY <1>5 DEF Die
<1>6. CASE Tick
  BY <1>6 DEF Tick
<1>7. CASE UNCHANGED limitVars
  BY <1>7 DEF limitVars
<1> QED
  BY <1>1, <1>2, <1>3, <1>4, <1>5, <1>6, <1>7 DEF LimitNext, Proceed

(* What was let through in a window was counted in it.                      *)
LEMMA LedgerHolds == LimitSpec => []Ledger
<1> QED
  BY InitLedger, NextLedger, LimitTypeCorrect, PTL DEF LimitSpec

(* However many requests are decided side by side, no counter lets through  *)
(* more of them than its limit: INCR both counts and decides                *)
(* (webapp/ratelimit.py, check_client, check_upload, check_daily).          *)
THEOREM LimitIsKept == LimitSpec => []AtMostLimit
<1>1. Ledger => AtMostLimit
  BY DEF Ledger, AtMostLimit
<1> QED
  BY <1>1, LedgerHolds, PTL

(* A counter without an expiry is either about to be given one or was left  *)
(* by a handler that died (webapp/ratelimit.py, _window_left).              *)
THEOREM OnlyDeathLeavesItOpen == LimitSpec => []OpenEndedOnlyByDeath
<1>1. Ledger => OpenEndedOnlyByDeath
  BY DEF Ledger
<1> QED
  BY <1>1, LedgerHolds, PTL

-----------------------------------------------------------------------------
(* The heartbeat *)

(* At first no worker is up.                                                *)
LEMMA HeartbeatInitTypeOK == HeartbeatInit => HeartbeatTypeOK
BY HeartbeatAssumption DEF HeartbeatInit, HeartbeatTypeOK

(* Startup, beat, shutdown, crash and time keep the types.                  *)
LEMMA HeartbeatNextTypeOK ==
    HeartbeatTypeOK /\ [HeartbeatNext]_heartbeatVars => HeartbeatTypeOK'
<1> SUFFICES ASSUME HeartbeatTypeOK, [HeartbeatNext]_heartbeatVars
             PROVE  HeartbeatTypeOK'
  OBVIOUS
<1> USE HeartbeatAssumption DEF HeartbeatTypeOK
<1>1. ASSUME NEW w \in Workers, Start(w) PROVE HeartbeatTypeOK'
  BY <1>1 DEF Start, Publish
<1>2. ASSUME NEW w \in Workers, StartRefused(w) PROVE HeartbeatTypeOK'
  BY <1>2 DEF StartRefused
<1>3. ASSUME NEW w \in Workers, Beat(w) PROVE HeartbeatTypeOK'
  BY <1>3 DEF Beat, Publish
<1>4. ASSUME NEW w \in Workers, BeatRefused(w) PROVE HeartbeatTypeOK'
  BY <1>4 DEF BeatRefused
<1>5. ASSUME NEW w \in Workers, CancelHeartbeat(w) PROVE HeartbeatTypeOK'
  BY <1>5 DEF CancelHeartbeat, Ended
<1>6. ASSUME NEW w \in Workers, DeleteSignal(w) PROVE HeartbeatTypeOK'
  BY <1>6 DEF DeleteSignal, Ended
<1>7. ASSUME NEW w \in Workers, Crash(w) PROVE HeartbeatTypeOK'
  BY <1>7 DEF Crash, Ended
<1>8. CASE TimePasses
  BY <1>8 DEF TimePasses
<1>9. CASE UNCHANGED heartbeatVars
  BY <1>9 DEF heartbeatVars
<1> QED
  BY <1>1, <1>2, <1>3, <1>4, <1>5, <1>6, <1>7, <1>8, <1>9
     DEF HeartbeatNext, WorkerStep

(* No heartbeat outlives its expiry, and no task sleeps for longer than the *)
(* interval (webapp/tasks.py, publish_worker_heartbeat and _heartbeat).     *)
THEOREM HeartbeatTypeCorrect == HeartbeatSpec => []HeartbeatTypeOK
BY HeartbeatInitTypeOK, HeartbeatNextTypeOK, PTL DEF HeartbeatSpec

(* Only a worker that is up runs its task, none that is up counts as shut   *)
(* down, and a task that runs wakes up before the key has been missing for  *)
(* an interval.                                                             *)
Wakes ==
    /\ \A w \in Workers : task[w] = "running" => worker[w] = "up"
    /\ \A w \in Workers : worker[w] = "up" => w \notin stopped
    /\ \A w \in Workers : task[w] = "running" => gap + due[w] <= Interval
    /\ ReadinessIsHonest

(* At first no task runs.                                                   *)
LEMMA InitWakes == HeartbeatInit => Wakes
BY HeartbeatAssumption DEF HeartbeatInit, Wakes, ReadinessIsHonest

(* Every step keeps the next beat of a running task within an interval of   *)
(* the key's loss (tasks.py, the heartbeat task).                           *)
LEMMA NextWakes ==
    HeartbeatTypeOK /\ Wakes /\ [HeartbeatNext]_heartbeatVars => Wakes'
<1> SUFFICES ASSUME HeartbeatTypeOK, Wakes, [HeartbeatNext]_heartbeatVars
             PROVE  Wakes'
  OBVIOUS
<1> USE HeartbeatAssumption DEF HeartbeatTypeOK, Wakes, ReadinessIsHonest
<1>1. ASSUME NEW w \in Workers, Start(w) PROVE Wakes'
  BY <1>1 DEF Start, Publish
<1>2. ASSUME NEW w \in Workers, StartRefused(w) PROVE Wakes'
  BY <1>2 DEF StartRefused
<1>3. ASSUME NEW w \in Workers, Beat(w) PROVE Wakes'
  BY <1>3 DEF Beat, Publish
<1>4. ASSUME NEW w \in Workers, BeatRefused(w) PROVE Wakes'
  BY <1>4 DEF BeatRefused
<1>5. ASSUME NEW w \in Workers, CancelHeartbeat(w) PROVE Wakes'
  BY <1>5 DEF CancelHeartbeat, Ended
<1>6. ASSUME NEW w \in Workers, DeleteSignal(w) PROVE Wakes'
  BY <1>6 DEF DeleteSignal, Ended
<1>7. ASSUME NEW w \in Workers, Crash(w) PROVE Wakes'
  BY <1>7 DEF Crash, Ended
<1>8. CASE TimePasses
  <2>1. \A w \in Workers : task[w] = "running" => due'[w] = due[w] - 1 /\ due[w] >= 1
    BY <1>8 DEF TimePasses
  <2>2. \/ gap' = gap
        \/ gap' = gap + 1 /\ (\E w \in Workers : task[w] = "running")
    BY <1>8 DEF TimePasses
  <2>3. UNCHANGED <<worker, task, stopped, publisher>> /\ (signal' > 0 => signal > 0)
    BY <1>8 DEF TimePasses
  <2> QED
    BY <2>1, <2>2, <2>3
<1>9. CASE UNCHANGED heartbeatVars
  BY <1>9 DEF heartbeatVars
<1> QED
  BY <1>1, <1>2, <1>3, <1>4, <1>5, <1>6, <1>7, <1>8, <1>9
     DEF HeartbeatNext, WorkerStep

(* However many workers start, stop and crash over the one key: what a      *)
(* clean shutdown left behind is not there, and while anyone's task runs    *)
(* the key is missing for one interval at most (webapp/tasks.py, shutdown). *)
THEOREM ReadinessStaysHonest == HeartbeatSpec => []ReadinessIsHonest
<1>1. Wakes => ReadinessIsHonest
  BY DEF Wakes
<1> QED
  BY <1>1, InitWakes, NextWakes, HeartbeatTypeCorrect, PTL DEF HeartbeatSpec

-----------------------------------------------------------------------------
(* The in-place update *)

(* Whoever is about to restart has recorded the attempt, whoever followed   *)
(* had; and no job is at work in a container that followed.                 *)
Tries ==
    /\ again = {}
    /\ followed \subseteq attempted
    /\ stage \in [Installers -> {"idle", "fetch", "clear", "extract", "move",
                                "tidy", "record", "tell", "restart"}]
    /\ \A i \in Installers : stage[i] \in {"tell", "restart"} => At(i) \in attempted
    /\ \A j \in Jobs : stage[j] # "idle" => At(j) \notin followed

(* At first no release was requested.                                       *)
LEMMA InitTries == UpdatesInit => Tries
BY DEF UpdatesInit, Tries

(* Every step keeps the record of an attempt before its restart             *)
(* (updates.py, follow_update).                                             *)
LEMMA NextTries == Tries /\ [UpdatesNext]_updateVars => Tries'
<1> SUFFICES ASSUME Tries, [UpdatesNext]_updateVars PROVE Tries'
  OBVIOUS
<1> USE UpdatesAssumption DEF Tries, GoOn, Installing, Installers, At
<1>1. ASSUME NEW i \in Installers, Press(i) PROVE Tries'
  BY <1>1 DEF Press, Install
<1>2. ASSUME NEW i \in Installers, Follow(i) PROVE Tries'
  BY <1>2 DEF Follow, Install
<1>3. ASSUME NEW i \in Installers,
             TimeOut(i) \/ Unlink(i) \/ Extract(i)
      PROVE  Tries'
  BY <1>3 DEF TimeOut, Unlink, Extract
<1>4. ASSUME NEW i \in Installers,
             InstallFails(i) \/ Verified(i) \/ MakeStaging(i) \/ Checked(i) \/ Move(i)
      PROVE  Tries'
  BY <1>4 DEF InstallFails, Verified, MakeStaging, Checked, Move
<1>5. ASSUME NEW i \in Installers, Tidied(i) PROVE Tries'
  BY <1>5 DEF Tidied
<1>6. ASSUME NEW i \in Installers, Record(i) PROVE Tries'
  BY <1>6 DEF Record
<1>7. ASSUME NEW i \in Installers, RecordFails(i) \/ Tell(i) PROVE Tries'
  BY <1>7 DEF RecordFails, Tell
<1>8. ASSUME NEW i \in Installers, SwitchTo(i) PROVE Tries'
  BY <1>8 DEF SwitchTo, Ending
<1>9. ASSUME NEW c \in Containers, BackToImage(c) PROVE Tries'
  BY <1>9 DEF BackToImage, Ending
<1>10. CASE ForgetTarget
  BY <1>10 DEF ForgetTarget
<1>11. CASE UNCHANGED updateVars
  BY <1>11 DEF updateVars
<1> QED
  BY <1>1, <1>2, <1>3, <1>4, <1>5, <1>6, <1>7, <1>8, <1>9, <1>10, <1>11
     DEF UpdatesNext, InstallStep

(* No container follows the same release a second time, whatever failed,    *)
(* timed out or restarted on the way (webapp/updates.py, follow_update).    *)
THEOREM ReleaseIsTriedOnce == UpdatesSpec => []TriedOnce
<1>1. Tries => TriedOnce
  BY DEF Tries, TriedOnce
<1> QED
  BY <1>1, InitTries, NextTries, PTL DEF UpdatesSpec

-----------------------------------------------------------------------------
(* The reference data *)

(* One document is stored at a time, and only a usable one.                 *)
OneUsableDocument ==
    /\ \A d, e \in database : d = e
    /\ \A d \in database : Usable(d)

(* At first there is one document, and it is usable.                        *)
LEMMA InitReference == ReferenceInit => ReferenceTypeOK /\ OneUsableDocument
<1> SUFFICES ASSUME ReferenceInit PROVE ReferenceTypeOK /\ OneUsableDocument
  OBVIOUS
<1> USE ReferenceDataAssumption DEF ReferenceInit
<1>1. previous \in [Refreshers -> SUBSET Advisories]
  BY Zenon
<1>2. fetched \in [Refreshers -> SUBSET (Advisories \cup {Unbounded})]
  BY Zenon
<1>3. refresh \in [Refreshers ->
                    {"idle", "claim", "read", "fetch", "judge"} \cup RefreshOutcomes]
  OBVIOUS
<1>4. database \in SUBSET SUBSET (Advisories \cup {Unbounded})
  OBVIOUS
<1>5. attempt \in RefreshOutcomes \cup {"none"} /\ images \in 0..MaxImages
  OBVIOUS
<1>6. OneUsableDocument
  BY DEF OneUsableDocument
<1>7. bundled \subseteq Advisories /\ feed \subseteq Advisories \cup {Unbounded}
  OBVIOUS
<1>8. cooling \in BOOLEAN
  OBVIOUS
<1> QED
  BY ONLY <1>1, <1>2, <1>3, <1>4, <1>5, <1>6, <1>7, <1>8 DEF ReferenceTypeOK

(* Every round trip of a refresh, and a redeployment, keep it so.           *)
LEMMA NextReference ==
    ReferenceTypeOK /\ OneUsableDocument /\ [ReferenceNext]_referenceVars
        => ReferenceTypeOK' /\ OneUsableDocument'
<1> SUFFICES ASSUME ReferenceTypeOK, OneUsableDocument, [ReferenceNext]_referenceVars
             PROVE  ReferenceTypeOK' /\ OneUsableDocument'
  OBVIOUS
<1> USE ReferenceDataAssumption
        DEF ReferenceTypeOK, OneUsableDocument, RefreshOutcomes, Ends, Usable
<1>1. ASSUME NEW r \in Refreshers, LookAtCooldown(r) \/ ClaimCooldown(r)
      PROVE  ReferenceTypeOK' /\ OneUsableDocument'
  BY <1>1 DEF LookAtCooldown, ClaimCooldown
<1>2. ASSUME NEW r \in Refreshers, ReadPrevious(r)
      PROVE  ReferenceTypeOK' /\ OneUsableDocument'
  <2>1. UNION database \subseteq Advisories
    OBVIOUS
  <2>2. WithFloor(UNION database) \in SUBSET Advisories
    BY <2>1 DEF WithFloor
  <2> QED
    BY <1>2, <2>2 DEF ReadPrevious
<1>3. ASSUME NEW r \in Refreshers, FetchFeed(r)
      PROVE  ReferenceTypeOK' /\ OneUsableDocument'
  BY <1>3 DEF FetchFeed
<1>4. ASSUME NEW r \in Refreshers, FetchFails(r) \/ RejectFetched(r)
      PROVE  ReferenceTypeOK' /\ OneUsableDocument'
  BY <1>4 DEF FetchFails, RejectFetched
<1>5. ASSUME NEW r \in Refreshers, WriteFetched(r)
      PROVE  ReferenceTypeOK' /\ OneUsableDocument'
  BY <1>5 DEF WriteFetched
<1>6. ASSUME NEW r \in Refreshers, Note(r)
      PROVE  ReferenceTypeOK' /\ OneUsableDocument'
  BY <1>6 DEF Note
<1>7. CASE CooldownEnds
  BY <1>7 DEF CooldownEnds
<1>8. CASE FeedChanges
  BY <1>8 DEF FeedChanges
<1>9. CASE Redeploy
  BY <1>9 DEF Redeploy
<1>10. CASE UNCHANGED referenceVars
  BY <1>10 DEF referenceVars
<1> QED
  BY <1>1, <1>2, <1>3, <1>4, <1>5, <1>6, <1>7, <1>8, <1>9, <1>10
     DEF ReferenceNext, Refresh

(* What a refresh has read and merged stays made of advisories, and what is *)
(* stored, of usable ones: an unbounded record of the feed gets as far as   *)
(* the refresh that judges it (webapp/advisories.py, _is_usable).           *)
THEOREM ReferenceTypeCorrect == ReferenceSpec => [](ReferenceTypeOK /\ OneUsableDocument)
BY InitReference, NextReference, PTL DEF ReferenceSpec

(* Whichever refresh, press and redeployment are interleaved, a scan is     *)
(* rated against every advisory of its own image and against no unbounded   *)
(* one (webapp/advisories.py, stored_database and _with_bundled_floor).     *)
THEOREM FloorIsKept == ReferenceSpec => []RatedAgainstTheFloor
<1>1. ReferenceTypeOK /\ OneUsableDocument => RatedAgainstTheFloor
  BY ReferenceDataAssumption
     DEF ReferenceTypeOK, OneUsableDocument, RatedAgainstTheFloor, StoredDatabase,
         WithFloor, Usable
<1> QED
  BY <1>1, ReferenceTypeCorrect, PTL

=============================================================================
