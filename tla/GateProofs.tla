------------------------------ MODULE GateProofs ------------------------------
(***************************************************************************)
(* What stands between a visitor and a probe.  The probe guard, for any    *)
(* number of strikes counted side by side, any limit and any lengths: by   *)
(* an inductive invariant that relates how far a strike is to what the     *)
(* block still has to run.  The admission of a target, for any number of   *)
(* visitors, hosts and operator requests - and, of the exclusions, while   *)
(* operator requests do not overlap.                                       *)
(***************************************************************************)
EXTENDS StrikeGuard, Admission, FiniteSetTheorems, TLAPS

(* What the assumptions say of the lengths.                                 *)
LEMMA Lengths ==
    /\ Limit \in Nat /\ Limit >= 1
    /\ Window \in Nat /\ Window >= 1
    /\ Block \in Nat /\ Block >= 2
    /\ Ceiling \in Nat /\ Block <= Ceiling
    /\ RepeatWindow \in Nat
    /\ MaxRepeat \in Nat /\ MaxRepeat >= 1
    /\ MaxDeaths \in Nat
    /\ \A n \in 1..MaxRepeat : Duration(n) \in Block..Ceiling
BY LimitsAssumption, TimesAssumption, MaxRepeatAssumption, DurationAssumption
   DEF Ceiling, Longer

(* A set without two different members has one, or none.                    *)
LEMMA AtMostOne ==
    ASSUME NEW S \in SUBSET Strikers, \A s, t \in S : s = t
    PROVE  Cardinality(S) = IF S = {} THEN 0 ELSE 1
<1>1. CASE S = {}
  BY <1>1, FS_EmptySet
<1>2. CASE S # {}
  <2>1. PICK s \in S : TRUE
    BY <1>2
  <2>2. S = {s}
    BY <2>1
  <2> QED
    BY <1>2, <2>2, FS_Singleton
<1> QED
  BY <1>1, <1>2

(* How many blocks are uncounted is a number, whatever the strikes do.      *)
LEMMA UncountedType == Uncounted \in Nat
<1>1. IsFiniteSet({s \in Strikers : step[s] = "repeat"})
  BY StrikersAssumption, FS_Subset
<1> QED
  BY <1>1, FS_CardinalityType DEF Uncounted

-----------------------------------------------------------------------------
(* Every value keeps its shape.                                             *)
LEMMA GuardInitTypeOK == Init => TypeOK
BY Lengths DEF Init, TypeOK, Steps, InBlock

(* Every command of a strike, a tick and a death keep the types.            *)
LEMMA GuardNextTypeOK == TypeOK /\ [Next]_vars => TypeOK'
<1> SUFFICES ASSUME TypeOK, [Next]_vars PROVE TypeOK'
  OBVIOUS
<1> USE Lengths DEF TypeOK, Steps, InBlock, Goto, keys
<1>1. ASSUME NEW s \in Strikers, Submit(s) PROVE TypeOK'
  BY <1>1 DEF Submit
<1>2. ASSUME NEW s \in Strikers, FindOpenCloud(s) PROVE TypeOK'
  BY <1>2 DEF FindOpenCloud
<1>3. ASSUME NEW s \in Strikers, CountStrike(s) PROVE TypeOK'
  BY <1>3 DEF CountStrike, Shorter
<1>4. ASSUME NEW s \in Strikers, ReadWindow(s) PROVE TypeOK'
  BY <1>4 DEF ReadWindow, AfterWindow
<1>5. ASSUME NEW s \in Strikers, RenewWindow(s) PROVE TypeOK'
  BY <1>5 DEF RenewWindow, AfterWindow
<1>6. ASSUME NEW s \in Strikers, ClaimBlock(s) PROVE TypeOK'
  BY <1>6 DEF ClaimBlock
<1>7. ASSUME NEW s \in Strikers, CountBlock(s) PROVE TypeOK'
  <2>1. repeat' \in 1..MaxRepeat
    BY <1>7 DEF CountBlock, Shorter
  <2> QED
    BY <1>7, <2>1 DEF CountBlock
<1>8. ASSUME NEW s \in Strikers, ExtendBlock(s) PROVE TypeOK'
  BY <1>8 DEF ExtendBlock
<1>9. ASSUME NEW s \in Strikers, RememberBlock(s) PROVE TypeOK'
  BY <1>9 DEF RememberBlock
<1>10. ASSUME NEW s \in Strikers, ForgetStrikes(s) PROVE TypeOK'
  BY <1>10 DEF ForgetStrikes
<1>11. ASSUME NEW s \in Strikers, Die(s) PROVE TypeOK'
  BY <1>11 DEF Die
<1>12. CASE Tick
  BY <1>12, UncountedType DEF Tick, Less
<1>13. CASE UNCHANGED vars
  BY <1>13 DEF vars
<1> QED
  BY <1>1, <1>2, <1>3, <1>4, <1>5, <1>6, <1>7, <1>8, <1>9, <1>10, <1>11, <1>12,
     <1>13 DEF Next, RecordStrike

(* Types, as a theorem of the specification.                                *)
THEOREM GuardTypeCorrect == Spec => []TypeOK
BY GuardInitTypeOK, GuardNextTypeOK, PTL DEF Spec

-----------------------------------------------------------------------------
(* Whoever began a block is alone with it                                   *)

(* Nobody but the one who began a block is between the commands of one.     *)
LEMMA GuardedIsAlone == TypeOK /\ Guarded /\ blockLeft = 0 =>
    \A s \in Strikers : step[s] \notin InBlock
BY DEF TypeOK, Guarded

(* At first nobody has begun a block.                                       *)
LEMMA InitGuarded == Init => Guarded /\ OneBlocker
BY DEF Init, Guarded, OneBlocker, InBlock

(* Every step keeps the block with the one who began it, because the block  *)
(* outlasts that striker's commands (ratelimit.py, record_strike).          *)
LEMMA NextGuarded ==
    TypeOK /\ Guarded /\ OneBlocker /\ [Next]_vars => Guarded' /\ OneBlocker'
<1> SUFFICES ASSUME TypeOK, Guarded, OneBlocker, [Next]_vars
             PROVE  Guarded' /\ OneBlocker'
  OBVIOUS
<1> USE Lengths DEF TypeOK, Steps, InBlock, Guarded, OneBlocker, Goto, keys
<1>1. ASSUME NEW s \in Strikers, Submit(s) PROVE Guarded' /\ OneBlocker'
  BY <1>1 DEF Submit
<1>2. ASSUME NEW s \in Strikers, FindOpenCloud(s) PROVE Guarded' /\ OneBlocker'
  BY <1>2 DEF FindOpenCloud
<1>3. ASSUME NEW s \in Strikers, CountStrike(s) PROVE Guarded' /\ OneBlocker'
  BY <1>3 DEF CountStrike
<1>4. ASSUME NEW s \in Strikers, ReadWindow(s) PROVE Guarded' /\ OneBlocker'
  BY <1>4 DEF ReadWindow, AfterWindow
<1>5. ASSUME NEW s \in Strikers, RenewWindow(s) PROVE Guarded' /\ OneBlocker'
  BY <1>5 DEF RenewWindow, AfterWindow
<1>6. ASSUME NEW s \in Strikers, ClaimBlock(s) PROVE Guarded' /\ OneBlocker'
  <2>1. CASE blockLeft > 0
    BY <1>6, <2>1 DEF ClaimBlock
  <2>2. CASE blockLeft = 0
    BY <1>6, <2>2, GuardedIsAlone DEF ClaimBlock
  <2> QED
    BY <2>1, <2>2
<1>7. ASSUME NEW s \in Strikers, CountBlock(s) PROVE Guarded' /\ OneBlocker'
  <2>1. repeat' \in 1..MaxRepeat
    BY <1>7 DEF CountBlock, Shorter
  <2>2. length'[s] \in Block..Ceiling
    BY <1>7, <2>1 DEF CountBlock
  <2> QED
    BY <1>7, <2>2 DEF CountBlock
<1>8. ASSUME NEW s \in Strikers, ExtendBlock(s) PROVE Guarded' /\ OneBlocker'
  BY <1>8 DEF ExtendBlock
<1>9. ASSUME NEW s \in Strikers, RememberBlock(s) PROVE Guarded' /\ OneBlocker'
  BY <1>9 DEF RememberBlock
<1>10. ASSUME NEW s \in Strikers, ForgetStrikes(s) PROVE Guarded' /\ OneBlocker'
  BY <1>10 DEF ForgetStrikes
<1>11. ASSUME NEW s \in Strikers, Die(s) PROVE Guarded' /\ OneBlocker'
  BY <1>11 DEF Die
<1>12. CASE Tick
  BY <1>12 DEF Tick, Less
<1>13. CASE UNCHANGED vars
  BY <1>13 DEF vars
<1> QED
  BY <1>1, <1>2, <1>3, <1>4, <1>5, <1>6, <1>7, <1>8, <1>9, <1>10, <1>11, <1>12,
     <1>13 DEF Next, RecordStrike

(* Whoever began a block is alone with it.                                  *)
LEMMA GuardedHolds == Spec => [](Guarded /\ OneBlocker)
BY InitGuarded, NextGuarded, GuardTypeCorrect, PTL DEF Spec

(* Two workers that reach the limit together start one block: whoever's SET *)
(* NX is second finds it running, and it still runs when the first is done  *)
(* (webapp/ratelimit.py, record_strike).                                    *)
THEOREM OneBlockerOnly == Spec => []OneBlocker
BY GuardedHolds, PTL

(* Nothing but the EXPIRE of the one who began a block changes how long it  *)
(* runs (record_strike: strikes that land while a block runs change nothing)*)
THEOREM BlockIsLeftAlone == Spec => BlockRunsItsLength
<1> USE DEF TypeOK
<1>1. ASSUME TypeOK, [Next]_vars, blockLeft > 0, blockLeft' # blockLeft
      PROVE  \/ blockLeft' = blockLeft - 1
             \/ \E s \in Strikers : step[s] = "extend" /\ step'[s] = "remember"
  <2>1. ASSUME NEW s \in Strikers, Submit(s) \/ FindOpenCloud(s) \/ Die(s)
        PROVE  blockLeft' = blockLeft
    BY <2>1 DEF Submit, FindOpenCloud, Die, keys
  <2>2. ASSUME NEW s \in Strikers, RecordStrike(s), ~ ExtendBlock(s)
        PROVE  blockLeft' = blockLeft
    BY <1>1, <2>2 DEF RecordStrike, CountStrike, ReadWindow, RenewWindow, ClaimBlock,
                      CountBlock, RememberBlock, ForgetStrikes, keys
  <2>3. ASSUME NEW s \in Strikers, ExtendBlock(s)
        PROVE  step[s] = "extend" /\ step'[s] = "remember"
    BY <1>1, <2>3 DEF ExtendBlock, Goto
  <2>4. CASE Tick
    BY <1>1, <2>4 DEF Tick, Less
  <2>5. CASE UNCHANGED vars
    BY <1>1, <2>5 DEF vars, keys
  <2> QED
    BY <1>1, <2>1, <2>2, <2>3, <2>4, <2>5 DEF Next
<1>2. TypeOK /\ [Next]_vars
        => [blockLeft > 0 /\ blockLeft' # blockLeft
              => \/ blockLeft' = blockLeft - 1
                 \/ \E s \in Strikers : step[s] = "extend" /\ step'[s] = "remember"]_vars
  BY <1>1
<1> QED
  BY <1>2, GuardTypeCorrect, PTL DEF Spec, BlockRunsItsLength

-----------------------------------------------------------------------------
(* Counters without an expiry *)

(* No step but a death between two commands leaves a counter without        *)
(* expiry.                                                                  *)
LEMMA NextOpenEnded ==
    TypeOK /\ Guarded /\ OpenEndedOnlyByDeath /\ [Next]_vars => OpenEndedOnlyByDeath'
<1> SUFFICES ASSUME TypeOK, Guarded, OpenEndedOnlyByDeath, [Next]_vars
             PROVE  OpenEndedOnlyByDeath'
  OBVIOUS
<1> USE Lengths DEF TypeOK, Steps, InBlock, OpenEndedOnlyByDeath, Goto, keys
<1>1. ASSUME NEW s \in Strikers, Submit(s) PROVE OpenEndedOnlyByDeath'
  BY <1>1 DEF Submit
<1>2. ASSUME NEW s \in Strikers, FindOpenCloud(s) PROVE OpenEndedOnlyByDeath'
  BY <1>2 DEF FindOpenCloud
<1>3. ASSUME NEW s \in Strikers, CountStrike(s) PROVE OpenEndedOnlyByDeath'
  BY <1>3 DEF CountStrike
<1>4. ASSUME NEW s \in Strikers, ReadWindow(s) PROVE OpenEndedOnlyByDeath'
  BY <1>4 DEF ReadWindow, AfterWindow
<1>5. ASSUME NEW s \in Strikers, RenewWindow(s) PROVE OpenEndedOnlyByDeath'
  BY <1>5 DEF RenewWindow, AfterWindow
<1>6. ASSUME NEW s \in Strikers, ClaimBlock(s) PROVE OpenEndedOnlyByDeath'
  BY <1>6 DEF ClaimBlock
<1>7. ASSUME NEW s \in Strikers, CountBlock(s) PROVE OpenEndedOnlyByDeath'
  BY <1>7 DEF CountBlock
<1>8. ASSUME NEW s \in Strikers, ExtendBlock(s) PROVE OpenEndedOnlyByDeath'
  BY <1>8 DEF ExtendBlock
<1>9. ASSUME NEW s \in Strikers, RememberBlock(s) PROVE OpenEndedOnlyByDeath'
  <2>1. length[s] \in Block..Ceiling
    BY <1>9 DEF RememberBlock, Guarded
  <2> QED
    BY <1>9, <2>1 DEF RememberBlock
<1>10. ASSUME NEW s \in Strikers, ForgetStrikes(s) PROVE OpenEndedOnlyByDeath'
  BY <1>10 DEF ForgetStrikes
<1>11. ASSUME NEW s \in Strikers, Die(s) PROVE OpenEndedOnlyByDeath'
  BY <1>11 DEF Die
<1>12. CASE Tick
  BY <1>12 DEF Tick, Less
<1>13. CASE UNCHANGED vars
  BY <1>13 DEF vars
<1> QED
  BY <1>1, <1>2, <1>3, <1>4, <1>5, <1>6, <1>7, <1>8, <1>9, <1>10, <1>11, <1>12,
     <1>13 DEF Next, RecordStrike

(* While no worker dies, every counter of the guard is given an expiry by   *)
(* whoever counted it (record_strike, the EXPIREs after both INCRs).        *)
THEOREM OnlyDeathLeavesItOpen == Spec => []OpenEndedOnlyByDeath
<1>1. Init => OpenEndedOnlyByDeath
  BY DEF Init, OpenEndedOnlyByDeath
<1> QED
  BY <1>1, NextOpenEnded, GuardTypeCorrect, GuardedHolds, PTL DEF Spec

-----------------------------------------------------------------------------
(* Remembering a block *)

(* Every step keeps the memory of a block at least as long as the block.    *)
LEMMA NextRemembered ==
    TypeOK /\ Guarded /\ RememberedFromItsEnd /\ [Next]_vars => RememberedFromItsEnd'
<1> SUFFICES ASSUME TypeOK, Guarded, RememberedFromItsEnd, [Next]_vars
             PROVE  RememberedFromItsEnd'
  OBVIOUS
<1> USE Lengths DEF TypeOK, Steps, InBlock, RememberedFromItsEnd, Goto, keys
<1>1. ASSUME NEW s \in Strikers, Submit(s) PROVE RememberedFromItsEnd'
  BY <1>1 DEF Submit
<1>2. ASSUME NEW s \in Strikers, FindOpenCloud(s) PROVE RememberedFromItsEnd'
  BY <1>2 DEF FindOpenCloud
<1>3. ASSUME NEW s \in Strikers, CountStrike(s) PROVE RememberedFromItsEnd'
  BY <1>3 DEF CountStrike
<1>4. ASSUME NEW s \in Strikers, ReadWindow(s) PROVE RememberedFromItsEnd'
  BY <1>4 DEF ReadWindow, AfterWindow
<1>5. ASSUME NEW s \in Strikers, RenewWindow(s) PROVE RememberedFromItsEnd'
  BY <1>5 DEF RenewWindow, AfterWindow
<1>6. ASSUME NEW s \in Strikers, ClaimBlock(s) PROVE RememberedFromItsEnd'
  BY <1>6 DEF ClaimBlock
<1>7. ASSUME NEW s \in Strikers, CountBlock(s) PROVE RememberedFromItsEnd'
  BY <1>7 DEF CountBlock
<1>8. ASSUME NEW s \in Strikers, ExtendBlock(s) PROVE RememberedFromItsEnd'
  BY <1>8 DEF ExtendBlock
<1>9. ASSUME NEW s \in Strikers, RememberBlock(s) PROVE RememberedFromItsEnd'
  <2>1. length[s] \in {blockLeft, blockLeft + 1}
    BY <1>9 DEF RememberBlock, Guarded
  <2> QED
    BY <1>9, <2>1 DEF RememberBlock
<1>10. ASSUME NEW s \in Strikers, ForgetStrikes(s) PROVE RememberedFromItsEnd'
  BY <1>10 DEF ForgetStrikes
<1>11. ASSUME NEW s \in Strikers, Die(s) PROVE RememberedFromItsEnd'
  BY <1>11 DEF Die
<1>12. CASE Tick
  BY <1>12 DEF Tick, Less
<1>13. CASE UNCHANGED vars
  BY <1>13 DEF vars
<1> QED
  BY <1>1, <1>2, <1>3, <1>4, <1>5, <1>6, <1>7, <1>8, <1>9, <1>10, <1>11, <1>12,
     <1>13 DEF Next, RecordStrike

(* A block is remembered for the repeat window from its end, whatever its   *)
(* length and whoever counts beside it (record_strike: "remembered from the *)
(* end of this block, not its start").                                      *)
THEOREM BlocksAreRemembered == Spec => []RememberedFromItsEnd
<1>1. Init => RememberedFromItsEnd
  BY DEF Init, RememberedFromItsEnd
<1> QED
  BY <1>1, NextRemembered, GuardTypeCorrect, GuardedHolds, PTL DEF Spec

-----------------------------------------------------------------------------
(* Escalation *)

(* Before and after a step at most one block is uncounted.                  *)
LEMMA UncountedIsOne == TypeOK /\ OneBlocker =>
    Uncounted = IF \E s \in Strikers : step[s] = "repeat" THEN 1 ELSE 0
<1> SUFFICES ASSUME TypeOK, OneBlocker
             PROVE  Uncounted = IF \E s \in Strikers : step[s] = "repeat" THEN 1 ELSE 0
  OBVIOUS
<1> DEFINE S == {s \in Strikers : step[s] = "repeat"}
<1>1. \A s, t \in S : s = t
  BY DEF OneBlocker, InBlock
<1>2. Cardinality(S) = IF S = {} THEN 0 ELSE 1
  BY <1>1, AtMostOne
<1> QED
  BY <1>2 DEF Uncounted

(* As one at most holds a block, one at most is about to count it.          *)
LEMMA UncountedNextIsOne == OneBlocker' =>
    Uncounted' = IF \E s \in Strikers : step'[s] = "repeat" THEN 1 ELSE 0
<1> SUFFICES ASSUME OneBlocker'
             PROVE  Uncounted' = IF \E s \in Strikers : step'[s] = "repeat" THEN 1 ELSE 0
  OBVIOUS
<1> DEFINE S == {s \in Strikers : step'[s] = "repeat"}
<1>1. \A s, t \in S : s = t
  BY DEF OneBlocker, InBlock
<1>2. Cardinality(S) = IF S = {} THEN 0 ELSE 1
  BY <1>1, AtMostOne
<1> QED
  BY <1>2 DEF Uncounted

(* A block that nobody will count any more leaves the tally a bound.        *)
LEMMA FewerUncounted ==
    ASSUME NEW a \in 0..1, NEW b \in 0..1, b <= a,
           NEW n \in Nat, NEW m \in Nat, NEW r \in 0..m, Shorter(r + a, m) <= n
    PROVE  Shorter(r + b, m) <= n
BY DEF Shorter

(* Every step keeps the repeat counter behind the blocks begun by those     *)
(* that are not counted yet (ratelimit.py, record_strike).                  *)
LEMMA NextTallied ==
    TypeOK /\ Guarded /\ OneBlocker /\ OneBlocker' /\ Tallied /\ [Next]_vars => Tallied'
<1> SUFFICES ASSUME TypeOK, Guarded, OneBlocker, OneBlocker', Tallied, [Next]_vars
             PROVE  Tallied'
  OBVIOUS
<1> DEFINE open(f) == \E s \in Strikers : f[s] = "repeat"
<1>a. Uncounted = IF open(step) THEN 1 ELSE 0
  BY UncountedIsOne
<1>b. Uncounted' = IF open(step') THEN 1 ELSE 0
  BY UncountedNextIsOne
<1> USE <1>a, <1>b, Lengths DEF TypeOK, Steps, Tallied, Shorter, Goto, keys
<1>1. ASSUME NEW s \in Strikers,
             \/ Submit(s) \/ FindOpenCloud(s) \/ CountStrike(s) \/ ReadWindow(s)
             \/ RenewWindow(s) \/ ExtendBlock(s) \/ RememberBlock(s) \/ ForgetStrikes(s)
      PROVE  Tallied'
  <2>1. UNCHANGED <<repeat, begun, deaths>>
    BY <1>1 DEF Submit, FindOpenCloud, CountStrike, ReadWindow, RenewWindow,
                ExtendBlock, RememberBlock, ForgetStrikes
  <2>2. \A t \in Strikers : step'[t] = "repeat" <=> step[t] = "repeat"
    BY <1>1 DEF Submit, FindOpenCloud, CountStrike, ReadWindow, RenewWindow,
                ExtendBlock, RememberBlock, ForgetStrikes, AfterWindow
  <2>3. open(step') <=> open(step)
    BY <2>2
  <2>4. Uncounted' = Uncounted
    BY <2>3
  <2> HIDE <1>a, <1>b DEF open
  <2> QED
    BY <2>1, <2>4
<1>2. ASSUME NEW s \in Strikers, ClaimBlock(s) PROVE Tallied'
  <2>1. CASE blockLeft > 0
    <3>1. UNCHANGED <<repeat, begun, deaths>>
      BY <1>2, <2>1 DEF ClaimBlock
    <3>2. Uncounted' = Uncounted
      BY <1>2, <2>1 DEF ClaimBlock
    <3> QED
      BY <3>1, <3>2
  <2>2. CASE blockLeft = 0
    <3>1. ~ open(step)
      BY <2>2, GuardedIsAlone DEF InBlock
    <3>2. Uncounted = 0 /\ Uncounted' = 1
      BY <1>2, <2>2, <3>1 DEF ClaimBlock
    <3>3. UNCHANGED <<repeat, deaths>>
      BY <1>2 DEF ClaimBlock
    <3>4. begun' = IF begun > MaxRepeat THEN begun ELSE begun + 1
      BY <1>2, <2>2 DEF ClaimBlock
    <3> HIDE <1>a, <1>b DEF open
    <3> QED
      BY <3>2, <3>3, <3>4
  <2> QED
    BY <2>1, <2>2
<1>3. ASSUME NEW s \in Strikers, CountBlock(s) PROVE Tallied'
  <2>1. open(step)
    BY <1>3 DEF CountBlock
  <2>2. ~ open(step')
    BY <1>3 DEF CountBlock, OneBlocker, InBlock
  <2>3. Uncounted = 1 /\ Uncounted' = 0
    BY <2>1, <2>2
  <2>4. repeat' = Shorter(repeat + 1, MaxRepeat) /\ UNCHANGED <<begun, deaths>>
    BY <1>3 DEF CountBlock
  <2> HIDE <1>a, <1>b DEF open
  <2> QED
    BY <2>3, <2>4
<1>4. ASSUME NEW s \in Strikers, Die(s) PROVE Tallied'
  <2>1. open(step') => open(step)
    BY <1>4 DEF Die
  <2>2. UNCHANGED <<repeat, begun>> /\ deaths' = deaths + 1
    BY <1>4 DEF Die
  <2>3. Uncounted' <= Uncounted /\ Uncounted \in 0..1 /\ Uncounted' \in 0..1
    BY <2>1
  <2> HIDE <1>a, <1>b DEF open
  <2>4. deaths' # 0
    BY <2>2
  <2>5. Shorter(repeat + Uncounted', MaxRepeat) <= begun
    BY <2>3, FewerUncounted
  <2> QED
    BY <2>2, <2>4, <2>5
<1>5. CASE Tick
  <2>1. Uncounted' = Uncounted /\ Uncounted \in {0, 1}
    BY <1>5 DEF Tick
  <2>2. CASE repeatLeft = 1
    <3>1. repeat' = 0 /\ begun' = Uncounted
      BY <1>5, <2>2 DEF Tick
    <3> HIDE <1>a, <1>b DEF open
    <3> QED
      BY <2>1, <3>1
  <2>3. CASE repeatLeft # 1
    <3>1. UNCHANGED <<repeat, begun, deaths>>
      BY <1>5, <2>3 DEF Tick
    <3> HIDE <1>a, <1>b DEF open
    <3> QED
      BY <2>1, <3>1
  <2> QED
    BY <2>2, <2>3
<1>6. CASE UNCHANGED vars
  <2>1. Uncounted' = Uncounted
    BY <1>6 DEF vars
  <2> QED
    BY <1>6, <2>1 DEF vars
<1> QED
  BY <1>1, <1>2, <1>3, <1>4, <1>5, <1>6 DEF Next, RecordStrike

(* Every block begun inside the repeat window makes the next one longer     *)
(* once: the repeat counter never counts more than were begun, and but for  *)
(* those still to be counted - and for deaths - no fewer (record_strike).   *)
THEOREM EscalatesOnce == Spec => []EscalatesOncePerBlock
<1>1. Init => Tallied
  <2>1. Init => TypeOK /\ OneBlocker
    BY GuardInitTypeOK, InitGuarded
  <2> QED
    BY <2>1, UncountedIsOne, Lengths DEF Init, Tallied, Shorter
<1>2. TypeOK /\ OneBlocker /\ Tallied => EscalatesOncePerBlock
  BY UncountedIsOne, Lengths DEF TypeOK, Tallied, EscalatesOncePerBlock, Shorter
<1> QED
  BY <1>1, <1>2, NextTallied, GuardTypeCorrect, GuardedHolds, PTL DEF Spec

-----------------------------------------------------------------------------
(* The admission of a target *)

(* Every value keeps its shape.                                             *)
LEMMA AdmissionInitTypeOK == AdmissionInit => AdmissionTypeOK
BY HostsAssumption DEF AdmissionInit, AdmissionTypeOK, Edits, NoEdit, VisitSteps

(* Every step of a submission, a job and an operator keeps the types.       *)
LEMMA AdmissionNextTypeOK == AdmissionTypeOK /\ [AdmissionNext]_admissionVars => AdmissionTypeOK'
<1> SUFFICES ASSUME AdmissionTypeOK, [AdmissionNext]_admissionVars PROVE AdmissionTypeOK'
  OBVIOUS
<1> USE DEF AdmissionTypeOK, Edits, VisitSteps, Claimed
<1> NoEdit \in Edits
  BY HostsAssumption DEF NoEdit
<1>1. ASSUME NEW o \in Operators, NEW h \in Hosts, AddExclusion(o, h) PROVE AdmissionTypeOK'
  BY <1>1 DEF AddExclusion, Acknowledge, Editing
<1>2. ASSUME NEW o \in Operators, NEW h \in Hosts, RemoveExclusion(o, h) PROVE AdmissionTypeOK'
  BY <1>2 DEF RemoveExclusion, Editing
<1>3. ASSUME NEW o \in Operators, WriteExclusions(o) PROVE AdmissionTypeOK'
  BY <1>3 DEF WriteExclusions, Acknowledge
<1>4. ASSUME NEW o \in Operators, AbandonEdit(o) PROVE AdmissionTypeOK'
  BY <1>4 DEF AbandonEdit
<1>5. ASSUME NEW v \in Visitors, Scan(v) PROVE AdmissionTypeOK'
  BY <1>5 DEF Scan, Arrive, Validate, Approve, ClaimTarget, RegisterScan,
              StartScan, Revalidate, ReadSchedule, ReadDatabase, EndScan, Advance
<1>6. ASSUME NEW h \in Hosts, EndCooldown(h) PROVE AdmissionTypeOK'
  BY <1>6 DEF EndCooldown
<1>7. CASE UNCHANGED admissionVars
  BY <1>7 DEF admissionVars
<1> QED
  BY <1>1, <1>2, <1>3, <1>4, <1>5, <1>6, <1>7 DEF AdmissionNext, Edit

(* Types, as a theorem of the specification.                                *)
THEOREM AdmissionTypeCorrect == AdmissionSpec => []AdmissionTypeOK
BY AdmissionInitTypeOK, AdmissionNextTypeOK, PTL DEF AdmissionSpec

-----------------------------------------------------------------------------
(* Exclusions *)

(* A list with room for one more entry has at most MaxStored with it, and   *)
(* one without an entry no more than it had (blocklist.py, add_exclusion).  *)
LEMMA OneEntry ==
    ASSUME NEW L \in SUBSET Hosts, NEW h \in Hosts
    PROVE  /\ Cardinality(L) \in Nat
           /\ Cardinality(L) < MaxStored => Cardinality(L \cup {h}) <= MaxStored
           /\ Cardinality(L) <= MaxStored => Cardinality(L \ {h}) <= MaxStored
<1>1. IsFiniteSet(L)
  BY HostsAssumption, FS_Subset
<1>2. Cardinality(L) \in Nat
  BY <1>1, FS_CardinalityType
<1>3. Cardinality(L \cup {h}) \in {Cardinality(L), Cardinality(L) + 1}
  BY <1>1, FS_AddElement
<1>4. Cardinality(L \ {h}) \in {Cardinality(L), Cardinality(L) - 1}
  BY <1>1, FS_RemoveElement
<1> QED
  BY <1>2, <1>3, <1>4, MaxStoredAssumption

(* The area never stores more entries than it says, however many requests   *)
(* read the list at once and write it later (MAX_STORED_ENTRIES).           *)
THEOREM CeilingHolds == AdmissionSpec => []StoredWithinCeiling
<1>0. NoEdit.draft = {} /\ Cardinality({}) <= MaxStored
  BY FS_EmptySet, MaxStoredAssumption DEF NoEdit
<1>1. AdmissionInit => StoredWithinCeiling
  BY <1>0 DEF AdmissionInit, StoredWithinCeiling
<1>2. AdmissionTypeOK /\ StoredWithinCeiling /\ [AdmissionNext]_admissionVars => StoredWithinCeiling'
  <2> SUFFICES ASSUME AdmissionTypeOK, StoredWithinCeiling, [AdmissionNext]_admissionVars
               PROVE  StoredWithinCeiling'
    OBVIOUS
  <2> USE DEF StoredWithinCeiling, AdmissionTypeOK, Edits
  <2>0. Cardinality(NoEdit.draft) <= MaxStored
    BY <1>0
  <2>1. ASSUME NEW o \in Operators, NEW h \in Hosts, AddExclusion(o, h)
        PROVE  StoredWithinCeiling'
    <3>1. CASE h \in Excluded
      BY <2>1, <3>1 DEF AddExclusion
    <3>2. CASE h \notin Excluded
      <4>1. Cardinality(stored \cup {h}) <= MaxStored
        BY <2>1, <3>2, OneEntry DEF AddExclusion
      <4>2. \A p \in Operators :
              edit'[p].draft \in {edit[p].draft, stored \cup {h}}
        BY <2>1, <3>2 DEF AddExclusion, Editing
      <4>3. stored' = stored
        BY <2>1 DEF AddExclusion
      <4> QED
        BY <4>1, <4>2, <4>3
    <3> QED
      BY <3>1, <3>2
  <2>2. ASSUME NEW o \in Operators, NEW h \in Hosts, RemoveExclusion(o, h)
        PROVE  StoredWithinCeiling'
    BY <2>2, OneEntry DEF RemoveExclusion, Editing
  <2>3. ASSUME NEW o \in Operators, WriteExclusions(o) PROVE StoredWithinCeiling'
    BY <2>3, <2>0 DEF WriteExclusions
  <2>4. ASSUME NEW o \in Operators, AbandonEdit(o) PROVE StoredWithinCeiling'
    BY <2>4, <2>0 DEF AbandonEdit
  <2>5. ASSUME NEW v \in Visitors, Scan(v) PROVE StoredWithinCeiling'
    BY <2>5 DEF Scan, Arrive, Validate, Approve, ClaimTarget, RegisterScan,
                StartScan, Revalidate, ReadSchedule, ReadDatabase, EndScan
  <2>6. ASSUME NEW h \in Hosts, EndCooldown(h) PROVE StoredWithinCeiling'
    BY <2>6 DEF EndCooldown
  <2>7. CASE UNCHANGED admissionVars
    BY <2>7 DEF admissionVars
  <2> QED
    BY <2>1, <2>2, <2>3, <2>4, <2>5, <2>6, <2>7 DEF AdmissionNext, Edit
<1> QED
  BY <1>1, <1>2, AdmissionTypeCorrect, PTL DEF AdmissionSpec

(* No two requests to the operator area overlap.                            *)
OneOperator == \A o, p \in Operators : o = p

(* The document a SET is about to write is the current one, but for its own *)
(* entry, and what was promised is on it.                                   *)
LEMMA NextDraftIsCurrent ==
    ASSUME OneOperator, AdmissionTypeOK, DraftIsCurrent, [AdmissionNext]_admissionVars
    PROVE  DraftIsCurrent'
<1> USE DEF DraftIsCurrent, AdmissionTypeOK, Edits, Excluded
<1>1. ASSUME NEW o \in Operators, NEW h \in Hosts, AddExclusion(o, h)
      PROVE  DraftIsCurrent'
  <2>1. \A p \in Operators : edit[p].op = "none"
    BY <1>1 DEF OneOperator, AddExclusion
  <2>2. CASE h \in Excluded
    BY <1>1, <2>1, <2>2 DEF AddExclusion, Acknowledge
  <2>3. CASE h \notin Excluded
    BY <1>1, <2>1, <2>3 DEF AddExclusion, Editing, OneOperator
  <2> QED
    BY <2>2, <2>3
<1>2. ASSUME NEW o \in Operators, NEW h \in Hosts, RemoveExclusion(o, h)
      PROVE  DraftIsCurrent'
  BY <1>2 DEF OneOperator, RemoveExclusion, Editing
<1>3. ASSUME NEW o \in Operators, WriteExclusions(o) PROVE DraftIsCurrent'
  <2>1. \A p \in Operators : edit'[p].op = "none"
    BY <1>3 DEF OneOperator, WriteExclusions, NoEdit
  <2>2. CASE edit[o].op = "add"
    BY <1>3, <2>1, <2>2 DEF WriteExclusions, Acknowledge
  <2>3. CASE edit[o].op = "remove"
    BY <1>3, <2>1, <2>3 DEF WriteExclusions
  <2> QED
    BY <1>3, <2>2, <2>3 DEF WriteExclusions
<1>4. ASSUME NEW o \in Operators, AbandonEdit(o) PROVE DraftIsCurrent'
  BY <1>4 DEF OneOperator, AbandonEdit, NoEdit
<1>5. ASSUME NEW v \in Visitors, Scan(v) PROVE DraftIsCurrent'
  BY <1>5 DEF Scan, Arrive, Validate, Approve, ClaimTarget, RegisterScan,
              StartScan, Revalidate, ReadSchedule, ReadDatabase, EndScan
<1>6. ASSUME NEW h \in Hosts, EndCooldown(h) PROVE DraftIsCurrent'
  BY <1>6 DEF EndCooldown
<1>7. CASE UNCHANGED admissionVars
  BY <1>7 DEF admissionVars
<1> QED
  BY <1>1, <1>2, <1>3, <1>4, <1>5, <1>6, <1>7 DEF AdmissionNext, Edit

(* While operator requests do not overlap, no submission for a host an      *)
(* operator was told is excluded passes the guard, and no job for one gets  *)
(* past its own look at the list (ADR 0044, "A change takes effect from the *)
(* next request, everywhere"; tasks.py, run_scan).  A host excluded between *)
(* that look and the probing, while the job reads its reference data, is    *)
(* probed: the theorem does not say otherwise.                              *)
THEOREM ExclusionsAreKept ==
    ASSUME OneOperator
    PROVE  AdmissionSpec => ExclusionTakesEffect
<1>1. AdmissionInit => DraftIsCurrent
  BY DEF AdmissionInit, DraftIsCurrent, NoEdit
<1>2. AdmissionTypeOK /\ DraftIsCurrent /\ [AdmissionNext]_admissionVars => DraftIsCurrent'
  BY NextDraftIsCurrent
<1>3. ASSUME AdmissionTypeOK, DraftIsCurrent, [AdmissionNext]_admissionVars
      PROVE  [\A v \in Visitors :
                visit'[v] # visit[v] /\ visit'[v] \in {"approval", "schedule"}
                    => target[v] \notin promised]_admissionVars
  <2> SUFFICES ASSUME NEW v \in Visitors, AdmissionNext,
                      visit'[v] # visit[v], visit'[v] \in {"approval", "schedule"}
               PROVE  target[v] \notin promised
    BY <1>3
  <2>1. ASSUME NEW w \in Visitors, Scan(w) PROVE target[v] \notin promised
    BY <2>1, <1>3 DEF Scan, Arrive, Validate, Approve, ClaimTarget, RegisterScan,
          StartScan, Revalidate, ReadSchedule, ReadDatabase, EndScan, Advance,
          AdmissionTypeOK, DraftIsCurrent
  <2>2. ASSUME NEW o \in Operators, Edit(o) PROVE visit' = visit
    BY <2>2 DEF Edit, AddExclusion, RemoveExclusion, WriteExclusions, AbandonEdit
  <2>3. ASSUME NEW h \in Hosts, EndCooldown(h) PROVE visit' = visit
    BY <2>3 DEF EndCooldown
  <2> QED
    BY <2>1, <2>2, <2>3 DEF AdmissionNext
<1> QED
  BY <1>1, <1>2, <1>3, AdmissionTypeCorrect, PTL DEF AdmissionSpec, ExclusionTakesEffect

-----------------------------------------------------------------------------
(* The cooldown *)

(* However many visitors arrive together for a host, one of them holds its  *)
(* cooldown, and that one got past every check (ratelimit.py, check_target).*)
THEOREM CooldownIsHeld == AdmissionSpec => []CooldownHasOneHolder
<1>1. AdmissionInit => CooldownHasOneHolder
  BY DEF AdmissionInit, CooldownHasOneHolder
<1>2. AdmissionTypeOK /\ CooldownHasOneHolder /\ [AdmissionNext]_admissionVars => CooldownHasOneHolder'
  <2> SUFFICES ASSUME AdmissionTypeOK, CooldownHasOneHolder, [AdmissionNext]_admissionVars
               PROVE  CooldownHasOneHolder'
    OBVIOUS
  <2> USE DEF CooldownHasOneHolder, AdmissionTypeOK
  <2>1. ASSUME NEW o \in Operators, Edit(o) PROVE CooldownHasOneHolder'
    <3>1. UNCHANGED <<cooldown, holder, visit, target>>
      BY <2>1 DEF Edit, AddExclusion, RemoveExclusion, WriteExclusions, AbandonEdit
    <3> QED
      BY <3>1
  <2>2. ASSUME NEW v \in Visitors, ClaimTarget(v) PROVE CooldownHasOneHolder'
    <3>0. ASSUME cooldown' = cooldown, holder' = holder, target' = target,
                 visit[v] = "claim", \E to : visit' = [visit EXCEPT ![v] = to]
          PROVE  CooldownHasOneHolder'
      <4>1. \A w \in holder : w # v /\ visit'[w] = visit[w]
        BY <3>0 DEF Claimed
      <4> QED
        BY <3>0, <4>1
    <3>1. CASE Cooldown /\ target[v] \in cooldown
      BY <2>2, <3>0, <3>1 DEF ClaimTarget, Advance
    <3>2. CASE Cooldown /\ target[v] \notin cooldown
      <4>1. /\ cooldown' = cooldown \cup {target[v]}
            /\ holder' = holder \cup {v}
            /\ target' = target
            /\ visit' = [visit EXCEPT ![v] = "register"]
        BY <2>2, <3>2 DEF ClaimTarget, Advance
      <4>2. \A w \in holder : target[w] # target[v]
        BY <3>2
      <4>3. \A w \in holder' : target'[w] \in cooldown' /\ visit'[w] \in Claimed
        BY <4>1 DEF Claimed
      <4>4. ASSUME NEW h \in cooldown'
            PROVE  \E x \in holder' : {w \in holder' : target'[w] = h} = {x}
        <5>1. CASE h = target[v]
          BY <4>1, <4>2, <5>1
        <5>2. CASE h # target[v]
          <6>1. PICK x \in holder : {w \in holder : target[w] = h} = {x}
            BY <4>1, <4>4, <5>2
          <6> QED
            BY <4>1, <5>2, <6>1
        <5> QED
          BY <5>1, <5>2
      <4> QED
        BY <4>3, <4>4
    <3>3. CASE ~ Cooldown
      BY <2>2, <3>0, <3>3 DEF ClaimTarget, Advance
    <3> QED
      BY <3>1, <3>2, <3>3, CooldownAssumption
  <2>3. ASSUME NEW v \in Visitors, Scan(v), ~ ClaimTarget(v)
        PROVE  CooldownHasOneHolder'
    BY <2>3 DEF Scan, Arrive, Validate, Approve, RegisterScan, StartScan,
                Revalidate, ReadSchedule, ReadDatabase, EndScan, Advance, Claimed
  <2>4. ASSUME NEW h \in Hosts, EndCooldown(h) PROVE CooldownHasOneHolder'
    <3>1. /\ cooldown' = cooldown \ {h}
          /\ holder' = {v \in holder : target[v] # h}
          /\ target' = target
          /\ visit' = visit
      BY <2>4 DEF EndCooldown
    <3>2. \A w \in holder' : target'[w] \in cooldown' /\ visit'[w] \in Claimed
      BY <3>1
    <3>3. ASSUME NEW g \in cooldown'
          PROVE  \E x \in holder' : {w \in holder' : target'[w] = g} = {x}
      <4>1. g \in cooldown /\ g # h
        BY <3>1, <3>3
      <4>2. PICK x \in holder : {w \in holder : target[w] = g} = {x}
        BY <4>1
      <4> QED
        BY <3>1, <4>1, <4>2
    <3> QED
      BY <3>2, <3>3
  <2>5. CASE UNCHANGED admissionVars
    BY <2>5 DEF admissionVars
  <2> QED
    BY <2>1, <2>2, <2>3, <2>4, <2>5 DEF AdmissionNext
<1> QED
  BY <1>1, <1>2, AdmissionTypeCorrect, PTL DEF AdmissionSpec

=============================================================================
