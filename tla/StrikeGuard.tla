----------------------------- MODULE StrikeGuard -----------------------------
(***************************************************************************)
(* The probe guard for one client network: check_probe_block before a      *)
(* submission, record_strike when its scan found no OpenCloud              *)
(* (webapp/ratelimit.py).  The workers of several processes count strikes  *)
(* side by side, one Redis command at a time.  The day-stamped statistics  *)
(* (count_event) decide nothing and are left out.                          *)
(*                                                                         *)
(* Time passes in ticks.  A strike takes less than one of them: it may see *)
(* one tick pass between its commands, and is done before the next.        *)
(***************************************************************************)
EXTENDS Naturals, FiniteSets

CONSTANTS
    Strikers,       \* submissions of the network, one scan each at a time
    Limit,          \* probe_limit, where the guard is on
    Window,         \* probe_window, in ticks, as the next three are
    Block,          \* probe_block
    BlockMax,       \* probe_block_max
    RepeatWindow,   \* probe_repeat_window
    MaxRepeat,      \* bound: from this block on none is longer than the last
    MaxDeaths       \* bound: workers that die while they count

Longer(a, b) == IF a > b THEN a ELSE b
Shorter(a, b) == IF a < b THEN a ELSE b

BlockEscalationFactor == 6

Ceiling == Longer(Block, BlockMax)

(* ProbePolicy.duration: each block six times the one before, to a ceiling. *)
Duration(repeat) ==
    Longer(1, Shorter(Block * BlockEscalationFactor ^ (repeat - 1), Ceiling))

ASSUME LimitsAssumption ==
    /\ Limit \in Nat \ {0}
    /\ MaxDeaths \in Nat

ASSUME TimesAssumption ==
    /\ {Window, BlockMax} \subseteq Nat \ {0}
    /\ RepeatWindow \in Nat
    /\ Block \in Nat \ {0, 1}       \* a tick is short: one tick is no block

ASSUME MaxRepeatAssumption ==
    /\ MaxRepeat \in Nat \ {0}
    /\ Duration(MaxRepeat) = Ceiling

ASSUME StrikersAssumption == IsFiniteSet(Strikers)

(* No block is shorter than the first or longer than the ceiling.           *)
ASSUME DurationAssumption == \A n \in 1..MaxRepeat : Duration(n) \in Block..Ceiling

VARIABLES
    strikes,        \* probe_count_key, 0 when it does not exist
    strikesLeft,    \* ticks until it expires, 0 when it never does
    blockLeft,      \* ticks probe_block_key still lasts, 0 when it is not there
    repeat,         \* probe_repeat_key, 0 when it does not exist
    repeatLeft,     \* ticks until it expires, 0 when it never does
    step,           \* the command each strike comes to next
    reached,        \* strikes whose INCR answered the limit or more
    length,         \* the duration each strike has worked out
    late,           \* strikes that have seen a tick pass
    begun,          \* history: blocks begun since the repeat counter began
    deaths

keys == <<strikes, strikesLeft, blockLeft, repeat, repeatLeft>>
vars == <<keys, step, reached, length, late, begun, deaths>>

InBlock == {"repeat", "extend", "remember", "forget"}

Steps == {"idle", "scan", "window", "renew", "claim"} \cup InBlock

TypeOK ==
    /\ strikes \in 0..(Limit + 1)
    /\ strikesLeft \in 0..Window
    /\ blockLeft \in 0..Ceiling
    /\ repeat \in 0..MaxRepeat
    /\ repeatLeft \in 0..(Ceiling + RepeatWindow)
    /\ step \in [Strikers -> Steps]
    /\ reached \subseteq Strikers
    /\ length \in [Strikers -> 0..Ceiling]
    /\ late \subseteq Strikers
    /\ begun \in Nat
    /\ deaths \in 0..MaxDeaths

Init ==
    /\ strikes = 0 /\ strikesLeft = 0
    /\ blockLeft = 0
    /\ repeat = 0 /\ repeatLeft = 0
    /\ step = [s \in Strikers |-> "idle"]
    /\ reached = {}
    /\ length = [s \in Strikers |-> 0]
    /\ late = {}
    /\ begun = 0
    /\ deaths = 0

Goto(s, from, to) ==
    /\ step[s] = from
    /\ step' = [step EXCEPT ![s] = to]
    /\ late' = IF to = "idle" THEN late \ {s} ELSE late

-----------------------------------------------------------------------------
(* check_probe_block: a submission is let through while no block runs.  TTL *)
(* rounds to whole seconds, so the last tick of a block may read as none.   *)
Submit(s) ==
    /\ blockLeft <= 1
    /\ Goto(s, "idle", "scan")
    /\ UNCHANGED <<keys, reached, length, begun, deaths>>

(* The scan finds OpenCloud, or expires: nothing is counted.  A scan that   *)
(* does not, and a target accept_submission refuses as suspicious, is.      *)
FindOpenCloud(s) ==
    /\ Goto(s, "scan", "idle")
    /\ UNCHANGED <<keys, reached, length, begun, deaths>>

CountStrike(s) ==
    /\ Goto(s, "scan", IF strikes = 0 THEN "renew" ELSE "window")
    /\ strikes' = Shorter(strikes + 1, Limit + 1)
    /\ reached' = IF strikes + 1 >= Limit THEN reached \cup {s} ELSE reached \ {s}
    /\ UNCHANGED <<strikesLeft, blockLeft, repeat, repeatLeft, length, begun, deaths>>

AfterWindow(s) == IF s \in reached THEN "claim" ELSE "idle"

(* TTL: a counter without a window reads as none, and so may the last tick. *)
ReadWindow(s) ==
    /\ \/ strikesLeft > 0 /\ Goto(s, "window", AfterWindow(s))
       \/ strikesLeft <= 1 /\ Goto(s, "window", "renew")
    /\ UNCHANGED <<keys, reached, length, begun, deaths>>

(* Mutant: only the first strike sets the window.                           *)
RenewWindowOfFirst(s) ==
    /\ Goto(s, "renew", AfterWindow(s))
    /\ strikesLeft' = IF strikes = 1 THEN Window ELSE strikesLeft
    /\ UNCHANGED <<strikes, blockLeft, repeat, repeatLeft, reached, length, begun, deaths>>

RenewWindow(s) ==
    /\ Goto(s, "renew", AfterWindow(s))
    /\ strikesLeft' = IF strikes > 0 THEN Window ELSE 0
    /\ UNCHANGED <<strikes, blockLeft, repeat, repeatLeft, reached, length, begun, deaths>>

(* Mutant: a plain SET, which claims a block that runs already.             *)
ClaimAnyway(s) ==
    /\ Goto(s, "claim", "repeat")
    /\ blockLeft' = Block
    /\ begun' = IF begun > MaxRepeat THEN begun ELSE begun + 1
    /\ UNCHANGED <<strikes, strikesLeft, repeat, repeatLeft, reached, length, deaths>>

(* SET NX: whoever finds a block running leaves it, and its own count, be.  *)
ClaimBlock(s) ==
    /\ IF blockLeft > 0
       THEN Goto(s, "claim", "idle") /\ UNCHANGED <<blockLeft, begun>>
       ELSE /\ Goto(s, "claim", "repeat")
            /\ blockLeft' = Block
            /\ begun' = IF begun > MaxRepeat THEN begun ELSE begun + 1
    /\ UNCHANGED <<strikes, strikesLeft, repeat, repeatLeft, reached, length, deaths>>

CountBlock(s) ==
    /\ Goto(s, "repeat", "extend")
    /\ repeat' = Shorter(repeat + 1, MaxRepeat)
    /\ length' = [length EXCEPT ![s] = Duration(repeat')]
    /\ UNCHANGED <<strikes, strikesLeft, blockLeft, repeatLeft, reached, begun, deaths>>

(* EXPIRE does nothing to a key that is gone by now.                        *)
ExtendBlock(s) ==
    /\ Goto(s, "extend", "remember")
    /\ blockLeft' = IF blockLeft > 0 THEN length[s] ELSE 0
    /\ UNCHANGED <<strikes, strikesLeft, repeat, repeatLeft, reached, length, begun, deaths>>

(* Mutant: remembered from the start of the block, not its end.             *)
RememberFromStart(s) ==
    /\ Goto(s, "remember", "forget")
    /\ repeatLeft' = IF repeat > 0 THEN RepeatWindow ELSE 0
    /\ UNCHANGED <<strikes, strikesLeft, blockLeft, repeat, reached, length, begun, deaths>>

RememberBlock(s) ==
    /\ Goto(s, "remember", "forget")
    /\ repeatLeft' = IF repeat > 0 THEN length[s] + RepeatWindow ELSE 0
    /\ UNCHANGED <<strikes, strikesLeft, blockLeft, repeat, reached, length, begun, deaths>>

ForgetStrikes(s) ==
    /\ Goto(s, "forget", "idle")
    /\ strikes' = 0
    /\ strikesLeft' = 0
    /\ UNCHANGED <<blockLeft, repeat, repeatLeft, reached, length, begun, deaths>>

(* The worker dies between two commands, and the strike is never finished.  *)
Die(s) ==
    /\ deaths < MaxDeaths
    /\ step[s] \notin {"idle", "scan"}
    /\ Goto(s, step[s], "idle")
    /\ deaths' = deaths + 1
    /\ UNCHANGED <<keys, reached, length, begun>>

(* Blocks that are begun and not counted yet.                               *)
Uncounted == Cardinality({s \in Strikers : step[s] = "repeat"})

Less(ticks) == IF ticks > 0 THEN ticks - 1 ELSE 0

Tick ==
    /\ late = {}
    /\ strikesLeft + blockLeft + repeatLeft > 0
    /\ late' = {s \in Strikers : step[s] \notin {"idle", "scan"}}
    /\ strikesLeft' = Less(strikesLeft)
    /\ strikes' = IF strikesLeft = 1 THEN 0 ELSE strikes
    /\ blockLeft' = Less(blockLeft)
    /\ repeatLeft' = Less(repeatLeft)
    /\ repeat' = IF repeatLeft = 1 THEN 0 ELSE repeat
    /\ begun' = IF repeatLeft = 1 THEN Uncounted ELSE begun
    /\ UNCHANGED <<step, reached, length, deaths>>

RecordStrike(s) ==
    \/ CountStrike(s)
    \/ ReadWindow(s)
    \/ RenewWindow(s)
    \/ ClaimBlock(s)
    \/ CountBlock(s)
    \/ ExtendBlock(s)
    \/ RememberBlock(s)
    \/ ForgetStrikes(s)

Next ==
    \/ \E s \in Strikers : Submit(s) \/ FindOpenCloud(s) \/ RecordStrike(s) \/ Die(s)
    \/ Tick

Spec == Init /\ [][Next]_vars

-----------------------------------------------------------------------------
(* The inductive strengthening the proofs use *)

(* Whoever began a block is alone with it, because the block outlasts the   *)
(* commands that set its length: it has a tick left, and two while the      *)
(* strike has seen none pass.                                               *)
Guarded ==
    /\ late \subseteq {s \in Strikers : step[s] \notin {"idle", "scan"}}
    /\ \A s \in Strikers :
         /\ step[s] \in InBlock => blockLeft >= IF s \in late THEN 1 ELSE 2
         /\ step[s] \in InBlock \ {"repeat"} => length[s] \in Block..Ceiling
         /\ step[s] = "remember" =>
               \/ blockLeft = length[s]
               \/ s \in late /\ blockLeft = length[s] - 1

(* The repeat counter runs behind the blocks begun by those not counted yet.*)
Tallied ==
    /\ Shorter(repeat + Uncounted, MaxRepeat) <= begun
    /\ deaths = 0 /\ repeat < MaxRepeat => repeat = begun - Uncounted

-----------------------------------------------------------------------------
(* Two workers that reach the limit together begin one block and escalate   *)
(* once: at most one of them is ever between the SET NX and the DEL.        *)
OneBlocker ==
    \A s, t \in Strikers :
        step[s] \in InBlock /\ step[t] \in InBlock => s = t

(* ... and the repeat counter counts every block begun inside its window,   *)
(* no more and - but for a worker that died on the way - no fewer.          *)
EscalatesOncePerBlock ==
    /\ repeat <= begun
    /\ deaths = 0 /\ repeat < MaxRepeat =>
          repeat = begun - Uncounted

(* A block is remembered from its end, not its start: once a worker is done *)
(* with it, the repeat counter outlives the block by the repeat window, and *)
(* by the tick the two commands may lie apart.  Only a counter that ran out*)
(* between its INCR and its EXPIRE is not there to remember anything.       *)
RememberedFromItsEnd ==
    /\ deaths = 0
    /\ blockLeft > 0 /\ repeat > 0
    /\ \A s \in Strikers : step[s] \notin InBlock \ {"forget"}
    => repeatLeft \in {blockLeft + RepeatWindow, blockLeft + RepeatWindow + 1}

(* A counter has no expiry only while a strike is on its way to give it one,*)
(* or after a death, of which nothing more is said here: what a striker     *)
(* that died leaves behind may stay.                                        *)
OpenEndedOnlyByDeath ==
    deaths = 0 =>
        /\ strikes > 0 /\ strikesLeft = 0
               => \E s \in Strikers : step[s] \in {"window", "renew"}
        /\ repeat > 0 /\ repeatLeft = 0
               => \E s \in Strikers : step[s] \in {"extend", "remember"}

(* A running block is only ever set to the length one worker worked out for *)
(* it: nothing else a strike does stretches, shortens or lifts it.          *)
BlockRunsItsLength ==
    [][blockLeft > 0 /\ blockLeft' # blockLeft
         => \/ blockLeft' = blockLeft - 1
            \/ \E s \in Strikers : step[s] = "extend" /\ step'[s] = "remember"]_vars

=============================================================================
