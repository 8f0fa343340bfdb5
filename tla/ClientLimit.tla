----------------------------- MODULE ClientLimit -----------------------------
(***************************************************************************)
(* One fixed-window counter of RateLimiter (webapp/ratelimit.py), as       *)
(* check_client, check_upload and check_daily keep it for one network:     *)
(* INCR, EXPIRE for the first request, TTL and perhaps EXPIRE again for a  *)
(* refused one, each a round trip of its own.                              *)
(*                                                                         *)
(* The clock ticks in half seconds, because Redis answers TTL in whole     *)
(* seconds, rounded to the nearest: the last half second of a key reads 0. *)
(***************************************************************************)
EXTENDS Naturals, FiniteSets

CONSTANTS
    Clients,        \* clients the counter takes for one
    Limit,          \* client_limit or daily_limit, where the check is not off
    Window,         \* the window, in seconds
    MaxDeaths       \* bound: handlers that die between two round trips

ASSUME LimitAssumption == Limit \in Nat \ {0}
ASSUME WindowAssumption == Window \in Nat \ {0}
ASSUME MaxDeathsAssumption == MaxDeaths \in Nat

VARIABLES
    count,          \* the counter, 0 when the key does not exist
    left,           \* half seconds until it expires, 0 when it never does
    step,           \* the command each client's request comes to next
    wait,           \* half seconds each client was told to wait, and waits
    refused,        \* history: clients refused since the counter began
    granted,        \* history: requests let through since it began
    deaths

limitVars == <<count, left, step, wait, refused, granted, deaths>>

Ticks(seconds) == 2 * seconds

(* What TTL may answer with this much left: the nearest whole second, the   *)
(* command falling anywhere into its half second.                           *)
SecondsLeft(ticks) == {ticks \div 2, (ticks + 1) \div 2}

(* The counter counts on, but past the limit one value is like another.     *)
Ceiling == Limit + 1

NextCount == IF count < Ceiling THEN count + 1 ELSE Ceiling

LimitTypeOK ==
    /\ count \in 0..Ceiling
    /\ left \in 0..Ticks(Window)
    /\ step \in [Clients -> {"idle", "expire", "ttl", "repair"}]
    /\ wait \in [Clients -> 0..Ticks(Window)]
    /\ refused \subseteq Clients
    /\ granted \in Nat
    /\ deaths \in 0..MaxDeaths

LimitInit ==
    /\ count = 0
    /\ left = 0
    /\ step = [c \in Clients |-> "idle"]
    /\ wait = [c \in Clients |-> 0]
    /\ refused = {}
    /\ granted = 0
    /\ deaths = 0

Go(c, from, to) ==
    /\ step[c] = from
    /\ step' = [step EXCEPT ![c] = to]

(* Mutant: at the limit one more is let through.                            *)
CountOneMore(c) ==
    /\ wait[c] = 0
    /\ count' = NextCount
    /\ IF count > Limit
       THEN /\ Go(c, "idle", "ttl")
            /\ UNCHANGED granted
       ELSE /\ Go(c, "idle", IF NextCount = 1 THEN "expire" ELSE "idle")
            /\ granted' = granted + 1
    /\ UNCHANGED <<left, wait, refused, deaths>>

(* A client that was told to wait does; then its next request is counted.   *)
Count(c) ==
    /\ wait[c] = 0
    /\ count' = NextCount
    /\ IF NextCount > Limit
       THEN /\ Go(c, "idle", "ttl")
            /\ UNCHANGED granted
       ELSE /\ Go(c, "idle", IF NextCount = 1 THEN "expire" ELSE "idle")
            /\ granted' = granted + 1
    /\ UNCHANGED <<left, wait, refused, deaths>>

(* Mutant: a window that is never set.                                      *)
ExpireNothing(c) ==
    /\ Go(c, "expire", "idle")
    /\ UNCHANGED <<count, left, wait, refused, granted, deaths>>

(* EXPIRE does nothing to a key that is gone by now.                        *)
SetWindow ==
    left' = IF count > 0 THEN Ticks(Window) ELSE left

ExpireFirst(c) ==
    /\ Go(c, "expire", "idle")
    /\ SetWindow
    /\ UNCHANGED <<count, wait, refused, granted, deaths>>

Refuse(c, seconds) ==
    /\ wait' = [wait EXCEPT ![c] = Ticks(seconds)]
    /\ refused' = IF count > 0 THEN refused \cup {c} ELSE refused

(* _window_left: a window that still runs is told, a lost one put right.    *)
ReadWindow(c) ==
    \E seconds \in SecondsLeft(left) :
        /\ IF seconds > 0
           THEN Go(c, "ttl", "idle") /\ Refuse(c, seconds)
           ELSE Go(c, "ttl", "repair") /\ UNCHANGED <<wait, refused>>
        /\ UNCHANGED <<count, left, granted, deaths>>

(* Mutant: the window is told, and not put right.                           *)
TellWindow(c) ==
    /\ Go(c, "repair", "idle")
    /\ Refuse(c, Window)
    /\ UNCHANGED <<count, left, granted, deaths>>

RepairWindow(c) ==
    /\ Go(c, "repair", "idle")
    /\ SetWindow
    /\ Refuse(c, Window)
    /\ UNCHANGED <<count, granted, deaths>>

Die(c) ==
    /\ deaths < MaxDeaths
    /\ step[c] # "idle"
    /\ step' = [step EXCEPT ![c] = "idle"]
    /\ deaths' = deaths + 1
    /\ UNCHANGED <<count, left, wait, refused, granted>>

(* Half a second passes, for the key and for everybody who waits.           *)
Tick ==
    /\ left > 0 \/ \E c \in Clients : wait[c] > 0
    /\ left' = IF left > 0 THEN left - 1 ELSE 0
    /\ wait' = [c \in Clients |-> IF wait[c] > 0 THEN wait[c] - 1 ELSE 0]
    /\ IF left = 1
       THEN count' = 0 /\ refused' = {} /\ granted' = 0
       ELSE UNCHANGED <<count, refused, granted>>
    /\ UNCHANGED <<step, deaths>>

Proceed(c) == ExpireFirst(c) \/ ReadWindow(c) \/ RepairWindow(c)

LimitNext ==
    \/ \E c \in Clients : Count(c) \/ Proceed(c) \/ Die(c)
    \/ Tick

LimitSpec == LimitInit /\ [][LimitNext]_limitVars

(* Requests that began run on, clients come back, and time passes.          *)
LimitLiveSpec ==
    /\ LimitSpec
    /\ \A c \in Clients : WF_limitVars(Count(c)) /\ WF_limitVars(Proceed(c))
    /\ WF_limitVars(Tick)

-----------------------------------------------------------------------------
(* No more requests are let through while a counter lives than its limit,   *)
(* also when they are decided side by side.                                 *)
AtMostLimit == granted <= Limit

(* A counter has no expiry only while the request that began it is between  *)
(* its INCR and its EXPIRE, or because a handler died there.                *)
OpenEndedOnlyByDeath ==
    count > 0 /\ left = 0 =>
        \/ \E c \in Clients : step[c] = "expire"
        \/ deaths > 0

(* A counter over the limit that lost its window gets one again, from       *)
(* whoever is refused by it (_window_left), and so need not last for ever.  *)
LostWindowIsPutRight ==
    count > Limit /\ left = 0 ~> left > 0

(* openapi.py tells a refused client to "wait that many seconds and try the *)
(* same call again": whoever waited as long as it was told is not refused   *)
(* by the same counter once more, and made to wait for another whole window.*)
WaitLiftsTheLimit ==
    \A c \in refused : step[c] # "repair"

=============================================================================
