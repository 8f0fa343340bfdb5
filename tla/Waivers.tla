-------------------------------- MODULE Waivers --------------------------------
(***************************************************************************)
(* Waivers (opencloud_local_scan/waivers.py and the scanner's use of       *)
(* them): records that keep failing checks from alerting, some until a     *)
(* deadline, while an operator writes and withdraws them, checks start and *)
(* stop failing, and time passes.  The result document names the next      *)
(* moment a check alerts again; the review names the records behind it.    *)
(***************************************************************************)
EXTENDS FiniteSetsExt, Integers

CONSTANTS
    Checks,         \* identifiers that may fail
    Hardcoded,      \* those OpenCloud hardcodes, which never alert
    Patterns,       \* patterns, each the set of checks it matches
    MaxRecords,     \* bound: records configured at a time
    LastMoment,     \* bound: moments, and deadlines
    Window          \* expiring_within_days, the plugin's --waiver-warning

ASSUME WaiversAssumption ==
    /\ Hardcoded \subseteq Checks
    /\ Patterns \subseteq SUBSET Checks
    /\ {MaxRecords, LastMoment, Window} \subseteq Nat

VARIABLES
    records,        \* the configured waivers
    failing,        \* checks that fail
    now

waiverVars == <<records, failing, now>>

Permanent == LastMoment + 1         \* no expiry; no deadline is that late
Waiver == [matches : Patterns, expires : 1..Permanent]

Actionable == Checks \ Hardcoded

WaiversTypeOK ==
    /\ records \subseteq Waiver
    /\ failing \subseteq Checks
    /\ now \in 0..LastMoment

-----------------------------------------------------------------------------
Temporary(r) == r.expires # Permanent
ActiveAt(r, moment) == Temporary(r) => moment < r.expires

(* resolve: any active record that matches is enough.                       *)
WaivedAt(check, moment) ==
    \E r \in records : check \in r.matches /\ ActiveAt(r, moment)

(* What the alert line would name.                                          *)
AlertingAt(moment) ==
    {c \in failing \cap Actionable : ~WaivedAt(c, moment)}

(* report: every record, its state, and the failing checks it matched.      *)
Block == {[record |-> r, active |-> ActiveAt(r, now),
           matched |-> r.matches \cap failing] : r \in records}

Covering(check) ==
    {entry.record : entry \in {e \in Block : e.active /\ check \in e.matched}}

(* Checks whose active records all have a deadline.                         *)
OnBorrowedTime ==
    {c \in Actionable : Covering(c) # {} /\ \A r \in Covering(c) : Temporary(r)}

(* Mutant: a check ends with the first record that covers it.               *)
EndsWithFirst(check) == Min({r.expires : r \in Covering(check)})

Ends(check) == Max({r.expires : r \in Covering(check)})

(* next_expiry: the moment, and the checks that alert from then on.         *)
NoExpiry == [at |-> 0, checks |-> {}]

NextExpiry ==
    IF OnBorrowedTime = {} THEN NoExpiry
    ELSE LET at == Min({Ends(c) : c \in OnBorrowedTime})
         IN [at |-> at, checks |-> {c \in OnBorrowedTime : Ends(c) = at}]

(* The review's items on active records that end within the window: what    *)
(* the text says will alert, and the checks beside it, which are all the    *)
(* record matches where it says of none.                                    *)
Matched(r) == r.matches \cap failing \cap Actionable

StillCovered(check, besides) ==
    \E r \in records \ {besides} : ActiveAt(r, now) /\ check \in r.matches

Uncovered(r) == {c \in Matched(r) : ~StillCovered(c, r)}

Item(r) == [record  |-> r,
            alerts  |-> Uncovered(r),
            related |-> IF Uncovered(r) # {} THEN Uncovered(r) ELSE Matched(r)]

Expiring ==
    {Item(r) : r \in {q \in records : /\ Temporary(q)
                                      /\ ActiveAt(q, now)
                                      /\ q.expires - now <= Window}}

-----------------------------------------------------------------------------
WaiversInit ==
    /\ records = {}
    /\ failing = {}
    /\ now = 0

WriteWaiver ==
    /\ Cardinality(records) < MaxRecords
    /\ \E r \in Waiver : records' = records \cup {r}
    /\ UNCHANGED <<failing, now>>

WithdrawWaiver ==
    /\ \E r \in records : records' = records \ {r}
    /\ UNCHANGED <<failing, now>>

Turn(check) ==
    /\ failing' = IF check \in failing THEN failing \ {check}
                  ELSE failing \cup {check}
    /\ UNCHANGED <<records, now>>

TimePasses ==
    /\ now < LastMoment
    /\ now' = now + 1
    /\ UNCHANGED <<records, failing>>

WaiversNext ==
    \/ WriteWaiver
    \/ WithdrawWaiver
    \/ \E c \in Checks : Turn(c)
    \/ TimePasses

WaiversSpec == WaiversInit /\ [][WaiversNext]_waiverVars

-----------------------------------------------------------------------------
(* The document's next expiry is exact: with the records as they are, no    *)
(* check starts to alert before it, and at it exactly the checks it names   *)
(* do; without one, none ever will (waivers.py, next_expiry).               *)
ExpiryIsExact(next) ==
    LET later == {m \in now..LastMoment : next = NoExpiry \/ m < next.at}
    IN /\ \A m \in later : AlertingAt(m) = AlertingAt(now)
       /\ next # NoExpiry =>
            /\ next.checks # {}
            /\ next.checks \cap AlertingAt(now) = {}
            /\ AlertingAt(next.at) = AlertingAt(now) \cup next.checks

(* The review agrees with it: when it lies in the window, each of its checks*)
(* is matched by a record the review shows with that deadline; and what the *)
(* text of a record says will alert after it does (waivers.py, review).     *)
ReviewAgrees(next) ==
    /\ next # NoExpiry /\ next.at - now <= Window =>
         \A c \in next.checks :
            \E i \in Expiring : c \in Matched(i.record) /\ i.record.expires = next.at
    /\ \A i \in Expiring :
         i.alerts \subseteq AlertingAt(i.record.expires) \ AlertingAt(now)

(* What is announced of the next deadline is what happens at it, in the     *)
(* result document and in the review (waivers.py, next_expiry and review).  *)
NextExpiryIsExact == ExpiryIsExact(NextExpiry) /\ ReviewAgrees(NextExpiry)

=============================================================================
