------------------------------ MODULE Admission ------------------------------
(***************************************************************************)
(* Which targets are scanned at all: accept_submission from its reading of *)
(* the exclusions to the cooldown it claims (webapp/app.py), run_scan's    *)
(* second reading of them (webapp/tasks.py), and the operator area that    *)
(* rewrites them (webapp/blocklist.py) - a GET and a SET of one document.  *)
(* The limits asked before are ClientLimit and StrikeGuard, registering    *)
(* and running the scan are ScanService.                                   *)
(***************************************************************************)
EXTENDS Naturals, FiniteSets

CONSTANTS
    Visitors,       \* submissions; each is for one host and becomes one scan
    Hosts,          \* what targets and exclusions name
    Configured,     \* COS_WEB_BLOCKED_TARGETS, the same in every process
    Operators,      \* requests to the operator area that may overlap
    MaxStored,      \* MAX_STORED_ENTRIES
    Cooldown        \* whether COS_WEB_TARGET_COOLDOWN is above zero

ASSUME ConfiguredAssumption == Configured \subseteq Hosts
ASSUME MaxStoredAssumption == MaxStored \in Nat
ASSUME CooldownAssumption == Cooldown \in BOOLEAN
ASSUME HostsAssumption == IsFiniteSet(Hosts) /\ Hosts # {}

VARIABLES
    stored,         \* BLOCKLIST_KEY: the entries the area wrote
    edit,           \* the change each operator is making
    promised,       \* history: entries told to be excluded, not withdrawn since
    cooldown,       \* hosts whose target_key exists
    holder,         \* history: visitors that claimed a cooldown that still runs
    visit,          \* where each submission, and then its job, stands
    target          \* the host each submission names

admissionVars == <<stored, edit, promised, cooldown, holder, visit, target>>

(* Exclusions.effective.                                                    *)
Excluded == Configured \cup stored

Edits == [op    : {"none", "add", "remove"},
          entry : Hosts,
          draft : SUBSET Hosts]     \* the document the SET will write

NoEdit == [op |-> "none", entry |-> CHOOSE h \in Hosts : TRUE, draft |-> {}]

Claimed == {"register", "queued", "taken", "schedule", "database", "probing",
            "ended", "died"}

VisitSteps == {"none", "exclusions", "approval", "claim", "refused"} \cup Claimed

AdmissionTypeOK ==
    /\ stored \subseteq Hosts
    /\ edit \in [Operators -> Edits]
    /\ promised \subseteq Hosts
    /\ cooldown \subseteq Hosts
    /\ holder \subseteq Visitors
    /\ visit \in [Visitors -> VisitSteps]
    /\ target \in [Visitors -> Hosts]

AdmissionInit ==
    /\ stored = {}
    /\ edit = [o \in Operators |-> NoEdit]
    /\ promised = {}
    /\ cooldown = {}
    /\ holder = {}
    /\ visit = [v \in Visitors |-> "none"]
    /\ target \in [Visitors -> Hosts]

-----------------------------------------------------------------------------
(* The operator area *)

Editing(o, op, entry, draft) ==
    edit' = [edit EXCEPT ![o] = [op |-> op, entry |-> entry, draft |-> draft]]

Withdrawing(h) == \E o \in Operators : edit[o].op = "remove" /\ edit[o].entry = h

(* The answer "excluded" is a promise, unless a withdrawal is under way.    *)
Acknowledge(h) ==
    promised' = IF Withdrawing(h) THEN promised ELSE promised \cup {h}

(* add_exclusion up to its GET.  What is excluded already is acknowledged,  *)
(* a full list refuses, anything else goes on to the SET.                   *)
AddExclusion(o, h) ==
    /\ edit[o].op = "none"
    /\ IF h \in Excluded
       THEN Acknowledge(h) /\ UNCHANGED edit
       ELSE /\ Cardinality(stored) < MaxStored
            /\ Editing(o, "add", h, stored \cup {h})
            /\ UNCHANGED promised
    /\ UNCHANGED <<stored, cooldown, holder, visit, target>>

(* remove_exclusion up to its GET.  A configured entry is refused.          *)
RemoveExclusion(o, h) ==
    /\ edit[o].op = "none"
    /\ h \in stored \ Configured
    /\ Editing(o, "remove", h, stored \ {h})
    /\ promised' = promised \ {h}
    /\ UNCHANGED <<stored, cooldown, holder, visit, target>>

(* _write: the SET replaces the document, whatever it holds by now.         *)
WriteExclusions(o) ==
    /\ edit[o].op # "none"
    /\ stored' = edit[o].draft
    /\ IF edit[o].op = "add" THEN Acknowledge(edit[o].entry) ELSE UNCHANGED promised
    /\ edit' = [edit EXCEPT ![o] = NoEdit]
    /\ UNCHANGED <<cooldown, holder, visit, target>>

(* The handler dies before its SET, and the operator is told nothing.       *)
AbandonEdit(o) ==
    /\ edit[o].op # "none"
    /\ edit' = [edit EXCEPT ![o] = NoEdit]
    /\ UNCHANGED <<stored, promised, cooldown, holder, visit, target>>

-----------------------------------------------------------------------------
(* A submission *)

Advance(v, from, to) ==
    /\ visit[v] = from
    /\ visit' = [visit EXCEPT ![v] = to]

Arrive(v) ==
    /\ \E to \in {"exclusions", "refused"} : Advance(v, "none", to)
    /\ UNCHANGED <<stored, edit, promised, cooldown, holder, target>>

(* The GET of the exclusions, and validate_target, which awaits nothing.  A *)
(* target may be refused for other reasons than the list.                   *)
Validate(v) ==
    /\ \/ target[v] \notin Excluded /\ Advance(v, "exclusions", "approval")
       \/ Advance(v, "exclusions", "refused")
    /\ UNCHANGED <<stored, edit, promised, cooldown, holder, target>>

(* The approval runs off the event loop, so that everybody else goes on.    *)
Approve(v) ==
    /\ \E to \in {"claim", "refused"} : Advance(v, "approval", to)
    /\ UNCHANGED <<stored, edit, promised, cooldown, holder, target>>

(* Mutant: SET without NX.                                                  *)
ClaimUnasked(v) ==
    /\ Advance(v, "claim", "register")
    /\ cooldown' = cooldown \cup {target[v]}
    /\ holder' = holder \cup {v}
    /\ UNCHANGED <<stored, edit, promised, target>>

(* check_target: SET NX.                                                    *)
ClaimTarget(v) ==
    /\ IF Cooldown /\ target[v] \in cooldown
       THEN Advance(v, "claim", "refused") /\ UNCHANGED <<cooldown, holder>>
       ELSE /\ Advance(v, "claim", "register")
            /\ cooldown' = IF Cooldown THEN cooldown \cup {target[v]} ELSE cooldown
            /\ holder' = IF Cooldown THEN holder \cup {v} ELSE holder
    /\ UNCHANGED <<stored, edit, promised, target>>

(* create and enqueue; the cooldown stays claimed if they fail.             *)
RegisterScan(v) ==
    /\ \E to \in {"queued", "died"} : Advance(v, "register", to)
    /\ UNCHANGED <<stored, edit, promised, cooldown, holder, target>>

-----------------------------------------------------------------------------
(* Its job *)

(* mark_running and take_prober lie between this and the next step.         *)
StartScan(v) ==
    /\ Advance(v, "queued", "taken")
    /\ UNCHANGED <<stored, edit, promised, cooldown, holder, target>>

(* Mutant: the list that was read at the submission is trusted.             *)
TrustSubmission(v) ==
    /\ Advance(v, "taken", "schedule")
    /\ UNCHANGED <<stored, edit, promised, cooldown, holder, target>>

(* The exclusions once more, and the guard: refused here, marked failed.    *)
Revalidate(v) ==
    /\ \/ target[v] \notin Excluded /\ Advance(v, "taken", "schedule")
       \/ Advance(v, "taken", "ended")
    /\ UNCHANGED <<stored, edit, promised, cooldown, holder, target>>

(* stored_schedule and stored_database: Redis is asked twice more, while    *)
(* the operator area goes on, before execute_scan_process.  The exclusions  *)
(* are not looked at again.                                                 *)
ReadSchedule(v) ==
    /\ Advance(v, "schedule", "database")
    /\ UNCHANGED <<stored, edit, promised, cooldown, holder, target>>

ReadDatabase(v) ==
    /\ Advance(v, "database", "probing")
    /\ UNCHANGED <<stored, edit, promised, cooldown, holder, target>>

EndScan(v) ==
    /\ Advance(v, "probing", "ended")
    /\ UNCHANGED <<stored, edit, promised, cooldown, holder, target>>

-----------------------------------------------------------------------------
(* The cooldown runs out, or an erasure deletes it (forget_target).         *)
EndCooldown(h) ==
    /\ h \in cooldown
    /\ cooldown' = cooldown \ {h}
    /\ holder' = {v \in holder : target[v] # h}
    /\ UNCHANGED <<stored, edit, promised, visit, target>>

Edit(o) ==
    \/ \E h \in Hosts : AddExclusion(o, h) \/ RemoveExclusion(o, h)
    \/ WriteExclusions(o)
    \/ AbandonEdit(o)

Scan(v) ==
    \/ Arrive(v)
    \/ Validate(v)
    \/ Approve(v)
    \/ ClaimTarget(v)
    \/ RegisterScan(v)
    \/ StartScan(v)
    \/ Revalidate(v)
    \/ ReadSchedule(v)
    \/ ReadDatabase(v)
    \/ EndScan(v)

AdmissionNext ==
    \/ \E o \in Operators : Edit(o)
    \/ \E v \in Visitors : Scan(v)
    \/ \E h \in Hosts : EndCooldown(h)

AdmissionSpec == AdmissionInit /\ [][AdmissionNext]_admissionVars

(* What makes ExclusionTakesEffect hold while the operator area handles one *)
(* request at a time: a SET that is still to come writes the document its   *)
(* GET read, changed by the one entry.                                      *)
DraftIsCurrent ==
    /\ promised \subseteq Excluded
    /\ \A o \in Operators :
         /\ edit[o].op = "add" => edit[o].draft = stored \cup {edit[o].entry}
         /\ edit[o].op = "remove" =>
                /\ edit[o].draft = stored \ {edit[o].entry}
                /\ edit[o].entry \notin promised

-----------------------------------------------------------------------------
(* The area never stores more entries than it says it does, also when the   *)
(* list was read some time before it is written (MAX_STORED_ENTRIES).       *)
StoredWithinCeiling ==
    /\ Cardinality(stored) <= MaxStored
    /\ \A o \in Operators : Cardinality(edit[o].draft) <= MaxStored

(* A cooldown that refuses visitors is owed to exactly one of them, who got *)
(* past every check and either has a scan or died registering it: the many  *)
(* who arrive together do not share it, and nobody refused holds one.       *)
CooldownHasOneHolder ==
    /\ \A v \in holder : target[v] \in cooldown /\ visit[v] \in Claimed
    /\ \A h \in cooldown :
         \E v \in holder : {w \in holder : target[w] = h} = {v}

(* An exclusion is in force from the next request (app.py, admin_exclusions)*)
(* and for scans that wait already (tasks.py, run_scan): once an operator   *)
(* was told a host is excluded, and until one withdraws it, the guard lets  *)
(* no submission for it pass, and no job that looks at the exclusions goes  *)
(* on.  A job that has looked reads its reference data first and probes     *)
(* whatever is excluded meanwhile; of that nothing is said here.            *)
ExclusionTakesEffect ==
    [][\A v \in Visitors :
         visit'[v] # visit[v] /\ visit'[v] \in {"approval", "schedule"}
             => target[v] \notin promised]_admissionVars

(* blocklist.py: "an exclusion is withdrawn by somebody, never by the       *)
(* clock", and losing one makes the service scan what it was told not to:   *)
(* what was told to be excluded is on the list the guard reads.             *)
PromisedIsExcluded == promised \subseteq Excluded

=============================================================================
