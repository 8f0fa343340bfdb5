----------------------------- MODULE ScanPurge -----------------------------
(***************************************************************************)
(* ScanStore.purge_target (webapp/store.py): erasure of everything held    *)
(* for one host, behind DELETE /api/purge.  A walk over the keyspace finds *)
(* the uuids whose metadata names the host, each is deleted and then taken *)
(* out of the line, and a second walk counts what still matches for the    *)
(* receipt.  A walk looks at each uuid at a moment of its own.             *)
(***************************************************************************)
EXTENDS ScanStore

CONSTANTS
    Hosts,          \* the hostnames targets name
    HostOf,         \* the host each scan's target names
    PurgeToken      \* whether COS_WEB_PURGE_TOKEN is set: without it, a 404

ASSUME HostOfAssumption == Hosts # {} /\ HostOf \in [Scans -> Hosts]
ASSUME PurgeTokenAssumption == PurgeToken \in BOOLEAN

VARIABLES
    purge           \* the erasure that is running, if one is

PurgeSteps == {"idle", "walk", "delete", "unline", "recheck", "receipt"}

Purge == [step    : PurgeSteps,
          host    : Hosts,
          pending : SUBSET Scans,    \* uuids this walk has not looked at yet
          found   : SUBSET Scans,    \* identifiers of the first walk
          left    : SUBSET Scans,    \* identifiers still to delete
          current : SUBSET Scans,    \* the one whose keys were just deleted
          remaining : SUBSET Scans]  \* what the second walk found

PurgeTypeOK == purge \in Purge

IdlePurge ==
    [step |-> "idle", host |-> CHOOSE h \in Hosts : TRUE, pending |-> {},
     found |-> {}, left |-> {}, current |-> {}, remaining |-> {}]

PurgeInit == purge = IdlePurge

Matches(s) == s \in meta /\ HostOf[s] = purge.host

PurgeStart(h) ==
    /\ PurgeToken
    /\ purge.step = "idle"
    /\ purge' = [purge EXCEPT !.step = "walk", !.host = h, !.pending = Scans]
    /\ UNCHANGED storeVars

PurgeVisit(s) ==
    /\ purge.step = "walk"
    /\ s \in purge.pending
    /\ purge' = [purge EXCEPT !.pending = @ \ {s},
                              !.found = IF Matches(s) THEN @ \cup {s} ELSE @]
    /\ UNCHANGED storeVars

(* Mutant: a dry run, which counts what it found and deletes nothing.       *)
PurgeWalkedOnly ==
    /\ purge.step = "walk"
    /\ purge.pending = {}
    /\ purge' = [purge EXCEPT !.step = "recheck", !.pending = Scans]
    /\ UNCHANGED storeVars

PurgeWalked ==
    /\ purge.step = "walk"
    /\ purge.pending = {}
    /\ purge' = IF purge.found = {}
                THEN [purge EXCEPT !.step = "recheck", !.pending = Scans]
                ELSE [purge EXCEPT !.step = "delete", !.left = purge.found]
    /\ UNCHANGED storeVars

PurgeDelete(s) ==
    /\ purge.step = "delete"
    /\ s \in purge.left
    /\ DeleteNamespace(s)
    /\ purge' = [purge EXCEPT !.step = "unline", !.current = {s}, !.left = @ \ {s}]

PurgeUnline ==
    /\ purge.step = "unline"
    /\ \E s \in purge.current : ClearFromLine(s)
    /\ purge' = IF purge.left = {}
                THEN [purge EXCEPT !.step = "recheck", !.pending = Scans]
                ELSE [purge EXCEPT !.step = "delete"]

PurgeRevisit(s) ==
    /\ purge.step = "recheck"
    /\ s \in purge.pending
    /\ purge' = [purge EXCEPT !.pending = @ \ {s},
                              !.remaining = IF Matches(s) THEN @ \cup {s} ELSE @]
    /\ UNCHANGED storeVars

PurgeRechecked ==
    /\ purge.step = "recheck"
    /\ purge.pending = {}
    /\ purge' = [purge EXCEPT !.step = "receipt"]
    /\ UNCHANGED storeVars

(* The receipt is sent, or the handler dies on the way to one.              *)
PurgeEnd ==
    /\ purge.step # "idle"
    /\ purge' = IdlePurge
    /\ UNCHANGED storeVars

PurgeStep ==
    \/ \E h \in Hosts : PurgeStart(h)
    \/ \E s \in Scans : PurgeVisit(s) \/ PurgeDelete(s) \/ PurgeRevisit(s)
    \/ PurgeWalked
    \/ PurgeUnline
    \/ PurgeRechecked
    \/ PurgeEnd

=============================================================================
