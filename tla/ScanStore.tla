------------------------------ MODULE ScanStore ------------------------------
(***************************************************************************)
(* The Redis namespace of webapp/store.py: four keys per scan uuid, one    *)
(* shared list of pending uuids, and the ARQ queue beside them.            *)
(*                                                                         *)
(* Every operator below that primes a variable is ONE Redis command (or    *)
(* one Lua script): Redis runs those atomically, and every `await` of the  *)
(* program lies between two of them.  The values of the keys are           *)
(* abstracted to what the program branches on: whether the metadata, the   *)
(* result and the prober fingerprint exist, and the state the status key   *)
(* names.                                                                  *)
(***************************************************************************)
EXTENDS Naturals, Sequences, FiniteSets, SequencesExt

CONSTANTS
    Scans       \* the scan uuids; a uuid4 is never handed out twice

VARIABLES
    meta,       \* uuids whose scan:{uuid}:metadata key exists
    status,     \* scan:{uuid}:status, "none" when the key does not exist
    result,     \* uuids whose scan:{uuid}:result key exists
    prober,     \* uuids whose scan:{uuid}:prober key exists
    line,       \* QUEUE_KEY, the list queue positions are read from
    lineTTL,    \* whether QUEUE_KEY carries an expiry
    jobs        \* uuids ARQ holds a run_scan job for that no worker took yet

namespace == <<meta, status, result, prober>>
storeVars == <<meta, status, result, prober, line, lineTTL, jobs>>

Queued    == "queued"
Running   == "running"
Completed == "completed"
Failed    == "failed"

Terminal == {Completed, Failed}

(* States only a transition writes: its SET renews the TTL of every key it  *)
(* writes, so from then on metadata, status and result expire together.     *)
Renewed == {Running} \cup Terminal

States == {"none", Queued} \cup Renewed

NoKeys(s) ==
    /\ s \notin meta
    /\ s \notin result
    /\ s \notin prober
    /\ status[s] = "none"

StoreInit ==
    /\ meta = {}
    /\ status = [s \in Scans |-> "none"]
    /\ result = {}
    /\ prober = {}
    /\ line = <<>>
    /\ lineTTL = FALSE
    /\ jobs = {}

StoreTypeOK ==
    /\ meta \subseteq Scans
    /\ status \in [Scans -> States]
    /\ result \subseteq Scans
    /\ prober \subseteq Scans
    /\ lineTTL \in BOOLEAN
    /\ jobs \subseteq Scans

-----------------------------------------------------------------------------
(* Commands on one scan's keys *)

SetMetadata(s) ==
    /\ meta' = meta \cup {s}
    /\ UNCHANGED <<status, result, prober, line, lineTTL, jobs>>

SetProber(s) ==
    /\ prober' = prober \cup {s}
    /\ UNCHANGED <<meta, status, result, line, lineTTL, jobs>>

SetQueued(s) ==
    /\ status' = [status EXCEPT ![s] = Queued]
    /\ UNCHANGED <<meta, result, prober, line, lineTTL, jobs>>

DeleteProber(s) ==
    /\ prober' = prober \ {s}
    /\ UNCHANGED <<meta, status, result, line, lineTTL, jobs>>

(* Mutant: a plain SET, which revives what an erasure or the clock took.    *)
SetAnyway(s, state) ==
    /\ meta' = meta \cup {s}
    /\ status' = [status EXCEPT ![s] = state]
    /\ result' = IF state = Completed THEN result \cup {s} ELSE result
    /\ UNCHANGED <<prober, line, lineTTL, jobs>>

(* set_if_exists: the write of _transition.  It commits only while the      *)
(* metadata and the status it read are both still there.                    *)
SetIfExists(s, state) ==
    /\ IF s \in meta /\ status[s] # "none"
       THEN /\ status' = [status EXCEPT ![s] = state]
            /\ result' = IF state = Completed THEN result \cup {s} ELSE result
       ELSE UNCHANGED <<status, result>>
    /\ UNCHANGED <<meta, prober, line, lineTTL, jobs>>

(* Mutants: a DEL that forgets one of the four keys.                        *)
DeleteButResult(s) ==
    /\ meta' = meta \ {s}
    /\ status' = [status EXCEPT ![s] = "none"]
    /\ prober' = prober \ {s}
    /\ UNCHANGED <<result, line, lineTTL, jobs>>

DeleteButStatus(s) ==
    /\ meta' = meta \ {s}
    /\ result' = result \ {s}
    /\ prober' = prober \ {s}
    /\ UNCHANGED <<status, line, lineTTL, jobs>>

(* The one DEL of purge_target, over all four keys.                         *)
DeleteNamespace(s) ==
    /\ meta' = meta \ {s}
    /\ status' = [status EXCEPT ![s] = "none"]
    /\ result' = result \ {s}
    /\ prober' = prober \ {s}
    /\ UNCHANGED <<line, lineTTL, jobs>>

-----------------------------------------------------------------------------
(* Commands on QUEUE_KEY.  Redis deletes a list that becomes empty, and its *)
(* expiry with it.                                                          *)

PushLine(s) ==
    /\ line' = Append(line, s)
    /\ UNCHANGED <<namespace, lineTTL, jobs>>

LimitLine ==
    /\ lineTTL' = (line # <<>>)
    /\ UNCHANGED <<namespace, line, jobs>>

LeaveLine(s) ==                                          \* LREM 1
    /\ line' = RemoveFirst(line, s)
    /\ lineTTL' = (lineTTL /\ line' # <<>>)
    /\ UNCHANGED <<namespace, jobs>>

(* What is left of a queue that everything equal to s is taken out of.      *)
Without(queue, s) ==
    LET kept[n \in 0..Len(queue)] ==
            IF n = 0 THEN <<>>
            ELSE IF queue[n] = s THEN kept[n - 1]
            ELSE Append(kept[n - 1], queue[n])
    IN  kept[Len(queue)]

ClearFromLine(s) ==                                      \* LREM 0
    /\ line' = Without(line, s)
    /\ lineTTL' = (lineTTL /\ line' # <<>>)
    /\ UNCHANGED <<namespace, jobs>>

(* Where a uuid stands in the line, 0 when it is not in it (LPOS).          *)
Position(queue, s) ==
    LET at == {i \in 1..Len(queue) : queue[i] = s}
    IN  IF at = {} THEN 0 ELSE Min(at)

-----------------------------------------------------------------------------
(* Expiry.  The keys create() writes carry the same TTL one round trip      *)
(* apart, so they go in the order they were written; a transition renews    *)
(* metadata and status (and writes the result) with one and the same        *)
(* deadline, later than the prober's.                                       *)

ExpireMetadata(s) ==
    /\ s \in meta
    /\ status[s] \notin Renewed
    /\ meta' = meta \ {s}
    /\ UNCHANGED <<status, result, prober, line, lineTTL, jobs>>

(* Mutant: the fingerprint is set without an expiry.                        *)
ProberStays(s) ==
    /\ s \in prober
    /\ s \in meta /\ s \notin meta
    /\ UNCHANGED storeVars

ExpireProber(s) ==
    /\ s \in prober
    /\ s \in meta => status[s] \in Renewed
    /\ prober' = prober \ {s}
    /\ UNCHANGED <<meta, status, result, line, lineTTL, jobs>>

ExpireStatus(s) ==
    /\ status[s] = Queued
    /\ s \notin meta \cup prober
    /\ status' = [status EXCEPT ![s] = "none"]
    /\ UNCHANGED <<meta, result, prober, line, lineTTL, jobs>>

(* Mutant: a transition writes its keys without an expiry.                  *)
RecordStays(s) ==
    /\ status[s] \in Renewed
    /\ s \in meta /\ s \notin meta
    /\ UNCHANGED storeVars

ExpireRecord(s) ==
    /\ status[s] \in Renewed
    /\ s \notin prober
    /\ meta' = meta \ {s}
    /\ status' = [status EXCEPT ![s] = "none"]
    /\ result' = result \ {s}
    /\ UNCHANGED <<prober, line, lineTTL, jobs>>

(* EXPIRE QUEUE_KEY max(ttl, 3600) runs at the end of every create, so by   *)
(* the time it fires the status of every scan that reached it has expired.  *)
ExpireLine ==
    /\ lineTTL
    /\ line # <<>>
    /\ \A s \in Scans : status[s] # Queued
    /\ line' = <<>>
    /\ lineTTL' = FALSE
    /\ UNCHANGED <<namespace, jobs>>

=============================================================================
