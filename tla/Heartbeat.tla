------------------------------- MODULE Heartbeat -------------------------------
(***************************************************************************)
(* The signal /healthz is answered from (webapp/tasks.py): every worker    *)
(* writes the one key of all workers at startup and in a task of its own,  *)
(* and deletes it when it shuts down.  Time passes in steps; a step is     *)
(* HEARTBEAT_INTERVAL_SECONDS / Interval long.                             *)
(***************************************************************************)
EXTENDS Naturals

CONSTANTS
    Workers,
    Interval,       \* HEARTBEAT_INTERVAL_SECONDS, in steps
    Ttl,            \* HEARTBEAT_TTL_SECONDS, in steps
    MaxRefusals,    \* bound: writes of a heartbeat that Redis refuses
    Nobody          \* no publisher yet

ASSUME HeartbeatAssumption ==
    /\ Interval \in Nat \ {0}
    /\ Ttl \in Nat /\ Ttl > Interval
    /\ MaxRefusals \in Nat
    /\ Nobody \notin Workers

VARIABLES
    worker,         \* "down", "up", or "closing": its task is cancelled
    task,           \* the heartbeat task: "none", "running", "failed"
    due,            \* steps until the task wakes up
    signal,         \* remaining life of WORKER_HEARTBEAT_KEY, 0 without it
    publisher,      \* history: who wrote the key last
    stopped,        \* history: workers that were shut down, and not started again
    gap,            \* history: steps without the key while a task ran
    silence,        \* history: steps since each worker last wrote, up to Ttl
    refusals

heartbeatVars == <<worker, task, due, signal, publisher, stopped, gap, silence,
                   refusals>>

HeartbeatTypeOK ==
    /\ worker \in [Workers -> {"down", "up", "closing"}]
    /\ task \in [Workers -> {"none", "running", "failed"}]
    /\ due \in [Workers -> 0..Interval]
    /\ signal \in 0..Ttl
    /\ publisher \in Workers \cup {Nobody}
    /\ stopped \subseteq Workers
    /\ gap \in 0..Ttl
    /\ silence \in [Workers -> 0..Ttl]
    /\ refusals \in 0..MaxRefusals

HeartbeatInit ==
    /\ worker = [w \in Workers |-> "down"]
    /\ task = [w \in Workers |-> "none"]
    /\ due = [w \in Workers |-> 0]
    /\ signal = 0
    /\ publisher = Nobody
    /\ stopped = {}
    /\ gap = 0
    /\ silence = [w \in Workers |-> 0]
    /\ refusals = 0

(* publish_worker_heartbeat: SET with an expiry.                            *)
Publish(w) ==
    /\ signal' = Ttl
    /\ publisher' = w
    /\ gap' = 0
    /\ silence' = [silence EXCEPT ![w] = 0]

Ended(w) ==
    /\ task' = [task EXCEPT ![w] = "none"]
    /\ due' = [due EXCEPT ![w] = 0]

-----------------------------------------------------------------------------
(* startup: the key is written once, then the task is created, which writes *)
(* it again as soon as it runs.                                             *)
Start(w) ==
    /\ worker[w] = "down"
    /\ worker' = [worker EXCEPT ![w] = "up"]
    /\ task' = [task EXCEPT ![w] = "running"]
    /\ Publish(w)
    /\ stopped' = stopped \ {w}
    /\ UNCHANGED <<due, refusals>>

(* startup refuses the configuration (ensure_encryption_ready): ARQ then    *)
(* closes the worker, and shutdown runs without a task.                     *)
StartRefused(w) ==
    /\ worker[w] = "down"
    /\ worker' = [worker EXCEPT ![w] = "closing"]
    /\ UNCHANGED <<task, due, signal, publisher, stopped, gap, silence, refusals>>

(* Mutant: the task sleeps as long as the key lives.                        *)
BeatRarely(w) ==
    /\ task[w] = "running" /\ due[w] = 0
    /\ due' = [due EXCEPT ![w] = Ttl]
    /\ Publish(w)
    /\ UNCHANGED <<worker, task, stopped, refusals>>

(* One round of _heartbeat.                                                 *)
Beat(w) ==
    /\ task[w] = "running" /\ due[w] = 0
    /\ due' = [due EXCEPT ![w] = Interval]
    /\ Publish(w)
    /\ UNCHANGED <<worker, task, stopped, refusals>>

(* Redis refuses the SET - out of memory, read-only - while reads go on:    *)
(* the exception ends the task, and nothing else.                           *)
BeatRefused(w) ==
    /\ task[w] = "running" /\ due[w] = 0
    /\ refusals < MaxRefusals
    /\ refusals' = refusals + 1
    /\ task' = [task EXCEPT ![w] = "failed"]
    /\ UNCHANGED <<worker, due, signal, publisher, stopped, gap, silence>>

(* shutdown: the task is cancelled and awaited.  A task that failed raises  *)
(* its own exception there, and the rest of shutdown is not reached.        *)
CancelHeartbeat(w) ==
    /\ worker[w] = "up"
    /\ worker' = [worker EXCEPT
                    ![w] = IF task[w] = "failed" THEN "down" ELSE "closing"]
    /\ Ended(w)
    /\ UNCHANGED <<signal, publisher, stopped, gap, silence, refusals>>

(* ... and the key of all workers is deleted.                               *)
DeleteSignal(w) ==
    /\ worker[w] = "closing"
    /\ worker' = [worker EXCEPT ![w] = "down"]
    /\ Ended(w)
    /\ signal' = 0
    /\ stopped' = stopped \cup {w}
    /\ UNCHANGED <<publisher, gap, silence, refusals>>

(* The process dies, or replaces itself (restart_into): no shutdown.        *)
Crash(w) ==
    /\ worker[w] # "down"
    /\ worker' = [worker EXCEPT ![w] = "down"]
    /\ Ended(w)
    /\ UNCHANGED <<signal, publisher, stopped, gap, silence, refusals>>

(* A step of time.  A task that is due runs before it passes.               *)
TimePasses ==
    /\ \A w \in Workers : task[w] = "running" => due[w] > 0
    /\ due' = [w \in Workers |-> IF task[w] = "running" THEN due[w] - 1 ELSE due[w]]
    /\ signal' = IF signal > 0 THEN signal - 1 ELSE 0
    /\ gap' = IF signal' = 0 /\ gap < Ttl /\ (\E w \in Workers : task[w] = "running")
              THEN gap + 1 ELSE gap
    /\ silence' = [w \in Workers |->
                     IF silence[w] < Ttl /\ worker[w] = "up" THEN silence[w] + 1
                     ELSE silence[w]]
    /\ UNCHANGED <<worker, task, publisher, stopped, refusals>>

WorkerStep(w) ==
    \/ Start(w)
    \/ StartRefused(w)
    \/ Beat(w)
    \/ BeatRefused(w)
    \/ CancelHeartbeat(w)
    \/ DeleteSignal(w)

HeartbeatNext == TimePasses \/ \E w \in Workers : WorkerStep(w) \/ Crash(w)

HeartbeatSpec == HeartbeatInit /\ [][HeartbeatNext]_heartbeatVars

-----------------------------------------------------------------------------
(* /healthz answers ok while the key lives.  However workers come and go:   *)
(* the key a worker left by a clean shutdown is gone, and while the task of *)
(* any worker runs the key is missing for one interval at most, although    *)
(* every shutdown deletes what the other workers wrote (tasks.py, shutdown; *)
(* adr/0003, "deleted on a clean worker shutdown").                         *)
ReadinessIsHonest ==
    /\ signal > 0 => publisher \notin stopped
    /\ gap <= Interval

(* adr/0003: "Each worker writes a fixed Redis key ... and refreshes it     *)
(* every 10 seconds."                                                       *)
RefreshedWhileUp ==
    \A w \in Workers : worker[w] = "up" => silence[w] <= Interval

=============================================================================
