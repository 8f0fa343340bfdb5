-------------------------------- MODULE Updates --------------------------------
(***************************************************************************)
(* The in-place update (webapp/updates.py): the operator's area has the    *)
(* newest release fetched, verified and unpacked, tells the workers which  *)
(* it was, and every process restarts from the tree it unpacked.  A tree   *)
(* is unpacked in one staging directory of its container, file by file,    *)
(* and several requests of one web process may be at it side by side.      *)
(***************************************************************************)
EXTENDS FiniteSets, Naturals

CONSTANTS
    Web,            \* the container of the web process
    Followers,      \* the containers of the workers
    Presses,        \* requests of the operator's area (bound)
    Jobs,           \* runs of the workers' cron job (bound)
    JobOf,          \* the worker a run falls to
    Parts,          \* what a bundle holds
    Marker,         \* webapp/__init__.py, the part install() looks for
    MaxReturns      \* bound: restarts of a container from its image

ASSUME UpdatesAssumption ==
    /\ Web \notin Followers
    /\ Presses \cap Jobs = {}
    /\ JobOf \in [Jobs -> Followers]
    /\ Marker \in Parts
    /\ MaxReturns \in Nat

(* Who unpacks, and where: every container has a tmpfs of its own.          *)
Installers == Presses \cup Jobs
Containers == {Web} \cup Followers
At(i) == IF i \in Presses THEN Web ELSE JobOf[i]

VARIABLES
    code,           \* "image", "release", or "partial": started half unpacked
    tree,           \* parts of the unpacked tree, a set in a set; {} without
    staging,        \* likewise: what the staging directory holds
    stage,          \* what each installer does next
    unwritten,      \* the parts its archive has still to write
    abandoned,      \* jobs that timed out, their thread still at work
    wanted,         \* TARGET_KEY is set
    attempted,      \* containers whose attempt is recorded
    followed,       \* history: containers that restarted by following
    again,          \* history: ... and that did so a second time
    returns

updateVars == <<code, tree, staging, stage, unwritten, abandoned, wanted,
                attempted, followed, again, returns>>

Absent == {}

UpdatesTypeOK ==
    /\ code \in [Containers -> {"image", "release", "partial"}]
    /\ tree \in [Containers -> SUBSET SUBSET Parts]
    /\ staging \in [Containers -> SUBSET SUBSET Parts]
    /\ stage \in [Installers -> {"idle", "fetch", "clear", "extract", "move",
                                "tidy", "record", "tell", "restart"}]
    /\ unwritten \in [Installers -> SUBSET Parts]
    /\ abandoned \subseteq Jobs
    /\ wanted \in BOOLEAN
    /\ attempted \subseteq Containers
    /\ followed \subseteq Followers /\ again \subseteq Followers
    /\ returns \in 0..MaxReturns

UpdatesInit ==
    /\ code = [c \in Containers |-> "image"]
    /\ tree = [c \in Containers |-> Absent]
    /\ staging = [c \in Containers |-> Absent]
    /\ stage = [i \in Installers |-> "idle"]
    /\ unwritten = [i \in Installers |-> {}]
    /\ abandoned = {}
    /\ wanted = FALSE
    /\ attempted = {} /\ followed = {} /\ again = {}
    /\ returns = 0

Unpacking == {"fetch", "clear", "extract", "move", "tidy"}

GoOn(i, to) == stage' = [stage EXCEPT ![i] = to]

Installing == <<code, abandoned, wanted, attempted, followed, again, returns>>

-----------------------------------------------------------------------------
(* install(): a tree that is there already is returned as it is.            *)
Install(i) ==
    GoOn(i, IF \E t \in tree[At(i)] : Marker \in t THEN "record" ELSE "fetch")

(* request_update: nothing to do on the newest release.                     *)
Press(i) ==
    /\ i \in Presses
    /\ stage[i] = "idle"
    /\ code[Web] = "image"
    /\ Install(i)
    /\ UNCHANGED <<Installing, tree, staging, unwritten>>

(* The run before it has ended, or was cut off (REFRESH_JOB_TIMEOUT_SECONDS).*)
Alone(i) ==
    \A j \in Jobs : At(j) = At(i) /\ stage[j] # "idle" => j # i /\ j \in abandoned

(* Mutant: the recorded attempt is not looked at.                           *)
FollowRegardless(i) ==
    /\ i \in Jobs
    /\ Alone(i)
    /\ wanted
    /\ code[At(i)] = "image"
    /\ Install(i)
    /\ UNCHANGED <<Installing, tree, staging, unwritten>>

(* follow_update, by whichever worker the minute's job fell to: a release   *)
(* this container tried before is left alone.                               *)
Follow(i) ==
    /\ i \in Jobs
    /\ Alone(i)
    /\ wanted
    /\ code[At(i)] = "image"
    /\ At(i) \notin attempted
    /\ Install(i)
    /\ UNCHANGED <<Installing, tree, staging, unwritten>>

(* ARQ cancels the job; the thread that unpacks runs on.                    *)
TimeOut(i) ==
    /\ i \in Jobs \ abandoned
    /\ stage[i] \in Unpacking
    /\ abandoned' = abandoned \cup {i}
    /\ UNCHANGED <<code, tree, staging, stage, unwritten, wanted, attempted, followed,
                   again, returns>>

(* No download, no attestation, no space: UpdateError or OSError.           *)
InstallFails(i) ==
    /\ stage[i] \in {"fetch", "clear", "extract", "move"}
    /\ GoOn(i, "idle")
    /\ unwritten' = [unwritten EXCEPT ![i] = {}]
    /\ abandoned' = abandoned \ {i}
    /\ UNCHANGED <<code, tree, staging, wanted, attempted, followed, again, returns>>

Verified(i) ==
    /\ stage[i] = "fetch"
    /\ GoOn(i, "clear")
    /\ UNCHANGED <<Installing, tree, staging, unwritten>>

(* shutil.rmtree takes the staged files one by one, whoever wrote them.     *)
Unlink(i) ==
    /\ stage[i] \in {"clear", "tidy"}
    /\ \E dir \in staging[At(i)] : \E p \in dir :
          staging' = [staging EXCEPT ![At(i)] = {dir \ {p}}]
    /\ UNCHANGED <<Installing, tree, stage, unwritten>>

(* ... and the directory last; mkdir wants it gone.                         *)
MakeStaging(i) ==
    /\ stage[i] = "clear"
    /\ staging[At(i)] \in {Absent, {{}}}
    /\ staging' = [staging EXCEPT ![At(i)] = {{}}]
    /\ unwritten' = [unwritten EXCEPT ![i] = Parts]
    /\ GoOn(i, "extract")
    /\ UNCHANGED <<Installing, tree>>

(* archive.extractall writes a file, and the directories it needs.          *)
Extract(i) ==
    /\ stage[i] = "extract"
    /\ \E p \in unwritten[i] :
          /\ unwritten' = [unwritten EXCEPT ![i] = @ \ {p}]
          /\ staging' = [staging EXCEPT ![At(i)] = {UNION @ \cup {p}}]
    /\ UNCHANGED <<Installing, tree, stage>>

(* The one look at the result: the marker is there (or InstallFails).       *)
Checked(i) ==
    /\ stage[i] = "extract"
    /\ unwritten[i] = {}
    /\ Marker \in UNION staging[At(i)]
    /\ GoOn(i, "move")
    /\ UNCHANGED <<Installing, tree, staging, unwritten>>

(* rename: refused when a tree is there, or the staged one has gone.        *)
Move(i) ==
    /\ stage[i] = "move"
    /\ tree[At(i)] = Absent
    /\ UNION staging[At(i)] # {}
    /\ tree' = [tree EXCEPT ![At(i)] = staging[At(i)]]
    /\ staging' = [staging EXCEPT ![At(i)] = {{}}]
    /\ GoOn(i, "tidy")
    /\ UNCHANGED <<Installing, unwritten>>

Tidied(i) ==
    /\ stage[i] = "tidy"
    /\ UNION staging[At(i)] = {}
    /\ staging' = [staging EXCEPT ![At(i)] = Absent]
    /\ GoOn(i, IF i \in abandoned THEN "idle" ELSE "record")
    /\ abandoned' = abandoned \ {i}
    /\ UNCHANGED <<code, tree, unwritten, wanted, attempted, followed, again, returns>>

(* _first_attempt, for a day; its answer is not looked at.                  *)
Record(i) ==
    /\ stage[i] = "record"
    /\ attempted' = attempted \cup {At(i)}
    /\ GoOn(i, IF i \in Presses THEN "tell" ELSE "restart")
    /\ UNCHANGED <<code, tree, staging, unwritten, abandoned, wanted, followed, again,
                   returns>>

(* The connection fails: the exception leaves the job, nothing restarts.    *)
RecordFails(i) ==
    /\ stage[i] = "record"
    /\ GoOn(i, "idle")
    /\ UNCHANGED <<Installing, tree, staging, unwritten>>

Tell(i) ==
    /\ stage[i] = "tell"
    /\ wanted' = TRUE
    /\ GoOn(i, "restart")
    /\ UNCHANGED <<code, tree, staging, unwritten, abandoned, attempted, followed,
                   again, returns>>

(* TARGET_TTL_SECONDS have passed.                                          *)
ForgetTarget ==
    /\ wanted
    /\ wanted' = FALSE
    /\ UNCHANGED <<code, tree, staging, stage, unwritten, abandoned, attempted,
                   followed, again, returns>>

Ending(c) == [i \in Installers |-> IF At(i) = c THEN "idle" ELSE stage[i]]
Emptied(c) == [i \in Installers |-> IF At(i) = c THEN {} ELSE unwritten[i]]

(* restart_into: execve ends every thread of the process.                   *)
SwitchTo(i) ==
    LET c == At(i) IN
    /\ stage[i] = "restart"
    /\ code' = [code EXCEPT
                     ![c] = IF {Parts} = tree[c] THEN "release" ELSE "partial"]
    /\ stage' = Ending(c)
    /\ unwritten' = Emptied(c)
    /\ abandoned' = {j \in abandoned : At(j) # c}
    /\ IF c = Web THEN UNCHANGED <<followed, again>>
       ELSE /\ followed' = followed \cup {c}
            /\ again' = again \cup (followed \cap {c})
    /\ UNCHANGED <<tree, staging, wanted, attempted, returns>>

(* A container starts anew from its image, with an empty tmpfs: it was      *)
(* restarted, or what it had switched to did not start.                     *)
BackToImage(c) ==
    /\ returns < MaxReturns
    /\ returns' = returns + 1
    /\ code' = [code EXCEPT ![c] = "image"]
    /\ tree' = [tree EXCEPT ![c] = Absent]
    /\ staging' = [staging EXCEPT ![c] = Absent]
    /\ stage' = Ending(c)
    /\ unwritten' = Emptied(c)
    /\ abandoned' = {i \in abandoned : At(i) # c}
    /\ UNCHANGED <<wanted, attempted, followed, again>>

InstallStep(i) ==
    \/ Press(i)
    \/ Follow(i)
    \/ TimeOut(i)
    \/ InstallFails(i)
    \/ Verified(i)
    \/ Unlink(i)
    \/ MakeStaging(i)
    \/ Extract(i)
    \/ Checked(i)
    \/ Move(i)
    \/ Tidied(i)
    \/ Record(i)
    \/ RecordFails(i)
    \/ Tell(i)

UpdatesNext ==
    \/ \E i \in Installers : InstallStep(i) \/ SwitchTo(i)
    \/ \E c \in Containers : BackToImage(c)
    \/ ForgetTarget

UpdatesSpec == UpdatesInit /\ [][UpdatesNext]_updateVars

-----------------------------------------------------------------------------
(* A container follows one release at most once a day: back on its image    *)
(* after a release that did not start, it does not switch again - also      *)
(* when the store failed while the attempt was recorded, or the container   *)
(* went down between the unpacking and the restart (updates.py; adr/0070,   *)
(* "cannot crash-loop").                                                    *)
TriedOnce == again = {}

=============================================================================
