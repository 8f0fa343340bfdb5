------------------------------ MODULE ScanReader ------------------------------
(***************************************************************************)
(* ScanStore.get as the holder of a uuid polls it: the status, then the    *)
(* metadata, then - of a scan read as completed - the result, each its own *)
(* GET.  Everything else the service does may run between two of them.     *)
(***************************************************************************)
EXTENDS ScanService

VARIABLES
    sought,     \* the uuid the request that is running names, as a set
    step,       \* the GET that comes next
    draft,      \* what the request has read so far
    answer      \* the last answer the client was given

readerVars == <<sought, step, draft, answer>>

Answer == [state   : States \cup {"missing"},
           target  : BOOLEAN,           \* the answer names what was scanned
           result  : BOOLEAN]           \* the answer carries the document

Blank == [state |-> "none", target |-> FALSE, result |-> FALSE]

ReaderTypeOK ==
    /\ sought \in SUBSET Scans
    /\ step \in {"idle", "metadata", "result", "reply"}
    /\ draft \in Answer
    /\ answer \in [Scans -> Answer]

ReaderInit ==
    /\ Init
    /\ sought = {}
    /\ step = "idle"
    /\ draft = Blank
    /\ answer = [s \in Scans |-> Blank]

(* The uuid is in the response to the submission, so nobody asks before.    *)
ReadStatus(s) ==
    /\ step = "idle"
    /\ submit[s] = "accepted"
    /\ sought' = {s}
    /\ IF status[s] = "none"
       THEN /\ step' = "reply"
            /\ draft' = [Blank EXCEPT !.state = "missing"]
       ELSE /\ step' = "metadata"
            /\ draft' = [Blank EXCEPT !.state = status[s]]
    /\ UNCHANGED answer

ReadMetadata(s) ==
    /\ step = "metadata"
    /\ s \in sought
    /\ step' = IF draft.state = Completed THEN "result" ELSE "reply"
    /\ draft' = [draft EXCEPT !.target = s \in meta]
    /\ UNCHANGED <<sought, answer>>

ReadResult(s) ==
    /\ step = "result"
    /\ s \in sought
    /\ step' = "reply"
    /\ draft' = [draft EXCEPT !.result = s \in result]
    /\ UNCHANGED <<sought, answer>>

Reply(s) ==
    /\ step = "reply"
    /\ s \in sought
    /\ answer' = [answer EXCEPT ![s] = draft]
    /\ step' = "idle"
    /\ sought' = {}
    /\ draft' = Blank

Read(s) == ReadStatus(s) \/ ReadMetadata(s) \/ ReadResult(s) \/ Reply(s)

ReaderNext ==
    \/ Next /\ UNCHANGED readerVars
    \/ \E s \in Scans : Read(s) /\ UNCHANGED vars

allVars == <<vars, readerVars>>

ReaderSpec == ReaderInit /\ [][ReaderNext]_allVars

(* Handlers and jobs run on while their process lives, deadlines pass, and  *)
(* the client keeps asking.                                                 *)
PollingSpec ==
    /\ ReaderSpec
    /\ \A s \in Scans :
         /\ WF_allVars(Register(s) /\ UNCHANGED readerVars)
         /\ WF_allVars(StartJob(s) /\ UNCHANGED readerVars)
         /\ WF_allVars(RunJob(s) /\ UNCHANGED readerVars)
         /\ WF_allVars(ExpireKeys(s) /\ UNCHANGED readerVars)
         /\ WF_allVars(Read(s) /\ UNCHANGED vars)
    /\ WF_allVars(ExpireQueue /\ UNCHANGED readerVars)

-----------------------------------------------------------------------------
Rank(state) ==
    CASE state = "none"    -> 0
      [] state = Queued    -> 1
      [] state = Running   -> 2
      [] state \in Terminal -> 3
      [] state = "missing" -> 4

(* A client that asks again is told the same or a later state: what is      *)
(* completed or failed stays what it is, and a 404 is never taken back,     *)
(* although every answer is put together from reads at different moments    *)
(* (openapi.py, "completed and failed are final").                          *)
AnswersMoveForwards ==
    [][\A s \in Scans :
         /\ Rank(answer[s].state) <= Rank(answer[s].state)'
         /\ answer[s].state \in Terminal
                => answer'[s].state \in {answer[s].state, "missing"}]_allVars

(* A torn answer - completed, without the document - is the last one before *)
(* the 404: the document it lacks is gone for good, never late, because a   *)
(* transition writes the state and the document in one script, and an       *)
(* erasure takes both in one DEL (store.py, set_if_exists, purge_target).   *)
TornAnswerIsLast ==
    [][\A s \in Scans :
         /\ step = "reply" /\ step' = "idle" /\ s \in sought
         /\ answer[s].state = Completed /\ ~ answer[s].result
         => answer'[s].state = "missing"]_allVars

(* A client that keeps asking is told an end: completed, failed, or a 404 - *)
(* also of a scan whose worker died, or whose metadata an erasure took      *)
(* before it was wholly registered (workflows.py, poll until it is done).   *)
PollingEnds ==
    \A s \in Scans :
        submit[s] = "accepted" ~> answer[s].state \in Terminal \cup {"missing"}

=============================================================================
