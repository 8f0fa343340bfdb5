----------------------------- MODULE MCOperations -----------------------------
(***************************************************************************)
(* The heartbeat, the in-place update, the counter of a client limit and   *)
(* the processes that probe share no state the properties speak of: one    *)
(* run explores each of them, and "topic" says which one moves.            *)
(***************************************************************************)
EXTENDS Heartbeat, Updates, ClientLimit, ScanProcess

CONSTANTS w1, w2, p1, c1, j1, j2, n1, n2, marker, rest, s1, s2, h1

VARIABLE topic

operationsVars == <<topic, heartbeatVars, updateVars, limitVars, procAllVars>>

OnlyWorker == [j \in Jobs |-> c1]
OneHost == [s \in Scans |-> h1]

OperationsInit ==
    /\ topic \in {"heartbeat", "update", "limit", "scan process"}
    /\ HeartbeatInit
    /\ UpdatesInit
    /\ LimitInit
    /\ ProcInit

OperationsNext ==
    \/ /\ topic = "heartbeat"
       /\ HeartbeatNext
       /\ UNCHANGED <<topic, updateVars, limitVars, procAllVars>>
    \/ /\ topic = "update"
       /\ UpdatesNext
       /\ UNCHANGED <<topic, heartbeatVars, limitVars, procAllVars>>
    \/ /\ topic = "limit"
       /\ LimitNext
       /\ UNCHANGED <<topic, heartbeatVars, updateVars, procAllVars>>
    \/ /\ topic = "scan process"
       /\ ProcNext
       /\ UNCHANGED <<topic, heartbeatVars, updateVars, limitVars>>

(* As in LimitLiveSpec and ProcLiveSpec.                                    *)
OperationsSpec ==
    /\ OperationsInit
    /\ [][OperationsNext]_operationsVars
    /\ \A c \in Clients :
         /\ WF_limitVars(topic = "limit" /\ Count(c))
         /\ WF_limitVars(topic = "limit" /\ Proceed(c))
    /\ WF_limitVars(topic = "limit" /\ Tick)
    /\ \A s \in Scans :
         /\ WF_procAllVars(topic = "scan process" /\ Register(s) /\ UNCHANGED procVars)
         /\ WF_procAllVars(topic = "scan process" /\ StartJob(s) /\ UNCHANGED procVars)
         /\ WF_procAllVars(topic = "scan process" /\ JobRuns(s))
         /\ WF_procAllVars(topic = "scan process" /\ ParentRuns(s))
=============================================================================
