-------------------------- MODULE ScanReaderProofs --------------------------
(***************************************************************************)
(* What a polling client is told, for every set of uuids: its answers only *)
(* move forwards, although each is put together from several reads.  Then  *)
(* what is done with those answers: an agent that waits for its scan and   *)
(* asks for the plan, and the comparisons an erasure walks over.           *)
(***************************************************************************)
EXTENDS ScanClients, ScanServiceProofs

(* The service goes on as before while somebody reads.                      *)
LEMMA ServiceMoves == ReaderNext => [Next]_vars
BY DEF ReaderNext

(* Reading changes nothing the service's invariant speaks of.               *)
LEMMA ServiceInvariance == ReaderSpec => []ScanInv
<1>1. ReaderInit => ScanInv
  BY InitScanInv DEF ReaderInit
<1>2. ScanInv /\ [ReaderNext]_allVars => ScanInv'
  <2>1. [ReaderNext]_allVars => [Next]_vars
    BY ServiceMoves DEF allVars
  <2> QED
    BY <2>1, NextScanInv
<1> QED
  BY <1>1, <1>2, PTL DEF ReaderSpec

(* Types, as a theorem of the specification.                                *)
THEOREM ReaderTypeCorrect == ReaderSpec => []ReaderTypeOK
<1>1. ReaderInit => ReaderTypeOK
  BY DEF ReaderInit, ReaderTypeOK, Blank, Answer, States
<1>2. ReaderTypeOK /\ ScanInv /\ [ReaderNext]_allVars => ReaderTypeOK'
  <2> SUFFICES ASSUME ReaderTypeOK, ScanInv, [ReaderNext]_allVars PROVE ReaderTypeOK'
    OBVIOUS
  <2> USE DEF ReaderTypeOK, Blank, Answer, States
  <2>1. ASSUME NEW s \in Scans, Read(s) PROVE ReaderTypeOK'
    <3>1. status[s] \in States
      BY DEF ScanInv, TypeOK, StoreTypeOK
    <3>2. CASE ReadStatus(s)
      <4>1. draft' \in Answer
        BY <3>1, <3>2 DEF ReadStatus
      <4> QED
        BY <3>2, <4>1 DEF ReadStatus
    <3>3. CASE ReadMetadata(s)
      <4>1. draft \in Answer /\ draft' = [draft EXCEPT !.target = s \in meta]
        BY <3>3 DEF ReadMetadata
      <4>2. (s \in meta) \in BOOLEAN
        OBVIOUS
      <4>3. draft' \in Answer
        BY <4>1, <4>2
      <4> QED
        BY <3>3, <4>3 DEF ReadMetadata
    <3>4. CASE ReadResult(s)
      <4>1. draft \in Answer /\ draft' = [draft EXCEPT !.result = s \in result]
        BY <3>4 DEF ReadResult
      <4>2. (s \in result) \in BOOLEAN
        OBVIOUS
      <4>3. draft' \in Answer
        BY <4>1, <4>2
      <4> QED
        BY <3>4, <4>3 DEF ReadResult
    <3>5. CASE Reply(s)
      BY <3>5 DEF Reply
    <3> QED
      BY <2>1, <3>2, <3>3, <3>4, <3>5 DEF Read
  <2>2. CASE UNCHANGED readerVars
    BY <2>2 DEF readerVars
  <2> QED
    BY <2>1, <2>2 DEF ReaderNext, allVars
<1> QED
  BY <1>1, <1>2, ServiceInvariance, PTL DEF ReaderSpec

-----------------------------------------------------------------------------
(* What a request that looked now would be told.                            *)
Shown(s) == IF status[s] = "none" THEN "missing" ELSE status[s]

(* One state may be told after another.                                     *)
Follows(later, earlier) ==
    /\ Rank(earlier) <= Rank(later)
    /\ earlier \in Terminal => later \in {earlier, "missing"}

Told == States \cup {"missing"}

(* What may be told later is an order, with missing at its end.             *)
LEMMA FollowsIsAnOrder ==
    ASSUME NEW a \in Told, NEW b \in Told, NEW c \in Told
    PROVE  /\ Follows(a, a)
           /\ Follows(c, b) /\ Follows(b, a) => Follows(c, a)
           /\ Follows(a, "none")
           /\ Follows(a, "missing") <=> a = "missing"
BY DEF Told, Follows, Rank, States, Renewed, Terminal, Queued, Running, Completed, Failed

(* Whatever the service does, an accepted uuid is shown forwards.           *)
LEMMA ShownForwards ==
    ASSUME ScanInv, ScanInv', [Next]_vars, NEW s \in Scans, submit[s] = "accepted"
    PROVE  submit'[s] = "accepted" /\ Follows(Shown(s)', Shown(s))
<1>1. submit'[s] = "accepted"
  BY DEF ScanInv, TypeOK, SubmissionTypeOK, Next, Begin, Register, Abort, CreateMetadata,
         ContinueSubmission, CreateProber, CreateStatus, CreatePushLine, CreateLimitLine,
         Enqueue, Goto, AbortSubmission, Registering, StartJob, RunJob, Lose, Erase,
         ExpireKeys, ExpireQueue, vars
<1>2. /\ status[s] \in States /\ status'[s] \in States
      /\ View[s] = IF status[s] = "none" THEN "gone" ELSE status[s]
      /\ View'[s] = IF status'[s] = "none" THEN "gone" ELSE status'[s]
  BY <1>1 DEF ScanInv, TypeOK, StoreTypeOK, View, Unshown
<1> USE DEF Follows, Shown, Rank, States, Renewed, Terminal, Queued, Running, Completed,
            Failed
<1>3. CASE View'[s] = View[s]
  BY <1>1, <1>2, <1>3
<1>4. CASE View'[s] # View[s]
  <2>1. PICK t \in Scans : \/ Promise!Register(t) \/ Promise!Begin(t)
                           \/ Promise!Finish(t) \/ Promise!Forget(t)
    BY <1>4, StepSimulates DEF Promise!Next
  <2>2. t = s
    BY <1>4, <2>1 DEF View, Promise!Register, Promise!Begin, Promise!Finish,
                      Promise!Forget, Promise!Move
  <2>3. \/ View[s] = "unknown"
        \/ View[s] = "queued" /\ View'[s] = "running"
        \/ View[s] = "running" /\ View'[s] \in {"completed", "failed"}
        \/ View'[s] = "gone"
    BY <2>1, <2>2 DEF View, Promise!Register, Promise!Begin, Promise!Finish,
                      Promise!Forget, Promise!Move
  <2> QED
    BY <1>1, <1>2, <2>3
<1> QED
  BY <1>3, <1>4

-----------------------------------------------------------------------------
(* What was told and what is about to be told lies behind what is shown,    *)
(* and a completed scan without its document is told only of one that is    *)
(* gone by then.                                                            *)
Behind ==
    /\ \A s \in sought : submit[s] = "accepted"
    /\ \A s, t \in sought : s = t
    /\ step = "idle" <=> sought = {}
    /\ \A s \in Scans : submit[s] # "accepted" => answer[s] = Blank
    /\ \A s \in Scans : submit[s] = "accepted" => Follows(Shown(s), answer[s].state)
    /\ \A s \in sought : /\ Follows(draft.state, answer[s].state)
                         /\ Follows(Shown(s), draft.state)

Torn(reply) == reply.state = Completed /\ ~ reply.result

TornIsGone ==
    /\ \A s \in Scans : Torn(answer[s]) => submit[s] = "accepted" /\ status[s] = "none"
    /\ \A s \in sought :
         /\ Torn(answer[s]) => draft.state = "missing"
         /\ step = "reply" /\ Torn(draft) => status[s] = "none"
         /\ step = "result" => draft.state = Completed

(* At first nothing was read or told.                                       *)
LEMMA InitBehind == ReaderInit => Behind /\ TornIsGone
BY DEF ReaderInit, Behind, TornIsGone, Torn, Blank, Completed, Init, SubmissionInit

(* A step of the service moves what is shown, and that only forwards.       *)
LEMMA ServiceStaysBehind ==
    ASSUME ScanInv, ScanInv', ReaderTypeOK, Behind, TornIsGone, [Next]_vars,
           UNCHANGED readerVars
    PROVE  Behind' /\ TornIsGone'
<1> USE DEF ReaderTypeOK, readerVars
<1>1. \A s \in Scans :
        /\ submit[s] = "accepted" => submit'[s] = "accepted"
        /\ submit[s] = "accepted" => Follows(Shown(s)', Shown(s))
  BY ShownForwards
<1>2. \A s \in Scans : Shown(s) \in Told /\ Shown(s)' \in Told
  BY DEF Shown, Told, ScanInv, TypeOK, StoreTypeOK
<1>3. \A s \in Scans : answer[s].state \in Told /\ draft.state \in Told
  BY DEF Answer, Told
<1>4. \A s \in Scans : answer[s] = Blank => Follows(Shown(s)', answer[s].state)
  BY <1>2, FollowsIsAnOrder DEF Blank
<1>5. \A s \in Scans : submit'[s] = "accepted" => Follows(Shown(s)', answer[s].state)
  <2> SUFFICES ASSUME NEW s \in Scans, submit'[s] = "accepted"
               PROVE  Follows(Shown(s)', answer[s].state)
    OBVIOUS
  <2>1. CASE submit[s] = "accepted"
    BY <1>1, <1>2, <1>3, <2>1, FollowsIsAnOrder DEF Behind
  <2>2. CASE submit[s] # "accepted"
    BY <1>4, <2>2 DEF Behind
  <2> QED
    BY <2>1, <2>2
<1>6. \A s \in sought : Follows(Shown(s)', draft.state)
  BY <1>1, <1>2, <1>3, FollowsIsAnOrder DEF Behind
<1>7. Behind'
  BY <1>1, <1>5, <1>6 DEF Behind
<1>8. \A s \in Scans : submit[s] = "accepted" /\ status[s] = "none" => status'[s] = "none"
  <2> SUFFICES ASSUME NEW s \in Scans, submit[s] = "accepted", status[s] = "none"
               PROVE  status'[s] = "none"
    OBVIOUS
  <2>1. Shown(s)' = "missing"
    BY <1>1, <1>2, FollowsIsAnOrder DEF Shown
  <2>2. status'[s] \in States
    BY DEF ScanInv, TypeOK, StoreTypeOK
  <2> QED
    BY <2>1, <2>2 DEF Shown, States, Renewed, Terminal, Queued, Running, Completed, Failed
<1>9. TornIsGone'
  BY <1>1, <1>8 DEF TornIsGone, Behind
<1> QED
  BY <1>7, <1>9

(* A read takes the next state from what is shown now.                      *)
LEMMA ReadStaysBehind ==
    ASSUME ScanInv, ReaderTypeOK, Behind, TornIsGone, NEW s \in Scans, Read(s),
           UNCHANGED vars
    PROVE  Behind' /\ TornIsGone'
<1> USE DEF ReaderTypeOK, vars, storeVars
<1>1. \A t \in Scans : Shown(t) \in Told /\ answer[t].state \in Told /\ draft.state \in Told
  BY DEF Shown, Answer, Told, ScanInv, TypeOK, StoreTypeOK
<1>2. \A t \in Scans : Shown(t)' = Shown(t)
  BY DEF Shown
<1>3. CASE ReadStatus(s)
  <2>1. draft'.state = Shown(s) /\ draft'.result = FALSE
    BY <1>3 DEF ReadStatus, Shown, Blank
  <2>2. sought = {} /\ sought' = {s} /\ submit[s] = "accepted" /\ UNCHANGED answer
    BY <1>3 DEF ReadStatus, Behind
  <2>3. step' = IF status[s] = "none" THEN "reply" ELSE "metadata"
    BY <1>3 DEF ReadStatus
  <2>4. Behind'
    BY <1>1, <1>2, <2>1, <2>2, <2>3, FollowsIsAnOrder DEF Behind
  <2>5. Torn(answer[s]) => draft'.state = "missing"
    BY <2>1 DEF TornIsGone, Shown
  <2> QED
    BY <2>1, <2>2, <2>3, <2>4, <2>5 DEF TornIsGone, Torn
<1>4. CASE ReadMetadata(s)
  <2>1. draft'.state = draft.state /\ draft'.result = draft.result
    BY <1>4 DEF ReadMetadata, Answer
  <2>2. s \in sought /\ UNCHANGED <<sought, answer>>
    BY <1>4 DEF ReadMetadata
  <2>3. step' = IF draft.state = Completed THEN "result" ELSE "reply"
    BY <1>4 DEF ReadMetadata
  <2>4. Behind'
    BY <1>2, <2>1, <2>2, <2>3 DEF Behind
  <2> QED
    BY <2>1, <2>2, <2>3, <2>4 DEF TornIsGone, Torn
<1>5. CASE ReadResult(s)
  <2>1. draft'.state = draft.state /\ draft'.result = (s \in result)
    BY <1>5 DEF ReadResult, Answer
  <2>2. s \in sought /\ UNCHANGED <<sought, answer>> /\ step' = "reply"
    BY <1>5 DEF ReadResult
  <2>3. Behind'
    BY <1>2, <2>1, <2>2 DEF Behind
  <2>4. draft.state = Completed
    BY <1>5, <2>2 DEF ReadResult, TornIsGone
  <2>5. s \notin result => status[s] = "none"
    <3>1. Follows(Shown(s), Completed)
      BY <2>2, <2>4 DEF Behind
    <3>2. Shown(s) \in {Completed, "missing"}
      BY <3>1 DEF Follows, Terminal
    <3>3. s \notin result => status[s] # Completed
      BY DEF ScanInv, NamespaceWhole
    <3>4. status[s] # "missing"
      BY DEF ScanInv, TypeOK, StoreTypeOK, States, Renewed, Terminal, Queued,
             Running, Completed, Failed
    <3> QED
      BY <3>2, <3>3, <3>4 DEF Shown
  <2>6. \A t \in sought : t = s
    BY <2>2 DEF Behind
  <2> QED
    BY <2>1, <2>2, <2>3, <2>5, <2>6 DEF TornIsGone, Torn
<1>6. CASE Reply(s)
  <2>1. /\ s \in sought /\ sought' = {} /\ step' = "idle"
        /\ answer' = [answer EXCEPT ![s] = draft] /\ step = "reply"
    BY <1>6 DEF Reply
  <2>2. Behind'
    BY <1>2, <2>1 DEF Behind
  <2>3. \A t \in Scans : Torn(answer'[t]) => submit[t] = "accepted" /\ status[t] = "none"
    BY <2>1 DEF TornIsGone, Behind
  <2> QED
    BY <2>1, <2>2, <2>3 DEF TornIsGone
<1> QED
  BY <1>3, <1>4, <1>5, <1>6 DEF Read

(* What was told, what was read and what would be shown are in order.       *)
LEMMA BehindHolds == ReaderSpec => [](Behind /\ TornIsGone)
<1>1. ScanInv /\ ScanInv' /\ ReaderTypeOK /\ Behind /\ TornIsGone /\ [ReaderNext]_allVars
        => Behind' /\ TornIsGone'
  <2> SUFFICES ASSUME ScanInv, ScanInv', ReaderTypeOK, Behind, TornIsGone,
                      [ReaderNext]_allVars
               PROVE  Behind' /\ TornIsGone'
    OBVIOUS
  <2>1. CASE [Next]_vars /\ UNCHANGED readerVars
    BY <2>1, ServiceStaysBehind
  <2>2. ASSUME NEW s \in Scans, Read(s), UNCHANGED vars PROVE Behind' /\ TornIsGone'
    BY <2>2, ReadStaysBehind
  <2> QED
    BY <2>1, <2>2 DEF ReaderNext, allVars
<1> QED
  BY <1>1, InitBehind, ServiceInvariance, ReaderTypeCorrect, PTL DEF ReaderSpec

-----------------------------------------------------------------------------
(* A client is told the same or a later state, final states stay what they  *)
(* are and a 404 is never taken back, for any number of scans and whatever  *)
(* runs between the reads of one answer (webapp/store.py, get).             *)
THEOREM AnswersOnlyMoveForwards == ReaderSpec => AnswersMoveForwards
<1>1. ReaderTypeOK /\ Behind /\ [ReaderNext]_allVars
        => [\A s \in Scans :
              /\ Rank(answer[s].state) <= Rank(answer[s].state)'
              /\ answer[s].state \in Terminal
                     => answer'[s].state \in {answer[s].state, "missing"}]_allVars
  <2> SUFFICES ASSUME ReaderTypeOK, Behind, [ReaderNext]_allVars, NEW s \in Scans
               PROVE  Follows(answer'[s].state, answer[s].state)
    BY DEF Follows, Rank
  <2>1. answer[s].state \in Told
    BY DEF ReaderTypeOK, Answer, Told
  <2>2. CASE answer'[s] = answer[s]
    BY <2>1, <2>2, FollowsIsAnOrder
  <2>3. ASSUME NEW t \in Scans, Reply(t) PROVE Follows(answer'[s].state, answer[s].state)
    <3>1. CASE t = s
      BY <2>3, <3>1 DEF Reply, ReaderTypeOK, Behind
    <3>2. CASE t # s
      BY <2>2, <2>3, <3>2 DEF Reply, ReaderTypeOK
    <3> QED
      BY <3>1, <3>2
  <2> QED
    BY <2>2, <2>3 DEF ReaderNext, Read, ReadStatus, ReadMetadata, ReadResult, allVars,
                      readerVars
<1> QED
  BY <1>1, ReaderTypeCorrect, BehindHolds, PTL DEF ReaderSpec, AnswersMoveForwards

(* The answer after one without its document is the 404 (webapp/store.py,   *)
(* get, set_if_exists and purge_target).                                    *)
THEOREM TornAnswersAreLast == ReaderSpec => TornAnswerIsLast
<1>1. ReaderTypeOK /\ Behind /\ TornIsGone /\ [ReaderNext]_allVars
        => [\A s \in Scans :
              /\ step = "reply" /\ step' = "idle" /\ s \in sought
              /\ answer[s].state = Completed /\ ~ answer[s].result
              => answer'[s].state = "missing"]_allVars
  <2> SUFFICES ASSUME ReaderTypeOK, Behind, TornIsGone, ReaderNext, NEW s \in Scans,
                      step = "reply", step' = "idle", s \in sought, Torn(answer[s])
               PROVE  answer'[s].state = "missing"
    BY DEF Torn
  <2>1. PICK t \in Scans : Reply(t)
    BY DEF ReaderNext, readerVars, Read, ReadStatus, ReadMetadata, ReadResult
  <2>2. draft.state = "missing"
    BY DEF TornIsGone
  <2>3. t = s
    BY <2>1 DEF Reply, Behind
  <2> QED
    BY <2>1, <2>2, <2>3 DEF Reply, ReaderTypeOK
<1> QED
  BY <1>1, ReaderTypeCorrect, BehindHolds, PTL DEF ReaderSpec, TornAnswerIsLast

-----------------------------------------------------------------------------
(* Clients only use the reader, so what it promises holds beside them.      *)
LEMMA ClientsOnlyRead == ClientSpec => ReaderSpec
<1>1. ClientInit => ReaderInit
  BY DEF ClientInit
<1>2. [ClientNext]_clientAllVars => [ReaderNext]_allVars
  <2> SUFFICES ASSUME ClientNext PROVE [ReaderNext]_allVars
    BY DEF clientAllVars, allVars
  <2>1. ASSUME NEW s \in Scans, ClientStep(s) PROVE [ReaderNext]_allVars
    <3>1. CASE SaveComparison(s)
      BY <3>1 DEF SaveComparison, allVars
    <3>2. CASE ~ SaveComparison(s)
      <4>1. Read(s) /\ UNCHANGED vars
        BY <2>1, <3>2 DEF ClientStep, Ask, PollAgain, ReadOn, Poll, AskForPlan, Plan,
                          Compare, Read
      <4> QED
        BY <4>1 DEF ReaderNext
    <3> QED
      BY <3>1, <3>2
  <2>2. ASSUME NEW s \in Scans, ServiceStep(s) PROVE [ReaderNext]_allVars
    BY <2>2 DEF ServiceStep, ReaderNext, Next
  <2>3. CASE \/ \E s \in Scans : ExpireComparison(s)
             \/ Sweep
    BY <2>3 DEF ExpireComparison, Sweep, SweepWalk, SweepDelete, SweepRecheck, SweepStep,
                allVars
  <2>4. CASE EraseToo \/ (ExpireQueue /\ UNCHANGED <<readerVars, clientVars>>)
    BY <2>4 DEF EraseToo, ReaderNext, Next
  <2> QED
    BY <2>1, <2>2, <2>3, <2>4 DEF ClientNext
<1> QED
  BY <1>1, <1>2, PTL DEF ClientSpec, ReaderSpec

(* What a workflow remembers of its scan, and how it ended.                 *)
Waited ==
    /\ identifier \subseteq Scans
    /\ \A s, t \in identifier : s = t
    /\ sought \subseteq identifier
    /\ goal \notin {"idle", "plan"} => told = "none"
    /\ goal = "plan" => told = "finished"
    /\ told = "finished" => \A s \in identifier : answer[s].state \in Terminal
    /\ told # "not finished"

(* An answer is given to the one scan the workflow was given.               *)
LEMMA AnsweredIs ==
    ASSUME ReaderTypeOK, Behind, Waited, NEW s \in Scans, Reply(s)
    PROVE  /\ identifier = {s} /\ sought' = {}
           /\ \A t \in identifier : answer'[t] = draft
           /\ Follows(draft.state, answer[s].state)
           /\ draft.state \in Told
<1>1. /\ draft \in Answer /\ answer \in [Scans -> Answer] /\ s \in sought
      /\ sought' = {} /\ answer' = [answer EXCEPT ![s] = draft]
  BY DEF Reply, ReaderTypeOK
<1>2. identifier = {s}
  BY <1>1 DEF Waited
<1>3. \A t \in identifier : answer'[t] = draft
  BY <1>1, <1>2
<1>4. Follows(draft.state, answer[s].state)
  BY <1>1 DEF Behind
<1>5. draft.state \in Told
  BY <1>1 DEF Answer, Told
<1> QED
  BY <1>1, <1>2, <1>3, <1>4, <1>5

(* A step of the agent's workflow keeps what it was told of its scan behind *)
(* the last answer (workflows.py, await_scan).                              *)
LEMMA ClientStaysWaited ==
    ASSUME ReaderTypeOK, Behind, Waited, NEW s \in Scans, ClientStep(s)
    PROVE  Waited'
<1>1. CASE Ask(s, "await") \/ Ask(s, "compare")
  BY <1>1 DEF Ask, ReadStatus, Waited
<1>2. CASE PollAgain(s)
  BY <1>2 DEF PollAgain, ReadStatus, Waited
<1>3. CASE ReadOn(s)
  BY <1>3 DEF ReadOn, ReadMetadata, ReadResult, clientVars, Waited
<1>4. CASE Poll(s)
  <2>1. goal = "await" /\ told = "none" /\ identifier' = identifier
    BY <1>4 DEF Poll, Waited
  <2>2. \/ told' = "finished" /\ draft.state \in Terminal /\ goal' = "idle"
        \/ told' \in {"unknown", "gave up"} /\ goal' = "idle"
        \/ told' = told /\ goal' = "sleep"
    BY <1>4 DEF Poll, EndWith
  <2>3. Reply(s)
    BY <1>4 DEF Poll
  <2> QED
    BY <2>1, <2>2, <2>3, AnsweredIs DEF Waited
<1>5. CASE AskForPlan(s)
  BY <1>5 DEF AskForPlan, ReadStatus, Waited
<1>6. CASE Plan(s)
  <2>1. goal = "plan" /\ told = "finished" /\ Reply(s) /\ identifier' = identifier
    BY <1>6 DEF Plan, Waited
  <2>2. s \in identifier /\ answer[s].state \in Terminal
    BY <2>1, AnsweredIs DEF Waited
  <2>3. draft.state \in Terminal \cup {"missing"}
    BY <2>1, <2>2, AnsweredIs DEF Follows
  <2>4. told' \in {"unknown", "planned", "failed"} /\ goal' = "idle"
    BY <1>6, <2>3 DEF Plan, EndWith, Terminal
  <2> QED
    BY <2>1, <2>4, AnsweredIs DEF Waited
<1>7. CASE Compare(s)
  <2>1. goal = "compare" /\ told = "none" /\ Reply(s) /\ identifier' = identifier
    BY <1>7 DEF Compare, Waited
  <2>2. \/ told' \in {"unknown", "unfinished"} /\ goal' = "idle"
        \/ told' = told /\ goal' = "save"
    BY <1>7 DEF Compare, EndWith
  <2> QED
    BY <2>1, <2>2, AnsweredIs DEF Waited
<1>8. CASE SaveComparison(s)
  BY <1>8 DEF SaveComparison, EndWith, readerVars, Waited
<1> QED
  BY <1>1, <1>2, <1>3, <1>4, <1>5, <1>6, <1>7, <1>8 DEF ClientStep

(* What the workflow was told agrees with the last answer.                  *)
LEMMA WaitedHolds == ClientSpec => []Waited
<1>1. ClientInit => Waited
  BY DEF ClientInit, ReaderInit, Waited
<1>2. ReaderTypeOK /\ Behind /\ Waited /\ [ClientNext]_clientAllVars => Waited'
  <2> SUFFICES ASSUME ReaderTypeOK, Behind, Waited, [ClientNext]_clientAllVars
               PROVE  Waited'
    OBVIOUS
  <2>1. ASSUME NEW s \in Scans, ClientStep(s) PROVE Waited'
    BY <2>1, ClientStaysWaited
  <2>2. CASE UNCHANGED <<readerVars, goal, identifier, told>>
    BY <2>2 DEF readerVars, Waited
  <2> QED
    BY <2>1, <2>2 DEF ClientNext, ServiceStep, ExpireComparison, EraseToo, Sweep,
                      SweepWalk, SweepDelete, SweepRecheck, SweepStep, clientAllVars,
                      clientVars
<1> QED
  BY <1>1, <1>2, ClientsOnlyRead, ReaderTypeCorrect, BehindHolds, PTL DEF ClientSpec

(* An agent that waited for its scan is not told afterwards that it has not *)
(* finished, for any number of scans and polls: what its last answer called *)
(* final is still final, or gone, when the plan reads it again              *)
(* (webapp/workflows.py, await_scan and plan_remediation).                  *)
THEOREM WaitedPlanIsOfTheFinished == ClientSpec => []WaitedPlanIsNeverUnfinished
<1>1. Waited => WaitedPlanIsNeverUnfinished
  BY DEF Waited, WaitedPlanIsNeverUnfinished
<1> QED
  BY <1>1, WaitedHolds, PTL

-----------------------------------------------------------------------------
(* While the erasure deletes what its walk found, what it owes and is still *)
(* there is among that; what was saved since, it does not owe.              *)
Swept ==
    /\ sweep = "delete" => owedSweep \cap compared \subseteq doomed
    /\ ComparisonsAreErased

(* The count of the receipt is honest for any number of scans, hosts and    *)
(* comparisons saved or expired beside the two walks                        *)
(* (webapp/comparisons.py, purge_target).                                   *)
THEOREM NoComparisonIsLeft == ClientSpec => []ComparisonsAreErased
<1>1. ClientInit => Swept
  BY DEF ClientInit, Swept, ComparisonsAreErased
<1>2. Swept /\ [ClientNext]_clientAllVars => Swept'
  <2> SUFFICES ASSUME Swept, [ClientNext]_clientAllVars PROVE Swept'
    OBVIOUS
  <2> USE DEF Swept, ComparisonsAreErased
  <2>1. ASSUME NEW s \in Scans, SaveComparison(s) PROVE Swept'
    BY <2>1 DEF SaveComparison
  <2>2. ASSUME NEW s \in Scans, ExpireComparison(s) PROVE Swept'
    BY <2>2 DEF ExpireComparison
  <2>3. CASE SweepWalk
    BY <2>3 DEF SweepWalk, SweepStep, Naming
  <2>4. CASE SweepDelete
    BY <2>4 DEF SweepDelete, SweepStep
  <2>5. CASE SweepRecheck
    BY <2>5 DEF SweepRecheck, SweepStep
  <2>6. CASE EraseToo
    BY <2>6 DEF EraseToo
  <2>7. CASE UNCHANGED Sweeping
    BY <2>7 DEF Sweeping
  <2>8. ASSUME NEW s \in Scans, ClientStep(s) PROVE Swept'
    BY <2>1, <2>7, <2>8 DEF ClientStep, Ask, PollAgain, ReadOn, Poll, AskForPlan, Plan,
                            Compare, clientVars, Sweeping
  <2>9. ASSUME NEW s \in Scans, ServiceStep(s) PROVE Swept'
    BY <2>7, <2>9 DEF ServiceStep, clientVars, Sweeping
  <2>10. CASE (ExpireQueue /\ UNCHANGED <<readerVars, clientVars>>)
              \/ UNCHANGED clientAllVars
    BY <2>7, <2>10 DEF clientVars, clientAllVars, Sweeping
  <2> QED
    BY <2>2, <2>3, <2>4, <2>5, <2>6, <2>8, <2>9, <2>10 DEF ClientNext, Sweep
<1>3. Swept => ComparisonsAreErased
  BY DEF Swept
<1> QED
  BY <1>1, <1>2, <1>3, PTL DEF ClientSpec
=============================================================================
