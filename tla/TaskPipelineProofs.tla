-------------------------- MODULE TaskPipelineProofs --------------------------
(***************************************************************************)
(* Theorems about TaskPipeline for every set of tasks, requests and        *)
(* workers, every queue bound and every number of retries and faults.      *)
(***************************************************************************)
EXTENDS TaskPipeline, FiniteSetTheorems, TLAPS

USE DEF Idle

-----------------------------------------------------------------------------
(* The store operators. *)

\* What the three mutators write is a status, and only what they accept moves.
LEMMA StoreFacts ==
    ASSUME NEW s \in Statuses
    PROVE  /\ MarkRunning(s).to \in Statuses
           /\ MarkSucceeded(s).to \in Statuses
           /\ MarkFailed(s).to \in Statuses
           /\ MarkRunning(s).err = "nil" <=> s = "pending"
           /\ MarkSucceeded(s).err = "nil" <=> s \in {"running", "succeeded"}
           /\ MarkFailed(s).err = "nil" <=> s \in {"running", "failed"}
           /\ MarkRunning(s).to = IF s = "pending" THEN "running" ELSE s
           /\ MarkSucceeded(s).to = IF s = "running" THEN "succeeded" ELSE s
           /\ MarkFailed(s).to = IF s = "running" THEN "failed" ELSE s
  BY DEF Statuses, Terminal, MarkRunning, MarkSucceeded, MarkFailed, Refuse

\* A task has finitely many deliveries out.
LEMMA HoldingFinite ==
    ASSUME NEW t
    PROVE  Cardinality(Holding(t)) \in Nat
  <1>1. Holding(t) \subseteq Workers
    BY DEF Holding
  <1>2. IsFiniteSet(Holding(t))
    BY <1>1, PipelineAssumption, FS_Subset
  <1> QED
    BY <1>2, FS_CardinalityType

-----------------------------------------------------------------------------
(* Type correctness. *)

\* One failed attempt sends the worker to one of the two labels.
LEMMA CountTryFacts ==
    ASSUME TypeOK, NEW w \in Workers, NEW max,
           NEW again \in WorkerStates, NEW exhausted \in WorkerStates,
           CountTry(w, max, again, exhausted)
    PROVE  /\ tries' \in [Workers -> Nat]
           /\ \E l \in {again, exhausted} : pc' = [pc EXCEPT ![w] = l]
  BY DEF TypeOK, CountTry, ResetTries, Goto

\* A transition that may not have been committed leaves well-typed rows.
LEMMA MaybeCommittedFacts ==
    ASSUME TypeOK, NEW t \in Tasks, NEW to \in Statuses, MaybeCommitted(t, to)
    PROVE  status' \in [Tasks -> Statuses]
  BY DEF TypeOK, MaybeCommitted

\* A worker that is not waiting for a message has a task, and the store
\* operators behave as StoreFacts says on its row.
LEMMA BusyFacts ==
    ASSUME TypeOK, NEW w \in Workers, pc[w] \notin Idle
    PROVE  LET t == task[w]  s == status[t] IN
           /\ t \in Tasks
           /\ s \in Statuses
           /\ MarkRunning(s).to \in Statuses
           /\ MarkSucceeded(s).to \in Statuses
           /\ MarkFailed(s).to \in Statuses
  <1>1. task[w] \in Tasks /\ status[task[w]] \in Statuses
    BY DEF TypeOK
  <1> QED
    BY <1>1, StoreFacts

\* What the store operators do to the row of a busy worker.
LEMMA BusyStore ==
    ASSUME TypeOK, NEW w \in Workers, pc[w] \notin Idle
    PROVE  LET t == task[w]  s == status[t] IN
           /\ t \in Tasks
           /\ s \in Statuses
           /\ MarkRunning(s).err = "nil" <=> s = "pending"
           /\ MarkSucceeded(s).err = "nil" <=> s \in {"running", "succeeded"}
           /\ MarkFailed(s).err = "nil" <=> s \in {"running", "failed"}
           /\ MarkRunning(s).to = IF s = "pending" THEN "running" ELSE s
           /\ MarkSucceeded(s).to = IF s = "running" THEN "succeeded" ELSE s
           /\ MarkFailed(s).to = IF s = "running" THEN "failed" ELSE s
  <1>1. task[w] \in Tasks /\ status[task[w]] \in Statuses
    BY DEF TypeOK
  <1> QED
    BY <1>1, StoreFacts

\* A step of a task's handler keeps every variable in its type.
LEMMA ProducerTypeStep ==
    ASSUME TypeOK, NEW t \in Tasks, Producer(t)
    PROVE  TypeOK'
  <1> USE DEF producerVars, brokerVars, workerVars, historyVars, storeVars
  <1>1. CASE Create(t)
    BY <1>1 DEF TypeOK, Create, Statuses, ProducerStates
  <1>2. CASE CreateFails(t)
    BY <1>2 DEF TypeOK, CreateFails, Fault, Statuses, ProducerStates
  <1>3. CASE Push(t)
    BY <1>3 DEF TypeOK, Push, Enqueue, ProducerStates
  <1>4. CASE PushFails(t)
    BY <1>4 DEF TypeOK, PushFails, Fault, Enqueue, ProducerStates
  <1>5. CASE MarkEnqueueFailed(t)
    <2>1. MarkFailed(status[t]).to \in Statuses
      BY StoreFacts DEF TypeOK
    <2> QED
      BY <1>5, <2>1 DEF TypeOK, MarkEnqueueFailed, ProducerStates
  <1>6. CASE PushVanishes(t)
    BY <1>6 DEF TypeOK, PushVanishes, Fault, ProducerStates
  <1> QED
    BY <1>1, <1>2, <1>3, <1>4, <1>5, <1>6 DEF Producer

\* A step of a worker keeps every variable in its type.
LEMMA WorkerTypeStep ==
    ASSUME TypeOK, NEW w \in Workers, Worker(w)
    PROVE  TypeOK'
  <1> USE DEF producerVars, brokerVars, workerVars, historyVars, storeVars,
          WorkerStates, Claimed, Retrying, Goto
  <1>1. CASE Pop(w)
    BY <1>1, PipelineAssumption DEF TypeOK, Pop
  <1>2. CASE Mark(w)
    BY <1>2, BusyFacts DEF TypeOK, Mark, StartExecute
  <1>3. CASE MarkFails(w)
    <2>1. pc[w] \notin Idle
      BY <1>3 DEF MarkFails
    <2>2. status' \in [Tasks -> Statuses]
      BY <1>3, <2>1, BusyFacts, MaybeCommittedFacts DEF MarkFails
    <2> QED
      BY <1>3, <2>1, <2>2, BusyFacts DEF TypeOK, MarkFails, Fault
  <1>4. CASE Remark(w)
    <2>1. pc[w] \notin Idle
      BY <1>4 DEF Remark
    <2>3. ASSUME CountTry(w, InputRetryMax, "remark", "abandon")
          PROVE  /\ tries' \in [Workers -> Nat]
                 /\ \E l \in WorkerStates \ Idle : pc' = [pc EXCEPT ![w] = l]
      BY <2>1, <2>3 DEF TypeOK, CountTry, ResetTries
    <2> QED
      BY <1>4, <2>1, <2>3, BusyFacts DEF TypeOK, Remark, StartExecute, ResetTries
  <1>5. CASE RemarkFails(w)
    <2>1. pc[w] \notin Idle
      BY <1>5 DEF RemarkFails
    <2>2. status' \in [Tasks -> Statuses]
      BY <1>5, <2>1, BusyFacts, MaybeCommittedFacts DEF RemarkFails
    <2>3. ASSUME CountTry(w, InputRetryMax, "remark", "abandon")
          PROVE  /\ tries' \in [Workers -> Nat]
                 /\ \E l \in WorkerStates \ Idle : pc' = [pc EXCEPT ![w] = l]
      BY <2>1, <2>3 DEF TypeOK, CountTry, ResetTries
    <2> QED
      BY <1>5, <2>1, <2>2, <2>3, BusyFacts DEF TypeOK, RemarkFails, Fault
  <1>6. CASE Execute(w)
    BY <1>6, BusyFacts DEF TypeOK, Execute
  <1>7. CASE Fail(w)
    BY <1>7, BusyFacts DEF TypeOK, Fail, Terminal
  <1>8. CASE FailFails(w)
    <2>1. pc[w] \notin Idle
      BY <1>8 DEF FailFails
    <2>2. status' \in [Tasks -> Statuses]
      BY <1>8, <2>1, BusyFacts, MaybeCommittedFacts DEF FailFails
    <2> QED
      BY <1>8, <2>1, <2>2, BusyFacts DEF TypeOK, FailFails, Fault, GiveUp
  <1>9. CASE Succeed(w)
    BY <1>9, BusyFacts DEF TypeOK, Succeed, Fault, GiveUp, Terminal
  <1>10. CASE SucceedFails(w)
    <2>1. pc[w] \notin Idle
      BY <1>10 DEF SucceedFails
    <2>2. status' \in [Tasks -> Statuses]
      BY <1>10, <2>1, BusyFacts, MaybeCommittedFacts DEF SucceedFails
    <2> QED
      BY <1>10, <2>1, <2>2, BusyFacts DEF TypeOK, SucceedFails, Fault
  <1>11. CASE Resucceed(w)
    <2>1. pc[w] \notin Idle
      BY <1>11 DEF Resucceed
    <2>3. ASSUME CountTry(w, InputRetryMax, "resucceed", "abandon")
          PROVE  /\ tries' \in [Workers -> Nat]
                 /\ \E l \in WorkerStates \ Idle : pc' = [pc EXCEPT ![w] = l]
      BY <2>1, <2>3 DEF TypeOK, CountTry, ResetTries
    <2> QED
      BY <1>11, <2>1, <2>3, BusyFacts DEF TypeOK, Resucceed, Fault, GiveUp, ResetTries
  <1>12. CASE ResucceedFails(w)
    <2>1. pc[w] \notin Idle
      BY <1>12 DEF ResucceedFails
    <2>2. status' \in [Tasks -> Statuses]
      BY <1>12, <2>1, BusyFacts, MaybeCommittedFacts DEF ResucceedFails
    <2>3. ASSUME CountTry(w, InputRetryMax, "resucceed", "abandon")
          PROVE  /\ tries' \in [Workers -> Nat]
                 /\ \E l \in WorkerStates \ Idle : pc' = [pc EXCEPT ![w] = l]
      BY <2>1, <2>3 DEF TypeOK, CountTry, ResetTries
    <2> QED
      BY <1>12, <2>1, <2>2, <2>3, BusyFacts DEF TypeOK, ResucceedFails, Fault
  <1>13. CASE Abandon(w)
    BY <1>13, BusyFacts DEF TypeOK, Abandon, Fault, GiveUp
  <1>14. CASE Publish(w)
    <2>1. pc[w] = "publish"
      BY <1>14 DEF Publish
    <2> QED
      BY <1>14, <2>1, BusyFacts DEF TypeOK, Publish, ResetTries
  <1>15. CASE PublishRejected(w)
    BY <1>15, BusyFacts DEF TypeOK, PublishRejected, Fault, GiveUp, ResetTries
  <1>16. CASE PublishFails(w)
    <2>1. pc[w] \notin Idle
      BY <1>16 DEF PublishFails
    <2>3. ASSUME CountTry(w, PublishRetryMax, "publish", "ack")
          PROVE  /\ tries' \in [Workers -> Nat]
                 /\ \E l \in WorkerStates \ Idle : pc' = [pc EXCEPT ![w] = l]
      BY <2>1, <2>3 DEF TypeOK, CountTry, ResetTries
    <2> QED
      BY <1>16, <2>1, <2>3, BusyFacts DEF TypeOK, PublishFails, Fault, GiveUp
  <1>17. CASE Ack(w)
    BY <1>17 DEF TypeOK, Ack, Statuses
  <1> QED
    BY <1>1, <1>2, <1>3, <1>4, <1>5, <1>6, <1>7, <1>8, <1>9, <1>10, <1>11, <1>12, <1>13, <1>14, <1>15, <1>16, <1>17 DEF Worker

\* So do the faults, and therefore every step.
LEMMA TypeStep ==
    ASSUME TypeOK, [Next]_vars
    PROVE  TypeOK'
  <1> USE DEF producerVars, brokerVars, workerVars, historyVars, storeVars
  <1>1. ASSUME NEW t \in Tasks, Producer(t) PROVE TypeOK'
    BY <1>1, ProducerTypeStep
  <1>2. ASSUME NEW w \in Workers, Worker(w) PROVE TypeOK'
    BY <1>2, WorkerTypeStep
  <1>3. CASE ApiCrash
    BY <1>3 DEF TypeOK, ApiCrash, Fault, ProducerStates
  <1>4. CASE ConnectionLost
    BY <1>4, HoldingFinite DEF TypeOK, ConnectionLost, Fault, RequeueHeld
  <1>5. CASE Shutdown
    BY <1>5 DEF TypeOK, Shutdown, Fault
  <1>6. CASE TaskServiceEnds
    <2>1. \A w \in Workers : pc[w] \in Claimed \cup Retrying => task[w] \in Tasks
      BY DEF TypeOK, Claimed, Retrying
    <2>2. lost' \subseteq Tasks
      BY <1>6, <2>1 DEF TypeOK, TaskServiceEnds
    <2>3. \A w \in Workers : (task'[w] = NoTask) <=> (pc'[w] \in Idle)
      BY <1>6 DEF TaskServiceEnds
    <2>4. pc' \in [Workers -> WorkerStates] /\ done' \in [Workers -> Statuses]
      BY <1>6 DEF TaskServiceEnds, WorkerStates, Statuses
    <2>5. ready' \in [Tasks -> Nat]
      BY <1>6, HoldingFinite DEF TypeOK, TaskServiceEnds, RequeueHeld
    <2>6. /\ task' \in [Workers -> Tasks \cup {NoTask}]
          /\ held' \in [Workers -> BOOLEAN]
          /\ tries' \in [Workers -> Nat]
          /\ service' \in {"up", "stopping", "down"}
          /\ \A w \in Workers : pc'[w] = "gone"
      BY <1>6 DEF TaskServiceEnds
    <2>7. /\ faults' \in Nat
          /\ UNCHANGED <<status, producer, pushes, parked, runs, outcome, reports>>
      BY <1>6 DEF TypeOK, TaskServiceEnds, Fault, RequeueHeld
    <2> QED
      BY <2>2, <2>3, <2>4, <2>5, <2>6, <2>7 DEF TypeOK
  <1>7. ASSUME NEW w \in Workers, Leave(w) PROVE TypeOK'
    BY <1>7 DEF TypeOK, Leave, Goto, WorkerStates
  <1>8. CASE TaskServiceStarts
    BY <1>8 DEF TypeOK, TaskServiceStarts, WorkerStates
  <1>9. CASE UNCHANGED vars
    BY <1>9 DEF TypeOK, vars
  <1> QED
    BY <1>1, <1>2, <1>3, <1>4, <1>5, <1>6, <1>7, <1>8, <1>9 DEF Next

\* The initial state is well typed.
LEMMA InitTypeOK ==
    ASSUME Init
    PROVE  TypeOK
  <1>1. \A w \in Workers : (task[w] = NoTask) <=> (pc[w] \in Idle)
    BY DEF Init
  <1>2. pc \in [Workers -> WorkerStates] /\ done \in [Workers -> Statuses]
    BY DEF Init, WorkerStates, Statuses
  <1>3. status \in [Tasks -> Statuses] /\ producer \in [Tasks -> ProducerStates]
    BY DEF Init, Statuses, ProducerStates
  <1> QED
    BY <1>1, <1>2, <1>3 DEF Init, TypeOK

\* Every variable of the pipeline keeps its type (TypeOK).
THEOREM TypeCorrect == Spec => []TypeOK
  <1>1. Init => TypeOK
    BY InitTypeOK
  <1>2. TypeOK /\ [Next]_vars => TypeOK'
    BY TypeStep
  <1> QED
    BY <1>1, <1>2, PTL DEF Spec

-----------------------------------------------------------------------------
(* The claim.  AtMostOneExecution is not inductive by itself: that a row is    *)
(* run once rests on the claim moving it out of "pending", on no claimed row   *)
(* ever coming back to it, and on a request having one row.                    *)

\* A request has at most one row, and a task whose handler has not started none.
OneRow ==
    /\ \A t, u \in Tasks :
          RequestOf[t] = RequestOf[u] /\ status[t] # "none" /\ status[u] # "none"
              => t = u
    /\ \A t \in Tasks : producer[t] = "idle" => status[t] = "none"

\* Execution starts with the claim.
RunsFollowClaim ==
    \A t \in Tasks : /\ runs[t] <= 1
                     /\ status[t] \in {"none", "pending"} => runs[t] = 0

\* A worker past the claim works on a claimed row, and alone.
OwnersClaimed ==
    \A w \in Workers : pc[w] \in Claimed => status[task[w]] \notin {"none", "pending"}

\* The snapshot a worker is about to publish is the row, which is final.
SnapshotFinal ==
    \A w \in Workers : pc[w] = "publish" =>
        /\ done[w] = status[task[w]]
        /\ done[w] \in Terminal

\* What was reported was final then and is the row now.
ReportsTerminal ==
    \A t \in Tasks : \A s \in Statuses :
        <<t, s>> \in reports => status[t] = s /\ s \in Terminal

ClaimInv == /\ OneRow
            /\ RunsFollowClaim
            /\ OwnersClaimed
            /\ ExclusiveOwner
            /\ SnapshotFinal
            /\ ReportsTerminal

\* Claiming a pending row and starting to execute it.
LEMMA StartExecuteInv ==
    ASSUME TypeOK, ClaimInv, NEW w \in Workers, pc[w] \notin Idle,
           status[task[w]] = "pending", StartExecute(w, task[w]),
           UNCHANGED <<producer, task, done, reports>>
    PROVE  ClaimInv'
  <1> DEFINE t == task[w]
  <1>1. /\ t \in Tasks
        /\ status' = [status EXCEPT ![t] = "running"]
        /\ runs' = [runs EXCEPT ![t] = @ + 1]
        /\ pc' = [pc EXCEPT ![w] = "execute"]
    BY BusyStore DEF StartExecute, Goto
  <1> USE DEF TypeOK, ClaimInv
  <1>2. OneRow'
    BY <1>1 DEF OneRow
  <1>3. RunsFollowClaim'
    BY <1>1 DEF RunsFollowClaim
  <1>4. OwnersClaimed'
    BY <1>1 DEF OwnersClaimed, Claimed
  <1>5. ExclusiveOwner'
    BY <1>1 DEF ExclusiveOwner, Owns, OwnersClaimed, Claimed
  <1>6. SnapshotFinal'
    BY <1>1 DEF SnapshotFinal, OwnersClaimed, Claimed
  <1>7. ReportsTerminal'
    BY <1>1 DEF ReportsTerminal, Terminal
  <1> QED
    BY <1>2, <1>3, <1>4, <1>5, <1>6, <1>7

\* A claim that may have been committed, by a worker that goes on retrying.
LEMMA MaybeClaimedInv ==
    ASSUME TypeOK, ClaimInv, NEW w \in Workers, pc[w] \notin Idle,
           MaybeCommitted(task[w], MarkRunning(status[task[w]]).to),
           NEW l \in Retrying, pc' = [pc EXCEPT ![w] = l],
           UNCHANGED <<producer, task, done, reports, runs>>
    PROVE  ClaimInv'
  <1> DEFINE t == task[w]
  <1>1. /\ t \in Tasks
        /\ \/ status' = status
           \/ status[t] = "pending" /\ status' = [status EXCEPT ![t] = "running"]
    BY BusyStore DEF MaybeCommitted, TypeOK
  <1> USE DEF TypeOK, ClaimInv, Claimed, Retrying
  <1>2. OneRow'
    BY <1>1 DEF OneRow
  <1>3. RunsFollowClaim'
    BY <1>1 DEF RunsFollowClaim
  <1>4. OwnersClaimed'
    BY <1>1 DEF OwnersClaimed
  <1>5. ExclusiveOwner'
    BY <1>1 DEF ExclusiveOwner, Owns
  <1>6. SnapshotFinal'
    BY <1>1 DEF SnapshotFinal, OwnersClaimed
  <1>7. ReportsTerminal'
    BY <1>1 DEF ReportsTerminal, Terminal
  <1> QED
    BY <1>2, <1>3, <1>4, <1>5, <1>6, <1>7

\* A worker past its claim, whose transition to a final status may or may not
\* have been committed, goes on to another label that publishes nothing.
LEMMA MaybeFinishedInv ==
    ASSUME TypeOK, ClaimInv, NEW w \in Workers, pc[w] \in Claimed,
           NEW s \in Terminal,
           \/ status' = status
           \/ status[task[w]] = "running" /\ status' = [status EXCEPT ![task[w]] = s],
           NEW l \in WorkerStates \ {"publish"}, pc' = [pc EXCEPT ![w] = l],
           UNCHANGED <<producer, task, done, reports, runs>>
    PROVE  ClaimInv'
  <1> DEFINE t == task[w]
  <1>1. t \in Tasks /\ status[t] \notin {"none", "pending"}
    BY BusyStore DEF ClaimInv, OwnersClaimed, Claimed
  <1> USE DEF TypeOK, ClaimInv, Claimed, Terminal
  <1>2. OneRow'
    BY <1>1 DEF OneRow
  <1>3. RunsFollowClaim'
    BY <1>1 DEF RunsFollowClaim
  <1>4. OwnersClaimed'
    BY <1>1 DEF OwnersClaimed
  <1>5. ExclusiveOwner'
    BY <1>1 DEF ExclusiveOwner, Owns
  <1>6. SnapshotFinal'
    BY <1>1 DEF SnapshotFinal, OwnersClaimed
  <1>7. ReportsTerminal'
    BY <1>1 DEF ReportsTerminal
  <1> QED
    BY <1>2, <1>3, <1>4, <1>5, <1>6, <1>7

\* A worker before its claim goes on, having changed nothing else.
LEMMA RetryInv ==
    ASSUME TypeOK, ClaimInv, NEW w \in Workers,
           CountTry(w, InputRetryMax, "remark", "abandon"),
           UNCHANGED <<status, producer, task, done, reports, runs>>
    PROVE  ClaimInv'
  BY DEF TypeOK, ClaimInv, OneRow, RunsFollowClaim, OwnersClaimed, ExclusiveOwner,
         Owns, SnapshotFinal, ReportsTerminal, CountTry, Goto, Claimed

\* A step of a worker keeps the claim invariant.
LEMMA ClaimInvWorker ==
    ASSUME TypeOK, ClaimInv, NEW w \in Workers, Worker(w)
    PROVE  ClaimInv'
  <1> USE DEF producerVars, brokerVars, workerVars, historyVars, storeVars,
          TypeOK, Claimed, Retrying, Goto, ClaimInv, OneRow, RunsFollowClaim,
          OwnersClaimed, ExclusiveOwner, Owns, SnapshotFinal, ReportsTerminal, Terminal
  <1>1. CASE Pop(w)
    BY <1>1, BusyStore DEF Pop
  <1>2. CASE Mark(w)
    <2>1. pc[w] \notin Idle /\ pc[w] \notin Claimed
      BY <1>2 DEF Mark
    <2>2. CASE status[task[w]] = "pending"
      BY <1>2, <2>1, <2>2, BusyStore, StartExecuteInv DEF Mark
    <2>3. CASE status[task[w]] # "pending"
      <3>1. /\ pc' = [pc EXCEPT ![w] = "ack"]
            /\ UNCHANGED <<producer, status, task, done, reports, runs>>
        BY <1>2, <2>1, <2>3, BusyStore DEF Mark
      <3> QED
        BY <2>1, <3>1
    <2> QED
      BY <2>2, <2>3
  <1>3. CASE MarkFails(w)
    <2>1. pc[w] \notin Idle /\ pc[w] \notin Claimed
      BY <1>3 DEF MarkFails
    <2> QED
      BY <1>3, <2>1, BusyStore, MaybeClaimedInv DEF MarkFails
  <1>4. CASE Remark(w)
    <2>1. pc[w] \notin Idle /\ pc[w] \notin Claimed
      BY <1>4 DEF Remark
    <2>2. CASE status[task[w]] = "pending"
      BY <1>4, <2>1, <2>2, BusyStore, StartExecuteInv DEF Remark
    <2>3. CASE status[task[w]] # "pending"
      BY <1>4, <2>1, <2>3, BusyStore, RetryInv DEF Remark
    <2> QED
      BY <2>2, <2>3
  <1>5. CASE RemarkFails(w)
    <2>1. pc[w] \notin Idle /\ pc[w] \notin Claimed
      BY <1>5 DEF RemarkFails
    <2>2. PICK l \in Retrying : pc' = [pc EXCEPT ![w] = l]
      BY <1>5 DEF RemarkFails, CountTry
    <2>3. /\ MaybeCommitted(task[w], MarkRunning(status[task[w]]).to)
          /\ UNCHANGED <<producer, task, done, reports, runs>>
      BY <1>5 DEF RemarkFails
    <2> QED
      BY <2>1, <2>2, <2>3, MaybeClaimedInv
  <1>6. CASE Execute(w)
    BY <1>6, BusyStore DEF Execute
  <1>7. CASE Fail(w)
    BY <1>7, BusyStore DEF Fail
  <1>8. CASE FailFails(w)
    <2>1. /\ pc[w] = "fail"
          /\ UNCHANGED <<producer, task, done, reports, runs>>
          /\ pc' = [pc EXCEPT ![w] = "ack"]
      BY <1>8 DEF FailFails
    <2>2. \/ status' = status
          \/ status[task[w]] = "running" /\ status' = [status EXCEPT ![task[w]] = "failed"]
      BY <1>8, <2>1, BusyStore DEF FailFails, MaybeCommitted
    <2>3. "ack" \in WorkerStates \ {"publish"}
      BY DEF WorkerStates
    <2> QED
      BY <2>1, <2>2, <2>3, MaybeFinishedInv
  <1>9. CASE Succeed(w)
    <2>1. pc[w] = "succeed"
      BY <1>9 DEF Succeed
    <2>2. CASE status[task[w]] \in {"running", "succeeded"}
      <3>1. /\ task[w] \in Tasks
            /\ status' = [status EXCEPT ![task[w]] = "succeeded"]
            /\ \/ pc' = [pc EXCEPT ![w] = "publish"] /\ done' = [done EXCEPT ![w] = "succeeded"]
               \/ pc' = [pc EXCEPT ![w] = "ack"] /\ done' = done
            /\ UNCHANGED <<producer, task, runs, reports>>
        BY <1>9, <2>1, <2>2, BusyStore, ZenonT(60) DEF Succeed
      <3> QED
        BY <2>1, <2>2, <3>1
    <2>3. CASE status[task[w]] = "failed"
      <3>1. /\ task[w] \in Tasks
            /\ status' = status
            /\ \/ pc' = [pc EXCEPT ![w] = "publish"] /\ done' = [done EXCEPT ![w] = "failed"]
               \/ pc' = [pc EXCEPT ![w] = "ack"] /\ done' = done
            /\ UNCHANGED <<producer, task, runs, reports>>
        BY <1>9, <2>1, <2>3, BusyStore DEF Succeed
      <3> QED
        BY <2>1, <2>3, <3>1
    <2> QED
      BY <2>1, <2>2, <2>3, BusyStore, ZenonT(60) DEF Statuses
  <1>10. CASE SucceedFails(w)
    <2>1. /\ pc[w] = "succeed"
          /\ UNCHANGED <<producer, task, done, reports, runs>>
          /\ pc' = [pc EXCEPT ![w] = "resucceed"]
      BY <1>10 DEF SucceedFails
    <2>2. \/ status' = status
          \/ status[task[w]] = "running" /\ status' = [status EXCEPT ![task[w]] = "succeeded"]
      BY <1>10, <2>1, BusyStore DEF SucceedFails, MaybeCommitted
    <2>3. "resucceed" \in WorkerStates \ {"publish"}
      BY DEF WorkerStates
    <2> QED
      BY <2>1, <2>2, <2>3, MaybeFinishedInv
  <1>11. CASE Resucceed(w)
    <2>1. pc[w] = "resucceed"
      BY <1>11 DEF Resucceed
    <2>2. CASE status[task[w]] \in {"running", "succeeded"}
      <3>0. /\ task[w] \in Tasks
            /\ MarkSucceeded(status[task[w]]).err = "nil"
            /\ MarkSucceeded(status[task[w]]).to = "succeeded"
        BY <2>1, <2>2, BusyStore
      <3>1. /\ task[w] \in Tasks
            /\ status' = [status EXCEPT ![task[w]] = "succeeded"]
            /\ \/ pc' = [pc EXCEPT ![w] = "publish"] /\ done' = [done EXCEPT ![w] = "succeeded"]
               \/ pc' = [pc EXCEPT ![w] = "ack"] /\ done' = done
            /\ UNCHANGED <<producer, task, runs, reports>>
        BY <1>11, <2>1, <3>0 DEF Resucceed
      <3> QED
        BY <2>1, <2>2, <3>1
    <2>3. CASE status[task[w]] = "failed"
      <3>1. /\ task[w] \in Tasks
            /\ status' = status
            /\ \E l \in {"resucceed", "abandon"} : pc' = [pc EXCEPT ![w] = l]
            /\ done' = done
            /\ UNCHANGED <<producer, task, runs, reports>>
        BY <1>11, <2>1, <2>3, BusyStore DEF Resucceed, CountTry
      <3> QED
        BY <2>1, <2>3, <3>1
    <2> QED
      BY <2>1, <2>2, <2>3, BusyStore, ZenonT(60) DEF Statuses
  <1>12. CASE ResucceedFails(w)
    <2>1. /\ pc[w] = "resucceed"
          /\ UNCHANGED <<producer, task, done, reports, runs>>
      BY <1>12 DEF ResucceedFails
    <2>2. \/ status' = status
          \/ status[task[w]] = "running" /\ status' = [status EXCEPT ![task[w]] = "succeeded"]
      BY <1>12, <2>1, BusyStore DEF ResucceedFails, MaybeCommitted
    <2>3. PICK l \in {"resucceed", "abandon"} : pc' = [pc EXCEPT ![w] = l]
      BY <1>12 DEF ResucceedFails, CountTry
    <2>4. l \in WorkerStates \ {"publish"}
      BY DEF WorkerStates
    <2> QED
      BY <2>1, <2>2, <2>3, <2>4, MaybeFinishedInv
  <1>13. CASE Abandon(w)
    BY <1>13, BusyStore DEF Abandon, Fault
  <1>14. CASE Publish(w)
    BY <1>14, BusyStore DEF Publish, ResetTries
  <1>15. CASE PublishRejected(w)
    BY <1>15, BusyStore DEF PublishRejected, ResetTries
  <1>16. CASE PublishFails(w)
    BY <1>16, BusyStore DEF PublishFails, Fault, CountTry, ResetTries
  <1>17. CASE Ack(w)
    BY <1>17, BusyStore DEF Ack
  <1> QED
    BY <1>1, <1>2, <1>3, <1>4, <1>5, <1>6, <1>7, <1>8, <1>9, <1>10, <1>11, <1>12, <1>13, <1>14, <1>15, <1>16, <1>17 DEF Worker

\* A step of a task's handler keeps the claim invariant.
LEMMA ClaimInvProducer ==
    ASSUME TypeOK, ClaimInv, NEW t \in Tasks, Producer(t)
    PROVE  ClaimInv'
  <1> USE DEF producerVars, brokerVars, workerVars, historyVars, storeVars,
          TypeOK, Claimed, ClaimInv, OneRow, RunsFollowClaim, OwnersClaimed,
          ExclusiveOwner, Owns, SnapshotFinal, ReportsTerminal, Terminal
  <1>1. CASE Create(t)
    <2>1. CASE \E u \in Siblings(t) : status[u] # "none"
      <3>1. /\ producer' = [producer EXCEPT ![t] = "duplicate"]
            /\ UNCHANGED <<status, pc, task, done, reports, runs>>
        BY <1>1, <2>1 DEF Create
      <3> QED
        BY <3>1
    <2>2. CASE ~\E u \in Siblings(t) : status[u] # "none"
      <3>1. /\ producer[t] = "idle"
            /\ producer' = [producer EXCEPT ![t] = "push"]
            /\ status' = [status EXCEPT ![t] = "pending"]
            /\ UNCHANGED <<pc, task, done, reports, runs>>
        BY <1>1, <2>2 DEF Create
      <3> QED
        BY <2>2, <3>1 DEF Siblings
    <2> QED
      BY <2>1, <2>2
  <1>2. CASE CreateFails(t)
    BY <1>2 DEF CreateFails, Siblings
  <1>3. CASE Push(t)
    BY <1>3 DEF Push
  <1>4. CASE PushFails(t)
    BY <1>4 DEF PushFails
  <1>5. CASE MarkEnqueueFailed(t)
    <2>1. status[t] \in Statuses
      OBVIOUS
    <2> QED
      BY <1>5, <2>1, StoreFacts DEF MarkEnqueueFailed
  <1>6. CASE PushVanishes(t)
    BY <1>6 DEF PushVanishes
  <1> QED
    BY <1>1, <1>2, <1>3, <1>4, <1>5, <1>6 DEF Producer

\* Every step keeps the claim invariant.
LEMMA ClaimInvStep ==
    ASSUME TypeOK, ClaimInv, [Next]_vars
    PROVE  ClaimInv'
  <1> USE DEF producerVars, brokerVars, workerVars, historyVars, storeVars
  <1>1. ASSUME NEW t \in Tasks, Producer(t) PROVE ClaimInv'
    BY <1>1, ClaimInvProducer
  <1>2. ASSUME NEW w \in Workers, Worker(w) PROVE ClaimInv'
    BY <1>2, ClaimInvWorker
  <1> USE DEF TypeOK, ClaimInv, OneRow, RunsFollowClaim, OwnersClaimed,
          ExclusiveOwner, Owns, SnapshotFinal, ReportsTerminal
  <1>3. CASE ApiCrash
    BY <1>3 DEF ApiCrash
  <1>4. CASE ConnectionLost
    BY <1>4 DEF ConnectionLost
  <1>5. CASE Shutdown
    BY <1>5 DEF Shutdown
  <1>6. CASE TaskServiceEnds
    BY <1>6 DEF TaskServiceEnds, Claimed
  <1>7. ASSUME NEW w \in Workers, Leave(w) PROVE ClaimInv'
    BY <1>7 DEF Leave, Goto, Claimed
  <1>8. CASE TaskServiceStarts
    BY <1>8 DEF TaskServiceStarts, Claimed
  <1>9. CASE UNCHANGED vars
    BY <1>9 DEF vars
  <1> QED
    BY <1>1, <1>2, <1>3, <1>4, <1>5, <1>6, <1>7, <1>8, <1>9 DEF Next

\* The invariant all the results below rest on.
THEOREM ClaimInvariant == Spec => [](TypeOK /\ ClaimInv)
  <1>1. Init => TypeOK /\ ClaimInv
    <2> SUFFICES ASSUME Init PROVE ClaimInv
      BY InitTypeOK
    <2> QED
      BY DEF Init, ClaimInv, OneRow, RunsFollowClaim, OwnersClaimed, ExclusiveOwner,
             Owns, SnapshotFinal, ReportsTerminal, Claimed
  <1>2. TypeOK /\ ClaimInv /\ [Next]_vars => (TypeOK /\ ClaimInv)'
    BY TypeStep, ClaimInvStep
  <1> QED
    BY <1>1, <1>2, PTL DEF Spec

\* For every number of redeliveries, duplicate pushes and resubmissions, the
\* work of a request is begun at most once (AtMostOneExecution).
THEOREM ExecutedAtMostOnce == Spec => []AtMostOneExecution
  <1>1. TypeOK /\ ClaimInv => AtMostOneExecution
    BY DEF TypeOK, ClaimInv, OneRow, RunsFollowClaim, AtMostOneExecution
  <1> QED
    BY <1>1, ClaimInvariant, PTL

\* Two workers are never past the claim of one task (ExclusiveOwner).
THEOREM OwnedExclusively == Spec => []ExclusiveOwner
  <1>1. ClaimInv => ExclusiveOwner
    BY DEF ClaimInv
  <1> QED
    BY <1>1, ClaimInvariant, PTL

\* What the done queue says of a task is and stays its status (ReportsAreFinal).
THEOREM ReportedTruthfully == Spec => []ReportsAreFinal
  <1>1. TypeOK /\ ClaimInv => ReportsAreFinal
    BY DEF TypeOK, ClaimInv, ReportsTerminal, ReportsAreFinal
  <1> QED
    BY <1>1, ClaimInvariant, PTL

-----------------------------------------------------------------------------
(* Nobody is forgotten.  PendingHasCarrier is not inductive: a worker counts   *)
(* as a carrier there even when the broker has taken its delivery back, and a  *)
(* crash would then lose the row.  CarrierInv counts unacked deliveries only.  *)

Carries(w, t) == held[w] /\ task[w] = t /\ pc[w] \in {"mark"} \cup Retrying

Carried(t) ==
    \/ ready[t] > 0
    \/ \E w \in Workers : Carries(w, t)
    \/ producer[t] \in {"push", "markfail", "unheard", "rejected", "crashed"}
    \/ t \in parked \cup lost

CarrierInv == \A t \in Tasks : status[t] = "pending" => Carried(t)

\* A row is pending after a step of a handler only if that handler, or what
\* carried it before, answers for it.
LEMMA CarrierProducer ==
    ASSUME TypeOK, CarrierInv, NEW t \in Tasks, Producer(t)
    PROVE  CarrierInv'
  <1> USE DEF producerVars, brokerVars, workerVars, historyVars, storeVars,
          TypeOK, CarrierInv, Carried, Carries
  <1>1. CASE Create(t)
    BY <1>1 DEF Create
  <1>2. CASE CreateFails(t)
    BY <1>2 DEF CreateFails
  <1>3. CASE Push(t)
    BY <1>3 DEF Push, Enqueue
  <1>4. CASE PushFails(t)
    BY <1>4 DEF PushFails, Enqueue
  <1>5. CASE MarkEnqueueFailed(t)
    BY <1>5, StoreFacts DEF MarkEnqueueFailed
  <1>6. CASE PushVanishes(t)
    BY <1>6 DEF PushVanishes
  <1> QED
    BY <1>1, <1>2, <1>3, <1>4, <1>5, <1>6 DEF Producer

\* A worker that stops carrying a row has claimed it, seen that it is not
\* pending, or given up on it.
LEMMA CarrierWorker ==
    ASSUME TypeOK, ClaimInv, CarrierInv, NEW w \in Workers, Worker(w)
    PROVE  CarrierInv'
  <1> USE DEF producerVars, brokerVars, workerVars, historyVars, storeVars,
          TypeOK, Claimed, Retrying, Goto, CarrierInv, Carried, Carries
  <1>1. CASE Pop(w)
    BY <1>1, BusyStore DEF Pop
  <1>2. CASE Mark(w)
    BY <1>2, BusyStore DEF Mark, StartExecute
  <1>3. CASE MarkFails(w)
    BY <1>3, BusyStore DEF MarkFails, MaybeCommitted
  <1>4. CASE Remark(w)
    BY <1>4, BusyStore DEF Remark, StartExecute, CountTry
  <1>5. CASE RemarkFails(w)
    BY <1>5, BusyStore DEF RemarkFails, MaybeCommitted, CountTry
  <1>6. CASE Execute(w)
    BY <1>6, BusyStore DEF Execute
  <1>7. CASE Fail(w)
    BY <1>7, BusyStore DEF Fail
  <1>8. CASE FailFails(w)
    BY <1>8, BusyStore DEF FailFails, MaybeCommitted, GiveUp
  <1>9. CASE Succeed(w)
    BY <1>9, BusyStore DEF Succeed, GiveUp
  <1>10. CASE SucceedFails(w)
    BY <1>10, BusyStore DEF SucceedFails, MaybeCommitted
  <1>11. CASE Resucceed(w)
    BY <1>11, BusyStore DEF Resucceed, GiveUp, CountTry
  <1>12. CASE ResucceedFails(w)
    BY <1>12, BusyStore DEF ResucceedFails, MaybeCommitted, CountTry
  <1>13. CASE Abandon(w)
    BY <1>13, BusyStore DEF Abandon, GiveUp
  <1>14. CASE Publish(w)
    BY <1>14, BusyStore DEF Publish
  <1>15. CASE PublishRejected(w)
    BY <1>15, BusyStore DEF PublishRejected, GiveUp
  <1>16. CASE PublishFails(w)
    BY <1>16, BusyStore DEF PublishFails, GiveUp, CountTry
  <1>17. CASE Ack(w)
    BY <1>17, BusyStore DEF Ack
  <1> QED
    BY <1>1, <1>2, <1>3, <1>4, <1>5, <1>6, <1>7, <1>8, <1>9, <1>10, <1>11, <1>12, <1>13, <1>14, <1>15, <1>16, <1>17 DEF Worker

\* What a worker carried is in the queue again after the broker took it back.
LEMMA RequeuedCarriers ==
    ASSUME TypeOK, RequeueHeld, NEW t \in Tasks
    PROVE  /\ ready[t] > 0 => ready'[t] > 0
           /\ (\E w \in Workers : Carries(w, t)) => ready'[t] > 0
  <1>1. /\ ready[t] \in Nat
        /\ Cardinality(Holding(t)) \in Nat
        /\ ready'[t] = ready[t] + Cardinality(Holding(t))
    BY HoldingFinite DEF TypeOK, RequeueHeld
  <1>2. ASSUME \E w \in Workers : Carries(w, t)
        PROVE  Cardinality(Holding(t)) # 0
    <2>1. Holding(t) # {}
      BY <1>2 DEF Holding, Carries
    <2>2. Holding(t) \subseteq Workers
      BY DEF Holding
    <2>3. IsFiniteSet(Holding(t))
      BY <2>2, PipelineAssumption, FS_Subset
    <2> QED
      BY <2>1, <2>3, FS_EmptySet
  <1> QED
    BY <1>1, <1>2

LEMMA CarrierStep ==
    ASSUME TypeOK, ClaimInv, CarrierInv, [Next]_vars
    PROVE  CarrierInv'
  <1>1. ASSUME NEW t \in Tasks, Producer(t) PROVE CarrierInv'
    BY <1>1, CarrierProducer
  <1>2. ASSUME NEW w \in Workers, Worker(w) PROVE CarrierInv'
    BY <1>2, CarrierWorker
  <1> USE DEF producerVars, brokerVars, workerVars, historyVars, storeVars,
          CarrierInv
  <1>3. CASE ApiCrash
    BY <1>3 DEF ApiCrash, TypeOK, Carried, Carries
  <1>4. CASE ConnectionLost
    <2>1. RequeueHeld /\ UNCHANGED <<status, producer, parked, lost>>
      BY <1>4 DEF ConnectionLost, RequeueHeld
    <2> QED
      BY <2>1, RequeuedCarriers DEF Carried
  <1>5. CASE Shutdown
    BY <1>5 DEF Shutdown, Carried, Carries
  <1>6. CASE TaskServiceEnds
    <2>1. /\ RequeueHeld
          /\ UNCHANGED <<status, producer, parked>>
          /\ lost \subseteq lost'
      BY <1>6 DEF TaskServiceEnds, RequeueHeld
    <2> QED
      BY <2>1, RequeuedCarriers DEF Carried
  <1>7. ASSUME NEW w \in Workers, Leave(w) PROVE CarrierInv'
    BY <1>7 DEF Leave, Goto, TypeOK, Carried, Carries, Retrying
  <1>8. CASE TaskServiceStarts
    BY <1>8 DEF TaskServiceStarts, TypeOK, Carried, Carries, Retrying
  <1>9. CASE UNCHANGED vars
    BY <1>9 DEF vars, Carried, Carries
  <1> QED
    BY <1>1, <1>2, <1>3, <1>4, <1>5, <1>6, <1>7, <1>8, <1>9 DEF Next

\* A pending row always has somebody who takes it further, or was given up on
\* where the code says so (PendingHasCarrier).
THEOREM PendingIsCarried == Spec => []PendingHasCarrier
  <1>1. Init => CarrierInv
    BY DEF Init, CarrierInv
  <1>2. TypeOK /\ ClaimInv /\ CarrierInv /\ [Next]_vars => CarrierInv'
    BY CarrierStep
  <1>3. CarrierInv => PendingHasCarrier
    BY DEF CarrierInv, Carried, Carries, PendingHasCarrier
  <1> QED
    BY <1>1, <1>2, <1>3, ClaimInvariant, PTL DEF Spec

\* A worker leaves a running row only with a verdict or having given up on it.
LEMMA OwnerWorker ==
    ASSUME TypeOK, ClaimInv, RunningHasOwner, NEW w \in Workers, Worker(w)
    PROVE  RunningHasOwner'
  <1> USE DEF producerVars, brokerVars, workerVars, historyVars, storeVars,
          TypeOK, Claimed, Retrying, Goto, RunningHasOwner, Owns, Retries
  <1>1. CASE Pop(w)
    BY <1>1, BusyStore DEF Pop
  <1>2. CASE Mark(w)
    BY <1>2, BusyStore DEF Mark, StartExecute
  <1>3. CASE MarkFails(w)
    BY <1>3, BusyStore DEF MarkFails, MaybeCommitted
  <1>4. CASE Remark(w)
    BY <1>4, BusyStore DEF Remark, StartExecute, CountTry
  <1>5. CASE RemarkFails(w)
    BY <1>5, BusyStore DEF RemarkFails, MaybeCommitted, CountTry
  <1>6. CASE Execute(w)
    BY <1>6, BusyStore DEF Execute
  <1>7. CASE Fail(w)
    BY <1>7, BusyStore DEF Fail
  <1>8. CASE FailFails(w)
    BY <1>8, BusyStore DEF FailFails, MaybeCommitted, GiveUp
  <1>9. CASE Succeed(w)
    BY <1>9, BusyStore DEF Succeed, GiveUp
  <1>10. CASE SucceedFails(w)
    BY <1>10, BusyStore DEF SucceedFails, MaybeCommitted
  <1>11. CASE Resucceed(w)
    BY <1>11, BusyStore DEF Resucceed, GiveUp, CountTry
  <1>12. CASE ResucceedFails(w)
    BY <1>12, BusyStore DEF ResucceedFails, MaybeCommitted, CountTry
  <1>13. CASE Abandon(w)
    BY <1>13, BusyStore DEF Abandon, GiveUp
  <1>14. CASE Publish(w)
    BY <1>14, BusyStore DEF Publish, ClaimInv, SnapshotFinal, Terminal
  <1>15. CASE PublishRejected(w)
    BY <1>15, BusyStore DEF PublishRejected, GiveUp
  <1>16. CASE PublishFails(w)
    BY <1>16, BusyStore DEF PublishFails, GiveUp, CountTry
  <1>17. CASE Ack(w)
    BY <1>17, BusyStore DEF Ack
  <1> QED
    BY <1>1, <1>2, <1>3, <1>4, <1>5, <1>6, <1>7, <1>8, <1>9, <1>10, <1>11, <1>12, <1>13, <1>14, <1>15, <1>16, <1>17 DEF Worker

LEMMA OwnerStep ==
    ASSUME TypeOK, ClaimInv, RunningHasOwner, [Next]_vars
    PROVE  RunningHasOwner'
  <1>1. ASSUME NEW t \in Tasks, Producer(t) PROVE RunningHasOwner'
    <2>1. /\ UNCHANGED <<pc, task, lost>>
          /\ \A u \in Tasks : status'[u] = "running" => status[u] = "running"
      <3> USE DEF producerVars, brokerVars, workerVars, historyVars, storeVars, TypeOK
      <3>1. CASE Create(t)
        BY <3>1 DEF Create
      <3>2. CASE CreateFails(t)
        BY <3>2 DEF CreateFails
      <3>3. CASE Push(t) \/ PushVanishes(t) \/ PushFails(t)
        BY <3>3 DEF Push, PushVanishes, PushFails
      <3>4. CASE MarkEnqueueFailed(t)
        BY <3>4, StoreFacts DEF MarkEnqueueFailed
      <3> QED
        BY <1>1, <3>1, <3>2, <3>3, <3>4 DEF Producer
    <2> QED
      BY <2>1 DEF RunningHasOwner, Owns, Retries
  <1>2. ASSUME NEW w \in Workers, Worker(w) PROVE RunningHasOwner'
    BY <1>2, OwnerWorker
  <1>3. CASE TaskServiceEnds
    BY <1>3 DEF TaskServiceEnds, storeVars, RunningHasOwner, Owns, Retries
  <1>4. CASE ApiCrash \/ ConnectionLost \/ Shutdown \/ UNCHANGED vars
    <2>1. UNCHANGED <<status, pc, task, lost>>
      BY <1>4 DEF ApiCrash, ConnectionLost, Shutdown, vars, storeVars, workerVars,
                  historyVars
    <2> QED
      BY <2>1 DEF RunningHasOwner, Owns, Retries
  <1>5. ASSUME NEW w \in Workers, Leave(w) PROVE RunningHasOwner'
    BY <1>5 DEF Leave, Goto, TypeOK, storeVars, historyVars, RunningHasOwner, Owns, Retries,
               Claimed, Retrying
  <1>6. CASE TaskServiceStarts
    BY <1>6 DEF TaskServiceStarts, TypeOK, storeVars, historyVars, RunningHasOwner, Owns, Retries,
               Claimed, Retrying
  <1> QED
    BY <1>1, <1>2, <1>3, <1>4, <1>5, <1>6 DEF Next

\* A running row has a worker on it until some process gives up on the task
\* (RunningHasOwner).
THEOREM RunningIsOwned == Spec => []RunningHasOwner
  <1>1. Init => RunningHasOwner
    BY DEF Init, RunningHasOwner
  <1>2. TypeOK /\ ClaimInv /\ RunningHasOwner /\ [Next]_vars => RunningHasOwner'
    BY OwnerStep
  <1> QED
    BY <1>1, <1>2, ClaimInvariant, PTL DEF Spec

-----------------------------------------------------------------------------
(* The verdict.  That a row ends as its executor said rests on where a worker  *)
(* stands between Execute and the report, and on nobody executing the task a   *)
(* second time after the verdict.                                              *)

\* Nothing was returned for a row that is not executed, or is being executed.
NoVerdictYet ==
    /\ \A t \in Tasks : status[t] \in {"none", "pending"} => outcome[t] = "none"
    /\ \A w \in Workers : pc[w] = "execute" => outcome[task[w]] = "none"

\* A worker goes where what Execute returned sends it.
FollowsVerdict ==
    \A w \in Workers :
        /\ pc[w] = "fail" => outcome[task[w]] = "err"
        /\ pc[w] \in {"succeed", "resucceed"} => outcome[task[w]] = "ok"

\* The first half of FinishedIsReported.
Judged ==
    \A t \in Tasks :
        /\ status[t] = "succeeded" => outcome[t] = "ok"
        /\ status[t] = "failed" =>
             outcome[t] = "err" \/ t \in lost \/ producer[t] \in {"rejected", "crashed"}

\* The second half.
Answered ==
    \A t \in Tasks : status[t] \in Terminal =>
        \/ <<t, status[t]>> \in reports
        \/ \E w \in Workers : Owns(w, t) \/ Retries(w, t)
        \/ t \in lost

VerdictInv == NoVerdictYet /\ FollowsVerdict /\ Judged

\* Only the owner of a task, and only once, records what Execute returned.
LEMMA VerdictWorker ==
    ASSUME TypeOK, ClaimInv, VerdictInv, NEW w \in Workers, Worker(w)
    PROVE  VerdictInv'
  <1> USE DEF producerVars, brokerVars, workerVars, historyVars, storeVars,
          TypeOK, Claimed, Retrying, Goto, ClaimInv, OwnersClaimed, ExclusiveOwner,
          Owns, VerdictInv, NoVerdictYet, FollowsVerdict, Judged
  <1>1. CASE Pop(w)
    BY <1>1, BusyStore DEF Pop
  <1>2. CASE Mark(w)
    BY <1>2, BusyStore DEF Mark, StartExecute
  <1>3. CASE MarkFails(w)
    BY <1>3, BusyStore DEF MarkFails, MaybeCommitted
  <1>4. CASE Remark(w)
    BY <1>4, BusyStore DEF Remark, StartExecute, CountTry
  <1>5. CASE RemarkFails(w)
    BY <1>5, BusyStore DEF RemarkFails, MaybeCommitted, CountTry
  <1>6. CASE Execute(w)
    BY <1>6, BusyStore DEF Execute
  <1>7. CASE Fail(w)
    BY <1>7, BusyStore DEF Fail
  <1>8. CASE FailFails(w)
    BY <1>8, BusyStore DEF FailFails, MaybeCommitted, GiveUp
  <1>9. CASE Succeed(w)
    BY <1>9, BusyStore DEF Succeed, GiveUp
  <1>10. CASE SucceedFails(w)
    BY <1>10, BusyStore DEF SucceedFails, MaybeCommitted
  <1>11. CASE Resucceed(w)
    BY <1>11, BusyStore DEF Resucceed, GiveUp, CountTry
  <1>12. CASE ResucceedFails(w)
    BY <1>12, BusyStore DEF ResucceedFails, MaybeCommitted, CountTry
  <1>13. CASE Abandon(w)
    BY <1>13, BusyStore DEF Abandon, GiveUp
  <1>14. CASE Publish(w)
    BY <1>14, BusyStore DEF Publish
  <1>15. CASE PublishRejected(w)
    BY <1>15, BusyStore DEF PublishRejected, GiveUp
  <1>16. CASE PublishFails(w)
    BY <1>16, BusyStore DEF PublishFails, GiveUp, CountTry
  <1>17. CASE Ack(w)
    BY <1>17, BusyStore DEF Ack
  <1> QED
    BY <1>1, <1>2, <1>3, <1>4, <1>5, <1>6, <1>7, <1>8, <1>9, <1>10, <1>11, <1>12, <1>13, <1>14, <1>15, <1>16, <1>17 DEF Worker

LEMMA VerdictStep ==
    ASSUME TypeOK, ClaimInv, VerdictInv, [Next]_vars
    PROVE  VerdictInv'
  <1> USE DEF producerVars, brokerVars, workerVars, historyVars, storeVars,
          TypeOK, VerdictInv, NoVerdictYet, FollowsVerdict, Judged
  <1>1. ASSUME NEW t \in Tasks, Producer(t) PROVE VerdictInv'
    <2>1. CASE Create(t)
      BY <2>1 DEF Create, ClaimInv, OneRow
    <2>2. CASE CreateFails(t)
      BY <2>2 DEF CreateFails, ClaimInv, OneRow
    <2>3. CASE Push(t) \/ PushVanishes(t)
      BY <2>3 DEF Push, PushVanishes
    <2>4. CASE PushFails(t)
      BY <2>4 DEF PushFails
    <2>5. CASE MarkEnqueueFailed(t)
      BY <2>5, StoreFacts DEF MarkEnqueueFailed
    <2> QED
      BY <1>1, <2>1, <2>2, <2>3, <2>4, <2>5 DEF Producer
  <1>2. ASSUME NEW w \in Workers, Worker(w) PROVE VerdictInv'
    BY <1>2, VerdictWorker
  <1>3. CASE TaskServiceEnds
    BY <1>3 DEF TaskServiceEnds
  <1>4. CASE ApiCrash
    BY <1>4 DEF ApiCrash
  <1>5. CASE ConnectionLost \/ Shutdown \/ UNCHANGED vars
    BY <1>5 DEF ConnectionLost, Shutdown, vars
  <1>6. ASSUME NEW w \in Workers, Leave(w) PROVE VerdictInv'
    BY <1>6 DEF Leave, Goto
  <1>7. CASE TaskServiceStarts
    BY <1>7 DEF TaskServiceStarts
  <1> QED
    BY <1>1, <1>2, <1>3, <1>4, <1>5, <1>6, <1>7 DEF Next

\* A worker leaves a finished row only after its report or a loss.
LEMMA AnswerWorker ==
    ASSUME TypeOK, ClaimInv, VerdictInv, RunningHasOwner, Answered,
           NEW w \in Workers, Worker(w)
    PROVE  Answered'
  <1> USE DEF producerVars, brokerVars, workerVars, historyVars, storeVars,
          TypeOK, Claimed, Retrying, Goto, Answered, Owns, Retries, Terminal
  <1>1. CASE Pop(w)
    BY <1>1, BusyStore DEF Pop
  <1>2. CASE Mark(w)
    BY <1>2, BusyStore DEF Mark, StartExecute
  <1>3. CASE MarkFails(w)
    BY <1>3, BusyStore DEF MarkFails, MaybeCommitted
  <1>4. CASE Remark(w)
    BY <1>4, BusyStore DEF Remark, StartExecute, CountTry
  <1>5. CASE RemarkFails(w)
    BY <1>5, BusyStore DEF RemarkFails, MaybeCommitted, CountTry
  <1>6. CASE Execute(w)
    BY <1>6, BusyStore DEF Execute
  <1>7. CASE Fail(w)
    BY <1>7, BusyStore DEF Fail, VerdictInv, FollowsVerdict, Judged,
       ClaimInv, OwnersClaimed
  <1>8. CASE FailFails(w)
    BY <1>8, BusyStore DEF FailFails, MaybeCommitted, GiveUp
  <1>9. CASE Succeed(w)
    BY <1>9, BusyStore DEF Succeed, GiveUp
  <1>10. CASE SucceedFails(w)
    BY <1>10, BusyStore DEF SucceedFails, MaybeCommitted
  <1>11. CASE Resucceed(w)
    BY <1>11, BusyStore DEF Resucceed, GiveUp, CountTry
  <1>12. CASE ResucceedFails(w)
    BY <1>12, BusyStore DEF ResucceedFails, MaybeCommitted, CountTry
  <1>13. CASE Abandon(w)
    BY <1>13, BusyStore DEF Abandon, GiveUp
  <1>14. CASE Publish(w)
    BY <1>14, BusyStore DEF Publish, ClaimInv, SnapshotFinal
  <1>15. CASE PublishRejected(w)
    BY <1>15, BusyStore DEF PublishRejected, GiveUp
  <1>16. CASE PublishFails(w)
    BY <1>16, BusyStore DEF PublishFails, GiveUp, CountTry, ClaimInv, SnapshotFinal
  <1>17. CASE Ack(w)
    BY <1>17, BusyStore DEF Ack
  <1> QED
    BY <1>1, <1>2, <1>3, <1>4, <1>5, <1>6, <1>7, <1>8, <1>9, <1>10, <1>11, <1>12, <1>13, <1>14, <1>15, <1>16, <1>17 DEF Worker

LEMMA AnswerStep ==
    ASSUME TypeOK, ClaimInv, VerdictInv, RunningHasOwner, Answered, [Next]_vars
    PROVE  Answered'
  <1>1. ASSUME NEW t \in Tasks, Producer(t) PROVE Answered'
    <2>1. /\ UNCHANGED <<pc, task, lost, reports>>
          /\ \A u \in Tasks : status'[u] \in Terminal =>
                status[u] = status'[u] \/ status[u] = "running"
      <3> USE DEF producerVars, brokerVars, workerVars, historyVars, storeVars,
              TypeOK, Terminal
      <3>1. CASE Create(t)
        BY <3>1 DEF Create
      <3>2. CASE CreateFails(t)
        BY <3>2 DEF CreateFails
      <3>3. CASE Push(t) \/ PushVanishes(t) \/ PushFails(t)
        BY <3>3 DEF Push, PushVanishes, PushFails
      <3>4. CASE MarkEnqueueFailed(t)
        BY <3>4, StoreFacts DEF MarkEnqueueFailed
      <3> QED
        BY <1>1, <3>1, <3>2, <3>3, <3>4 DEF Producer
    <2> QED
      BY <2>1 DEF Answered, RunningHasOwner, Owns, Retries
  <1>2. ASSUME NEW w \in Workers, Worker(w) PROVE Answered'
    BY <1>2, AnswerWorker
  <1>3. CASE TaskServiceEnds
    BY <1>3 DEF TaskServiceEnds, storeVars, Answered, Owns, Retries, Terminal
  <1>4. CASE ApiCrash \/ ConnectionLost \/ Shutdown \/ UNCHANGED vars
    <2>1. UNCHANGED <<status, pc, task, lost, reports>>
      BY <1>4 DEF ApiCrash, ConnectionLost, Shutdown, vars, storeVars, workerVars,
                  historyVars
    <2> QED
      BY <2>1 DEF Answered, Owns, Retries
  <1>5. ASSUME NEW w \in Workers, Leave(w) PROVE Answered'
    BY <1>5 DEF Leave, Goto, TypeOK, storeVars, historyVars, Answered, Owns, Retries,
               Claimed, Retrying
  <1>6. CASE TaskServiceStarts
    BY <1>6 DEF TaskServiceStarts, TypeOK, storeVars, historyVars, Answered, Owns, Retries,
               Claimed, Retrying
  <1> QED
    BY <1>1, <1>2, <1>3, <1>4, <1>5, <1>6 DEF Next

\* A finished row says what the executor said and is reported, unless the code
\* gave up on it where it says so (FinishedIsReported).
THEOREM VerdictIsReported == Spec => []FinishedIsReported
  <1>1. Init => VerdictInv /\ Answered
    BY DEF Init, VerdictInv, NoVerdictYet, FollowsVerdict, Judged, Answered, Terminal
  <1>2. TypeOK /\ ClaimInv /\ RunningHasOwner /\ VerdictInv /\ Answered /\ [Next]_vars
          => VerdictInv' /\ Answered'
    BY VerdictStep, AnswerStep
  <1>3. VerdictInv /\ Answered => FinishedIsReported
    BY DEF VerdictInv, Judged, Answered, FinishedIsReported, Terminal
  <1> QED
    BY <1>1, <1>2, <1>3, ClaimInvariant, RunningIsOwned, PTL DEF Spec

-----------------------------------------------------------------------------
(* Refinement: every step is a step of TaskLifecycle or changes none of its    *)
(* variables.                                                                  *)

AbstractStep == [Lifecycle!LifecycleNext]_(Lifecycle!abstractVars)

\* A step of the handler of task t inserts its row, fails it, or stutters.
LEMMA ProducerRefines ==
    ASSUME TypeOK, ClaimInv, NEW t \in Tasks, Producer(t)
    PROVE  AbstractStep
  <1> USE DEF AbstractStep, Lifecycle!LifecycleNext, Lifecycle!abstractVars,
          producerVars, brokerVars, workerVars, historyVars, storeVars
  <1>1. CASE UNCHANGED <<status, runs, reports>>
    BY <1>1
  <1>2. CASE Create(t)
    <2>1. CASE \E u \in Siblings(t) : status[u] # "none"
      BY <1>2, <2>1 DEF Create
    <2>2. CASE ~\E u \in Siblings(t) : status[u] # "none"
      <3>1. Lifecycle!Submit(t)
        BY <1>2, <2>2 DEF Create, Siblings, Lifecycle!Submit, TypeOK, ClaimInv, OneRow
      <3> QED
        BY <3>1
    <2> QED
      BY <2>1, <2>2
  <1>3. CASE CreateFails(t)
    <2>1. CASE status' = status
      BY <1>3, <2>1 DEF CreateFails
    <2>2. CASE status' # status
      <3>1. Lifecycle!Submit(t)
        BY <1>3, <2>2
        DEF CreateFails, Siblings, Lifecycle!Submit, TypeOK, ClaimInv, OneRow
      <3> QED
        BY <3>1
    <2> QED
      BY <2>1, <2>2
  <1>4. CASE Push(t) \/ PushVanishes(t) \/ PushFails(t)
    BY <1>4 DEF Push, PushVanishes, PushFails
  <1>5. CASE MarkEnqueueFailed(t)
    <2>1. CASE status[t] = "running"
      <3>1. Lifecycle!Finish(t)
        BY <1>5, <2>1, StoreFacts
        DEF MarkEnqueueFailed, Lifecycle!Finish, Statuses, Terminal, Lifecycle!Terminal
      <3> QED
        BY <3>1
    <2>2. CASE status[t] # "running"
      <3>1. status' = status
        BY <1>5, <2>2, StoreFacts DEF MarkEnqueueFailed, TypeOK
      <3> QED
        BY <1>5, <3>1 DEF MarkEnqueueFailed
    <2> QED
      BY <2>1, <2>2
  <1> QED
    BY <1>2, <1>3, <1>4, <1>5 DEF Producer

\* What a worker does to the row of its task is a claim, a verdict or nothing.
LEMMA RowStepRefines ==
    ASSUME TypeOK, NEW t \in Tasks, UNCHANGED <<runs, reports>>,
           \/ status' = status
           \/ status[t] = "pending" /\ status' = [status EXCEPT ![t] = "running"]
           \/ /\ status[t] = "running"
              /\ \E s \in Terminal : status' = [status EXCEPT ![t] = s]
    PROVE  AbstractStep
  BY DEF AbstractStep, Lifecycle!LifecycleNext, Lifecycle!abstractVars,
         Lifecycle!Claim, Lifecycle!Finish, Terminal, Lifecycle!Terminal


\* A worker's step, too, is a step of TaskLifecycle.
LEMMA WorkerRefines ==
    ASSUME TypeOK, ClaimInv, NEW w \in Workers, Worker(w)
    PROVE  AbstractStep
  <1> USE DEF producerVars, brokerVars, workerVars, historyVars, storeVars
  <1> DEFINE t == task[w]
  <1>1. CASE Pop(w) \/ Execute(w) \/ Ack(w)
    <2>1. UNCHANGED <<status, runs, reports>>
      BY <1>1 DEF Pop, Execute, Ack
    <2> QED
      BY <2>1 DEF AbstractStep, Lifecycle!abstractVars
  <1>2. CASE Mark(w)
    <2>1. pc[w] \notin Idle
      BY <1>2 DEF Mark
    <2>2. CASE status[t] = "pending"
      <3>1. Lifecycle!Claim(t)
        BY <1>2, <2>1, <2>2, BusyStore DEF Mark, StartExecute, Lifecycle!Claim
      <3> QED
        BY <2>1, <3>1, BusyStore DEF AbstractStep, Lifecycle!LifecycleNext
    <2>3. CASE status[t] # "pending"
      <3>1. UNCHANGED <<status, runs, reports>>
        BY <1>2, <2>1, <2>3, BusyStore DEF Mark
      <3> QED
        BY <3>1 DEF AbstractStep, Lifecycle!abstractVars
    <2> QED
      BY <2>2, <2>3
  <1>3. CASE Remark(w)
    <2>1. pc[w] \notin Idle
      BY <1>3 DEF Remark
    <2>2. CASE status[t] = "pending"
      <3>1. Lifecycle!Claim(t)
        BY <1>3, <2>1, <2>2, BusyStore DEF Remark, StartExecute, Lifecycle!Claim
      <3> QED
        BY <2>1, <3>1, BusyStore DEF AbstractStep, Lifecycle!LifecycleNext
    <2>3. CASE status[t] # "pending"
      <3>1. UNCHANGED <<status, runs, reports>>
        BY <1>3, <2>1, <2>3, BusyStore DEF Remark
      <3> QED
        BY <3>1 DEF AbstractStep, Lifecycle!abstractVars
    <2> QED
      BY <2>2, <2>3
  <1>4. CASE MarkFails(w)
    <2>1. pc[w] \notin Idle /\ UNCHANGED <<runs, reports>>
      BY <1>4 DEF MarkFails
    <2>2. \/ status' = status
          \/ status[t] = "pending" /\ status' = [status EXCEPT ![t] = "running"]
          \/ /\ status[t] = "running"
             /\ \E s \in Terminal : status' = [status EXCEPT ![t] = s]
      BY <1>4, <2>1, BusyStore DEF MarkFails, TypeOK, Terminal, MaybeCommitted
    <2> QED
      BY <2>1, <2>2, BusyStore, RowStepRefines
  <1>5. CASE RemarkFails(w)
    <2>1. pc[w] \notin Idle /\ UNCHANGED <<runs, reports>>
      BY <1>5 DEF RemarkFails
    <2>2. \/ status' = status
          \/ status[t] = "pending" /\ status' = [status EXCEPT ![t] = "running"]
          \/ /\ status[t] = "running"
             /\ \E s \in Terminal : status' = [status EXCEPT ![t] = s]
      BY <1>5, <2>1, BusyStore DEF RemarkFails, TypeOK, Terminal, MaybeCommitted
    <2> QED
      BY <2>1, <2>2, BusyStore, RowStepRefines
  <1>6. CASE Fail(w)
    <2>1. pc[w] \notin Idle /\ UNCHANGED <<runs, reports>>
      BY <1>6 DEF Fail
    <2>2. status' = [status EXCEPT ![t] = MarkFailed(status[t]).to]
      BY <1>6 DEF Fail
    <2>3. CASE status[t] = "running"
      BY <2>1, <2>2, <2>3, BusyStore, RowStepRefines DEF Terminal
    <2>4. CASE status[t] # "running"
      <3>1. status' = status
        BY <2>1, <2>2, <2>4, BusyStore DEF TypeOK
      <3> QED
        BY <2>1, <3>1 DEF AbstractStep, Lifecycle!abstractVars
    <2> QED
      BY <2>3, <2>4
  <1>7. CASE FailFails(w)
    <2>1. pc[w] \notin Idle /\ UNCHANGED <<runs, reports>>
      BY <1>7 DEF FailFails
    <2>2. \/ status' = status
          \/ status[t] = "pending" /\ status' = [status EXCEPT ![t] = "running"]
          \/ /\ status[t] = "running"
             /\ \E s \in Terminal : status' = [status EXCEPT ![t] = s]
      BY <1>7, <2>1, BusyStore DEF FailFails, TypeOK, Terminal, MaybeCommitted
    <2> QED
      BY <2>1, <2>2, BusyStore, RowStepRefines
  <1>8. CASE Succeed(w)
    <2>1. pc[w] \notin Idle /\ UNCHANGED <<runs, reports>>
      BY <1>8 DEF Succeed
    <2>2. status' = [status EXCEPT ![t] = MarkSucceeded(status[t]).to]
      BY <1>8 DEF Succeed
    <2>3. CASE status[t] = "running"
      BY <2>1, <2>2, <2>3, BusyStore, RowStepRefines DEF Terminal
    <2>4. CASE status[t] # "running"
      <3>1. status' = status
        BY <2>1, <2>2, <2>4, BusyStore DEF TypeOK
      <3> QED
        BY <2>1, <3>1 DEF AbstractStep, Lifecycle!abstractVars
    <2> QED
      BY <2>3, <2>4
  <1>9. CASE SucceedFails(w)
    <2>1. pc[w] \notin Idle /\ UNCHANGED <<runs, reports>>
      BY <1>9 DEF SucceedFails
    <2>2. \/ status' = status
          \/ status[t] = "pending" /\ status' = [status EXCEPT ![t] = "running"]
          \/ /\ status[t] = "running"
             /\ \E s \in Terminal : status' = [status EXCEPT ![t] = s]
      BY <1>9, <2>1, BusyStore DEF SucceedFails, TypeOK, Terminal, MaybeCommitted
    <2> QED
      BY <2>1, <2>2, BusyStore, RowStepRefines
  <1>10. CASE Resucceed(w)
    <2>1. pc[w] \notin Idle /\ UNCHANGED <<runs, reports>>
      BY <1>10 DEF Resucceed
    <2>2. status' = [status EXCEPT ![t] = MarkSucceeded(status[t]).to]
      BY <1>10 DEF Resucceed
    <2>3. CASE status[t] = "running"
      BY <2>1, <2>2, <2>3, BusyStore, RowStepRefines DEF Terminal
    <2>4. CASE status[t] # "running"
      <3>1. status' = status
        BY <2>1, <2>2, <2>4, BusyStore DEF TypeOK
      <3> QED
        BY <2>1, <3>1 DEF AbstractStep, Lifecycle!abstractVars
    <2> QED
      BY <2>3, <2>4
  <1>11. CASE ResucceedFails(w)
    <2>1. pc[w] \notin Idle /\ UNCHANGED <<runs, reports>>
      BY <1>11 DEF ResucceedFails
    <2>2. \/ status' = status
          \/ status[t] = "pending" /\ status' = [status EXCEPT ![t] = "running"]
          \/ /\ status[t] = "running"
             /\ \E s \in Terminal : status' = [status EXCEPT ![t] = s]
      BY <1>11, <2>1, BusyStore DEF ResucceedFails, TypeOK, Terminal, MaybeCommitted
    <2> QED
      BY <2>1, <2>2, BusyStore, RowStepRefines
  <1>12. CASE Abandon(w)
    <2>1. pc[w] \notin Idle /\ UNCHANGED <<runs, reports>>
      BY <1>12 DEF Abandon
    <2>2. \/ status' = status
          \/ status[t] = "pending" /\ status' = [status EXCEPT ![t] = "running"]
          \/ /\ status[t] = "running"
             /\ \E s \in Terminal : status' = [status EXCEPT ![t] = s]
      BY <1>12, <2>1, BusyStore DEF Abandon, TypeOK, Terminal
    <2> QED
      BY <2>1, <2>2, BusyStore, RowStepRefines
  <1>13. CASE PublishRejected(w)
    <2>1. pc[w] \notin Idle /\ UNCHANGED <<runs, reports>>
      BY <1>13 DEF PublishRejected
    <2>2. \/ status' = status
          \/ status[t] = "pending" /\ status' = [status EXCEPT ![t] = "running"]
          \/ /\ status[t] = "running"
             /\ \E s \in Terminal : status' = [status EXCEPT ![t] = s]
      BY <1>13, <2>1, BusyStore DEF PublishRejected, TypeOK, Terminal
    <2> QED
      BY <2>1, <2>2, BusyStore, RowStepRefines
  <1>14. CASE PublishFails(w)
    <2>1. pc[w] \notin Idle /\ UNCHANGED <<runs, reports>>
      BY <1>14 DEF PublishFails
    <2>2. \/ status' = status
          \/ status[t] = "pending" /\ status' = [status EXCEPT ![t] = "running"]
          \/ /\ status[t] = "running"
             /\ \E s \in Terminal : status' = [status EXCEPT ![t] = s]
      BY <1>14, <2>1, BusyStore DEF PublishFails, TypeOK, Terminal
    <2> QED
      BY <2>1, <2>2, BusyStore, RowStepRefines
  <1>15. CASE Publish(w)
    <2>1. pc[w] = "publish" /\ t \in Tasks /\ done[w] = status[t] /\ done[w] \in Terminal
      BY <1>15, BusyStore DEF Publish, ClaimInv, SnapshotFinal
    <2>2. Lifecycle!Report(t)
      BY <1>15, <2>1 DEF Publish, Lifecycle!Report, Terminal, Lifecycle!Terminal
    <2> QED
      BY <2>1, <2>2 DEF AbstractStep, Lifecycle!LifecycleNext
  <1> QED
    BY <1>1, <1>2, <1>3, <1>4, <1>5, <1>6, <1>7, <1>8, <1>9, <1>10, <1>11, <1>12, <1>13, <1>14, <1>15 DEF Worker

\* Faults change no row, start no execution and report nothing.
LEMMA StepRefines ==
    ASSUME TypeOK, ClaimInv, [Next]_vars
    PROVE  AbstractStep
  <1>1. ASSUME NEW t \in Tasks, Producer(t) PROVE AbstractStep
    BY <1>1, ProducerRefines
  <1>2. ASSUME NEW w \in Workers, Worker(w) PROVE AbstractStep
    BY <1>2, WorkerRefines
  <1>3. CASE \/ ApiCrash \/ ConnectionLost \/ Shutdown \/ TaskServiceEnds
           \/ TaskServiceStarts \/ (\E w \in Workers : Leave(w)) \/ UNCHANGED vars
    <2>1. UNCHANGED <<status, runs, reports>>
      BY <1>3 DEF ApiCrash, ConnectionLost, Shutdown, TaskServiceEnds,
                  TaskServiceStarts, Leave, vars, storeVars, historyVars
    <2> QED
      BY <2>1 DEF AbstractStep, Lifecycle!abstractVars
  <1> QED
    BY <1>1, <1>2, <1>3 DEF Next

\* The pipeline implements TaskLifecycle: one task per request, rows that only
\* move forward, at most one execution, truthful reports (LifecycleSpec).
THEOREM ImplementsLifecycle == Spec => LifecycleSpec
  <1>1. Init => Lifecycle!LifecycleInit
    BY DEF Init, Lifecycle!LifecycleInit
  <1>2. TypeOK /\ ClaimInv /\ [Next]_vars
          => [Lifecycle!LifecycleNext]_(Lifecycle!abstractVars)
    BY StepRefines DEF AbstractStep
  <1> QED
    BY <1>1, <1>2, ClaimInvariant, PTL
    DEF Spec, LifecycleSpec, Lifecycle!LifecycleSpec
==============================================================================
