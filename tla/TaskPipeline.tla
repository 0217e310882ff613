----------------------------- MODULE TaskPipeline -----------------------------
(***************************************************************************)
(* A background task from the API handler that submits it to the done      *)
(* event that reports it:                                                  *)
(*                                                                         *)
(*   API process     internal/service/producer.go: one handler goroutine   *)
(*                   per submitted task inserts the row, then pushes its   *)
(*                   id on the RabbitMQ queue of its priority.             *)
(*   RabbitMQ        the task queue, at-least-once: what is not acked      *)
(*                   comes back when the channel or the process dies.      *)
(*   Task process    internal/taskservice/task/pool.go: workers pop,       *)
(*                   claim the row (MarkRunning), execute, record the      *)
(*                   outcome, publish the done event and ack, in that      *)
(*                   order.                                                *)
(*                                                                         *)
(* The database row is the only thing the two processes share besides the  *)
(* queue; its transitions are TaskStore's.  Everything that can go wrong   *)
(* outside the program (a statement that fails, with or without having     *)
(* taken effect, a lost connection, a dead process) costs one unit of      *)
(* `faults`.                                                               *)
(***************************************************************************)
EXTENDS Naturals, FiniteSets, FiniteSetsExt, TaskStore

CONSTANTS
    Tasks, Requests, RequestOf,   \* as in TaskLifecycle
    Workers,                      \* goroutines of one pool
    NoTask,                       \* what a worker between two messages holds
    QueueMax,                     \* x-max-length of the task queue
    EnqueueRetryMax,              \* Producer.inputRetryMaxAttempts
    InputRetryMax,                \* Pool.inputRetryMaxAttempts
    PublishRetryMax,              \* Service.donePublishRetryMaxAttempts
    MaxFaults                     \* bound: environment faults in a behaviour

ASSUME PipelineAssumption ==
    /\ RequestOf \in [Tasks -> Requests]
    /\ IsFiniteSet(Tasks) /\ IsFiniteSet(Workers)
    /\ NoTask \notin Tasks
    /\ QueueMax \in Nat
    /\ EnqueueRetryMax \in Nat \ {0}
    /\ InputRetryMax \in Nat \ {0}
    /\ PublishRetryMax \in Nat \ {0}
    /\ MaxFaults \in Nat

VARIABLES
    status,     \* task_jobs.status of each task, "none" before the INSERT
    producer,   \* where the handler submitting the task is
    pushes,     \* failed Push attempts of that handler
    ready,      \* deliverable copies of the task's message in the queue
    parked,     \* tasks whose message overflowed into the dead letter queue
    pc,         \* where each worker is in runWorker
    task,       \* the task it holds a message of
    held,       \* the broker still regards that delivery as unacked
    tries,      \* failed attempts of the operation it is retrying
    done,       \* status in doneTask, the snapshot it publishes
    service,    \* the task process: "up", "stopping" (ctx is cancelled) or "down"
    faults,     \* environment faults so far
    runs,       \* history: times Execute was called for the task
    outcome,    \* history: what Execute returned for it
    reports,    \* history: <<task, status>> events in the done queue
    lost        \* history: tasks some process gave up on

storeVars    == <<status>>
producerVars == <<producer, pushes>>
brokerVars   == <<ready, parked>>
workerVars   == <<pc, task, held, tries, done>>
historyVars  == <<runs, outcome, reports, lost>>
vars == <<status, producer, pushes, ready, parked, pc, task, held, tries,
          done, service, faults, runs, outcome, reports, lost>>

-----------------------------------------------------------------------------
Init ==
    /\ status = [t \in Tasks |-> "none"]
    /\ producer = [t \in Tasks |-> "idle"]
    /\ pushes = [t \in Tasks |-> 0]
    /\ ready = [t \in Tasks |-> 0]
    /\ parked = {}
    /\ pc = [w \in Workers |-> "pop"]
    /\ task = [w \in Workers |-> NoTask]
    /\ held = [w \in Workers |-> FALSE]
    /\ tries = [w \in Workers |-> 0]
    /\ done = [w \in Workers |-> "none"]
    /\ service = "up"
    /\ faults = 0
    /\ runs = [t \in Tasks |-> 0]
    /\ outcome = [t \in Tasks |-> "none"]
    /\ reports = {}
    /\ lost = {}

Fault == faults < MaxFaults /\ faults' = faults + 1

\* A store transition whose COMMIT may or may not have gone through.
MaybeCommitted(t, to) ==
    status' \in {status, [status EXCEPT ![t] = to]}

-----------------------------------------------------------------------------
(* The producer: createAndEnqueue for task t, by its own handler goroutine. *)

QueueLength == FoldSet(LAMBDA t, n : n + ready[t], 0, Tasks)

Siblings(t) == {u \in Tasks \ {t} : RequestOf[u] = RequestOf[t]}

\* Mutant of Create: no unique index on request_id.
CreateUnchecked(t) ==
    /\ producer[t] = "idle"
    /\ producer' = [producer EXCEPT ![t] = "push"]
    /\ status' = [status EXCEPT ![t] = "pending"]
    /\ UNCHANGED <<pushes, brokerVars, workerVars, service, faults, historyVars>>

\* store.Create, and the answer to ErrTaskDuplicateRequestID: the caller gets
\* the existing task and nothing is pushed for it.
Create(t) ==
    /\ producer[t] = "idle"
    /\ IF \E u \in Siblings(t) : status[u] # "none"
       THEN /\ producer' = [producer EXCEPT ![t] = "duplicate"]
            /\ UNCHANGED status
       ELSE /\ producer' = [producer EXCEPT ![t] = "push"]
            /\ status' = [status EXCEPT ![t] = "pending"]
    /\ UNCHANGED <<pushes, brokerVars, workerVars, service, faults, historyVars>>

\* store.Create fails.  The caller is told so even when the row was inserted.
CreateFails(t) ==
    /\ producer[t] = "idle"
    /\ Fault
    /\ producer' = [producer EXCEPT ![t] = "rejected"]
    /\ \/ UNCHANGED status
       \/ /\ \A u \in Siblings(t) : status[u] = "none"
          /\ status' = [status EXCEPT ![t] = "pending"]
    /\ UNCHANGED <<pushes, brokerVars, workerVars, service, historyVars>>

\* What the broker does with a message it gets: x-overflow is
\* reject-publish-dlx, so a full queue dead-letters it.
Enqueue(t) ==
    IF QueueLength < QueueMax
    THEN ready' = [ready EXCEPT ![t] = @ + 1] /\ UNCHANGED parked
    ELSE parked' = parked \cup {t} /\ UNCHANGED ready

\* queue.Push returns nil and the broker has the message.  There are no
\* publisher confirms: the producer cannot tell a message that was queued from
\* one that was dead-lettered, nor from one that vanished (PushVanishes).
Push(t) ==
    /\ producer[t] = "push"
    /\ Enqueue(t)
    /\ producer' = [producer EXCEPT ![t] = "accepted"]
    /\ UNCHANGED <<storeVars, pushes, workerVars, service, faults, historyVars>>

\* queue.Push returns nil for a message written to a connection that dies
\* before the broker reads it: the caller is told the task was accepted.
PushVanishes(t) ==
    /\ producer[t] = "push"
    /\ Fault
    /\ producer' = [producer EXCEPT ![t] = "unheard"]
    /\ UNCHANGED <<storeVars, pushes, brokerVars, workerVars, service, historyVars>>

\* queue.Push returns an error; the broker may have the message all the same.
PushFails(t) ==
    /\ producer[t] = "push"
    /\ Fault
    /\ Enqueue(t) \/ UNCHANGED brokerVars
    /\ pushes' = [pushes EXCEPT ![t] = @ + 1]
    /\ producer' = [producer EXCEPT
           ![t] = IF pushes[t] + 1 = EnqueueRetryMax THEN "markfail" ELSE "push"]
    /\ UNCHANGED <<storeVars, workerVars, service, historyVars>>

\* createAndEnqueue gives up: MarkFailed, its result ignored.
MarkEnqueueFailed(t) ==
    /\ producer[t] = "markfail"
    /\ status' = [status EXCEPT ![t] = MarkFailed(@).to]
    /\ producer' = [producer EXCEPT ![t] = "rejected"]
    /\ UNCHANGED <<pushes, brokerVars, workerVars, service, faults, historyVars>>

\* The API process dies between the INSERT and the answer.
ApiCrash ==
    /\ Fault
    /\ \E t \in Tasks : producer[t] \in {"push", "markfail"}
    /\ producer' = [t \in Tasks |->
           IF producer[t] \in {"push", "markfail"} THEN "crashed" ELSE producer[t]]
    /\ UNCHANGED <<storeVars, pushes, brokerVars, workerVars, service, historyVars>>

Producer(t) ==
    \/ Create(t) \/ CreateFails(t)
    \/ Push(t)   \/ PushVanishes(t) \/ PushFails(t)
    \/ MarkEnqueueFailed(t)

-----------------------------------------------------------------------------
(* The worker: one iteration of runWorker. *)

Goto(w, label) == pc' = [pc EXCEPT ![w] = label]

\* Worker w starts or ends a retry loop.
ResetTries(w) == tries' = [tries EXCEPT ![w] = 0]

\* Mutant of CountTry: the attempts are not counted.
CountNothing(w, max, again, exhausted) ==
    UNCHANGED tries /\ Goto(w, again)

\* One more failed attempt of at most `max`; a cancelled ctx ends the sleep
\* between two attempts and with it the loop.
CountTry(w, max, again, exhausted) ==
    \/ /\ tries[w] + 1 = max \/ service = "stopping"
       /\ ResetTries(w)
       /\ Goto(w, exhausted)
    \/ /\ tries[w] + 1 # max
       /\ tries' = [tries EXCEPT ![w] = @ + 1]
       /\ Goto(w, again)

GiveUp(t) == lost' = lost \cup {t}

\* Pop: select may take a delivery even when ctx is already cancelled.
Pop(w) ==
    /\ pc[w] = "pop"
    /\ \E t \in Tasks :
          /\ ready[t] > 0
          /\ ready' = [ready EXCEPT ![t] = @ - 1]
          /\ task' = [task EXCEPT ![w] = t]
    /\ held' = [held EXCEPT ![w] = TRUE]
    /\ Goto(w, "mark")
    /\ UNCHANGED <<storeVars, producerVars, parked, tries, done, service,
                   faults, historyVars>>

\* The claim succeeded: the worker goes on to call Execute.
StartExecute(w, t) ==
    /\ status' = [status EXCEPT ![t] = MarkRunning(@).to]
    /\ runs' = [runs EXCEPT ![t] = @ + 1]
    /\ Goto(w, "execute")

\* First MarkRunning: not_found, already_started and already_completed all
\* mean that the message is acked and dropped.
Mark(w) ==
    LET t == task[w] IN
    /\ pc[w] = "mark"
    /\ IF MarkRunning(status[t]).err = "nil"
       THEN StartExecute(w, t)
       ELSE Goto(w, "ack") /\ UNCHANGED <<status, runs>>
    /\ UNCHANGED <<producerVars, brokerVars, task, held, tries, done, service,
                   faults, outcome, reports, lost>>

\* First MarkRunning fails with any other error.
MarkFails(w) ==
    /\ pc[w] = "mark"
    /\ Fault
    /\ MaybeCommitted(task[w], MarkRunning(status[task[w]]).to)
    /\ Goto(w, "remark")
    /\ UNCHANGED <<producerVars, brokerVars, task, held, tries, done, service,
                   historyVars>>

\* retryInputOperation "mark_running": inside the loop every error counts as
\* a failed attempt, already_started and already_completed included.
Remark(w) ==
    LET t == task[w] IN
    /\ pc[w] = "remark"
    /\ IF MarkRunning(status[t]).err = "nil"
       THEN StartExecute(w, t) /\ ResetTries(w)
       ELSE /\ CountTry(w, InputRetryMax, "remark", "abandon")
            /\ UNCHANGED <<status, runs>>
    /\ UNCHANGED <<producerVars, brokerVars, task, held, done, service, faults,
                   outcome, reports, lost>>

RemarkFails(w) ==
    /\ pc[w] = "remark"
    /\ Fault
    /\ MaybeCommitted(task[w], MarkRunning(status[task[w]]).to)
    /\ CountTry(w, InputRetryMax, "remark", "abandon")
    /\ UNCHANGED <<producerVars, brokerVars, task, held, done, service,
                   historyVars>>

\* markFailedWithLog after exhausted retries, then Ack: no event is published.
Abandon(w) ==
    /\ pc[w] = "abandon"
    /\ \/ /\ status' = [status EXCEPT ![task[w]] = MarkFailed(@).to]
          /\ UNCHANGED faults
       \/ Fault /\ UNCHANGED status
    /\ GiveUp(task[w])
    /\ Goto(w, "ack")
    /\ UNCHANGED <<producerVars, brokerVars, task, held, tries, done, service,
                   runs, outcome, reports>>

\* Execute returns.  Its error paths include a cancelled ctx.
Execute(w) ==
    /\ pc[w] = "execute"
    /\ \E result \in {"ok", "err"} :
          /\ outcome' = [outcome EXCEPT ![task[w]] = result]
          /\ Goto(w, IF result = "ok" THEN "succeed" ELSE "fail")
    /\ UNCHANGED <<storeVars, producerVars, brokerVars, task, held, tries, done,
                   service, faults, runs, reports, lost>>

\* Mutant of Fail: the failed execution is acked without MarkFailed.
FailAcksOnly(w) ==
    /\ pc[w] = "fail"
    /\ Goto(w, "ack")
    /\ UNCHANGED <<storeVars, producerVars, brokerVars, task, held, tries, done,
                   service, faults, historyVars>>

\* MarkFailed after an execution error.  already_completed: ack, no event.
Fail(w) ==
    LET t == task[w]  r == MarkFailed(status[t]) IN
    /\ pc[w] = "fail"
    /\ status' = [status EXCEPT ![t] = r.to]
    /\ IF r.err = "nil"
       THEN done' = [done EXCEPT ![w] = r.to] /\ Goto(w, "publish")
       ELSE UNCHANGED done /\ Goto(w, "ack")
    /\ UNCHANGED <<producerVars, brokerVars, task, held, tries, service, faults,
                   historyVars>>

\* Any other error of that MarkFailed is logged, and the message acked.
FailFails(w) ==
    /\ pc[w] = "fail"
    /\ Fault
    /\ MaybeCommitted(task[w], MarkFailed(status[task[w]]).to)
    /\ GiveUp(task[w])
    /\ Goto(w, "ack")
    /\ UNCHANGED <<producerVars, brokerVars, task, held, tries, done, service,
                   runs, outcome, reports>>

\* Mutant of Succeed: acks without publishing.
SucceedSilently(w) ==
    /\ pc[w] = "succeed"
    /\ status' = [status EXCEPT ![task[w]] = MarkSucceeded(@).to]
    /\ Goto(w, "ack")
    /\ UNCHANGED <<producerVars, brokerVars, task, held, tries, done, service,
                   faults, historyVars>>

\* MarkSucceeded.  When the row is already terminal the event carries what Get
\* returns; a Get that fails leaves doneTask nil and nothing is published.
Succeed(w) ==
    LET t == task[w]  r == MarkSucceeded(status[t]) IN
    /\ pc[w] = "succeed"
    /\ status' = [status EXCEPT ![t] = r.to]
    /\ \/ /\ done' = [done EXCEPT ![w] = r.to]
          /\ Goto(w, "publish")
          /\ UNCHANGED <<faults, lost>>
       \/ /\ r.err # "nil"
          /\ Fault
          /\ GiveUp(t)
          /\ Goto(w, "ack")
          /\ UNCHANGED done
    /\ UNCHANGED <<producerVars, brokerVars, task, held, tries, service,
                   runs, outcome, reports>>

SucceedFails(w) ==
    /\ pc[w] = "succeed"
    /\ Fault
    /\ MaybeCommitted(task[w], MarkSucceeded(status[task[w]]).to)
    /\ Goto(w, "resucceed")
    /\ UNCHANGED <<producerVars, brokerVars, task, held, tries, done, service,
                   historyVars>>

\* retryInputOperation "mark_succeeded", then Get for the event.
Resucceed(w) ==
    LET t == task[w]  r == MarkSucceeded(status[t]) IN
    /\ pc[w] = "resucceed"
    /\ status' = [status EXCEPT ![t] = r.to]
    /\ \/ /\ r.err = "nil"
          /\ done' = [done EXCEPT ![w] = r.to]
          /\ ResetTries(w)
          /\ Goto(w, "publish")
          /\ UNCHANGED <<faults, lost>>
       \/ /\ r.err = "nil"
          /\ Fault
          /\ GiveUp(t)
          /\ ResetTries(w)
          /\ Goto(w, "ack")
          /\ UNCHANGED done
       \/ /\ r.err # "nil"
          /\ CountTry(w, InputRetryMax, "resucceed", "abandon")
          /\ UNCHANGED <<done, faults, lost>>
    /\ UNCHANGED <<producerVars, brokerVars, task, held, service, runs, outcome,
                   reports>>

ResucceedFails(w) ==
    /\ pc[w] = "resucceed"
    /\ Fault
    /\ MaybeCommitted(task[w], MarkSucceeded(status[task[w]]).to)
    /\ CountTry(w, InputRetryMax, "resucceed", "abandon")
    /\ UNCHANGED <<producerVars, brokerVars, task, held, done, service,
                   historyVars>>

\* publishDoneEventWithRetry: the broker takes the event.
Publish(w) ==
    /\ pc[w] = "publish"
    /\ reports' = reports \cup {<<task[w], done[w]>>}
    /\ ResetTries(w)
    /\ Goto(w, "ack")
    /\ UNCHANGED <<storeVars, producerVars, brokerVars, task, held, done,
                   service, faults, runs, outcome, lost>>

\* Publish returns nil (no confirms), but a full done queue rejects the event or
\* the connection takes it along.
PublishRejected(w) ==
    /\ pc[w] = "publish"
    /\ Fault
    /\ GiveUp(task[w])
    /\ ResetTries(w)
    /\ Goto(w, "ack")
    /\ UNCHANGED <<storeVars, producerVars, brokerVars, task, held, done,
                   service, runs, outcome, reports>>

\* Publish returns an error; exhausted retries end in MarkFailed (markTaskFailed).
PublishFails(w) ==
    LET t == task[w] IN
    /\ pc[w] = "publish"
    /\ Fault
    /\ CountTry(w, PublishRetryMax, "publish", "ack")
    /\ IF pc'[w] = "ack"
       THEN /\ status' = [status EXCEPT ![t] = MarkFailed(@).to]
            /\ GiveUp(t)
       ELSE UNCHANGED <<status, lost>>
    /\ UNCHANGED <<producerVars, brokerVars, task, held, done, service, runs,
                   outcome, reports>>

\* Ack, whose error is ignored: it reaches the broker only if the delivery's
\* channel still lives.
Ack(w) ==
    /\ pc[w] = "ack"
    /\ held' = [held EXCEPT ![w] = FALSE]
    /\ task' = [task EXCEPT ![w] = NoTask]
    /\ done' = [done EXCEPT ![w] = "none"]
    /\ Goto(w, "pop")
    /\ UNCHANGED <<storeVars, producerVars, brokerVars, tries, service, faults,
                   historyVars>>

Worker(w) ==
    \/ Pop(w)
    \/ Mark(w)      \/ MarkFails(w) \/ Remark(w) \/ RemarkFails(w)
    \/ Execute(w)
    \/ Fail(w)      \/ FailFails(w)
    \/ Succeed(w)   \/ SucceedFails(w) \/ Resucceed(w) \/ ResucceedFails(w)
    \/ Abandon(w)
    \/ Publish(w)   \/ PublishRejected(w) \/ PublishFails(w)
    \/ Ack(w)

-----------------------------------------------------------------------------
(* The broker and the task process as a whole. *)

Holding(t) == {w \in Workers : held[w] /\ task[w] = t}

\* Mutant of RequeueHeld: deliveries are acked when they are handed out.
RequeueNothing == UNCHANGED brokerVars

\* Every unacked delivery goes back to the queue.
RequeueHeld ==
    /\ ready' = [t \in Tasks |-> ready[t] + Cardinality(Holding(t))]
    /\ UNCHANGED parked

\* The channel the pool's workers share is lost and reconnectConsumer opens
\* another; the workers know nothing of it and carry on.
ConnectionLost ==
    /\ Fault
    /\ \E w \in Workers : held[w]
    /\ RequeueHeld
    /\ held' = [w \in Workers |-> FALSE]
    /\ UNCHANGED <<storeVars, producerVars, pc, task, tries, done, service,
                   historyVars>>

\* SIGTERM: signal.NotifyContext cancels ctx, which ends neither a running
\* Execute nor a worker between two steps, only their waits.
Shutdown ==
    /\ service = "up"
    /\ Fault
    /\ service' = "stopping"
    /\ UNCHANGED <<storeVars, producerVars, brokerVars, workerVars, historyVars>>

\* Pop returns context.Canceled and runWorker returns with it.
Leave(w) ==
    /\ service = "stopping"
    /\ pc[w] = "pop"
    /\ Goto(w, "gone")
    /\ UNCHANGED <<storeVars, producerVars, brokerVars, task, held, tries, done,
                   service, faults, historyVars>>

Idle == {"pop", "gone"}
Claimed == {"execute", "fail", "succeed", "resucceed", "publish"}
Retrying == {"remark", "abandon"}

\* The process ends with whatever its workers were doing: main, which waits
\* for nobody, returns after ctx is cancelled, or the process dies.
TaskServiceEnds ==
    /\ \/ service = "stopping" /\ UNCHANGED faults
       \/ service = "up" /\ Fault
    /\ service' = "down"
    /\ RequeueHeld
    /\ lost' = lost \cup {task[w] : w \in {v \in Workers :
                   \/ pc[v] \in Claimed
                   \/ pc[v] \in Retrying /\ status[task[v]] # "pending"}}
    /\ pc' = [w \in Workers |-> "gone"]
    /\ task' = [w \in Workers |-> NoTask]
    /\ held' = [w \in Workers |-> FALSE]
    /\ tries' = [w \in Workers |-> 0]
    /\ done' = [w \in Workers |-> "none"]
    /\ UNCHANGED <<storeVars, producerVars, runs, outcome, reports>>

\* Somebody starts the process again: Runtime.Start runs a new pool.
TaskServiceStarts ==
    /\ service = "down"
    /\ service' = "up"
    /\ pc' = [w \in Workers |-> "pop"]
    /\ UNCHANGED <<storeVars, producerVars, brokerVars, task, held, tries, done,
                   faults, historyVars>>

Next ==
    \/ \E t \in Tasks : Producer(t)
    \/ \E w \in Workers : Worker(w) \/ Leave(w)
    \/ ApiCrash
    \/ ConnectionLost
    \/ Shutdown
    \/ TaskServiceEnds
    \/ TaskServiceStarts

\* A handler goroutine that started runs on, so does every worker of a process
\* that is there, and main returns once it is told to stop.  The faults, bounded
\* by MaxFaults, the submission of a task and the restart of a process that
\* ended owe nothing.
Fairness ==
    /\ \A t \in Tasks : WF_vars(producer[t] # "idle" /\ Producer(t))
    /\ \A w \in Workers : WF_vars(Worker(w) \/ Leave(w))
    /\ WF_vars(service = "stopping" /\ TaskServiceEnds)

Spec == Init /\ [][Next]_vars /\ Fairness

-----------------------------------------------------------------------------
(* Properties. *)

ProducerStates == {"idle", "push", "markfail", "accepted", "unheard", "duplicate",
                   "rejected", "crashed"}
WorkerStates == {"mark", "ack"} \cup Idle \cup Claimed \cup Retrying

\* Every variable has the type the code gives it; a worker between two messages
\* has no task, and a process that is down has no worker.
TypeOK ==
    /\ status \in [Tasks -> Statuses]
    /\ producer \in [Tasks -> ProducerStates]
    /\ pushes \in [Tasks -> Nat]
    /\ ready \in [Tasks -> Nat]
    /\ parked \subseteq Tasks
    /\ pc \in [Workers -> WorkerStates]
    /\ task \in [Workers -> Tasks \cup {NoTask}]
    /\ \A w \in Workers : (task[w] = NoTask) <=> (pc[w] \in Idle)
    /\ held \in [Workers -> BOOLEAN]
    /\ tries \in [Workers -> Nat]
    /\ done \in [Workers -> Statuses]
    /\ service \in {"up", "stopping", "down"}
    /\ service = "down" => \A w \in Workers : pc[w] = "gone"
    /\ faults \in Nat
    /\ runs \in [Tasks -> Nat]
    /\ outcome \in [Tasks -> {"none", "ok", "err"}]
    /\ reports \subseteq Tasks \X Statuses
    /\ lost \subseteq Tasks

Owns(w, t) == task[w] = t /\ pc[w] \in Claimed
Retries(w, t) == task[w] = t /\ pc[w] \in Retrying

\* However often a message is redelivered or pushed twice, and however many
\* times a client resubmits a request id, the work of the request is begun at
\* most once: the claim in MarkRunning is the only thing that guarantees it.
AtMostOneExecution ==
    /\ \A t \in Tasks : runs[t] <= 1
    /\ \A t, u \in Tasks :
          RequestOf[t] = RequestOf[u] /\ runs[t] > 0 /\ runs[u] > 0 => t = u

\* Two workers are never between the claim and the report of one task, even
\* after the broker took the message from the first and gave it to the second.
ExclusiveOwner ==
    \A v, w \in Workers : \A t \in Tasks : Owns(v, t) /\ Owns(w, t) => v = w

\* A worker publishes a snapshot (doneTask) taken some steps earlier, while
\* another worker or the producer may be calling MarkFailed: what the done
\* queue says of a task is nevertheless its status, for ever.
ReportsAreFinal ==
    \A r \in reports : status[r[1]] = r[2]

\* A pending row whose submission was accepted or is under way always has
\* somebody who will take it further: a message, a worker before its claim, or
\* the handler.  It is left alone only where the code gives up on it, where the
\* queue was full, or where the connection took its message along.
PendingHasCarrier ==
    \A t \in Tasks : status[t] = "pending" =>
        \/ ready[t] > 0
        \/ \E w \in Workers : task[w] = t /\ pc[w] \in {"mark"} \cup Retrying
        \/ producer[t] \in {"push", "markfail", "unheard", "rejected", "crashed"}
        \/ t \in parked \cup lost

\* A running row has a worker on it.  A redelivered message must not be taken
\* for one: it will be dropped.
RunningHasOwner ==
    \A t \in Tasks : status[t] = "running" =>
        \/ \E w \in Workers : Owns(w, t) \/ Retries(w, t)
        \/ t \in lost

\* The verdict of a finished row is the executor's, but for a task that some
\* process gave up on or whose enqueue failed; and it is reported, or its worker
\* is still about to.
FinishedIsReported ==
    \A t \in Tasks : status[t] \in Terminal =>
        /\ \/ outcome[t] = IF status[t] = "succeeded" THEN "ok" ELSE "err"
           \/ status[t] = "failed" /\ (t \in lost \/ producer[t] \in {"rejected", "crashed"})
        /\ \/ <<t, status[t]>> \in reports
           \/ \E w \in Workers : Owns(w, t) \/ Retries(w, t)
           \/ t \in lost

\* The pipeline does what TaskLifecycle promises, every fault included.
Lifecycle == INSTANCE TaskLifecycle
    WITH Tasks <- Tasks, Requests <- Requests, RequestOf <- RequestOf,
         status <- status, runs <- runs, reports <- reports
LifecycleSpec == Lifecycle!LifecycleSpec

\* As long as the task process is started again whenever it ended, no task is
\* left half-way for ever without the system having given up on it somewhere or
\* the broker having lost it.
EveryTaskSettles ==
    []<>(service = "up") =>
        \A t \in Tasks :
            status[t] # "none" ~>
                \/ \E s \in Terminal : <<t, s>> \in reports
                \/ t \in parked \cup lost
                \/ producer[t] \in {"unheard", "rejected", "crashed"}
==============================================================================
