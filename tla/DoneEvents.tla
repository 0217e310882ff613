------------------------------ MODULE DoneEvents ------------------------------
(***************************************************************************)
(* How the API process turns the done events of finished tasks into        *)
(* robot messages: the RabbitMQ consumer with its retries, its dead letter *)
(* queue (internal/service/done_event_mq.go, main_service.go), and the     *)
(* handler it calls (StartTaskDoneConsumer in ws_handler.go).              *)
(*                                                                         *)
(* One consumer, one unacknowledged delivery at a time (the API process    *)
(* sets no WorkerSize, so the prefetch is 1).  agent.step events, whose    *)
(* handler cannot fail, are left out.                                      *)
(***************************************************************************)
EXTENDS Naturals, Sequences

CONSTANTS
    Tasks,          \* tasks whose reply is to be sent to a room
    MaxRetries,     \* retryMaxAttempts (3)
    QueueMax,       \* x-max-length of the queue
    MaxFaults,      \* bound: calls that fail
    MaxBreaks       \* bound: lost connections and restarts of the process

ASSUME DoneAssumption ==
    /\ "none" \notin Tasks
    /\ MaxRetries \in Nat \ {0} /\ QueueMax \in Nat \ {0}
    /\ MaxFaults \in Nat /\ MaxBreaks \in Nat

Statuses == {"succeeded", "failed"}

\* x-retry-count is 0 when the header is absent.
Messages == [task : Tasks, retry : 0 .. MaxRetries]
None == [task |-> "none", retry |-> 0]     \* no message

VARIABLES
    status,         \* the status of each task's row
    unpublished,    \* tasks whose event the task service has yet to publish
    queue,          \* the done event queue
    next,           \* a delivery the loop of Start has not received
    held,           \* the one it has received and not acknowledged
    current,        \* the event it is at
    pc,             \* where it is
    link,           \* the consumer's channel is open
    handlerUp,      \* WsHandler.doneConsumerUp
    startErr,       \* MainService.doneConsumerErr is not nil
    dlqUp,          \* a consumer of the dead letter queue is running
    deadLetters,    \* tasks with an event in the dead letter queue
    rows,           \* tasks with a row in the dead letter table
    sent,           \* history: robot messages stored
    half,           \* history: handlers that failed after storing one
    redelivered,    \* history: deliveries the broker took back
    dropped,        \* history: events given up with no trace but a log line
    faults, breaks

flags == <<handlerUp, startErr, dlqUp>>
consumerVars == <<next, held, current, pc, link, flags>>
history == <<sent, half, redelivered>>
vars == <<status, unpublished, queue, consumerVars, deadLetters, rows, history,
          dropped, faults, breaks>>

Phases == {"stopped", "starting", "receive", "handling", "failed", "ack", "exhausted", "finalize"}

Init ==
    /\ status \in [Tasks -> Statuses]
    /\ unpublished = Tasks /\ queue = <<>>
    /\ next = None /\ held = None /\ current = None /\ pc = "stopped" /\ link = FALSE
    /\ handlerUp = FALSE /\ startErr = FALSE /\ dlqUp = FALSE
    /\ deadLetters = {} /\ rows = {} /\ dropped = {}
    /\ sent = [t \in Tasks |-> 0]
    /\ half = [t \in Tasks |-> 0]
    /\ redelivered = [t \in Tasks |-> 0]
    /\ faults = 0 /\ breaks = 0

-----------------------------------------------------------------------------
\* A call fails.
Fault == faults < MaxFaults /\ faults' = faults + 1

\* A message put on the queue is dropped when the queue is full: it rejects
\* publishes and nobody waits for a confirm.
Enqueue(message) ==
    IF Len(queue) < QueueMax
    THEN queue' = Append(queue, message) /\ UNCHANGED dropped
    ELSE dropped' = dropped \cup {message.task} /\ UNCHANGED queue

\* Acknowledging what is held; acknowledging it again closes the channel, and
\* the broker takes back what it has delivered since.
Ack ==
    /\ held' = None
    /\ link' = (link /\ held # None)
    /\ queue' = IF link /\ held = None /\ next # None THEN <<next>> \o queue ELSE queue

Publish(t) ==
    /\ t \in unpublished
    /\ unpublished' = unpublished \ {t}
    /\ Enqueue([task |-> t, retry |-> 0])
    /\ UNCHANGED <<status, consumerVars, deadLetters, rows, history, faults, breaks>>

\* StartTaskDoneConsumer is tried until it succeeds when the router is set up
\* and again by every WebSocket that connects.  A consumer that starts after
\* an attempt that failed still reports the old error, so the handler counts
\* it as not started.  (MainService.doneConsumerUp is pc # "stopped".)
StartConsumer ==
    /\ pc = "stopped" /\ ~handlerUp
    /\ handlerUp' = ~startErr
    /\ dlqUp' = TRUE
    /\ pc' = "starting" /\ link' = TRUE
    /\ UNCHANGED <<status, unpublished, queue, next, held, current, startErr, deadLetters,
                   rows, history, dropped, faults, breaks>>

StartFails ==
    /\ pc = "stopped" /\ ~handlerUp /\ Fault
    /\ startErr' = TRUE
    /\ UNCHANGED <<status, unpublished, queue, next, held, current, pc, link, handlerUp,
                   dlqUp, deadLetters, rows, history, dropped, breaks>>

-----------------------------------------------------------------------------
(* The loop of Start.                                                       *)

Consume ==
    /\ pc = "starting" /\ link
    /\ pc' = "receive"
    /\ UNCHANGED <<status, unpublished, queue, next, held, current, link, flags, deadLetters,
                   rows, history, dropped, faults, breaks>>

\* Nobody hears of it: the handler has been told that the consumer is up.
ConsumeFails ==
    /\ pc = "starting"
    /\ (~link /\ UNCHANGED faults) \/ Fault
    /\ pc' = "stopped" /\ link' = FALSE /\ startErr' = TRUE
    /\ UNCHANGED <<status, unpublished, queue, next, held, current, handlerUp, dlqUp,
                   deadLetters, rows, history, dropped, breaks>>

\* The broker delivers the next message.
Deliver ==
    /\ link /\ pc # "starting" /\ held = None /\ next = None /\ queue # <<>>
    /\ next' = Head(queue) /\ queue' = Tail(queue)
    /\ UNCHANGED <<status, unpublished, held, current, pc, link, flags,
                   deadLetters, rows, history, dropped, faults, breaks>>

\* The loop receives it, even when the channel has been closed since and the
\* broker has taken it back.  The handler first announces the result on the
\* agent stream.
Receive ==
    /\ pc = "receive" /\ next # None
    /\ current' = next /\ next' = None
    /\ held' = IF link THEN next ELSE None
    /\ redelivered' = IF link THEN redelivered
                      ELSE [redelivered EXCEPT ![next.task] = @ + 1]
    /\ pc' = "handling"
    /\ UNCHANGED <<status, unpublished, queue, link, flags, deadLetters, rows,
                   sent, half, dropped, faults, breaks>>

\* The deliveries end with the channel, and the loop with them.
Stop ==
    /\ pc = "receive" /\ ~link
    /\ next' = None
    /\ pc' = "stopped" /\ startErr' = FALSE
    /\ UNCHANGED <<status, unpublished, queue, held, current, link, handlerUp, dlqUp,
                   deadLetters, rows, history, dropped, faults, breaks>>

\* sendRobotGroupMessage stores the message and broadcasts it.
Answer ==
    /\ pc = "handling"
    /\ sent' = [sent EXCEPT ![current.task] = @ + 1]
    /\ pc' = "ack"
    /\ UNCHANGED <<status, unpublished, queue, next, held, current, link, flags,
                   deadLetters, rows, half, redelivered, dropped, faults, breaks>>

\* It fails before it stores the message, ...
AnswerFails ==
    /\ pc = "handling" /\ Fault
    /\ pc' = "failed"
    /\ UNCHANGED <<status, unpublished, queue, next, held, current, link, flags,
                   deadLetters, rows, history, dropped, breaks>>

\* ... or after: the members of the room cannot be read.
AnswerHalf ==
    /\ pc = "handling" /\ Fault
    /\ sent' = [sent EXCEPT ![current.task] = @ + 1]
    /\ half' = [half EXCEPT ![current.task] = @ + 1]
    /\ pc' = "failed"
    /\ UNCHANGED <<status, unpublished, queue, next, held, current, link, flags,
                   deadLetters, rows, redelivered, dropped, breaks>>

\* Mutant of AckHandled: the delivery stays unacknowledged.
AckForgotten ==
    /\ pc = "ack"
    /\ pc' = "receive" /\ current' = None
    /\ UNCHANGED <<status, unpublished, queue, next, held, link, flags,
                   deadLetters, rows, history, dropped, faults, breaks>>

AckHandled ==
    /\ pc = "ack"
    /\ Ack
    /\ pc' = "receive" /\ current' = None
    /\ UNCHANGED <<status, unpublished, next, flags, deadLetters, rows,
                   history, dropped, faults, breaks>>

-----------------------------------------------------------------------------
(* retryOrFinalize, after a handler that failed.                            *)

\* Mutant of Republish: the delivery is acknowledged in place of being copied.
RepublishNothing ==
    /\ pc = "failed" /\ link /\ current.retry < MaxRetries
    /\ pc' = "ack"
    /\ UNCHANGED <<status, unpublished, queue, next, held, current, link, flags,
                   deadLetters, rows, history, dropped, faults, breaks>>

\* Mutant of Republish: two copies.
RepublishTwice ==
    /\ pc = "failed" /\ link /\ current.retry < MaxRetries
    /\ Len(queue) + 2 <= QueueMax
    /\ LET copy == [current EXCEPT !.retry = @ + 1]
       IN  queue' = queue \o <<copy, copy>>
    /\ pc' = "ack"
    /\ UNCHANGED <<status, unpublished, next, held, current, link, flags,
                   deadLetters, rows, history, dropped, faults, breaks>>

\* A copy with the next retry count goes to the end of the queue, and the
\* delivery is acknowledged (AckHandled). Both go over the consumer's channel: when
\* it is lost with the copy, the delivery comes back.
Republish ==
    /\ pc = "failed" /\ link /\ current.retry < MaxRetries
    /\ Enqueue([current EXCEPT !.retry = @ + 1])
    /\ pc' = "ack"
    /\ UNCHANGED <<status, unpublished, next, held, current, link, flags,
                   deadLetters, rows, history, faults, breaks>>

RepublishFails ==
    /\ pc = "failed" /\ current.retry < MaxRetries
    /\ (~link /\ UNCHANGED faults) \/ Fault
    /\ pc' = "finalize"
    /\ UNCHANGED <<status, unpublished, queue, next, held, current, link, flags,
                   deadLetters, rows, history, dropped, breaks>>

\* The last retry has failed: acknowledge first, ...
Exhaust ==
    /\ pc = "failed" /\ current.retry = MaxRetries
    /\ Ack
    /\ pc' = "exhausted"
    /\ UNCHANGED <<status, unpublished, next, current, flags, deadLetters,
                   rows, history, dropped, faults, breaks>>

\* ... then handleDoneEventConsumeExhausted: MarkFailed has nothing to do for
\* a task that failed, and that is the end of the event.
MarkFailed ==
    /\ pc = "exhausted" /\ status[current.task] = "failed"
    /\ dropped' = dropped \cup {current.task}
    /\ pc' = "receive" /\ current' = None
    /\ UNCHANGED <<status, unpublished, queue, next, held, link, flags,
                   deadLetters, rows, history, faults, breaks>>

\* It refuses a task that succeeded, or cannot be called.
MarkRefused ==
    /\ pc = "exhausted"
    /\ (status[current.task] = "succeeded" /\ UNCHANGED faults) \/ Fault
    /\ pc' = "finalize"
    /\ UNCHANGED <<status, unpublished, queue, next, held, current, link, flags,
                   deadLetters, rows, history, dropped, breaks>>

\* The dead letter is published, and the delivery acknowledged, for the
\* second time when the retries were exhausted.
DeadLetter ==
    /\ pc = "finalize" /\ link
    /\ deadLetters' = deadLetters \cup {current.task}
    /\ Ack
    /\ pc' = "receive" /\ current' = None
    /\ UNCHANGED <<status, unpublished, next, flags, rows, history,
                   dropped, faults, breaks>>

DeadLetterFails ==
    /\ pc = "finalize"
    /\ (~link /\ UNCHANGED faults) \/ Fault
    /\ dropped' = dropped \cup {current.task}
    /\ Ack
    /\ pc' = "receive" /\ current' = None
    /\ UNCHANGED <<status, unpublished, next, flags, deadLetters, rows,
                   history, breaks>>

-----------------------------------------------------------------------------
\* The dead letter consumer writes the row, or drops the message.
Persist(t) ==
    /\ dlqUp /\ t \in deadLetters
    /\ deadLetters' = deadLetters \ {t}
    /\ rows' = rows \cup {t}
    /\ UNCHANGED <<status, unpublished, queue, consumerVars, history, dropped, faults, breaks>>

PersistFails(t) ==
    /\ dlqUp /\ t \in deadLetters /\ Fault
    /\ deadLetters' = deadLetters \ {t}
    /\ dropped' = dropped \cup {t}
    /\ UNCHANGED <<status, unpublished, queue, consumerVars, rows, history, breaks>>

\* The broker takes an unacknowledged delivery back to the front; it counts
\* as redelivered when the loop has received it.
TakeBack ==
    /\ queue' = CASE held # None -> <<held>> \o queue
                  [] link /\ next # None -> <<next>> \o queue
                  [] OTHER -> queue
    /\ redelivered' = IF held = None THEN redelivered
                      ELSE [redelivered EXCEPT ![held.task] = @ + 1]

\* The channel is lost while the loop, or the handler, goes on.
ConnectionLost ==
    /\ link /\ breaks < MaxBreaks
    /\ breaks' = breaks + 1
    /\ TakeBack
    /\ held' = None /\ link' = FALSE
    /\ UNCHANGED <<status, unpublished, next, current, pc, flags, deadLetters,
                   rows, sent, half, dropped, faults>>

\* The dead letter consumer has a connection of its own, and ends with it.
DeadLetterConnectionLost ==
    /\ dlqUp /\ breaks < MaxBreaks
    /\ breaks' = breaks + 1
    /\ dlqUp' = FALSE
    /\ UNCHANGED <<status, unpublished, queue, next, held, current, pc, link, handlerUp,
                   startErr, deadLetters, rows, history, dropped, faults>>

\* The process dies and comes up again; what it had acknowledged and not yet
\* disposed of is lost.
Restart ==
    /\ breaks < MaxBreaks
    /\ breaks' = breaks + 1
    /\ TakeBack
    /\ dropped' = IF pc \in {"exhausted", "finalize"} /\ held = None
                  THEN dropped \cup {current.task} ELSE dropped
    /\ next' = None /\ held' = None /\ current' = None /\ pc' = "stopped" /\ link' = FALSE
    /\ handlerUp' = FALSE /\ startErr' = FALSE /\ dlqUp' = FALSE
    /\ UNCHANGED <<status, unpublished, deadLetters, rows, sent, half, faults>>

-----------------------------------------------------------------------------
Consumer ==
    \/ StartConsumer \/ StartFails \/ Consume \/ ConsumeFails
    \/ Deliver \/ Receive \/ Stop
    \/ Answer \/ AnswerFails \/ AnswerHalf \/ AckHandled
    \/ Republish \/ RepublishFails
    \/ Exhaust \/ MarkFailed \/ MarkRefused
    \/ DeadLetter \/ DeadLetterFails

DeadLetterConsumer(t) == Persist(t) \/ PersistFails(t)

Next ==
    \/ \E t \in Tasks : Publish(t) \/ DeadLetterConsumer(t)
    \/ Consumer
    \/ ConnectionLost \/ DeadLetterConnectionLost \/ Restart

Spec == Init /\ [][Next]_vars

\* The goroutines run, and the calls they make return; no task has to finish
\* and nothing restarts the process.
FairSpec ==
    /\ Spec
    /\ WF_vars(Consumer)
    /\ \A t \in Tasks : WF_vars(DeadLetterConsumer(t))

-----------------------------------------------------------------------------
Queued(t) == next.task = t \/ \E i \in 1 .. Len(queue) : queue[i].task = t
AtConsumer(t) == current # None /\ current.task = t
Settled(t) == t \notin unpublished \cup deadLetters /\ ~Queued(t) /\ ~AtConsumer(t)

TypeOK ==
    /\ status \in [Tasks -> Statuses]
    /\ unpublished \subseteq Tasks
    /\ queue \in Seq(Messages) /\ Len(queue) <= QueueMax + 1
    /\ next \in Messages \cup {None}
    /\ held \in Messages \cup {None} /\ current \in Messages \cup {None}
    /\ pc \in Phases /\ link \in BOOLEAN
    /\ handlerUp \in BOOLEAN /\ startErr \in BOOLEAN /\ dlqUp \in BOOLEAN
    /\ deadLetters \subseteq Tasks /\ rows \subseteq Tasks /\ dropped \subseteq Tasks
    /\ sent \in [Tasks -> Nat]
    /\ half \in [Tasks -> Nat] /\ redelivered \in [Tasks -> Nat]
    /\ faults \in 0 .. MaxFaults /\ breaks \in 0 .. MaxBreaks

\* A published event never vanishes between the copies of its retries: it is
\* answered, on its way, a dead letter, or was dropped where the code says so.
NothingVanishes ==
    \A t \in Tasks \ unpublished :
        \/ sent[t] > 0 \/ Queued(t) \/ AtConsumer(t)
        \/ t \in deadLetters \cup rows \cup dropped

\* The room gets a second message for one task only if an attempt failed
\* after storing one, or the broker took a delivery back.
RepeatsArePaid == \A t \in Tasks : sent[t] <= 1 + half[t] + redelivered[t]

\* A published event is settled, unless a consumer has stopped.
SettlesOrStops ==
    \A t \in Tasks :
        t \notin unpublished ~> (Settled(t) \/ pc = "stopped" \/ ~dlqUp)

-----------------------------------------------------------------------------
\* "原有 WS 房间消息继续正常广播机器人最终回复" (documents/sse最小改造方案.md:126):
\* once the consumer is at work, with a broker that stays up, every published
\* event is settled.
EveryEventSettles ==
    \A t \in Tasks : (t \notin unpublished /\ pc = "receive") ~> Settled(t)
==============================================================================
