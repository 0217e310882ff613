--------------------------- MODULE DoneEventsProofs ---------------------------
(***************************************************************************)
(* Theorems about DoneEvents for any tasks, bounds of retries, queue       *)
(* length, faults and lost connections: that a published event does not    *)
(* vanish between the copies of its retries, and that a second message of  *)
(* the robot is always paid for.                                           *)
(***************************************************************************)
EXTENDS DoneEvents, FiniteSetTheorems, FunctionTheorems, SequenceTheorems, TLAPS

-----------------------------------------------------------------------------
(* What is in a queue.                                                      *)

\* Where a queue has events of a task, and how many.
Places(q, t) == {i \in 1 .. Len(q) : q[i].task = t}
Number(q, t) == Cardinality(Places(q, t))
Waiting(q, t) == \E i \in 1 .. Len(q) : q[i].task = t

One(b) == IF b THEN 1 ELSE 0

\* r is q and a message m, wherever it is.
Grows(q, r, m) ==
    /\ r \in Seq(Messages) /\ Len(r) = Len(q) + 1
    /\ \A t : Waiting(r, t) <=> Waiting(q, t) \/ m.task = t
    /\ \A t : Number(r, t) = Number(q, t) + One(m.task = t)

LEMMA NumberType ==
    ASSUME NEW q \in Seq(Messages), NEW t
    PROVE  IsFiniteSet(Places(q, t)) /\ Number(q, t) \in Nat
<1>1. IsFiniteSet(1 .. Len(q))
    BY LenProperties, FS_Interval
<1>2. Places(q, t) \in SUBSET (1 .. Len(q))
    BY DEF Places
<1> QED
    BY <1>1, <1>2, FS_Subset, FS_CardinalityType DEF Number

\* A message put at the end.
LEMMA AppendFacts ==
    ASSUME NEW q \in Seq(Messages), NEW m \in Messages
    PROVE  Grows(q, Append(q, m), m)
<1> DEFINE r == Append(q, m)
<1>0. Len(q) \in Nat
    BY LenProperties
<1>1. /\ r \in Seq(Messages) /\ Len(r) = Len(q) + 1
      /\ \A i \in 1 .. Len(q) : r[i] = q[i]
      /\ r[Len(q) + 1] = m
    BY AppendProperties
<1> HIDE DEF r
<1>2. ASSUME NEW t PROVE Waiting(r, t) <=> Waiting(q, t) \/ m.task = t
  <2>1. \A i \in 1 .. Len(r) : i \in 1 .. Len(q) \/ i = Len(q) + 1
    BY <1>0, <1>1
  <2>2. 1 .. Len(q) \subseteq 1 .. Len(r) /\ Len(q) + 1 \in 1 .. Len(r)
    BY <1>0, <1>1
  <2> QED
    BY <1>1, <2>1, <2>2 DEF Waiting
<1>3. ASSUME NEW t PROVE Number(r, t) = Number(q, t) + One(m.task = t)
  <2>1. Places(r, t) = IF m.task = t THEN Places(q, t) \cup {Len(q) + 1} ELSE Places(q, t)
    BY <1>0, <1>1 DEF Places
  <2>2. Len(q) + 1 \notin Places(q, t)
    BY <1>0 DEF Places
  <2>3. Cardinality(Places(q, t) \cup {Len(q) + 1}) = Number(q, t) + 1
    BY <2>2, NumberType, FS_AddElement DEF Number
  <2> QED
    BY <2>1, <2>3, NumberType DEF Number, One
<1> QED
    BY <1>1, <1>2, <1>3 DEF r, Grows

\* The places of a queue behind a first message are those of the rest, moved
\* by one.
LEMMA FrontPlaces ==
    ASSUME NEW q \in Seq(Messages), NEW r \in Seq(Messages), NEW m,
           Len(r) = Len(q) + 1, r[1] = m, \A i \in 1 .. Len(q) : r[i + 1] = q[i]
    PROVE  Grows(q, r, m)
<1>0. Len(q) \in Nat
    BY LenProperties
<1>1. ASSUME NEW t PROVE Waiting(r, t) <=> Waiting(q, t) \/ m.task = t
  <2>1. \A i \in 1 .. Len(r) : i = 1 \/ (i - 1 \in 1 .. Len(q) /\ r[i] = q[i - 1])
    BY <1>0
  <2>2. \A i \in 1 .. Len(q) : i + 1 \in 1 .. Len(r) /\ r[i + 1] = q[i]
    BY <1>0
  <2>3. 1 \in 1 .. Len(r)
    BY <1>0
  <2> QED
    BY <2>1, <2>2, <2>3 DEF Waiting
<1>2. ASSUME NEW t PROVE Number(r, t) = Number(q, t) + One(m.task = t)
  <2> DEFINE Moved == {i \in 2 .. Len(r) : r[i].task = t}
             f == [i \in Places(q, t) |-> i + 1]
  <2>1. f \in Bijection(Places(q, t), Moved)
    <3>1. Places(q, t) \subseteq 1 .. Len(q)
      BY DEF Places
    <3>2. \A i \in Places(q, t) : f[i] \in Moved
      BY <1>0 DEF Places
    <3>3. \A i, j \in Places(q, t) : f[i] = f[j] => i = j
      BY <1>0, <3>1
    <3>4. ASSUME NEW j \in Moved PROVE \E i \in Places(q, t) : f[i] = j
      <4>1. j - 1 \in 1 .. Len(q) /\ j = (j - 1) + 1
        BY <1>0
      <4>2. j - 1 \in Places(q, t)
        BY <1>0, <4>1 DEF Places
      <4> QED
        BY <4>1, <4>2
    <3> QED
      BY <3>2, <3>3, <3>4, Fun_IsBij
  <2>3. Places(r, t) = IF m.task = t THEN Moved \cup {1} ELSE Moved
    BY <1>0 DEF Places
  <2>4. 1 \notin Moved
    BY <1>0
  <2>6. ExistsBijection(Places(q, t), Moved)
    BY <2>1 DEF ExistsBijection
  <2> HIDE DEF Moved
  <2>7. IsFiniteSet(Places(q, t))
    BY NumberType
  <2>2. Cardinality(Moved) = Number(q, t) /\ IsFiniteSet(Moved)
    BY <2>6, <2>7, FS_Bijection DEF Number
  <2>5. Cardinality(Moved \cup {1}) = Cardinality(Moved) + 1
    BY <2>2, <2>4, FS_AddElement
  <2> QED
    BY <2>2, <2>3, <2>5, NumberType DEF Number, One
<1> QED
    BY <1>1, <1>2 DEF Grows

\* A message taken from the front, and one put back there.
LEMMA TailFacts ==
    ASSUME NEW q \in Seq(Messages), q # <<>>
    PROVE  Head(q) \in Messages /\ Tail(q) \in Seq(Messages) /\ Grows(Tail(q), q, Head(q))
<1>1. /\ Head(q) \in Messages /\ Tail(q) \in Seq(Messages)
      /\ Len(Tail(q)) = Len(q) - 1
      /\ \A i \in 1 .. Len(Tail(q)) : Tail(q)[i] = q[i + 1]
      /\ Head(q) = q[1] /\ Len(q) \in Nat
    BY HeadTailProperties, LenProperties
<1>2. Len(q) = Len(Tail(q)) + 1
    BY <1>1
<1> DEFINE h == Head(q)
           rest == Tail(q)
<1>3. /\ rest \in Seq(Messages) /\ Len(q) = Len(rest) + 1 /\ q[1] = h
      /\ \A i \in 1 .. Len(rest) : q[i + 1] = rest[i]
    BY <1>1, <1>2
<1> HIDE DEF h, rest
<1>4. Grows(rest, q, h)
    BY <1>3, FrontPlaces
<1> QED
    BY <1>1, <1>4 DEF h, rest

LEMMA PutBackFacts ==
    ASSUME NEW q \in Seq(Messages), NEW m \in Messages
    PROVE  Grows(q, <<m>> \o q, m)
<1> DEFINE first == <<m>>
           r == first \o q
<1>0. Len(q) \in Nat
    BY LenProperties
<1>1. first \in Seq(Messages) /\ Len(first) = 1 /\ first[1] = m
    OBVIOUS
<1> HIDE DEF first
<1>5. /\ r \in Seq(Messages) /\ Len(r) = Len(first) + Len(q)
      /\ \A i \in 1 .. Len(first) + Len(q) :
            r[i] = IF i <= Len(first) THEN first[i] ELSE q[i - Len(first)]
    BY <1>1, ConcatProperties
<1> HIDE DEF r
<1>2. /\ r \in Seq(Messages) /\ Len(r) = 1 + Len(q)
      /\ \A i \in 1 .. 1 + Len(q) : r[i] = IF i <= 1 THEN first[i] ELSE q[i - 1]
    BY <1>1, <1>5
<1>3. r[1] = m /\ \A i \in 1 .. Len(q) : r[i + 1] = q[i]
    BY <1>0, <1>1, <1>2
<1>4. Len(r) = Len(q) + 1
    BY <1>0, <1>2
<1> QED
    <2>1. Grows(q, r, m)
      BY <1>2, <1>3, <1>4, FrontPlaces
    <2> QED
      BY <2>1 DEF r, first

-----------------------------------------------------------------------------
(* Messages, and what the steps do to the queue.                            *)

LEMMA TaskFacts ==
    /\ None.task \notin Tasks /\ None \notin Messages
    /\ \A m \in Messages : m.task \in Tasks
<1>1. None.task = "none" /\ "none" \notin Tasks
    BY DoneAssumption DEF None
<1>2. \A m \in Messages : m.task \in Tasks
    BY DEF Messages
<1> QED
    BY <1>1, <1>2

LEMMA CopyFacts ==
    ASSUME NEW m \in Messages, m.retry < MaxRetries
    PROVE  /\ [m EXCEPT !.retry = @ + 1] \in Messages
           /\ [m EXCEPT !.retry = @ + 1].task = m.task
BY DoneAssumption DEF Messages

\* A delivery that a lost channel gives back.
InFlight == held # None \/ (link /\ next # None)

\* The broker takes deliveries back without regard to the length limit, and
\* has at most one to take back.
QueueBound == Len(queue) + One(InFlight) <= QueueMax + 1

LEMMA EnqueueFacts ==
    ASSUME queue \in Seq(Messages), NEW m \in Messages, Enqueue(m)
    PROVE  \/ Len(queue) < QueueMax /\ Grows(queue, queue', m) /\ UNCHANGED dropped
           \/ dropped' = dropped \cup {m.task} /\ UNCHANGED queue
BY AppendFacts DEF Enqueue

\* What Publish and Republish put on the queue.
LEMMA PublishFacts ==
    ASSUME queue \in Seq(Messages), NEW t \in Tasks, Publish(t)
    PROVE  \E message \in Messages :
              /\ message.task = t
              /\ \/ Len(queue) < QueueMax /\ Grows(queue, queue', message) /\ UNCHANGED dropped
                 \/ dropped' = dropped \cup {t} /\ UNCHANGED queue
<1> DEFINE message == [task |-> t, retry |-> 0]
<1>1. message \in Messages /\ message.task = t
    BY DoneAssumption DEF Messages
<1>2. Enqueue(message)
    BY DEF Publish
<1> HIDE DEF message
<1>3. \/ Len(queue) < QueueMax /\ Grows(queue, queue', message) /\ UNCHANGED dropped
      \/ dropped' = dropped \cup {message.task} /\ UNCHANGED queue
    BY <1>1, <1>2, EnqueueFacts
<1> QED
    BY <1>1, <1>3

LEMMA RepublishFacts ==
    ASSUME queue \in Seq(Messages), current \in Messages, Republish
    PROVE  \E copy \in Messages :
              /\ copy.task = current.task
              /\ \/ Len(queue) < QueueMax /\ Grows(queue, queue', copy) /\ UNCHANGED dropped
                 \/ dropped' = dropped \cup {current.task} /\ UNCHANGED queue
<1> DEFINE copy == [current EXCEPT !.retry = @ + 1]
<1>1. copy \in Messages /\ copy.task = current.task
    BY CopyFacts DEF Republish
<1>2. Enqueue(copy)
    BY DEF Republish
<1> HIDE DEF copy
<1>3. \/ Len(queue) < QueueMax /\ Grows(queue, queue', copy) /\ UNCHANGED dropped
      \/ dropped' = dropped \cup {copy.task} /\ UNCHANGED queue
    BY <1>1, <1>2, EnqueueFacts
<1> QED
    BY <1>1, <1>3

LEMMA AckFacts ==
    ASSUME queue \in Seq(Messages), next \in Messages \cup {None}, Ack
    PROVE  /\ held' = None /\ (link' <=> link /\ held # None)
           /\ \/ link /\ held = None /\ next # None /\ Grows(queue, queue', next)
              \/ ~(link /\ held = None /\ next # None) /\ UNCHANGED queue
BY PutBackFacts DEF Ack

LEMMA TakeBackFacts ==
    ASSUME queue \in Seq(Messages), next \in Messages \cup {None},
           held \in Messages \cup {None}, TakeBack
    PROVE  \/ held # None /\ Grows(queue, queue', held)
           \/ held = None /\ link /\ next # None /\ Grows(queue, queue', next)
           \/ ~InFlight /\ UNCHANGED queue
<1>1. CASE held # None
  <2>1. queue' = <<held>> \o queue
    BY <1>1 DEF TakeBack
  <2> QED
    BY <1>1, <2>1, PutBackFacts
<1>2. CASE held = None /\ link /\ next # None
  <2>1. queue' = <<next>> \o queue
    BY <1>2 DEF TakeBack
  <2> QED
    BY <1>2, <2>1, PutBackFacts
<1>3. CASE held = None /\ ~(link /\ next # None)
    BY <1>3 DEF TakeBack, InFlight
<1> QED
    BY <1>1, <1>2, <1>3

-----------------------------------------------------------------------------
(* The inductive invariant.                                                 *)

Working == {"handling", "failed", "ack", "exhausted", "finalize"}

\* What the loop, its deliveries and the channel have to do with each other:
\* an unacknowledged delivery is the event the loop is at, over an open
\* channel, and nothing else has been delivered.
ConsumerInv ==
    /\ pc \in {"stopped", "starting"} => next = None
    /\ pc = "stopped" => ~link
    /\ pc \notin Working => current = None /\ held = None
    /\ pc \in Working => current \in Messages
    /\ held # None => link /\ next = None /\ held = current
    /\ pc \in {"handling", "failed", "ack"} /\ link => held # None
    /\ pc = "exhausted" => held = None

\* What the loop goes on with after the broker took it back is in the queue
\* again, and what it acknowledges has been answered, copied or dropped.
BackInv ==
    /\ ~link /\ next # None => Waiting(queue, next.task)
    /\ pc \in {"handling", "failed"} /\ held = None => Waiting(queue, current.task)
    /\ pc = "ack" =>
          \/ sent[current.task] > 0 \/ current.task \in dropped
          \/ Waiting(queue, current.task)

\* The messages that can still be sent for a task.
Pending(t) ==
    Number(queue, t) + One(t \in unpublished) + One(link /\ next.task = t)
        + One(pc \in {"handling", "failed"} /\ current.task = t)

Paid(t) == sent[t] + Pending(t) <= 1 + half[t] + redelivered[t]
PaidInv == \A t \in Tasks : Paid(t)

DoneInv == TypeOK /\ QueueBound /\ ConsumerInv /\ BackInv /\ NothingVanishes /\ PaidInv

LEMMA DoneInitially == Init => DoneInv
<1> SUFFICES ASSUME Init PROVE DoneInv
    OBVIOUS
<1>0. queue = <<>> /\ queue \in Seq(Messages) /\ Len(queue) = 0
    BY DEF Init
<1>1. TypeOK
  <2>1. /\ sent \in [Tasks -> Nat] /\ half \in [Tasks -> Nat]
        /\ redelivered \in [Tasks -> Nat]
    BY DEF Init
  <2>2. faults \in 0 .. MaxFaults /\ breaks \in 0 .. MaxBreaks /\ Len(queue) <= QueueMax + 1
    BY <1>0, DoneAssumption DEF Init
  <2>3. /\ status \in [Tasks -> Statuses] /\ unpublished \subseteq Tasks
        /\ next = None /\ held = None /\ current = None
        /\ pc \in Phases /\ link \in BOOLEAN
        /\ handlerUp \in BOOLEAN /\ startErr \in BOOLEAN /\ dlqUp \in BOOLEAN
        /\ deadLetters \subseteq Tasks /\ rows \subseteq Tasks /\ dropped \subseteq Tasks
    BY DEF Init, Phases
  <2> QED
    BY <1>0, <2>1, <2>2, <2>3 DEF TypeOK
<1>2. QueueBound
    BY <1>0, DoneAssumption DEF Init, QueueBound, InFlight, One
<1>3. ConsumerInv /\ BackInv
  <2>1. next = None /\ held = None /\ current = None /\ pc = "stopped" /\ ~link
    BY DEF Init
  <2> QED
    BY <2>1 DEF ConsumerInv, BackInv, Working
<1>4. NothingVanishes
  <2>1. Tasks \ unpublished = {}
    BY DEF Init
  <2> QED
    BY <2>1, Zenon DEF NothingVanishes
<1>5. ASSUME NEW t \in Tasks PROVE Paid(t)
  <2>1. Places(queue, t) = {}
    BY <1>0 DEF Places
  <2>2. Number(queue, t) = 0
    BY <2>1, FS_EmptySet DEF Number
  <2> QED
    BY <2>2 DEF Init, Paid, Pending, One
<1>6. PaidInv
    BY <1>5, Zenon DEF PaidInv
<1> QED
    BY <1>1, <1>2, <1>3, <1>4, <1>6 DEF DoneInv

LEMMA QueueStep ==
    ASSUME DoneInv, [Next]_vars
    PROVE  queue' \in Seq(Messages) /\ QueueBound'
<1> USE DEF DoneInv, TypeOK, ConsumerInv, Working, QueueBound, InFlight, One
<1>1. ASSUME NEW t \in Tasks, Publish(t) PROVE queue' \in Seq(Messages) /\ QueueBound'
    BY <1>1, PublishFacts, TaskFacts, DoneAssumption, LenProperties DEF Publish, flags,
       consumerVars, history, Grows
<1>2. ASSUME NEW t \in Tasks, Persist(t) PROVE queue' \in Seq(Messages) /\ QueueBound'
    BY <1>2, TaskFacts, DoneAssumption, LenProperties DEF Persist, flags, consumerVars,
       history
<1>3. ASSUME NEW t \in Tasks, PersistFails(t) PROVE queue' \in Seq(Messages) /\ QueueBound'
    BY <1>3, TaskFacts, DoneAssumption, LenProperties DEF PersistFails, flags, consumerVars,
       history
<1>4. CASE StartConsumer
    BY <1>4, TaskFacts, DoneAssumption, LenProperties DEF StartConsumer, flags,
       consumerVars, history
<1>5. CASE StartFails
    BY <1>5, TaskFacts, DoneAssumption, LenProperties DEF StartFails, flags, consumerVars,
       history
<1>6. CASE Consume
    BY <1>6, TaskFacts, DoneAssumption, LenProperties DEF Consume, flags, consumerVars,
       history
<1>7. CASE ConsumeFails
    BY <1>7, TaskFacts, DoneAssumption, LenProperties DEF ConsumeFails, flags, consumerVars,
       history
<1>8. CASE Deliver
    BY <1>8, TailFacts, TaskFacts, DoneAssumption, LenProperties DEF Deliver, flags,
       consumerVars, history, Grows
<1>9. CASE Receive
    BY <1>9, TaskFacts, DoneAssumption, LenProperties DEF Receive, flags, consumerVars,
       history
<1>10. CASE Stop
    BY <1>10, TaskFacts, DoneAssumption, LenProperties DEF Stop, flags, consumerVars,
       history
<1>11. CASE Answer
    BY <1>11, TaskFacts, DoneAssumption, LenProperties DEF Answer, flags, consumerVars,
       history
<1>12. CASE AnswerFails
    BY <1>12, TaskFacts, DoneAssumption, LenProperties DEF AnswerFails, flags, consumerVars,
       history
<1>13. CASE AnswerHalf
    BY <1>13, TaskFacts, DoneAssumption, LenProperties DEF AnswerHalf, flags, consumerVars,
       history
<1>14. CASE AckHandled
    BY <1>14, AckFacts, TaskFacts, DoneAssumption, LenProperties DEF AckHandled, flags,
       consumerVars, history, Grows
<1>15. CASE Republish
    BY <1>15, RepublishFacts, TaskFacts, DoneAssumption, LenProperties DEF Republish, flags,
       consumerVars, history, Grows
<1>16. CASE RepublishFails
    BY <1>16, TaskFacts, DoneAssumption, LenProperties DEF RepublishFails, flags,
       consumerVars, history
<1>17. CASE Exhaust
    BY <1>17, AckFacts, TaskFacts, DoneAssumption, LenProperties DEF Exhaust, flags,
       consumerVars, history, Grows
<1>18. CASE MarkFailed
    BY <1>18, TaskFacts, DoneAssumption, LenProperties DEF MarkFailed, flags, consumerVars,
       history
<1>19. CASE MarkRefused
    BY <1>19, TaskFacts, DoneAssumption, LenProperties DEF MarkRefused, flags, consumerVars,
       history
<1>20. CASE DeadLetter
    BY <1>20, AckFacts, TaskFacts, DoneAssumption, LenProperties DEF DeadLetter, flags,
       consumerVars, history, Grows
<1>21. CASE DeadLetterFails
    BY <1>21, AckFacts, TaskFacts, DoneAssumption, LenProperties DEF DeadLetterFails, flags,
       consumerVars, history, Grows
<1>22. CASE ConnectionLost
    BY <1>22, TakeBackFacts, TaskFacts, DoneAssumption, LenProperties DEF ConnectionLost,
       flags, consumerVars, history, TakeBack, Grows
<1>23. CASE DeadLetterConnectionLost
    BY <1>23, TaskFacts, DoneAssumption, LenProperties DEF DeadLetterConnectionLost, flags,
       consumerVars, history
<1>24. CASE Restart
    BY <1>24, TakeBackFacts, TaskFacts, DoneAssumption, LenProperties DEF Restart, flags,
       consumerVars, history, TakeBack, Grows
<1>25. CASE UNCHANGED vars
    BY <1>25, TaskFacts, DoneAssumption, LenProperties DEF vars, flags, consumerVars,
       history
<1> QED
    BY <1>1, <1>2, <1>3, <1>4, <1>5, <1>6, <1>7, <1>8, <1>9, <1>10, <1>11, <1>12, <1>13,
       <1>14, <1>15, <1>16, <1>17, <1>18, <1>19, <1>20, <1>21, <1>22, <1>23, <1>24, <1>25
       DEF Next, Consumer, DeadLetterConsumer

LEMMA TypeStep ==
    ASSUME DoneInv, [Next]_vars
    PROVE  TypeOK'
<1> USE DEF DoneInv, TypeOK, ConsumerInv, Working, Phases, Fault
<1>0. queue' \in Seq(Messages) /\ Len(queue') <= QueueMax + 1
    BY QueueStep, LenProperties, DoneAssumption DEF QueueBound, InFlight, One
<1>1. ASSUME NEW t \in Tasks, Publish(t) PROVE TypeOK'
    BY <1>1, TaskFacts, DoneAssumption, <1>0 DEF Publish, flags, consumerVars, history,
       Enqueue
<1>2. ASSUME NEW t \in Tasks, Persist(t) PROVE TypeOK'
    BY <1>2, TaskFacts, DoneAssumption, <1>0 DEF Persist, flags, consumerVars, history
<1>3. ASSUME NEW t \in Tasks, PersistFails(t) PROVE TypeOK'
    BY <1>3, TaskFacts, DoneAssumption, <1>0 DEF PersistFails, flags, consumerVars, history
<1>4. CASE StartConsumer
    BY <1>4, TaskFacts, DoneAssumption, <1>0 DEF StartConsumer, flags, consumerVars, history
<1>5. CASE StartFails
    BY <1>5, TaskFacts, DoneAssumption, <1>0 DEF StartFails, flags, consumerVars, history
<1>6. CASE Consume
    BY <1>6, TaskFacts, DoneAssumption, <1>0 DEF Consume, flags, consumerVars, history
<1>7. CASE ConsumeFails
  <2>1. /\ next' \in Messages \cup {None} /\ held' \in Messages \cup {None}
        /\ current' \in Messages \cup {None}
    BY <1>7, TaskFacts DEF ConsumeFails, flags, consumerVars, history
  <2>2. /\ pc' \in Phases /\ link' \in BOOLEAN /\ handlerUp' \in BOOLEAN
        /\ startErr' \in BOOLEAN /\ dlqUp' \in BOOLEAN
    BY <1>7 DEF ConsumeFails, flags, consumerVars, history
  <2>3. /\ status' \in [Tasks -> Statuses] /\ unpublished' \subseteq Tasks
        /\ deadLetters' \subseteq Tasks /\ rows' \subseteq Tasks /\ dropped' \subseteq Tasks
    BY <1>7, TaskFacts DEF ConsumeFails, flags, consumerVars, history
  <2>4. /\ sent' \in [Tasks -> Nat] /\ half' \in [Tasks -> Nat]
        /\ redelivered' \in [Tasks -> Nat]
    BY <1>7, TaskFacts DEF ConsumeFails, flags, consumerVars, history
  <2>5. faults' \in 0 .. MaxFaults /\ breaks' \in 0 .. MaxBreaks
    BY <1>7, DoneAssumption DEF ConsumeFails, flags, consumerVars, history
  <2> QED
    BY <2>1, <2>2, <2>3, <2>4, <2>5, <1>0
<1>8. CASE Deliver
    BY <1>8, TaskFacts, DoneAssumption, <1>0 DEF Deliver, flags, consumerVars, history
<1>9. CASE Receive
    BY <1>9, TaskFacts, DoneAssumption, <1>0 DEF Receive, flags, consumerVars, history
<1>10. CASE Stop
    BY <1>10, TaskFacts, DoneAssumption, <1>0 DEF Stop, flags, consumerVars, history
<1>11. CASE Answer
    BY <1>11, TaskFacts, DoneAssumption, <1>0 DEF Answer, flags, consumerVars, history
<1>12. CASE AnswerFails
    BY <1>12, TaskFacts, DoneAssumption, <1>0 DEF AnswerFails, flags, consumerVars, history
<1>13. CASE AnswerHalf
    BY <1>13, TaskFacts, DoneAssumption, <1>0 DEF AnswerHalf, flags, consumerVars, history
<1>14. CASE AckHandled
    BY <1>14, TaskFacts, DoneAssumption, <1>0 DEF AckHandled, flags, consumerVars, history,
       Ack
<1>15. CASE Republish
  <2>1. /\ next' \in Messages \cup {None} /\ held' \in Messages \cup {None}
        /\ current' \in Messages \cup {None}
    BY <1>15, TaskFacts DEF Republish, flags, consumerVars, history
  <2>2. /\ pc' \in Phases /\ link' \in BOOLEAN /\ handlerUp' \in BOOLEAN
        /\ startErr' \in BOOLEAN /\ dlqUp' \in BOOLEAN
    BY <1>15 DEF Republish, flags, consumerVars, history
  <2>3. /\ status' \in [Tasks -> Statuses] /\ unpublished' \subseteq Tasks
        /\ deadLetters' \subseteq Tasks /\ rows' \subseteq Tasks /\ dropped' \subseteq Tasks
    BY <1>15, TaskFacts, RepublishFacts DEF Republish, flags, consumerVars, history
  <2>4. /\ sent' \in [Tasks -> Nat] /\ half' \in [Tasks -> Nat]
        /\ redelivered' \in [Tasks -> Nat]
    BY <1>15, TaskFacts DEF Republish, flags, consumerVars, history
  <2>5. faults' \in 0 .. MaxFaults /\ breaks' \in 0 .. MaxBreaks
    BY <1>15, DoneAssumption DEF Republish, flags, consumerVars, history
  <2> QED
    BY <2>1, <2>2, <2>3, <2>4, <2>5, <1>0
<1>16. CASE RepublishFails
    BY <1>16, TaskFacts, DoneAssumption, <1>0 DEF RepublishFails, flags, consumerVars,
       history
<1>17. CASE Exhaust
    BY <1>17, TaskFacts, DoneAssumption, <1>0 DEF Exhaust, flags, consumerVars, history, Ack
<1>18. CASE MarkFailed
    BY <1>18, TaskFacts, DoneAssumption, <1>0 DEF MarkFailed, flags, consumerVars, history
<1>19. CASE MarkRefused
    BY <1>19, TaskFacts, DoneAssumption, <1>0 DEF MarkRefused, flags, consumerVars, history
<1>20. CASE DeadLetter
    BY <1>20, TaskFacts, DoneAssumption, <1>0 DEF DeadLetter, flags, consumerVars, history,
       Ack
<1>21. CASE DeadLetterFails
    BY <1>21, TaskFacts, DoneAssumption, <1>0 DEF DeadLetterFails, flags, consumerVars,
       history, Ack
<1>22. CASE ConnectionLost
  <2>1. /\ next' \in Messages \cup {None} /\ held' \in Messages \cup {None}
        /\ current' \in Messages \cup {None}
    BY <1>22, TaskFacts DEF ConnectionLost, flags, consumerVars, history, TakeBack
  <2>2. /\ pc' \in Phases /\ link' \in BOOLEAN /\ handlerUp' \in BOOLEAN
        /\ startErr' \in BOOLEAN /\ dlqUp' \in BOOLEAN
    BY <1>22 DEF ConnectionLost, flags, consumerVars, history, TakeBack
  <2>3. /\ status' \in [Tasks -> Statuses] /\ unpublished' \subseteq Tasks
        /\ deadLetters' \subseteq Tasks /\ rows' \subseteq Tasks /\ dropped' \subseteq Tasks
    BY <1>22, TaskFacts DEF ConnectionLost, flags, consumerVars, history, TakeBack
  <2>4. /\ sent' \in [Tasks -> Nat] /\ half' \in [Tasks -> Nat]
        /\ redelivered' \in [Tasks -> Nat]
    BY <1>22, TaskFacts DEF ConnectionLost, flags, consumerVars, history, TakeBack
  <2>5. faults' \in 0 .. MaxFaults /\ breaks' \in 0 .. MaxBreaks
    BY <1>22, DoneAssumption DEF ConnectionLost, flags, consumerVars, history, TakeBack
  <2> QED
    BY <2>1, <2>2, <2>3, <2>4, <2>5, <1>0
<1>23. CASE DeadLetterConnectionLost
  <2>1. /\ next' \in Messages \cup {None} /\ held' \in Messages \cup {None}
        /\ current' \in Messages \cup {None}
    BY <1>23, TaskFacts DEF DeadLetterConnectionLost, flags, consumerVars, history
  <2>2. /\ pc' \in Phases /\ link' \in BOOLEAN /\ handlerUp' \in BOOLEAN
        /\ startErr' \in BOOLEAN /\ dlqUp' \in BOOLEAN
    BY <1>23 DEF DeadLetterConnectionLost, flags, consumerVars, history
  <2>3. /\ status' \in [Tasks -> Statuses] /\ unpublished' \subseteq Tasks
        /\ deadLetters' \subseteq Tasks /\ rows' \subseteq Tasks /\ dropped' \subseteq Tasks
    BY <1>23, TaskFacts DEF DeadLetterConnectionLost, flags, consumerVars, history
  <2>4. /\ sent' \in [Tasks -> Nat] /\ half' \in [Tasks -> Nat]
        /\ redelivered' \in [Tasks -> Nat]
    BY <1>23, TaskFacts DEF DeadLetterConnectionLost, flags, consumerVars, history
  <2>5. faults' \in 0 .. MaxFaults /\ breaks' \in 0 .. MaxBreaks
    BY <1>23, DoneAssumption DEF DeadLetterConnectionLost, flags, consumerVars, history
  <2> QED
    BY <2>1, <2>2, <2>3, <2>4, <2>5, <1>0
<1>24. CASE Restart
  <2>1. /\ next' \in Messages \cup {None} /\ held' \in Messages \cup {None}
        /\ current' \in Messages \cup {None}
    BY <1>24, TaskFacts DEF Restart, flags, consumerVars, history, TakeBack
  <2>2. /\ pc' \in Phases /\ link' \in BOOLEAN /\ handlerUp' \in BOOLEAN
        /\ startErr' \in BOOLEAN /\ dlqUp' \in BOOLEAN
    BY <1>24 DEF Restart, flags, consumerVars, history, TakeBack
  <2>3. /\ status' \in [Tasks -> Statuses] /\ unpublished' \subseteq Tasks
        /\ deadLetters' \subseteq Tasks /\ rows' \subseteq Tasks /\ dropped' \subseteq Tasks
    BY <1>24, TaskFacts DEF Restart, flags, consumerVars, history, TakeBack
  <2>4. /\ sent' \in [Tasks -> Nat] /\ half' \in [Tasks -> Nat]
        /\ redelivered' \in [Tasks -> Nat]
    BY <1>24, TaskFacts DEF Restart, flags, consumerVars, history, TakeBack
  <2>5. faults' \in 0 .. MaxFaults /\ breaks' \in 0 .. MaxBreaks
    BY <1>24, DoneAssumption DEF Restart, flags, consumerVars, history, TakeBack
  <2> QED
    BY <2>1, <2>2, <2>3, <2>4, <2>5, <1>0
<1>25. CASE UNCHANGED vars
    BY <1>25, TaskFacts, DoneAssumption, <1>0 DEF vars, flags, consumerVars, history
<1> QED
    BY <1>1, <1>2, <1>3, <1>4, <1>5, <1>6, <1>7, <1>8, <1>9, <1>10, <1>11, <1>12, <1>13,
       <1>14, <1>15, <1>16, <1>17, <1>18, <1>19, <1>20, <1>21, <1>22, <1>23, <1>24, <1>25
       DEF Next, Consumer, DeadLetterConsumer

LEMMA ConsumerStep ==
    ASSUME DoneInv, [Next]_vars
    PROVE  ConsumerInv'
<1> USE DEF DoneInv, TypeOK, ConsumerInv, Working
<1>1. ASSUME NEW t \in Tasks, Publish(t) PROVE ConsumerInv'
    BY <1>1 DEF Publish, flags, consumerVars, history, Enqueue
<1>2. ASSUME NEW t \in Tasks, Persist(t) PROVE ConsumerInv'
    BY <1>2 DEF Persist, flags, consumerVars, history
<1>3. ASSUME NEW t \in Tasks, PersistFails(t) PROVE ConsumerInv'
    BY <1>3 DEF PersistFails, flags, consumerVars, history
<1>4. CASE StartConsumer
    BY <1>4 DEF StartConsumer, flags, consumerVars, history
<1>5. CASE StartFails
    BY <1>5 DEF StartFails, flags, consumerVars, history
<1>6. CASE Consume
    BY <1>6 DEF Consume, flags, consumerVars, history
<1>7. CASE ConsumeFails
    BY <1>7 DEF ConsumeFails, flags, consumerVars, history
<1>8. CASE Deliver
    BY <1>8 DEF Deliver, flags, consumerVars, history
<1>9. CASE Receive
    BY <1>9 DEF Receive, flags, consumerVars, history
<1>10. CASE Stop
    BY <1>10 DEF Stop, flags, consumerVars, history
<1>11. CASE Answer
    BY <1>11 DEF Answer, flags, consumerVars, history
<1>12. CASE AnswerFails
    BY <1>12 DEF AnswerFails, flags, consumerVars, history
<1>13. CASE AnswerHalf
    BY <1>13 DEF AnswerHalf, flags, consumerVars, history
<1>14. CASE AckHandled
    BY <1>14 DEF AckHandled, flags, consumerVars, history, Ack
<1>15. CASE Republish
    BY <1>15 DEF Republish, flags, consumerVars, history
<1>16. CASE RepublishFails
    BY <1>16 DEF RepublishFails, flags, consumerVars, history
<1>17. CASE Exhaust
    BY <1>17 DEF Exhaust, flags, consumerVars, history, Ack
<1>18. CASE MarkFailed
    BY <1>18 DEF MarkFailed, flags, consumerVars, history
<1>19. CASE MarkRefused
    BY <1>19 DEF MarkRefused, flags, consumerVars, history
<1>20. CASE DeadLetter
    BY <1>20 DEF DeadLetter, flags, consumerVars, history, Ack
<1>21. CASE DeadLetterFails
    BY <1>21 DEF DeadLetterFails, flags, consumerVars, history, Ack
<1>22. CASE ConnectionLost
    BY <1>22 DEF ConnectionLost, flags, consumerVars, history, TakeBack
<1>23. CASE DeadLetterConnectionLost
    BY <1>23 DEF DeadLetterConnectionLost, flags, consumerVars, history
<1>24. CASE Restart
    BY <1>24 DEF Restart, flags, consumerVars, history, TakeBack
<1>25. CASE UNCHANGED vars
    BY <1>25 DEF vars, flags, consumerVars, history
<1> QED
    BY <1>1, <1>2, <1>3, <1>4, <1>5, <1>6, <1>7, <1>8, <1>9, <1>10, <1>11, <1>12, <1>13,
       <1>14, <1>15, <1>16, <1>17, <1>18, <1>19, <1>20, <1>21, <1>22, <1>23, <1>24, <1>25
       DEF Next, Consumer, DeadLetterConsumer

LEMMA BackStep ==
    ASSUME DoneInv, [Next]_vars
    PROVE  BackInv'
<1> USE DEF DoneInv, TypeOK, ConsumerInv, Working, BackInv
<1>1. ASSUME NEW t \in Tasks, Publish(t) PROVE BackInv'
    BY <1>1, PublishFacts, TaskFacts DEF Publish, flags, consumerVars, history, Grows
<1>2. ASSUME NEW t \in Tasks, Persist(t) PROVE BackInv'
    BY <1>2, TaskFacts DEF Persist, flags, consumerVars, history
<1>3. ASSUME NEW t \in Tasks, PersistFails(t) PROVE BackInv'
    BY <1>3, TaskFacts DEF PersistFails, flags, consumerVars, history
<1>4. CASE StartConsumer
    BY <1>4, TaskFacts DEF StartConsumer, flags, consumerVars, history
<1>5. CASE StartFails
    BY <1>5, TaskFacts DEF StartFails, flags, consumerVars, history
<1>6. CASE Consume
    BY <1>6, TaskFacts DEF Consume, flags, consumerVars, history
<1>7. CASE ConsumeFails
    BY <1>7, TaskFacts DEF ConsumeFails, flags, consumerVars, history
<1>8. CASE Deliver
    BY <1>8, TailFacts, TaskFacts DEF Deliver, flags, consumerVars, history, Grows
<1>9. CASE Receive
    BY <1>9, TaskFacts DEF Receive, flags, consumerVars, history
<1>10. CASE Stop
    BY <1>10, TaskFacts DEF Stop, flags, consumerVars, history
<1>11. CASE Answer
    BY <1>11, TaskFacts DEF Answer, flags, consumerVars, history
<1>12. CASE AnswerFails
    BY <1>12, TaskFacts DEF AnswerFails, flags, consumerVars, history
<1>13. CASE AnswerHalf
    BY <1>13, TaskFacts DEF AnswerHalf, flags, consumerVars, history
<1>14. CASE AckHandled
    BY <1>14, AckFacts, TaskFacts DEF AckHandled, flags, consumerVars, history, Grows
<1>15. CASE Republish
    BY <1>15, RepublishFacts, TaskFacts DEF Republish, flags, consumerVars, history, Grows
<1>16. CASE RepublishFails
    BY <1>16, TaskFacts DEF RepublishFails, flags, consumerVars, history
<1>17. CASE Exhaust
    BY <1>17, AckFacts, TaskFacts DEF Exhaust, flags, consumerVars, history, Grows
<1>18. CASE MarkFailed
    BY <1>18, TaskFacts DEF MarkFailed, flags, consumerVars, history
<1>19. CASE MarkRefused
    BY <1>19, TaskFacts DEF MarkRefused, flags, consumerVars, history
<1>20. CASE DeadLetter
    BY <1>20, AckFacts, TaskFacts DEF DeadLetter, flags, consumerVars, history, Grows
<1>21. CASE DeadLetterFails
    BY <1>21, AckFacts, TaskFacts DEF DeadLetterFails, flags, consumerVars, history, Grows
<1>22. CASE ConnectionLost
  <2>1. /\ \A t : Waiting(queue, t) => Waiting(queue', t)
        /\ held # None => Waiting(queue', held.task)
        /\ held = None /\ link /\ next # None => Waiting(queue', next.task)
    BY <1>22, TakeBackFacts DEF ConnectionLost, Grows, InFlight
  <2> QED
    BY <1>22, <2>1 DEF ConnectionLost, flags
<1>23. CASE DeadLetterConnectionLost
    BY <1>23, TaskFacts DEF DeadLetterConnectionLost, flags, consumerVars, history
<1>24. CASE Restart
    BY <1>24, TakeBackFacts, TaskFacts DEF Restart, flags, consumerVars, history, TakeBack,
       Grows
<1>25. CASE UNCHANGED vars
    BY <1>25, TaskFacts DEF vars, flags, consumerVars, history
<1> QED
    BY <1>1, <1>2, <1>3, <1>4, <1>5, <1>6, <1>7, <1>8, <1>9, <1>10, <1>11, <1>12, <1>13,
       <1>14, <1>15, <1>16, <1>17, <1>18, <1>19, <1>20, <1>21, <1>22, <1>23, <1>24, <1>25
       DEF Next, Consumer, DeadLetterConsumer

\* What NothingVanishes says of one task.
Kept(t) ==
    \/ sent[t] > 0 \/ next.task = t \/ Waiting(queue, t) \/ current.task = t
    \/ t \in deadLetters \cup rows \cup dropped

LEMMA KeptIsEnough ==
    ASSUME next \in Messages \cup {None}
    PROVE  NothingVanishes <=> \A t \in Tasks \ unpublished : Kept(t)
BY TaskFacts, Zenon DEF NothingVanishes, Kept, Queued, AtConsumer, Waiting

\* A delivery taken back stands in the queue for what it was before.
LEMMA AckCounts ==
    ASSUME TypeOK, Ack, NEW x \in Tasks
    PROVE  Number(queue', x) + One(link' /\ next.task = x)
               <= Number(queue, x) + One(link /\ next.task = x)
<1>1. queue \in Seq(Messages) /\ next \in Messages \cup {None}
    BY DEF TypeOK
<1>2. Number(queue, x) \in Nat
    BY <1>1, NumberType
<1>3. CASE link /\ held = None /\ next # None
  <2>1. Grows(queue, queue', next) /\ ~link'
    BY <1>1, <1>3, AckFacts
  <2> QED
    BY <1>2, <1>3, <2>1 DEF Grows, One
<1>4. CASE ~(link /\ held = None /\ next # None)
  <2>1. UNCHANGED queue /\ (link' => link)
    BY <1>1, <1>4, AckFacts
  <2> QED
    BY <1>2, <2>1 DEF One
<1> QED
    BY <1>3, <1>4

LEMMA TakeBackCounts ==
    ASSUME TypeOK, ConsumerInv, TakeBack, NEW x \in Tasks
    PROVE  /\ Number(queue', x) =
                  Number(queue, x) + One(held.task = x) + One(link /\ next.task = x)
           /\ redelivered'[x] = redelivered[x] + One(held.task = x)
<1>1. /\ queue \in Seq(Messages) /\ next \in Messages \cup {None}
      /\ held \in Messages \cup {None} /\ redelivered \in [Tasks -> Nat]
    BY DEF TypeOK
<1>2. Number(queue, x) \in Nat /\ None.task # x
    BY <1>1, NumberType, TaskFacts
<1>3. CASE held # None
  <2>1. Grows(queue, queue', held) /\ held \in Messages
    BY <1>1, <1>3, TakeBackFacts DEF InFlight
  <2>2. next.task # x
    BY <1>2, <1>3 DEF ConsumerInv
  <2>3. redelivered' = [redelivered EXCEPT ![held.task] = @ + 1]
    BY <1>3 DEF TakeBack
  <2> QED
    BY <1>1, <1>2, <2>1, <2>2, <2>3 DEF Grows, One
<1>4. CASE held = None
  <2>1. UNCHANGED redelivered /\ held.task # x
    BY <1>2, <1>4 DEF TakeBack
  <2>2. CASE link /\ next # None
    <3>1. Grows(queue, queue', next)
      BY <1>1, <1>4, <2>2, TakeBackFacts DEF InFlight
    <3> QED
      BY <1>1, <1>2, <2>1, <2>2, <3>1 DEF Grows, One
  <2>3. CASE ~(link /\ next # None)
    <3>1. UNCHANGED queue
      BY <1>1, <1>4, <2>3, TakeBackFacts DEF InFlight
    <3>2. ~(link /\ next.task = x)
      BY <1>2, <2>3
    <3> QED
      BY <1>1, <1>2, <2>1, <3>1, <3>2 DEF One
  <2> QED
    BY <2>2, <2>3
<1> QED
    BY <1>3, <1>4

LEMMA KeptStep ==
    ASSUME DoneInv, [Next]_vars, NEW x \in Tasks, x \notin unpublished'
    PROVE  Kept(x)'
<1> USE DEF TypeOK, ConsumerInv, Working, Kept
<1>0. /\ TypeOK /\ ConsumerInv /\ BackInv
      /\ x \notin unpublished => Kept(x)
    BY KeptIsEnough DEF DoneInv, TypeOK
<1>1. ASSUME NEW t \in Tasks, Publish(t) PROVE Kept(x)'
    BY <1>1, PublishFacts, <1>0, TaskFacts DEF Publish, flags, consumerVars, history, Grows
<1>2. ASSUME NEW t \in Tasks, Persist(t) PROVE Kept(x)'
    BY <1>2, <1>0, TaskFacts DEF Persist, flags, consumerVars, history
<1>3. ASSUME NEW t \in Tasks, PersistFails(t) PROVE Kept(x)'
    BY <1>3, <1>0, TaskFacts DEF PersistFails, flags, consumerVars, history
<1>4. CASE StartConsumer
    BY <1>4, <1>0, TaskFacts DEF StartConsumer, flags, consumerVars, history
<1>5. CASE StartFails
    BY <1>5, <1>0, TaskFacts DEF StartFails, flags, consumerVars, history
<1>6. CASE Consume
    BY <1>6, <1>0, TaskFacts DEF Consume, flags, consumerVars, history
<1>7. CASE ConsumeFails
    BY <1>7, <1>0, TaskFacts DEF ConsumeFails, flags, consumerVars, history
<1>8. CASE Deliver
    BY <1>8, TailFacts, <1>0, TaskFacts DEF Deliver, flags, consumerVars, history, Grows
<1>9. CASE Receive
    BY <1>9, <1>0, TaskFacts DEF Receive, flags, consumerVars, history
<1>10. CASE Stop
    BY <1>10, <1>0, TaskFacts DEF Stop, flags, consumerVars, history, BackInv
<1>11. CASE Answer
    BY <1>11, <1>0, TaskFacts DEF Answer, flags, consumerVars, history
<1>12. CASE AnswerFails
    BY <1>12, <1>0, TaskFacts DEF AnswerFails, flags, consumerVars, history
<1>13. CASE AnswerHalf
    BY <1>13, <1>0, TaskFacts DEF AnswerHalf, flags, consumerVars, history
<1>14. CASE AckHandled
    BY <1>14, AckFacts, <1>0, TaskFacts DEF AckHandled, flags, consumerVars, history, Grows,
       BackInv
<1>15. CASE Republish
    BY <1>15, RepublishFacts, <1>0, TaskFacts DEF Republish, flags, consumerVars, history,
       Grows
<1>16. CASE RepublishFails
    BY <1>16, <1>0, TaskFacts DEF RepublishFails, flags, consumerVars, history
<1>17. CASE Exhaust
    BY <1>17, AckFacts, <1>0, TaskFacts DEF Exhaust, flags, consumerVars, history, Grows
<1>18. CASE MarkFailed
    BY <1>18, <1>0, TaskFacts DEF MarkFailed, flags, consumerVars, history
<1>19. CASE MarkRefused
    BY <1>19, <1>0, TaskFacts DEF MarkRefused, flags, consumerVars, history
<1>20. CASE DeadLetter
    BY <1>20, AckFacts, <1>0, TaskFacts DEF DeadLetter, flags, consumerVars, history, Grows
<1>21. CASE DeadLetterFails
    BY <1>21, AckFacts, <1>0, TaskFacts DEF DeadLetterFails, flags, consumerVars, history,
       Grows
<1>22. CASE ConnectionLost
    BY <1>22, TakeBackFacts, <1>0, TaskFacts DEF ConnectionLost, flags, consumerVars,
       history, TakeBack, Grows
<1>23. CASE DeadLetterConnectionLost
    BY <1>23, <1>0, TaskFacts DEF DeadLetterConnectionLost, flags, consumerVars, history
<1>24. CASE Restart
  <2>1. /\ Waiting(queue', x) \/ ~Waiting(queue, x)
        /\ held # None /\ held.task = x => Waiting(queue', x)
        /\ link /\ held = None /\ next.task = x => Waiting(queue', x)
    BY <1>24, <1>0, TakeBackFacts, TaskFacts DEF Restart, InFlight, Grows
  <2>2. current.task = x /\ held = None =>
            Waiting(queue, x) \/ sent[x] > 0 \/ x \in dropped'
    BY <1>24, <1>0, TaskFacts DEF Restart, BackInv
  <2>3. ~link /\ next.task = x => Waiting(queue, x)
    BY <1>0, TaskFacts DEF BackInv
  <2> QED
    BY <1>24, <1>0, <2>1, <2>2, <2>3, TaskFacts DEF Restart
<1>25. CASE UNCHANGED vars
    BY <1>25, <1>0, TaskFacts DEF vars, flags, consumerVars, history
<1> QED
    BY <1>1, <1>2, <1>3, <1>4, <1>5, <1>6, <1>7, <1>8, <1>9, <1>10, <1>11, <1>12, <1>13,
       <1>14, <1>15, <1>16, <1>17, <1>18, <1>19, <1>20, <1>21, <1>22, <1>23, <1>24, <1>25
       DEF Next, Consumer, DeadLetterConsumer

LEMMA PaidStep ==
    ASSUME DoneInv, [Next]_vars, NEW x \in Tasks
    PROVE  Paid(x)'
<1> USE DEF Paid, Pending, One
<1>a. TypeOK /\ ConsumerInv /\ BackInv /\ Paid(x)
    BY Zenon DEF DoneInv, PaidInv
<1>b. Number(queue, x) \in Nat /\ Number(queue', x) \in Nat
    BY QueueStep, NumberType DEF DoneInv, TypeOK
<1>0. sent[x] \in Nat /\ half[x] \in Nat /\ redelivered[x] \in Nat /\ Paid(x)
    BY <1>a DEF TypeOK
<1>1. ASSUME NEW t \in Tasks, Publish(t) PROVE Paid(x)'
  <2>1. PICK message \in Messages :
            /\ message.task = t
            /\ Grows(queue, queue', message) \/ UNCHANGED queue
    BY <1>1, <1>a, PublishFacts DEF TypeOK
  <2>2. Number(queue', x) <= Number(queue, x) + One(t = x)
    BY <1>b, <2>1 DEF Grows
  <2> QED
    BY <1>1, <1>b, <1>0, <2>2 DEF Publish, consumerVars, flags, history
<1>2. ASSUME NEW t \in Tasks, Persist(t) PROVE Paid(x)'
    BY <1>2, <1>a, <1>b, <1>0 DEF Persist, flags, consumerVars, history
<1>3. ASSUME NEW t \in Tasks, PersistFails(t) PROVE Paid(x)'
    BY <1>3, <1>a, <1>b, <1>0 DEF PersistFails, flags, consumerVars, history
<1>4. CASE StartConsumer
  <2>1. next.task # x
    BY <1>4, <1>a, TaskFacts DEF StartConsumer, ConsumerInv
  <2> QED
    BY <1>4, <1>b, <1>0, <2>1 DEF StartConsumer, history
<1>5. CASE StartFails
    BY <1>5, <1>a, <1>b, <1>0 DEF StartFails, flags, consumerVars, history
<1>6. CASE Consume
    BY <1>6, <1>a, <1>b, <1>0 DEF Consume, flags, consumerVars, history
<1>7. CASE ConsumeFails
    BY <1>7, <1>a, <1>b, <1>0 DEF ConsumeFails, flags, consumerVars, history
<1>8. CASE Deliver
  <2>1. Number(queue, x) = Number(queue', x) + One(next'.task = x)
    BY <1>8, <1>a, TailFacts DEF Grows, Deliver, TypeOK
  <2>2. next.task # x
    BY <1>8, TaskFacts DEF Deliver
  <2>3. /\ link /\ UNCHANGED <<unpublished, link, pc, current, sent, half, redelivered>>
    BY <1>8 DEF Deliver, history
  <2> QED
    BY <1>b, <1>0, <2>1, <2>2, <2>3
<1>9. CASE Receive
  <2>1. next \in Messages /\ pc \notin {"handling", "failed"}
    BY <1>9, <1>a DEF Receive, TypeOK
  <2>2. CASE link
    BY <1>9, <1>a, <1>b, <1>0, <2>1, <2>2, TaskFacts DEF Receive
  <2>3. CASE ~link
    <3>1. redelivered'[x] = redelivered[x] + One(next.task = x)
      BY <1>9, <1>a, <2>1, <2>3, TaskFacts DEF Receive, TypeOK
    <3> QED
      BY <1>9, <1>a, <1>b, <1>0, <2>1, <2>3, <3>1 DEF Receive
  <2> QED
    BY <2>2, <2>3
<1>10. CASE Stop
    BY <1>10, <1>a, <1>b, <1>0 DEF Stop, flags, consumerVars, history
<1>11. CASE Answer
  <2>1. sent'[x] = sent[x] + One(current.task = x)
    BY <1>11, <1>a DEF Answer, TypeOK
  <2> QED
    BY <1>11, <1>b, <1>0, <2>1 DEF Answer, flags
<1>12. CASE AnswerFails
    BY <1>12, <1>a, <1>b, <1>0 DEF AnswerFails, flags, consumerVars, history
<1>13. CASE AnswerHalf
  <2>1. /\ sent'[x] = sent[x] + One(current.task = x)
        /\ half'[x] = half[x] + One(current.task = x)
    BY <1>13, <1>a DEF AnswerHalf, TypeOK
  <2> QED
    BY <1>13, <1>b, <1>0, <2>1 DEF AnswerHalf, flags
<1>14. CASE AckHandled
  <2>1. Number(queue', x) + One(link' /\ next.task = x)
            <= Number(queue, x) + One(link /\ next.task = x)
    BY <1>14, <1>a, AckCounts DEF AckHandled
  <2> QED
    BY <1>14, <1>b, <1>0, <2>1 DEF AckHandled, flags, history
<1>15. CASE Republish
  <2>1. Number(queue', x) <= Number(queue, x) + One(current.task = x)
    BY <1>15, <1>a, <1>b, RepublishFacts DEF Grows, Republish, TypeOK, ConsumerInv, Working
  <2> QED
    BY <1>15, <1>b, <1>0, <2>1 DEF Republish, flags, history
<1>16. CASE RepublishFails
    BY <1>16, <1>a, <1>b, <1>0 DEF RepublishFails, flags, consumerVars, history
<1>17. CASE Exhaust
  <2>1. Number(queue', x) + One(link' /\ next.task = x)
            <= Number(queue, x) + One(link /\ next.task = x)
    BY <1>17, <1>a, AckCounts DEF Exhaust
  <2> QED
    BY <1>17, <1>b, <1>0, <2>1 DEF Exhaust, flags, history
<1>18. CASE MarkFailed
    BY <1>18, <1>a, <1>b, <1>0 DEF MarkFailed, flags, consumerVars, history
<1>19. CASE MarkRefused
    BY <1>19, <1>a, <1>b, <1>0 DEF MarkRefused, flags, consumerVars, history
<1>20. CASE DeadLetter
  <2>1. Number(queue', x) + One(link' /\ next.task = x)
            <= Number(queue, x) + One(link /\ next.task = x)
    BY <1>20, <1>a, AckCounts DEF DeadLetter
  <2> QED
    BY <1>20, <1>b, <1>0, <2>1 DEF DeadLetter, flags, history
<1>21. CASE DeadLetterFails
  <2>1. Number(queue', x) + One(link' /\ next.task = x)
            <= Number(queue, x) + One(link /\ next.task = x)
    BY <1>21, <1>a, AckCounts DEF DeadLetterFails
  <2> QED
    BY <1>21, <1>b, <1>0, <2>1 DEF DeadLetterFails, flags, history
<1>22. CASE ConnectionLost
  <2>1. /\ Number(queue', x) =
              Number(queue, x) + One(held.task = x) + One(link /\ next.task = x)
        /\ redelivered'[x] = redelivered[x] + One(held.task = x)
    BY <1>22, <1>a, TakeBackCounts DEF ConnectionLost
  <2> QED
    BY <1>22, <1>b, <1>0, <2>1 DEF ConnectionLost, flags
<1>23. CASE DeadLetterConnectionLost
    BY <1>23, <1>a, <1>b, <1>0 DEF DeadLetterConnectionLost, flags, consumerVars, history
<1>24. CASE Restart
  <2>1. /\ Number(queue', x) =
              Number(queue, x) + One(held.task = x) + One(link /\ next.task = x)
        /\ redelivered'[x] = redelivered[x] + One(held.task = x)
    BY <1>24, <1>a, TakeBackCounts DEF Restart
  <2> QED
    BY <1>24, <1>b, <1>0, <2>1 DEF Restart, flags
<1>25. CASE UNCHANGED vars
    BY <1>25, <1>a, <1>b, <1>0 DEF vars, flags, consumerVars, history
<1> QED
    BY <1>1, <1>2, <1>3, <1>4, <1>5, <1>6, <1>7, <1>8, <1>9, <1>10, <1>11, <1>12, <1>13,
       <1>14, <1>15, <1>16, <1>17, <1>18, <1>19, <1>20, <1>21, <1>22, <1>23, <1>24, <1>25
       DEF Next, Consumer, DeadLetterConsumer

-----------------------------------------------------------------------------
(* The theorems.                                                            *)

LEMMA DoneInductive == Spec => []DoneInv
<1>1. DoneInv /\ [Next]_vars => DoneInv'
  <2> SUFFICES ASSUME DoneInv, [Next]_vars PROVE DoneInv'
    OBVIOUS
  <2>1. TypeOK' /\ QueueBound' /\ ConsumerInv' /\ BackInv'
    BY TypeStep, QueueStep, ConsumerStep, BackStep
  <2>2. NothingVanishes'
    <3>1. next' \in Messages \cup {None}
      BY <2>1 DEF TypeOK
    <3>2. \A x \in Tasks \ unpublished' : Kept(x)'
      BY KeptStep
    <3> QED
      BY <3>1, <3>2, TaskFacts, Zenon DEF NothingVanishes, Kept, Queued, AtConsumer, Waiting
  <2>3. PaidInv'
    BY PaidStep DEF PaidInv
  <2> QED
    BY <2>1, <2>2, <2>3 DEF DoneInv
<1> QED
    BY <1>1, DoneInitially, PTL DEF Spec

\* The consumer, the queue, the dead letters and the counters stay within
\* their types: in particular the queue never exceeds its limit by more than
\* the one delivery that the broker can take back.
THEOREM DoneTypeCorrect == Spec => []TypeOK
<1>1. DoneInv => TypeOK
    BY DEF DoneInv
<1> QED
    BY <1>1, DoneInductive, PTL

\* Whatever fails, in whatever order, and wherever the process dies or the
\* channel is lost (Start, retryOrFinalize and handleDoneEventConsumeExhausted),
\* a published event is answered, on its way, a dead letter, or dropped where
\* the code says so.
THEOREM NoEventVanishes == Spec => []NothingVanishes
<1>1. DoneInv => NothingVanishes
    BY DEF DoneInv
<1> QED
    BY <1>1, DoneInductive, PTL

\* The messages stored for a task are at most one, one more for every attempt
\* that failed after it had stored one, and one more for every delivery that
\* the broker took back.
THEOREM EveryRepeatIsPaid == Spec => []RepeatsArePaid
<1>1. DoneInv => RepeatsArePaid
  <2> SUFFICES ASSUME DoneInv, NEW t \in Tasks PROVE sent[t] <= 1 + half[t] + redelivered[t]
    BY Zenon DEF RepeatsArePaid
  <2>1. sent[t] \in Nat /\ half[t] \in Nat /\ redelivered[t] \in Nat
    BY DEF DoneInv, TypeOK
  <2>2. Number(queue, t) \in Nat
    BY NumberType DEF DoneInv, TypeOK
  <2>3. Paid(t)
    BY Zenon DEF DoneInv, PaidInv
  <2> QED
    BY <2>1, <2>2, <2>3 DEF Paid, Pending, One
<1> QED
    BY <1>1, DoneInductive, PTL
=============================================================================
