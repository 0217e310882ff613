------------------------------ MODULE ModelRPC ------------------------------
(***************************************************************************)
(* Requests to a model over RabbitMQ: the client that waits for an answer  *)
(* on a queue of its own, the pool of workers that share one request queue *)
(* and one rate limiter, and the images a worker stores while it answers.  *)
(* llmmq, embeddingmq and aigcmq are three copies of it; they differ in    *)
(* what a request costs the limiter and in whether an answer has images.   *)
(*                                                                         *)
(* Bad requests, which the client never sends, the requests' TTL (0 unless *)
(* configured) and a graceful stop are left out. So are dead letters: they *)
(* go to the channel that has just refused the answer, and are refused.    *)
(***************************************************************************)
EXTENDS Naturals, Sequences, FiniteSets, SequencesExt

CONSTANTS
    Calls,       \* calls of Chat, Embed or Generate
    Workers,     \* the workers of the pool
    Images,      \* call -> images the model may make for it, 0 for texts and vectors
    Buckets,     \* of the limiter: requests and tokens, or images a minute and a day
    Capacity,    \* bucket -> what it holds when it is full
    Refill,      \* bucket -> what it gets back in a tick
    Need,        \* call -> bucket -> what the request is estimated to need
    Window,      \* ticks for which reservations are remembered
    QueueMax,    \* x-max-length of the request queue
    MaxFaults    \* bound on lost connections, failing calls and crashes

ASSUME RPCAssumption ==
    /\ Calls # {} /\ IsFiniteSet(Calls)
    /\ Images \in [Calls -> Nat]
    /\ Capacity \in [Buckets -> Nat] /\ Refill \in [Buckets -> Nat]
    /\ Need \in [Calls -> [Buckets -> Nat]]
    /\ Window \in Nat /\ QueueMax \in Nat /\ MaxFaults \in Nat

VARIABLES
    call,        \* call -> how far it is
    answer,      \* call -> what is in its reply queue
    clientUp,    \* the client's connection, opened once, is open
    queue,       \* the request queue
    held,        \* worker -> deliveries it has not acknowledged
    up,          \* worker -> its connection, opened once, is open
    job,         \* worker -> the delivery it handles
    saved,       \* images that have been stored
    level,       \* bucket -> its tokens
    since,       \* history: bucket -> k -> tokens reserved within the last k ticks
    got,         \* history: images in answers that were taken
    refused,     \* history: requests the full queue did not take
    excused,     \* history: images whose request failed or had nobody to take it
    faults

callVars == <<call, answer, clientUp, refused>>
limiterVars == <<level, since>>
imageVars == <<saved, got, excused>>
vars == <<callVars, queue, held, up, job, imageVars, limiterVars, faults>>

CallStates == {"new", "waiting", "ok", "failed"}
JobPhases == {"idle", "limit", "model", "save", "answer", "ack"}
NoJob == [phase |-> "idle", call |-> CHOOSE c \in Calls : TRUE, ok |-> FALSE, left |-> 0, images |-> {}]
NoAnswer == [kind |-> "none", images |-> {}]

\* An image is named by its call and by when it was stored.
ImageIds == Calls \X Nat

AnswerType == [kind : {"none", "ok", "error"}, images : SUBSET ImageIds]
JobType == [phase : JobPhases, call : Calls, ok : BOOLEAN, left : Nat, images : SUBSET ImageIds]

TypeOK ==
    /\ call \in [Calls -> CallStates]
    /\ answer \in [Calls -> AnswerType]
    /\ clientUp \in BOOLEAN
    /\ queue \in Seq(Calls)
    /\ held \in [Workers -> Seq(Calls)]
    /\ up \in [Workers -> BOOLEAN]
    /\ job \in [Workers -> JobType]
    /\ saved \subseteq ImageIds /\ got \subseteq ImageIds /\ excused \subseteq ImageIds
    /\ level \in [Buckets -> Nat]
    /\ since \in [Buckets -> [0..Window -> Nat]]
    /\ refused \subseteq Calls
    /\ faults \in 0..MaxFaults

Init ==
    /\ call = [c \in Calls |-> "new"]
    /\ answer = [c \in Calls |-> NoAnswer]
    /\ clientUp = TRUE
    /\ queue = <<>>
    /\ held = [w \in Workers |-> <<>>]
    /\ up = [w \in Workers |-> TRUE]
    /\ job = [w \in Workers |-> NoJob]
    /\ saved = {} /\ got = {} /\ excused = {}
    /\ level = Capacity
    /\ since = [b \in Buckets |-> [k \in 0..Window |-> 0]]
    /\ refused = {}
    /\ faults = 0

Fault == faults < MaxFaults /\ faults' = faults + 1

Smaller(x, y) == IF x < y THEN x ELSE y

-----------------------------------------------------------------------------
(* The client: a channel, an exclusive reply queue and the request, published *)
(* without a confirm, so that nobody hears of a full queue.                   *)

\* x-overflow is reject-publish; without x-max-length there is no limit.
Full == QueueMax > 0 /\ Len(queue) >= QueueMax

Request(c) ==
    /\ call[c] = "new"
    /\ clientUp
    /\ call' = [call EXCEPT ![c] = "waiting"]
    /\ IF Full
       THEN refused' = refused \cup {c} /\ UNCHANGED queue
       ELSE queue' = Append(queue, c) /\ UNCHANGED refused
    /\ UNCHANGED <<answer, clientUp, held, up, job, imageVars, limiterVars, faults>>

\* The connection was lost before, and is not opened again.
RequestFails(c) ==
    /\ call[c] = "new"
    /\ ~clientUp
    /\ call' = [call EXCEPT ![c] = "failed"]
    /\ UNCHANGED <<answer, clientUp, refused, queue, held, up, job, imageVars, limiterVars, faults>>

\* Mutant of TakeAnswer: an answer is read without its images.
TakeAnswerBare(c) ==
    /\ call[c] = "waiting" /\ answer[c].kind # "none"
    /\ call' = [call EXCEPT ![c] = IF answer[c].kind = "ok" THEN "ok" ELSE "failed"]
    /\ answer' = [answer EXCEPT ![c] = NoAnswer]
    /\ UNCHANGED <<clientUp, refused, queue, held, up, job, imageVars, limiterVars, faults>>

\* An answer without the images it was asked for is an error too. With the call
\* its channel and its reply queue go.
TakeAnswer(c) ==
    LET a == answer[c]
        ok == a.kind = "ok" /\ (Images[c] > 0 => a.images # {})
    IN
    /\ call[c] = "waiting" /\ a.kind # "none"
    /\ call' = [call EXCEPT ![c] = IF ok THEN "ok" ELSE "failed"]
    /\ got' = got \cup a.images
    /\ answer' = [answer EXCEPT ![c] = NoAnswer]
    /\ UNCHANGED <<clientUp, refused, queue, held, up, job, saved, excused, limiterVars, faults>>

\* The time is over; an answer that is just there may be left.
TimeOut(c) ==
    /\ call[c] = "waiting"
    /\ call' = [call EXCEPT ![c] = "failed"]
    /\ excused' = excused \cup answer[c].images
    /\ answer' = [answer EXCEPT ![c] = NoAnswer]
    /\ UNCHANGED <<clientUp, refused, queue, held, up, job, saved, got, limiterVars, faults>>

Waiting == {c \in Calls : call[c] = "waiting"}

\* All calls lose their reply queues; requests stay in the request queue.
ClientLost ==
    /\ Fault
    /\ clientUp
    /\ clientUp' = FALSE
    /\ call' = [c \in Calls |-> IF c \in Waiting THEN "failed" ELSE call[c]]
    /\ excused' = excused \cup UNION {answer[c].images : c \in Calls}
    /\ answer' = [c \in Calls |-> NoAnswer]
    /\ UNCHANGED <<refused, queue, held, up, job, saved, got, limiterVars>>

-----------------------------------------------------------------------------
(* The rate limiter: two buckets under one mutex. A bucket is refilled when   *)
(* it is looked at, which comes to the same as a refill with every tick.      *)

\* Mutant of Cost: what is more than a bucket holds is not cut down.
CostUncut(c, b) == Need[c][b]

\* A request that needs more than a bucket can hold takes all it holds.
Cost(c, b) == Smaller(Need[c][b], Capacity[b])

\* Mutant of Enough: one of the buckets will do.
EnoughInOne(c) == \E b \in Buckets : Cost(c, b) <= level[b]

Enough(c) == \A b \in Buckets : Cost(c, b) <= level[b]

\* tryReserve. Who finds too little sleeps as long as it takes to refill what is
\* missing, and then looks again.
Reserve(w) ==
    LET c == job[w].call IN
    /\ job[w].phase = "limit"
    /\ Enough(c)
    /\ level' = [b \in Buckets |-> level[b] - Smaller(Cost(c, b), level[b])]
    /\ since' = [b \in Buckets |-> [k \in 0..Window |-> since[b][k] + Cost(c, b)]]
    /\ job' = [job EXCEPT ![w].phase = "model"]
    /\ UNCHANGED <<callVars, queue, held, up, imageVars, faults>>

Tick ==
    /\ level' = [b \in Buckets |-> Smaller(level[b] + Refill[b], Capacity[b])]
    /\ since' = [b \in Buckets |-> [k \in 0..Window |-> IF k = 0 THEN 0 ELSE since[b][k - 1]]]
    /\ UNCHANGED <<callVars, queue, held, up, job, imageVars, faults>>

-----------------------------------------------------------------------------
(* The workers: handleDelivery, one delivery after the other.                 *)

\* basic.qos: every worker may have as many unacknowledged as there are workers.
Deliver(w) ==
    /\ up[w] /\ queue # <<>> /\ Len(held[w]) < Cardinality(Workers)
    /\ held' = [held EXCEPT ![w] = Append(@, Head(queue))]
    /\ queue' = Tail(queue)
    /\ UNCHANGED <<callVars, up, job, imageVars, limiterVars, faults>>

Handle(w) ==
    /\ up[w] /\ job[w].phase = "idle" /\ held[w] # <<>>
    /\ job' = [job EXCEPT ![w] = [NoJob EXCEPT !.phase = "limit", !.call = Head(held[w])]]
    /\ UNCHANGED <<callVars, queue, held, up, imageVars, limiterVars, faults>>

\* The provider answers with an error, or with a text, vectors, or images.
AskModel(w) ==
    /\ job[w].phase = "model"
    /\ \E ok \in BOOLEAN, n \in 0..Images[job[w].call] :
          /\ ~ok => n = 0
          /\ job' = [job EXCEPT ![w].ok = ok, ![w].left = n,
                                ![w].phase = IF n > 0 THEN "save" ELSE "answer"]
    /\ UNCHANGED <<callVars, queue, held, up, imageVars, limiterVars, faults>>

\* SaveAIGCImageFromURL, image by image: after one that cannot be stored the
\* answer is an error, and those before it stay stored.
SaveImage(w) ==
    LET j == job[w]
        id == <<j.call, Cardinality({i \in saved : i[1] = j.call}) + 1>>
    IN
    /\ j.phase = "save"
    /\ \/ /\ saved' = saved \cup {id}
          /\ job' = [job EXCEPT ![w].images = @ \cup {id}, ![w].left = @ - 1,
                                ![w].phase = IF j.left = 1 THEN "answer" ELSE "save"]
          /\ UNCHANGED <<excused, faults>>
       \/ /\ Fault
          /\ excused' = excused \cup j.images
          /\ job' = [job EXCEPT ![w].images = {}, ![w].ok = FALSE, ![w].phase = "answer"]
          /\ UNCHANGED saved
    /\ UNCHANGED <<callVars, queue, held, up, got, limiterVars>>

\* The answer goes to the reply queue, if that is still there; the first is read.
Respond(w) ==
    LET j == job[w]  c == j.call IN
    /\ j.phase = "answer" /\ up[w]
    /\ job' = [job EXCEPT ![w].phase = "ack"]
    /\ IF call[c] = "waiting" /\ answer[c].kind = "none"
       THEN /\ answer' = [answer EXCEPT ![c] = [kind |-> IF j.ok THEN "ok" ELSE "error",
                                               images |-> j.images]]
            /\ UNCHANGED excused
       ELSE excused' = excused \cup j.images /\ UNCHANGED answer
    /\ UNCHANGED <<call, clientUp, refused, queue, held, up, saved, got, limiterVars, faults>>

Ack(w) ==
    /\ job[w].phase = "ack" /\ up[w]
    /\ held' = [held EXCEPT ![w] = Tail(@)]
    /\ job' = [job EXCEPT ![w] = NoJob]
    /\ UNCHANGED <<callVars, queue, up, imageVars, limiterVars, faults>>

\* Mutant of Requeued: deliveries are acknowledged when they are sent.
RequeuedNothing(w) == queue

\* RabbitMQ puts what was not acknowledged back where it was.
Requeued(w) == held[w] \o queue

\* A worker's connection is lost. It finishes what it is at, for nobody.
WorkerLost(w) ==
    /\ Fault
    /\ up[w]
    /\ up' = [up EXCEPT ![w] = FALSE]
    /\ queue' = Requeued(w)
    /\ held' = [held EXCEPT ![w] = <<>>]
    /\ UNCHANGED <<callVars, job, imageVars, limiterVars>>

\* Neither the answer nor a dead letter can be published; Start returns, and
\* the pool starts no other worker.
Retire(w) ==
    /\ ~up[w] /\ job[w].phase \in {"answer", "ack"}
    /\ job' = [job EXCEPT ![w] = NoJob]
    /\ excused' = excused \cup job[w].images
    /\ UNCHANGED <<callVars, queue, held, up, saved, got, limiterVars, faults>>

InFlight == {c \in Calls : Contains(queue, c) \/ \E w \in Workers : Contains(held[w], c)}

\* The process, client and workers in one, dies and is started again. In which
\* order RabbitMQ takes the deliveries of several connections back is open.
Restart ==
    /\ Fault
    /\ call' = [c \in Calls |-> IF c \in Waiting THEN "failed" ELSE call[c]]
    /\ answer' = [c \in Calls |-> NoAnswer]
    /\ clientUp' = TRUE
    /\ queue' \in SetToSeqs(InFlight)
    /\ held' = [w \in Workers |-> <<>>]
    /\ up' = [w \in Workers |-> TRUE]
    /\ job' = [w \in Workers |-> NoJob]
    /\ level' = Capacity
    /\ since' = [b \in Buckets |-> [k \in 0..Window |-> 0]]
    /\ excused' = saved \ got
    /\ UNCHANGED <<refused, saved, got>>

-----------------------------------------------------------------------------
Client(c) == Request(c) \/ RequestFails(c) \/ TakeAnswer(c) \/ TimeOut(c)

Work(w) ==
    Deliver(w) \/ Handle(w) \/ Reserve(w) \/ AskModel(w) \/ SaveImage(w) \/ Respond(w)
    \/ Ack(w) \/ Retire(w)

Next ==
    \/ \E c \in Calls : Client(c)
    \/ \E w \in Workers : Work(w) \/ WorkerLost(w)
    \/ Tick \/ ClientLost \/ Restart

Spec == Init /\ [][Next]_vars

\* Time passes, and a worker that can go on does.
FairSpec == Spec /\ WF_vars(Tick) /\ \A w \in Workers : WF_vars(Work(w))

-----------------------------------------------------------------------------
\* The limiter keeps its promise over every span of time and across all workers
\* of a process: in k ticks no more is reserved than a full bucket and what k
\* ticks refill. Each process has its own limiter: one that is started again
\* begins with full buckets.
RateIsKept ==
    \A b \in Buckets : \A k \in 0..Window : since[b][k] <= Capacity[b] + k * Refill[b]

\* A call that waits waits for something: its request is in the queue or with a
\* connected worker, or its answer is there, unless the full queue refused the
\* request, which nobody tells it.
WaitingIsServed ==
    \A c \in Waiting :
        \/ c \in InFlight
        \/ answer[c].kind # "none"
        \/ c \in refused

\* A stored image is named by an answer that somebody took or is about to, or a
\* worker still works on it, unless the call or the worker failed on the way:
\* then the image and its row are left to nobody.
ImagesAreClaimed ==
    saved \subseteq got \cup excused \cup (UNION {answer[c].images : c \in Calls})
                    \cup (UNION {job[w].images : w \in Workers})

\* Of finitely many calls, each request gets through the limiter, also one that needs
\* more than a bucket can hold. Among calls without end one could be overtaken for
\* ever: the limiter keeps no queue.
LimitEnds == \A w \in Workers : job[w].phase = "limit" ~> job[w].phase # "limit"
=============================================================================
