--------------------------- MODULE ModelRPCProofs ---------------------------
(***************************************************************************)
(* Theorems about ModelRPC: its types, the promise of the rate limiter,    *)
(* that a waiting call waits for something, and that no image is stored    *)
(* for nobody without a fault, for any number of calls, workers, buckets   *)
(* and faults.                                                             *)
(***************************************************************************)
EXTENDS ModelRPC, FiniteSetTheorems, SequenceTheorems, TLAPS

USE RPCAssumption

-----------------------------------------------------------------------------
(* Types. A worker that acknowledges takes the head of what it holds, so that *)
(* they need to know that a connected worker holds what it works on; and the  *)
(* stored images are numbered, so that they must be finitely many. Who saves  *)
(* has images left to save.                                                   *)

Busy == \A w \in Workers :
            up[w] /\ job[w].phase # "idle" => held[w] # <<>> /\ Head(held[w]) = job[w].call

Saving == \A w \in Workers : job[w].phase = "save" => job[w].left > 0

Types == TypeOK /\ Busy /\ Saving /\ IsFiniteSet(saved)

LEMMA NoJobType == NoJob \in JobType
  BY DEF NoJob, JobPhases, JobType

LEMMA NoAnswerType == NoAnswer \in AnswerType
  BY DEF NoAnswer, AnswerType

\* A job goes on to another phase, with what it has got there.
LEMMA JobChanged ==
  ASSUME NEW j \in JobType, NEW p \in JobPhases
  PROVE  /\ [j EXCEPT !.phase = p] \in JobType
         /\ \A ok \in BOOLEAN, n \in Nat :
               [j EXCEPT !.ok = ok, !.left = n, !.phase = p] \in JobType
         /\ \A ids \in SUBSET ImageIds, n \in Nat :
               [j EXCEPT !.images = ids, !.left = n, !.phase = p] \in JobType
         /\ [j EXCEPT !.images = {}, !.ok = FALSE, !.phase = p] \in JobType
  BY DEF JobType

\* A limiter never takes more than a full bucket for one request.
LEMMA CostType ==
  ASSUME NEW c \in Calls, NEW b \in Buckets
  PROVE  Cost(c, b) \in Nat /\ Cost(c, b) <= Capacity[b]
  BY DEF Cost, Smaller

LEMMA InitTypes == Init => Types
  <1> SUFFICES ASSUME Init PROVE Types
    OBVIOUS
  <1>1. IsFiniteSet(saved)
    BY FS_EmptySet DEF Init
  <1>2. queue \in Seq(Calls) /\ held \in [Workers -> Seq(Calls)]
    BY DEF Init
  <1>3. Busy /\ Saving
    BY DEF Init, Busy, Saving, NoJob
  <1> QED
    BY <1>1, <1>2, <1>3, NoJobType, NoAnswerType DEF Init, Types, TypeOK, CallStates

\* Any order of the requests in flight is a sequence of calls.
LEMMA OrderType == \A s \in SetToSeqs(InFlight) : s \in Seq(Calls)
  <1> SUFFICES ASSUME NEW s \in SetToSeqs(InFlight) PROVE s \in Seq(Calls)
    OBVIOUS
  <1>1. InFlight \subseteq Calls
    BY DEF InFlight
  <1> DEFINE n == Cardinality(InFlight)
  <1>2. n \in Nat
    BY <1>1, FS_Subset, FS_CardinalityType
  <1>3. s \in [1..n -> Calls]
    BY <1>1 DEF SetToSeqs
  <1> HIDE DEF n
  <1> QED
    BY <1>2, <1>3

LEMMA AppendNotEmpty ==
  ASSUME NEW s \in Seq(Calls), NEW c \in Calls
  PROVE  Append(s, c) # <<>>
  <1>1. Len(Append(s, c)) # 0
    OBVIOUS
  <1>2. Len(<<>>) = 0
    OBVIOUS
  <1> QED
    BY <1>1, <1>2, Zenon

\* Of its job, SaveImage changes the images, how many are left, and the phase.
LEMMA JobSaves ==
  ASSUME TypeOK, NEW w \in Workers, SaveImage(w)
  PROVE  /\ job'[w].call = job[w].call
         /\ job'[w].phase = "save" => job[w].left # 1 /\ job'[w].left = job[w].left - 1
         /\ \A u \in Workers \ {w} : job'[u] = job[u]
  <1> USE DEF TypeOK, JobType
  <1> DEFINE id == <<job[w].call, Cardinality({i \in saved : i[1] = job[w].call}) + 1>>
  <1>1. CASE job' = [job EXCEPT ![w].images = @ \cup {id}, ![w].left = @ - 1,
                                ![w].phase = IF job[w].left = 1 THEN "answer" ELSE "save"]
    BY <1>1
  <1>2. CASE job' = [job EXCEPT ![w].images = {}, ![w].ok = FALSE, ![w].phase = "answer"]
    BY <1>2
  <1> QED
    BY <1>1, <1>2 DEF SaveImage

LEMMA JobSavesNoAck ==
  ASSUME TypeOK, NEW w \in Workers, SaveImage(w)
  PROVE  job'[w].phase # "ack"
  <1> USE DEF TypeOK, JobType
  <1> DEFINE id == <<job[w].call, Cardinality({i \in saved : i[1] = job[w].call}) + 1>>
  <1>1. CASE job' = [job EXCEPT ![w].images = @ \cup {id}, ![w].left = @ - 1,
                                ![w].phase = IF job[w].left = 1 THEN "answer" ELSE "save"]
    BY <1>1
  <1>2. CASE job' = [job EXCEPT ![w].images = {}, ![w].ok = FALSE, ![w].phase = "answer"]
    BY <1>2
  <1> QED
    BY <1>1, <1>2 DEF SaveImage

LEMMA NextBusy == Types /\ [Next]_vars => Busy'
  <1> SUFFICES ASSUME Types, [Next]_vars, NEW v \in Workers,
                      up'[v], job'[v].phase # "idle"
               PROVE  held'[v] # <<>> /\ Head(held'[v]) = job'[v].call
    BY DEF Busy
  <1> USE DEF Types, TypeOK, Busy
  <1>1. ASSUME NEW w \in Workers, Deliver(w) PROVE held'[v] # <<>> /\ Head(held'[v]) = job'[v].call
    <2>1. Head(queue) \in Calls
      BY <1>1, HeadTailProperties DEF Deliver
    <2>2. Append(held[w], Head(queue)) # <<>>
      BY <2>1, AppendNotEmpty
    <2>3. held[w] # <<>> => Head(Append(held[w], Head(queue))) = Head(held[w])
      BY <2>1, HeadTailAppend
    <2> QED
      BY <1>1, <2>2, <2>3 DEF Deliver
  <1>2. ASSUME NEW w \in Workers, Handle(w) PROVE held'[v] # <<>> /\ Head(held'[v]) = job'[v].call
    BY <1>2 DEF Handle, NoJob
  <1>3. ASSUME NEW w \in Workers, Reserve(w) PROVE held'[v] # <<>> /\ Head(held'[v]) = job'[v].call
    BY <1>3 DEF Reserve, JobType
  <1>4. ASSUME NEW w \in Workers, AskModel(w) PROVE held'[v] # <<>> /\ Head(held'[v]) = job'[v].call
    BY <1>4 DEF AskModel, JobType
  <1>5. ASSUME NEW w \in Workers, SaveImage(w) PROVE held'[v] # <<>> /\ Head(held'[v]) = job'[v].call
    <2>1. job[w] \in JobType /\ job[w].phase = "save" /\ held' = held /\ up' = up
      BY <1>5 DEF SaveImage
    <2>3. job'[w].call = job[w].call /\ \A u \in Workers \ {w} : job'[u] = job[u]
      BY <1>5, JobSaves
    <2> QED
      BY <2>1, <2>3
  <1>6. ASSUME NEW w \in Workers, Respond(w) PROVE held'[v] # <<>> /\ Head(held'[v]) = job'[v].call
    BY <1>6 DEF Respond, JobType
  <1>7. ASSUME NEW w \in Workers, Ack(w) PROVE held'[v] # <<>> /\ Head(held'[v]) = job'[v].call
    BY <1>7 DEF Ack, NoJob
  <1>8. ASSUME NEW w \in Workers, Retire(w) PROVE held'[v] # <<>> /\ Head(held'[v]) = job'[v].call
    BY <1>8 DEF Retire, NoJob
  <1>9. ASSUME NEW w \in Workers, WorkerLost(w) PROVE held'[v] # <<>> /\ Head(held'[v]) = job'[v].call
    BY <1>9 DEF WorkerLost
  <1>10. ASSUME NEW c \in Calls, Client(c) PROVE held'[v] # <<>> /\ Head(held'[v]) = job'[v].call
    BY <1>10 DEF Client, Request, RequestFails, TakeAnswer, TimeOut
  <1>11. CASE Restart
    BY <1>11 DEF Restart, NoJob
  <1>12. CASE Tick \/ ClientLost \/ UNCHANGED vars
    BY <1>12 DEF Tick, ClientLost, vars
  <1> QED
    BY <1>1, <1>2, <1>3, <1>4, <1>5, <1>6, <1>7, <1>8, <1>9, <1>10, <1>11, <1>12 DEF Next, Work

LEMMA NextSaving == Types /\ [Next]_vars => Saving'
  <1> SUFFICES ASSUME Types, [Next]_vars, NEW v \in Workers, job'[v].phase = "save"
               PROVE  job'[v].left > 0
    BY DEF Saving
  <1> USE DEF Types, TypeOK, Saving
  <1>1. ASSUME NEW w \in Workers, Handle(w) PROVE job'[v].left > 0
    BY <1>1 DEF Handle, NoJob
  <1>2. ASSUME NEW w \in Workers, Reserve(w) \/ Respond(w) PROVE job'[v].left > 0
    BY <1>2 DEF Reserve, Respond, JobType
  <1>3. ASSUME NEW w \in Workers, AskModel(w) PROVE job'[v].left > 0
    BY <1>3 DEF AskModel, JobType
  <1>4. ASSUME NEW w \in Workers, SaveImage(w) PROVE job'[v].left > 0
    <2>1. job[w].phase = "save" /\ job[w].left \in Nat
      BY <1>4 DEF SaveImage, JobType
    <2>2. CASE v = w
      BY <1>4, <2>1, <2>2, JobSaves
    <2>3. CASE v # w
      BY <1>4, <2>3, JobSaves
    <2> QED
      BY <2>2, <2>3
  <1>5. ASSUME NEW w \in Workers, Ack(w) \/ Retire(w) PROVE job'[v].left > 0
    <2>1. job' = [job EXCEPT ![w] = NoJob]
      BY <1>5 DEF Ack, Retire
    <2> QED
      BY <2>1 DEF NoJob
  <1>6. CASE Restart
    BY <1>6 DEF Restart, NoJob
  <1>7. CASE UNCHANGED job
    BY <1>7
  <1>8. ASSUME NEW c \in Calls, Client(c) PROVE UNCHANGED job
    BY <1>8 DEF Client, Request, RequestFails, TakeAnswer, TimeOut
  <1>9. ASSUME NEW w \in Workers, Deliver(w) \/ WorkerLost(w) PROVE UNCHANGED job
    BY <1>9 DEF Deliver, WorkerLost
  <1>10. ASSUME Tick \/ ClientLost \/ UNCHANGED vars PROVE UNCHANGED job
    BY <1>10 DEF Tick, ClientLost, vars
  <1> QED
    BY <1>1, <1>2, <1>3, <1>4, <1>5, <1>6, <1>7, <1>8, <1>9, <1>10 DEF Next, Work

\* Every action keeps the types.
LEMMA NextTypes == Types /\ [Next]_vars => Types'
  <1> SUFFICES ASSUME Types, [Next]_vars PROVE TypeOK' /\ IsFiniteSet(saved')
    BY NextBusy, NextSaving DEF Types
  <1> USE DEF Types, TypeOK
  <1> DEFINE Goal == TypeOK' /\ IsFiniteSet(saved')
  <1>1. ASSUME NEW c \in Calls, Request(c) PROVE Goal
    <2>1. queue' \in Seq(Calls)
      <3>1. Append(queue, c) \in Seq(Calls)
        BY AppendProperties
      <3> QED
        BY <1>1, <3>1 DEF Request
    <2> QED
      BY <1>1, <2>1 DEF Request, imageVars, limiterVars, CallStates
  <1>2. ASSUME NEW c \in Calls, RequestFails(c) PROVE Goal
    BY <1>2 DEF RequestFails, imageVars, limiterVars, CallStates
  <1>3. ASSUME NEW c \in Calls, TakeAnswer(c) PROVE Goal
    BY <1>3, NoAnswerType DEF TakeAnswer, limiterVars, CallStates, AnswerType
  <1>4. ASSUME NEW c \in Calls, TimeOut(c) PROVE Goal
    BY <1>4, NoAnswerType DEF TimeOut, limiterVars, CallStates, AnswerType
  <1>5. ASSUME NEW w \in Workers, Deliver(w) PROVE Goal
    <2>1. Head(queue) \in Calls /\ Tail(queue) \in Seq(Calls)
      BY <1>5, HeadTailProperties DEF Deliver
    <2>2. Append(held[w], Head(queue)) \in Seq(Calls)
      BY <2>1, AppendProperties
    <2> QED
      BY <1>5, <2>1, <2>2 DEF Deliver, callVars, imageVars, limiterVars
  <1>6. ASSUME NEW w \in Workers, Handle(w) PROVE Goal
    <2>1. Head(held[w]) \in Calls
      BY <1>6, HeadTailProperties DEF Handle
    <2>2. [NoJob EXCEPT !.phase = "limit", !.call = Head(held[w])] \in JobType
      BY <2>1 DEF NoJob, JobType, JobPhases
    <2> QED
      BY <1>6, <2>2 DEF Handle, callVars, imageVars, limiterVars
  <1>7. ASSUME NEW w \in Workers, Reserve(w) PROVE Goal
    <2>1. job[w].call \in Calls
      BY DEF JobType
    <2> DEFINE c == job[w].call
    <2>2. level' \in [Buckets -> Nat]
      <3>1. level' = [b \in Buckets |-> level[b] - Smaller(Cost(c, b), level[b])]
        BY <1>7 DEF Reserve
      <3>2. \A b \in Buckets : level[b] - Smaller(Cost(c, b), level[b]) \in Nat
        <4>1. SUFFICES ASSUME NEW b \in Buckets
                       PROVE  level[b] - Smaller(Cost(c, b), level[b]) \in Nat
          OBVIOUS
        <4>2. Cost(c, b) \in Nat
          BY <2>1, CostType
        <4>3. level[b] \in Nat
          OBVIOUS
        <4> QED
          BY <4>2, <4>3 DEF Smaller
      <3> QED
        BY <3>1, <3>2
    <2>3. since' \in [Buckets -> [0..Window -> Nat]]
      <3>1. since' = [b \in Buckets |-> [k \in 0..Window |-> since[b][k] + Cost(c, b)]]
        BY <1>7 DEF Reserve
      <3>2. \A b \in Buckets, k \in 0..Window : since[b][k] + Cost(c, b) \in Nat
        <4>1. SUFFICES ASSUME NEW b \in Buckets, NEW k \in 0..Window
                       PROVE  since[b][k] + Cost(c, b) \in Nat
          OBVIOUS
        <4>2. Cost(c, b) \in Nat
          BY <2>1, CostType
        <4>3. since[b][k] \in Nat
          OBVIOUS
        <4> QED
          BY <4>2, <4>3
      <3> QED
        BY <3>1, <3>2
    <2>4. job' \in [Workers -> JobType]
      BY <1>7, JobChanged DEF Reserve, JobPhases
    <2> QED
      BY <1>7, <2>2, <2>3, <2>4 DEF Reserve, callVars, imageVars
  <1>8. ASSUME NEW w \in Workers, AskModel(w) PROVE Goal
    <2>1. job[w].call \in Calls
      BY DEF JobType
    <2>2. PICK ok \in BOOLEAN, n \in 0..Images[job[w].call] :
             job' = [job EXCEPT ![w].ok = ok, ![w].left = n,
                                ![w].phase = IF n > 0 THEN "save" ELSE "answer"]
      BY <1>8 DEF AskModel
    <2>3. n \in Nat
      BY <2>1
    <2>4. job' \in [Workers -> JobType]
      BY <2>2, <2>3, JobChanged DEF JobPhases
    <2> QED
      BY <1>8, <2>4 DEF AskModel, callVars, imageVars, limiterVars
  <1>9. ASSUME NEW w \in Workers, SaveImage(w) PROVE Goal
    <2> DEFINE j == job[w]
               mine == {i \in saved : i[1] = j.call}
               id == <<j.call, Cardinality(mine) + 1>>
    <2>1. j.call \in Calls /\ j.images \subseteq ImageIds /\ j.left \in Nat /\ j \in JobType
      BY DEF JobType
    <2>2. id \in ImageIds
      <3>1. Cardinality(mine) \in Nat
        BY FS_Subset, FS_CardinalityType
      <3> QED
        BY <2>1, <3>1 DEF ImageIds
    <2>3. saved' \subseteq ImageIds /\ IsFiniteSet(saved') /\ excused' \subseteq ImageIds
      <3>1. IsFiniteSet(saved \cup {id})
        BY FS_AddElement
      <3> QED
        BY <1>9, <2>1, <2>2, <3>1 DEF SaveImage
    <2>4. job' \in [Workers -> JobType]
      <3>1. CASE faults' = faults /\ job' = [job EXCEPT ![w].images = @ \cup {id}, ![w].left = @ - 1,
                                ![w].phase = IF j.left = 1 THEN "answer" ELSE "save"]
        <4> DEFINE p == IF j.left = 1 THEN "answer" ELSE "save"
                   next == [j EXCEPT !.images = @ \cup {id}, !.left = @ - 1, !.phase = p]
        <4>1. p \in JobPhases /\ j.left - 1 \in Nat
          <5>1. j.phase = "save"
            BY <1>9 DEF SaveImage
          <5>2. j.left > 0
            BY <5>1 DEF Saving
          <5> QED
            BY <2>1, <5>2 DEF JobPhases
        <4>2. next \in JobType
          BY <2>1, <2>2, <4>1 DEF JobType
        <4> QED
          BY <3>1, <4>2
      <3>2. CASE job' = [job EXCEPT ![w].images = {}, ![w].ok = FALSE, ![w].phase = "answer"]
        BY <2>1, <3>2, JobChanged DEF JobPhases
      <3> QED
        BY <1>9, <3>1, <3>2 DEF SaveImage
    <2>5. faults' \in 0..MaxFaults
      <3>1. UNCHANGED faults \/ Fault
        BY <1>9 DEF SaveImage
      <3> QED
        BY <3>1 DEF Fault
    <2> QED
      BY <1>9, <2>3, <2>4, <2>5 DEF SaveImage, callVars, limiterVars
  <1>10. ASSUME NEW w \in Workers, Respond(w) PROVE Goal
    <2>1. job[w].call \in Calls /\ job[w].images \subseteq ImageIds
      BY DEF JobType
    <2>2. job' \in [Workers -> JobType]
      BY <1>10, JobChanged DEF Respond, JobPhases
    <2>3. answer' \in [Calls -> AnswerType] /\ excused' \subseteq ImageIds
      <3>1. [kind |-> IF job[w].ok THEN "ok" ELSE "error", images |-> job[w].images] \in AnswerType
        BY <2>1 DEF AnswerType
      <3> QED
        BY <1>10, <2>1, <3>1 DEF Respond
    <2> QED
      BY <1>10, <2>2, <2>3 DEF Respond, limiterVars
  <1>11. ASSUME NEW w \in Workers, Ack(w) PROVE Goal
    <2>1. Tail(held[w]) \in Seq(Calls)
      BY <1>11, HeadTailProperties DEF Ack, Busy
    <2> QED
      BY <1>11, <2>1, NoJobType DEF Ack, callVars, imageVars, limiterVars
  <1>12. ASSUME NEW w \in Workers, Retire(w) PROVE Goal
    BY <1>12, NoJobType DEF Retire, callVars, limiterVars, JobType
  <1>13. ASSUME NEW w \in Workers, WorkerLost(w) PROVE Goal
    <2>1. held[w] \o queue \in Seq(Calls)
      BY ConcatProperties
    <2>2. held' \in [Workers -> Seq(Calls)]
      BY <1>13 DEF WorkerLost
    <2> QED
      BY <1>13, <2>1, <2>2 DEF WorkerLost, Requeued, Fault, callVars, imageVars, limiterVars
  <1>14. CASE Tick
    <2>1. level' \in [Buckets -> Nat]
      BY <1>14 DEF Tick, Smaller
    <2>2. since' \in [Buckets -> [0..Window -> Nat]]
      BY <1>14 DEF Tick
    <2> QED
      BY <1>14, <2>1, <2>2 DEF Tick, callVars, imageVars
  <1>15. CASE ClientLost
    <2>1. excused' \subseteq ImageIds
      BY <1>15 DEF ClientLost, AnswerType
    <2>2. call' \in [Calls -> CallStates] /\ faults' \in 0..MaxFaults
      BY <1>15 DEF ClientLost, CallStates, Fault
    <2>3. answer' \in [Calls -> AnswerType]
      BY <1>15, NoAnswerType DEF ClientLost
    <2> QED
      BY <1>15, <2>1, <2>2, <2>3 DEF ClientLost, limiterVars
  <1>16. CASE Restart
    <2>1. queue' \in Seq(Calls)
      BY <1>16, OrderType DEF Restart
    <2>2. excused' \subseteq ImageIds
      BY <1>16 DEF Restart
    <2>3. since' \in [Buckets -> [0..Window -> Nat]] /\ held' \in [Workers -> Seq(Calls)]
      BY <1>16 DEF Restart
    <2> QED
      BY <1>16, <2>1, <2>2, <2>3, NoJobType, NoAnswerType DEF Restart, Fault, CallStates
  <1>17. CASE UNCHANGED vars
    BY <1>17 DEF vars, callVars, imageVars, limiterVars
  <1> QED
    BY <1>1, <1>2, <1>3, <1>4, <1>5, <1>6, <1>7, <1>8, <1>9, <1>10, <1>11, <1>12, <1>13,
       <1>14, <1>15, <1>16, <1>17 DEF Next, Client, Work

\* Every variable of the model has the type the code gives it, for any number of
\* calls, workers and faults.
THEOREM RPCTypeCorrect == Spec => []Types
  BY InitTypes, NextTypes, PTL DEF Spec

-----------------------------------------------------------------------------
(* The limiter. What a bucket holds and what was taken from it in the last k *)
(* ticks are together no more than a full bucket and k refills: a tick adds  *)
(* at most one refill to the first and moves the second on.                  *)

Metered ==
    \A b \in Buckets :
        /\ level[b] <= Capacity[b]
        /\ \A k \in 0..Window : level[b] + since[b][k] <= Capacity[b] + k * Refill[b]

LEMMA SmallerOfTwo == \A x, y \in Nat : x <= y => Smaller(x, y) = x
  BY DEF Smaller

LEMMA OneMoreRefill ==
  ASSUME NEW k \in Nat, NEW r \in Nat, k # 0
  PROVE  (k - 1) * r + r = k * r /\ (k - 1) * r \in Nat
  <1>1. (k - 1) * r = k * r - r
    BY SMT
  <1>2. k * r \in Nat /\ (k - 1) * r \in Nat
    BY SMT
  <1> QED
    BY <1>1, <1>2

LEMMA NextMetered == Types /\ Metered /\ [Next]_vars => Metered'
  <1> SUFFICES ASSUME Types, Metered, [Next]_vars, NEW b \in Buckets, NEW k \in 0..Window
               PROVE  /\ level'[b] <= Capacity[b]
                      /\ level'[b] + since'[b][k] <= Capacity[b] + k * Refill[b]
    <2>1. 0 \in 0..Window
      OBVIOUS
    <2> QED
      BY <2>1 DEF Metered
  <1> DEFINE Kept == /\ level'[b] <= Capacity[b]
                     /\ level'[b] + since'[b][k] <= Capacity[b] + k * Refill[b]
  <1>0. /\ Capacity[b] \in Nat /\ Refill[b] \in Nat /\ level[b] \in Nat
        /\ \A i \in 0..Window : since[b][i] \in Nat
    BY DEF Types, TypeOK
  <1>1. ASSUME NEW w \in Workers, Reserve(w) PROVE Kept
    <2> DEFINE cost == Cost(job[w].call, b)
    <2>1. job[w].call \in Calls
      BY DEF Types, TypeOK, JobType
    <2>2. cost \in Nat /\ cost <= level[b]
      BY <1>1, <2>1, CostType DEF Reserve, Enough
    <2>3. level'[b] = level[b] - Smaller(cost, level[b]) /\ since'[b][k] = since[b][k] + cost
      BY <1>1 DEF Reserve
    <2> HIDE DEF cost
    <2>4. Smaller(cost, level[b]) = cost
      BY <1>0, <2>2, SmallerOfTwo
    <2>5. level[b] <= Capacity[b] /\ level[b] + since[b][k] <= Capacity[b] + k * Refill[b]
      BY DEF Metered
    <2>6. k * Refill[b] \in Nat
      BY <1>0
    <2> QED
      BY <1>0, <2>2, <2>3, <2>4, <2>5, <2>6
  <1>2. CASE Tick
    <2>1. level'[b] = Smaller(level[b] + Refill[b], Capacity[b])
      BY <1>2 DEF Tick
    <2>2. level'[b] <= Capacity[b] /\ level'[b] <= level[b] + Refill[b] /\ level'[b] \in Nat
      BY <1>0, <2>1 DEF Smaller
    <2>3. CASE k = 0
      <3>1. since'[b][k] = 0 /\ k * Refill[b] = 0
        BY <1>0, <1>2, <2>3 DEF Tick
      <3> QED
        BY <1>0, <2>2, <3>1
    <2>4. CASE k # 0
      <3>1. since'[b][k] = since[b][k - 1]
        BY <1>2, <2>4 DEF Tick
      <3>2. k - 1 \in 0..Window
        BY <2>4
      <3>3. level[b] + since[b][k - 1] <= Capacity[b] + (k - 1) * Refill[b]
        BY <3>2 DEF Metered
      <3>4. (k - 1) * Refill[b] + Refill[b] = k * Refill[b] /\ (k - 1) * Refill[b] \in Nat
        <4>1. k \in Nat
          OBVIOUS
        <4> HIDE DEF Kept
        <4> QED
          BY <1>0, <2>4, <4>1, OneMoreRefill
      <3> QED
        BY <1>0, <2>2, <3>1, <3>2, <3>3, <3>4
    <2> QED
      BY <2>3, <2>4
  <1>3. CASE Restart
    <2>1. level'[b] = Capacity[b] /\ since'[b][k] = 0 /\ k * Refill[b] \in Nat
      BY <1>0, <1>3 DEF Restart
    <2> QED
      BY <1>0, <2>1
  <1>4. CASE UNCHANGED limiterVars
    BY <1>4 DEF limiterVars, Metered
  <1>5. ASSUME NEW c \in Calls, Client(c) PROVE UNCHANGED limiterVars
    BY <1>5 DEF Client, Request, RequestFails, TakeAnswer, TimeOut
  <1>6. ASSUME NEW w \in Workers, (Work(w) /\ ~Reserve(w)) \/ WorkerLost(w)
        PROVE  UNCHANGED limiterVars
    BY <1>6 DEF Work, Deliver, Handle, AskModel, SaveImage, Respond, Ack, Retire, WorkerLost
  <1>7. ASSUME ClientLost \/ UNCHANGED vars PROVE UNCHANGED limiterVars
    BY <1>7 DEF ClientLost, vars
  <1> QED
    BY <1>1, <1>2, <1>3, <1>4, <1>5, <1>6, <1>7 DEF Next, Work

\* Whatever the workers of a process reserve between them, in k ticks it is no
\* more than a full bucket and k refills: tryReserve checks and takes under one
\* mutex, and no request takes more than a bucket holds.
THEOREM RateKept == Spec => []RateIsKept
  <1>1. Init => Metered
    <2> SUFFICES ASSUME Init, NEW b \in Buckets, NEW k \in 0..Window
                 PROVE  level[b] <= Capacity[b] /\ level[b] + since[b][k] <= Capacity[b] + k * Refill[b]
      <3>1. 0 \in 0..Window
        OBVIOUS
      <3> QED
        BY <3>1 DEF Metered
    <2>1. level[b] = Capacity[b] /\ since[b][k] = 0
      BY DEF Init
    <2>2. Capacity[b] \in Nat /\ k * Refill[b] \in Nat
      OBVIOUS
    <2> QED
      BY <2>1, <2>2
  <1>2. Types /\ Metered => RateIsKept
    <2> SUFFICES ASSUME Types, Metered, NEW b \in Buckets, NEW k \in 0..Window
                 PROVE  since[b][k] <= Capacity[b] + k * Refill[b]
      BY DEF RateIsKept
    <2>1. level[b] + since[b][k] <= Capacity[b] + k * Refill[b]
      BY DEF Metered
    <2>2. level[b] \in Nat /\ since[b][k] \in Nat /\ Capacity[b] \in Nat /\ k * Refill[b] \in Nat
      BY DEF Types, TypeOK
    <2> QED
      BY <2>1, <2>2
  <1> QED
    BY <1>1, <1>2, NextMetered, RPCTypeCorrect, PTL DEF Spec

-----------------------------------------------------------------------------
(* Requests. Which of them are in flight after a step: every action that     *)
(* touches the queue or what a worker holds moves a request or drops the one *)
(* that is answered.                                                         *)

LEMMA InAppended ==
  ASSUME NEW s \in Seq(Calls), NEW c \in Calls, NEW e \in Calls
  PROVE  Contains(Append(s, c), e) <=> Contains(s, e) \/ e = c
  <1>1. Len(s) \in Nat /\ Len(Append(s, c)) = Len(s) + 1 /\ Append(s, c)[Len(s) + 1] = c
    BY LenProperties, AppendProperties
  <1>2. \A i \in 1..Len(s) : i \in 1..Len(s) + 1 /\ Append(s, c)[i] = s[i]
    BY <1>1, AppendProperties
  <1>3. \A i \in 1..Len(s) + 1 : i \in 1..Len(s) \/ i = Len(s) + 1
    BY <1>1
  <1>4. Len(s) + 1 \in 1..Len(s) + 1
    BY <1>1
  <1> QED
    BY <1>1, <1>2, <1>3, <1>4, Zenon DEF Contains

LEMMA InHeadOrTail ==
  ASSUME NEW s \in Seq(Calls), s # <<>>, NEW e \in Calls
  PROVE  Contains(s, e) <=> e = Head(s) \/ Contains(Tail(s), e)
  <1>1. Len(s) \in Nat /\ Len(s) # 0 /\ Len(Tail(s)) = Len(s) - 1 /\ Head(s) = s[1]
    BY HeadTailProperties, EmptySeq
  <1>2. \A i \in 1..Len(s) - 1 : Tail(s)[i] = s[i + 1]
    BY <1>1, HeadTailProperties
  <1>3. ASSUME NEW i \in 1..Len(s), s[i] = e PROVE e = Head(s) \/ Contains(Tail(s), e)
    <2>1. CASE i = 1
      BY <1>1, <1>3, <2>1
    <2>2. CASE i # 1
      <3>1. i - 1 \in 1..Len(s) - 1 /\ Tail(s)[i - 1] = s[i]
        BY <1>1, <1>2, <2>2
      <3> QED
        BY <1>1, <1>3, <3>1 DEF Contains
    <2> QED
      BY <2>1, <2>2
  <1>4. ASSUME NEW i \in 1..Len(s) - 1, Tail(s)[i] = e PROVE Contains(s, e)
    <2>1. i + 1 \in 1..Len(s) /\ s[i + 1] = e
      BY <1>1, <1>2, <1>4
    <2> QED
      BY <2>1 DEF Contains
  <1>5. e = Head(s) => Contains(s, e)
    <2>1. 1 \in 1..Len(s)
      BY <1>1
    <2> QED
      BY <1>1, <2>1 DEF Contains
  <1> QED
    BY <1>1, <1>3, <1>4, <1>5 DEF Contains

LEMMA InJoined ==
  ASSUME NEW s \in Seq(Calls), NEW t \in Seq(Calls), NEW e \in Calls
  PROVE  Contains(s \o t, e) <=> Contains(s, e) \/ Contains(t, e)
  <1>1. Len(s) \in Nat /\ Len(t) \in Nat /\ Len(s \o t) = Len(s) + Len(t)
    BY LenProperties, ConcatProperties
  <1>2. \A i \in 1..Len(s) + Len(t) : (s \o t)[i] = IF i <= Len(s) THEN s[i] ELSE t[i - Len(s)]
    BY ConcatProperties
  <1>3. ASSUME NEW i \in 1..Len(s), s[i] = e PROVE Contains(s \o t, e)
    <2>1. i \in 1..Len(s) + Len(t) /\ (s \o t)[i] = e
      BY <1>1, <1>2, <1>3
    <2> QED
      BY <1>1, <2>1 DEF Contains
  <1>4. ASSUME NEW i \in 1..Len(t), t[i] = e PROVE Contains(s \o t, e)
    <2>1. Len(s) + i \in 1..Len(s) + Len(t) /\ (s \o t)[Len(s) + i] = e
      BY <1>1, <1>2, <1>4
    <2> QED
      BY <1>1, <2>1 DEF Contains
  <1>5. ASSUME NEW i \in 1..Len(s) + Len(t), (s \o t)[i] = e PROVE Contains(s, e) \/ Contains(t, e)
    <2>1. CASE i <= Len(s)
      BY <1>1, <1>2, <1>5, <2>1 DEF Contains
    <2>2. CASE i > Len(s)
      <3>1. i - Len(s) \in 1..Len(t) /\ t[i - Len(s)] = e
        BY <1>1, <1>2, <1>5, <2>2
      <3> QED
        BY <3>1 DEF Contains
    <2> QED
      BY <1>1, <2>1, <2>2
  <1> QED
    BY <1>1, <1>3, <1>4, <1>5 DEF Contains

\* What an order of the requests in flight contains is in flight.
LEMMA InOrder ==
  ASSUME NEW s \in SetToSeqs(InFlight), NEW e, Contains(s, e)
  PROVE  e \in InFlight
  <1> DEFINE n == Cardinality(InFlight)
  <1>1. n \in Nat
    BY FS_Subset, FS_CardinalityType DEF InFlight
  <1>2. s \in [1..n -> InFlight]
    BY DEF SetToSeqs
  <1> HIDE DEF n
  <1>3. Len(s) = n
    BY <1>1, <1>2
  <1> QED
    BY <1>2, <1>3 DEF Contains

Known ==
    /\ \A c \in InFlight : call[c] # "new"
    /\ \A w \in Workers : job[w].phase # "idle" => call[job[w].call] # "new"

Answered ==
    \A w \in Workers : job[w].phase = "ack" =>
        (call[job[w].call] = "waiting" => answer[job[w].call].kind # "none")

Served == Known /\ Answered /\ WaitingIsServed

LEMMA FlightOfRequest ==
  ASSUME Types, NEW c \in Calls, Request(c)
  PROVE  InFlight' = InFlight \cup {c} \/ (InFlight' = InFlight /\ c \in refused')
  <1>1. CASE Full
    BY <1>1 DEF Request, InFlight
  <1>2. CASE ~Full
    <2>1. queue' = Append(queue, c) /\ held' = held
      BY <1>2 DEF Request
    <2>2. \A e \in Calls : Contains(queue', e) <=> Contains(queue, e) \/ e = c
      BY <2>1, InAppended DEF Types, TypeOK
    <2> QED
      BY <2>1, <2>2 DEF InFlight
  <1> QED
    BY <1>1, <1>2

LEMMA FlightOfDeliver ==
  ASSUME Types, NEW w \in Workers, Deliver(w)
  PROVE  InFlight' = InFlight
  <1> USE DEF Types, TypeOK
  <1>1. queue \in Seq(Calls) /\ queue # <<>> /\ Head(queue) \in Calls /\ held[w] \in Seq(Calls)
    BY HeadTailProperties DEF Deliver
  <1>2. \A e \in Calls : Contains(queue, e) <=> e = Head(queue) \/ Contains(Tail(queue), e)
    BY <1>1, InHeadOrTail
  <1>3. \A e \in Calls : Contains(Append(held[w], Head(queue)), e)
                            <=> Contains(held[w], e) \/ e = Head(queue)
    BY <1>1, InAppended
  <1>4. /\ queue' = Tail(queue) /\ held'[w] = Append(held[w], Head(queue))
        /\ \A u \in Workers \ {w} : held'[u] = held[u]
    BY DEF Deliver
  <1> QED
    BY <1>2, <1>3, <1>4 DEF InFlight

LEMMA FlightOfAck ==
  ASSUME Types, NEW w \in Workers, Ack(w)
  PROVE  InFlight' \subseteq InFlight /\ InFlight \subseteq InFlight' \cup {job[w].call}
  <1> USE DEF Types, TypeOK
  <1>1. held[w] \in Seq(Calls) /\ held[w] # <<>> /\ Head(held[w]) = job[w].call
    BY DEF Ack, Busy
  <1>2. \A e \in Calls : Contains(held[w], e) <=> e = Head(held[w]) \/ Contains(Tail(held[w]), e)
    BY <1>1, InHeadOrTail
  <1>3. queue' = queue /\ held'[w] = Tail(held[w]) /\ \A u \in Workers \ {w} : held'[u] = held[u]
    BY DEF Ack
  <1> QED
    BY <1>1, <1>2, <1>3 DEF InFlight

LEMMA FlightOfLoss ==
  ASSUME Types, NEW w \in Workers, WorkerLost(w)
  PROVE  InFlight' = InFlight
  <1> USE DEF Types, TypeOK
  <1>1. held[w] \in Seq(Calls) /\ queue \in Seq(Calls)
    OBVIOUS
  <1>2. \A e \in Calls : Contains(held[w] \o queue, e) <=> Contains(held[w], e) \/ Contains(queue, e)
    BY <1>1, InJoined
  <1>3. /\ queue' = held[w] \o queue /\ held'[w] = <<>>
        /\ \A u \in Workers \ {w} : held'[u] = held[u]
    BY DEF WorkerLost, Requeued
  <1>4. \A e : ~Contains(<<>>, e)
    BY DEF Contains
  <1> QED
    BY <1>2, <1>3, <1>4 DEF InFlight

LEMMA FlightOfRestart ==
  ASSUME Types, Restart
  PROVE  InFlight' \subseteq InFlight
  <1>1. \A e \in Calls : Contains(queue', e) => e \in InFlight
    BY InOrder DEF Restart
  <1>2. \A u \in Workers : held'[u] = <<>>
    BY DEF Restart
  <1>3. \A e : ~Contains(<<>>, e)
    BY DEF Contains
  <1> QED
    BY <1>1, <1>2, <1>3 DEF InFlight

LEMMA NextServed == Types /\ Served /\ [Next]_vars => Served'
  <1> SUFFICES ASSUME Types, Served, [Next]_vars PROVE Served'
    OBVIOUS
  <1> USE DEF Types, TypeOK, Served, Known, Answered, WaitingIsServed, Waiting
  <1>0. \A w \in Workers : job[w].call \in Calls
    BY DEF JobType
  <1>1. ASSUME NEW c \in Calls, Request(c) PROVE Served'
    <2>1. /\ call' = [call EXCEPT ![c] = "waiting"] /\ call[c] = "new"
          /\ answer' = answer /\ job' = job /\ refused \subseteq refused'
      BY <1>1 DEF Request, imageVars, limiterVars
    <2>2. call'[c] = "waiting" /\ \A d \in Calls \ {c} : call'[d] = call[d]
      BY <2>1
    <2>3. InFlight' = InFlight \cup {c} \/ (InFlight' = InFlight /\ c \in refused')
      BY <1>1, FlightOfRequest
    <2>4. InFlight \subseteq Calls
      BY DEF InFlight
    <2>5. Known'
      <3>1. \A d \in InFlight' : call'[d] # "new"
        BY <2>2, <2>3, <2>4
      <3>2. \A w \in Workers : job'[w].phase # "idle" => call'[job'[w].call] # "new"
        BY <1>0, <2>1, <2>2
      <3> QED
        BY <3>1, <3>2
    <2>6. Answered'
      <3> SUFFICES ASSUME NEW w \in Workers, job[w].phase = "ack"
                   PROVE  call'[job[w].call] = "waiting" => answer[job[w].call].kind # "none"
        BY <2>1
      <3>1. job[w].call # c
        BY <2>1
      <3> QED
        BY <1>0, <2>2, <3>1
    <2>7. WaitingIsServed'
      <3> SUFFICES ASSUME NEW d \in Calls, call'[d] = "waiting"
                   PROVE  d \in InFlight' \/ answer[d].kind # "none" \/ d \in refused'
        BY <2>1
      <3> QED
        BY <2>1, <2>2, <2>3
    <2> QED
      BY <2>5, <2>6, <2>7
  <1>2. ASSUME UNCHANGED <<queue, held>> PROVE InFlight' = InFlight
    BY <1>2 DEF InFlight
  <1>3. ASSUME NEW c \in Calls, RequestFails(c) PROVE Served'
    BY <1>0, <1>2, <1>3 DEF RequestFails
  <1>4. ASSUME NEW c \in Calls, TakeAnswer(c) \/ TimeOut(c) PROVE Served'
    <2>1. /\ call' \in {[call EXCEPT ![c] = "ok"], [call EXCEPT ![c] = "failed"]}
          /\ answer' = [answer EXCEPT ![c] = NoAnswer]
          /\ UNCHANGED <<queue, held, job, refused>>
          /\ call[c] = "waiting"
      BY <1>4 DEF TakeAnswer, TimeOut
    <2>2. /\ call'[c] \in {"ok", "failed"}
          /\ \A d \in Calls \ {c} : call'[d] = call[d] /\ answer'[d] = answer[d]
      BY <2>1
    <2>3. Known'
      <3>1. \A d \in Calls : call[d] # "new" => call'[d] # "new"
        BY <2>2
      <3>2. InFlight \subseteq Calls
        BY DEF InFlight
      <3> QED
        BY <1>0, <1>2, <2>1, <3>1, <3>2
    <2>4. Answered'
      <3> SUFFICES ASSUME NEW w \in Workers, job[w].phase = "ack", call'[job[w].call] = "waiting"
                   PROVE  answer'[job[w].call].kind # "none"
        BY <2>1
      <3>1. job[w].call # c
        BY <2>2
      <3> QED
        BY <1>0, <2>2, <3>1
    <2>5. WaitingIsServed'
      <3> SUFFICES ASSUME NEW d \in Calls, call'[d] = "waiting"
                   PROVE  d \in InFlight' \/ answer'[d].kind # "none" \/ d \in refused'
        OBVIOUS
      <3> QED
        BY <1>2, <2>1, <2>2
    <2> QED
      BY <2>3, <2>4, <2>5
  <1>5. ASSUME NEW w \in Workers, Deliver(w) PROVE Served'
    <2>1. InFlight' = InFlight
      BY <1>5, FlightOfDeliver
    <2> QED
      BY <1>0, <1>5, <2>1 DEF Deliver, callVars
  <1>6. ASSUME NEW w \in Workers, Handle(w) PROVE Served'
    <2>1. Head(held[w]) \in InFlight
      <3>1. held[w] \in Seq(Calls) /\ held[w] # <<>>
        BY <1>6 DEF Handle
      <3> QED
        BY <3>1, InHeadOrTail, HeadTailProperties DEF InFlight
    <2>2. /\ job'[w].call = Head(held[w]) /\ job'[w].phase = "limit"
          /\ \A u \in Workers \ {w} : job'[u] = job[u]
      BY <1>6 DEF Handle, NoJob
    <2>3. UNCHANGED <<call, answer, refused, queue, held>>
      BY <1>6 DEF Handle, callVars
    <2> QED
      BY <1>0, <1>2, <2>1, <2>2, <2>3
  <1>7. ASSUME NEW w \in Workers, Reserve(w) \/ AskModel(w) \/ SaveImage(w) PROVE Served'
    <2>1. /\ job[w].phase # "idle" /\ job'[w].phase # "ack" /\ job'[w].call = job[w].call
          /\ \A u \in Workers \ {w} : job'[u] = job[u]
      <3>1. CASE Reserve(w)
        BY <3>1 DEF Reserve, JobType
      <3>2. CASE AskModel(w)
        BY <3>2 DEF AskModel, JobType
      <3>3. CASE SaveImage(w)
        BY <3>3, JobSaves, JobSavesNoAck DEF SaveImage
      <3> QED
        BY <1>7, <3>1, <3>2, <3>3
    <2>2. UNCHANGED <<call, answer, refused, queue, held>>
      BY <1>7 DEF Reserve, AskModel, SaveImage, callVars
    <2> QED
      BY <1>0, <1>2, <2>1, <2>2
  <1>8. ASSUME NEW w \in Workers, Respond(w) PROVE Served'
    <2> DEFINE c == job[w].call
    <2>1. /\ job[w].phase # "idle" /\ job'[w].call = c
          /\ \A u \in Workers \ {w} : job'[u] = job[u]
      BY <1>8 DEF Respond, JobType
    <2>2. UNCHANGED <<call, refused, queue, held>>
      BY <1>8 DEF Respond
    <2>3. \/ call[c] # "waiting" /\ answer' = answer
          \/ answer[c].kind # "none" /\ answer' = answer
          \/ answer'[c].kind # "none" /\ \A d \in Calls \ {c} : answer'[d] = answer[d]
      BY <1>0, <1>8 DEF Respond
    <2>4. c \in Calls /\ job'[w].call = c
      BY <1>0, <2>1
    <2> HIDE DEF c
    <2>5. \A d \in Calls : call[d] = "waiting" /\ answer[d].kind # "none" => answer'[d].kind # "none"
      BY <2>3, <2>4
    <2>6. Known'
      <3>1. \A u \in Workers : job'[u].phase # "idle" => call[job'[u].call] # "new"
        BY <2>1, <2>4 DEF c
      <3> QED
        BY <1>2, <2>2, <3>1
    <2>7. Answered'
      <3> SUFFICES ASSUME NEW u \in Workers, job'[u].phase = "ack", call[job'[u].call] = "waiting"
                   PROVE  answer'[job'[u].call].kind # "none"
        BY <2>2
      <3>1. CASE u = w
        BY <2>3, <2>4, <2>5, <3>1
      <3>2. CASE u # w
        BY <1>0, <2>1, <2>5, <3>2
      <3> QED
        BY <3>1, <3>2
    <2>8. WaitingIsServed'
      BY <1>2, <2>2, <2>5
    <2> QED
      BY <2>6, <2>7, <2>8
  <1>9. ASSUME NEW w \in Workers, Ack(w) PROVE Served'
    <2>1. /\ job[w].phase = "ack" /\ job'[w].phase = "idle"
          /\ \A u \in Workers \ {w} : job'[u] = job[u]
      BY <1>9 DEF Ack, NoJob
    <2>2. UNCHANGED <<call, answer, refused>>
      BY <1>9 DEF Ack, callVars
    <2> QED
      BY <1>0, <1>9, <2>1, <2>2, FlightOfAck
  <1>10. ASSUME NEW w \in Workers, Retire(w) PROVE Served'
    <2>1. job'[w].phase = "idle" /\ \A u \in Workers \ {w} : job'[u] = job[u]
      BY <1>10 DEF Retire, NoJob
    <2>2. UNCHANGED <<call, answer, refused, queue, held>>
      BY <1>10 DEF Retire, callVars
    <2> QED
      BY <1>0, <1>2, <2>1, <2>2
  <1>11. ASSUME NEW w \in Workers, WorkerLost(w) PROVE Served'
    <2>1. UNCHANGED <<call, answer, refused, job>>
      BY <1>11 DEF WorkerLost, callVars
    <2> QED
      BY <1>0, <1>11, <2>1, FlightOfLoss
  <1>12. CASE ClientLost
    <2>1. /\ \A c \in Calls : call'[c] # "waiting" /\ (call[c] # "new" => call'[c] # "new")
          /\ UNCHANGED <<queue, held, job>>
      BY <1>12 DEF ClientLost
    <2>2. \A c \in InFlight : c \in Calls
      BY DEF InFlight
    <2> QED
      BY <1>0, <1>2, <2>1, <2>2
  <1>13. CASE Restart
    <2>1. /\ \A c \in Calls : call'[c] # "waiting" /\ (call[c] # "new" => call'[c] # "new")
          /\ \A w \in Workers : job'[w].phase = "idle"
      BY <1>13 DEF Restart, NoJob
    <2>2. \A c \in InFlight : c \in Calls
      BY DEF InFlight
    <2> QED
      BY <1>0, <1>13, <2>1, <2>2, FlightOfRestart
  <1>14. CASE Tick \/ UNCHANGED vars
    <2>1. UNCHANGED <<call, answer, refused, queue, held, job>>
      BY <1>14 DEF Tick, vars, callVars
    <2> QED
      BY <1>0, <1>2, <2>1
  <1> QED
    BY <1>1, <1>3, <1>4, <1>5, <1>6, <1>7, <1>8, <1>9, <1>10, <1>11, <1>12, <1>13, <1>14
    DEF Next, Client, Work

\* A call that waits has its request in the queue or with a connected worker, or
\* its answer in its queue, or was refused by the full queue: connections,
\* workers and the whole process may go, what was not acknowledged comes back.
THEOREM WaitingServed == Spec => []WaitingIsServed
  <1>1. Init => Served
    BY EmptySeq DEF Init, Served, Known, Answered, WaitingIsServed, Waiting, InFlight, Contains, NoJob
  <1>2. Served => WaitingIsServed
    BY DEF Served
  <1> QED
    BY <1>1, <1>2, NextServed, RPCTypeCorrect, PTL DEF Spec

-----------------------------------------------------------------------------
(* The images. What somebody answers for only passes from hand to hand: an   *)
(* image goes from its worker to an answer and from there to the caller. So  *)
(* an image once claimed stays claimed, and what a worker gives up with its  *)
(* job is claimed before: it is idle with no images, and it acknowledges     *)
(* only when others have them.                                               *)

Claimed(i) == i \in got \/ i \in excused \/ \E c \in Calls : i \in answer[c].images

Passed ==
    /\ \A c \in Calls : answer[c].kind = "none" => answer[c].images = {}
    /\ \A w \in Workers : job[w].phase = "idle" => job[w].images = {}
    /\ \A w \in Workers : job[w].phase = "ack" => \A i \in job[w].images : Claimed(i)
    /\ \A i \in saved : Claimed(i) \/ \E w \in Workers : i \in job[w].images

LEMMA ClaimedGrows ==
  ASSUME Types, Passed, [Next]_vars, ~Restart, NEW i, Claimed(i)
  PROVE  Claimed(i)'
  <1> USE DEF Types, TypeOK, Claimed
  <1>1. ASSUME NEW c \in Calls, TakeAnswer(c) PROVE Claimed(i)'
    BY <1>1 DEF TakeAnswer
  <1>2. ASSUME NEW c \in Calls, TimeOut(c) PROVE Claimed(i)'
    BY <1>2 DEF TimeOut
  <1>3. ASSUME NEW w \in Workers, Respond(w) PROVE Claimed(i)'
    <2>1. job[w].call \in Calls
      BY DEF JobType
    <2> QED
      BY <1>3, <2>1 DEF Respond, Passed
  <1>4. CASE ClientLost
    BY <1>4 DEF ClientLost
  <1>5. ASSUME NEW w \in Workers, SaveImage(w) \/ Retire(w) PROVE Claimed(i)'
    BY <1>5 DEF SaveImage, Retire, callVars
  <1>6. ASSUME UNCHANGED <<answer, imageVars>> PROVE Claimed(i)'
    BY <1>6 DEF imageVars
  <1>7. ASSUME NEW c \in Calls, Request(c) \/ RequestFails(c) PROVE Claimed(i)'
    BY <1>6, <1>7 DEF Request, RequestFails
  <1>8. ASSUME NEW w \in Workers,
               Deliver(w) \/ Handle(w) \/ Reserve(w) \/ AskModel(w) \/ Ack(w) \/ WorkerLost(w)
        PROVE  Claimed(i)'
    BY <1>6, <1>8 DEF Deliver, Handle, Reserve, AskModel, Ack, WorkerLost, callVars
  <1>9. CASE Tick \/ UNCHANGED vars
    BY <1>6, <1>9 DEF Tick, vars, callVars
  <1> QED
    BY <1>1, <1>2, <1>3, <1>4, <1>5, <1>7, <1>8, <1>9 DEF Next, Client, Work

\* A step of one worker: the others keep their jobs, and it must give an account
\* of its own images only.
LEMMA OneWorker ==
  ASSUME Types, Passed, [Next]_vars, ~Restart, NEW w \in Workers,
         \A u \in Workers \ {w} : job'[u] = job[u],
         \A c \in Calls : answer'[c].kind = "none" => answer'[c].images = {},
         job'[w].phase = "idle" => job'[w].images = {},
         job'[w].phase = "ack" => \A i \in job'[w].images : Claimed(i)',
         \A i \in job[w].images : Claimed(i)' \/ i \in job'[w].images,
         \A i \in saved' : i \in saved \/ i \in job'[w].images
  PROVE  Passed'
  <1>1. \A i : Claimed(i) => Claimed(i)'
    BY ClaimedGrows
  <1>2. \A u \in Workers : job'[u].phase = "idle" => job'[u].images = {}
    BY DEF Passed
  <1>3. ASSUME NEW u \in Workers, job'[u].phase = "ack", NEW i \in job'[u].images
        PROVE  Claimed(i)'
    BY <1>1, <1>3 DEF Passed
  <1>4. ASSUME NEW i \in saved' PROVE Claimed(i)' \/ \E u \in Workers : i \in job'[u].images
    <2>1. CASE i \in saved /\ ~Claimed(i)
      <3>1. PICK u \in Workers : i \in job[u].images
        BY <2>1 DEF Passed
      <3> QED
        BY <3>1
    <2> QED
      BY <1>1, <2>1
  <1> HIDE DEF Claimed
  <1> QED
    BY <1>2, <1>3, <1>4 DEF Passed

\* A step that is no worker's: the jobs and the stored images stay.
LEMMA NoWorker ==
  ASSUME Types, Passed, [Next]_vars, ~Restart, UNCHANGED <<job, saved>>,
         \A c \in Calls : answer'[c].kind = "none" => answer'[c].images = {}
  PROVE  Passed'
  <1>1. \A i : Claimed(i) => Claimed(i)'
    BY ClaimedGrows
  <1> HIDE DEF Claimed
  <1> QED
    BY <1>1 DEF Passed

LEMMA NextPassed == Types /\ Passed /\ [Next]_vars => Passed'
  <1> SUFFICES ASSUME Types, Passed, [Next]_vars PROVE Passed'
    OBVIOUS
  <1> USE DEF Types, TypeOK
  <1>0. \A w \in Workers : job[w] \in JobType /\ job[w].call \in Calls
    BY DEF JobType
  <1>1. CASE Restart
    BY <1>1 DEF Restart, Passed, Claimed, NoJob, NoAnswer
  <1>2. ASSUME ~Restart, NEW c \in Calls, Client(c) PROVE Passed'
    <2>1. UNCHANGED <<job, saved>>
      BY <1>2 DEF Client, Request, RequestFails, TakeAnswer, TimeOut, imageVars
    <2>2. \A d \in Calls : answer'[d].kind = "none" => answer'[d].images = {}
      <3>1. CASE Request(c) \/ RequestFails(c)
        BY <3>1 DEF Request, RequestFails, Passed
      <3>2. CASE TakeAnswer(c) \/ TimeOut(c)
        <4>1. answer' = [answer EXCEPT ![c] = NoAnswer]
          BY <3>2 DEF TakeAnswer, TimeOut
        <4> QED
          BY <4>1 DEF NoAnswer, Passed
      <3> QED
        BY <1>2, <3>1, <3>2 DEF Client
    <2> QED
      BY <1>2, <2>1, <2>2, NoWorker
  <1>3. ASSUME ~Restart, ClientLost \/ Tick \/ UNCHANGED vars PROVE Passed'
    <2>1. UNCHANGED <<job, saved>>
      BY <1>3 DEF ClientLost, Tick, vars, imageVars
    <2>2. \A d \in Calls : answer'[d].kind = "none" => answer'[d].images = {}
      BY <1>3 DEF ClientLost, Tick, vars, callVars, NoAnswer, Passed
    <2> QED
      BY <1>3, <2>1, <2>2, NoWorker
  <1>4. ASSUME ~Restart, NEW w \in Workers, Deliver(w) \/ WorkerLost(w) PROVE Passed'
    <2>1. UNCHANGED <<job, saved, answer>>
      BY <1>4 DEF Deliver, WorkerLost, callVars, imageVars
    <2>2. \A d \in Calls : answer'[d].kind = "none" => answer'[d].images = {}
      BY <2>1 DEF Passed
    <2> QED
      BY <1>4, <2>1, <2>2, NoWorker
  <1>5. ASSUME ~Restart, NEW w \in Workers, Handle(w) \/ Reserve(w) \/ AskModel(w) PROVE Passed'
    <2>1. UNCHANGED <<saved, answer>>
      BY <1>5 DEF Handle, Reserve, AskModel, callVars, imageVars
    <2>2. /\ \A u \in Workers \ {w} : job'[u] = job[u]
          /\ job'[w].phase \in {"limit", "model", "save", "answer"}
          /\ job'[w].images = job[w].images
      <3>1. CASE Handle(w)
        BY <3>1 DEF Handle, NoJob, Passed
      <3>2. CASE Reserve(w)
        BY <1>0, <3>2 DEF Reserve, JobType
      <3>3. CASE AskModel(w)
        BY <1>0, <3>3 DEF AskModel, JobType
      <3> QED
        BY <1>5, <3>1, <3>2, <3>3
    <2>3. \A d \in Calls : answer'[d].kind = "none" => answer'[d].images = {}
      BY <2>1 DEF Passed
    <2> QED
      BY <1>5, <2>1, <2>2, <2>3, OneWorker
  <1>6. ASSUME ~Restart, NEW w \in Workers, SaveImage(w) PROVE Passed'
    <2> DEFINE id == <<job[w].call, Cardinality({i \in saved : i[1] = job[w].call}) + 1>>
    <2>1. answer' = answer /\ \A u \in Workers \ {w} : job'[u] = job[u]
      BY <1>6, JobSaves DEF SaveImage, callVars
    <2>2. \/ saved' = saved \cup {id} /\ job'[w].images = job[w].images \cup {id}
          \/ /\ excused' = excused \cup job[w].images /\ job'[w].images = {}
             /\ saved' = saved
      <3>1. CASE /\ saved' = saved \cup {id}
                 /\ job' = [job EXCEPT ![w].images = @ \cup {id}, ![w].left = @ - 1,
                                      ![w].phase = IF job[w].left = 1 THEN "answer" ELSE "save"]
        BY <1>0, <3>1 DEF JobType
      <3>2. CASE /\ excused' = excused \cup job[w].images /\ saved' = saved
                 /\ job' = [job EXCEPT ![w].images = {}, ![w].ok = FALSE, ![w].phase = "answer"]
        BY <1>0, <3>2 DEF JobType
      <3> QED
        BY <1>6, <3>1, <3>2 DEF SaveImage
    <2>3. job'[w].phase \in {"save", "answer"}
      <3>1. CASE job' = [job EXCEPT ![w].images = @ \cup {id}, ![w].left = @ - 1,
                                    ![w].phase = IF job[w].left = 1 THEN "answer" ELSE "save"]
        BY <1>0, <3>1 DEF JobType
      <3>2. CASE job' = [job EXCEPT ![w].images = {}, ![w].ok = FALSE, ![w].phase = "answer"]
        BY <1>0, <3>2 DEF JobType
      <3> QED
        BY <1>6, <3>1, <3>2 DEF SaveImage
    <2> HIDE DEF id
    <2>4. \A i \in job[w].images : Claimed(i)' \/ i \in job'[w].images
      BY <2>2 DEF Claimed
    <2>5. \A d \in Calls : answer'[d].kind = "none" => answer'[d].images = {}
      BY <2>1 DEF Passed
    <2>6. \A i \in saved' : i \in saved \/ i \in job'[w].images
      BY <2>2
    <2> QED
      BY <1>6, <2>1, <2>3, <2>4, <2>5, <2>6, OneWorker
  <1>7. ASSUME ~Restart, NEW w \in Workers, Respond(w) PROVE Passed'
    <2>1. /\ saved' = saved
          /\ \A u \in Workers \ {w} : job'[u] = job[u]
          /\ job'[w].phase = "ack" /\ job'[w].images = job[w].images
      BY <1>0, <1>7 DEF Respond, JobType
    <2>2. \A i \in job[w].images : Claimed(i)'
      BY <1>0, <1>7 DEF Respond, Claimed
    <2>3. \A d \in Calls : answer'[d].kind = "none" => answer'[d].images = {}
      <3>1. \/ answer' = answer
            \/ answer' = [answer EXCEPT ![job[w].call] = [kind |-> IF job[w].ok THEN "ok" ELSE "error",
                                                         images |-> job[w].images]]
        BY <1>7 DEF Respond
      <3>2. ("ok" # "none") /\ ("error" # "none")
        OBVIOUS
      <3>3. SUFFICES ASSUME NEW d \in Calls, answer'[d].kind = "none" PROVE answer'[d].images = {}
        OBVIOUS
      <3> QED
        <4>1. CASE answer' = answer \/ d # job[w].call
          BY <1>0, <3>1, <3>3, <4>1 DEF Passed
        <4>2. CASE answer' # answer /\ d = job[w].call
          <5>1. answer'[d] = [kind |-> IF job[w].ok THEN "ok" ELSE "error", images |-> job[w].images]
            BY <3>1, <4>2
          <5>2. answer'[d].kind \in {"ok", "error"}
            BY <5>1
          <5> QED
            BY <3>3, <5>2
        <4> QED
          BY <4>1, <4>2
    <2> QED
      BY <1>7, <2>1, <2>2, <2>3, OneWorker
  <1>8. ASSUME ~Restart, NEW w \in Workers, Ack(w) \/ Retire(w) PROVE Passed'
    <2>1. /\ UNCHANGED <<saved, answer>>
          /\ \A u \in Workers \ {w} : job'[u] = job[u]
          /\ job'[w].phase = "idle" /\ job'[w].images = {}
      BY <1>8 DEF Ack, Retire, NoJob, callVars, imageVars
    <2>2. \A i \in job[w].images : Claimed(i)'
      <3>1. CASE Ack(w)
        <4>1. \A i \in job[w].images : Claimed(i)
          BY <3>1 DEF Ack, Passed
        <4> QED
          BY <1>8, <4>1, ClaimedGrows
      <3>2. CASE Retire(w)
        BY <3>2 DEF Retire, Claimed
      <3> QED
        BY <1>8, <3>1, <3>2
    <2>3. \A d \in Calls : answer'[d].kind = "none" => answer'[d].images = {}
      BY <2>1 DEF Passed
    <2> QED
      BY <1>8, <2>1, <2>2, <2>3, OneWorker
  <1> QED
    BY <1>1, <1>2, <1>3, <1>4, <1>5, <1>6, <1>7, <1>8 DEF Next, Work

\* No image is stored and then forgotten without a fault: an answer names it
\* that was taken or waits, a worker has it, or the call, the worker or the
\* process failed before that.
THEOREM ImagesClaimed == Spec => []ImagesAreClaimed
  <1>1. Init => Passed
    BY DEF Init, Passed, NoJob, NoAnswer
  <1>2. Passed => ImagesAreClaimed
    <2> DEFINE answered == UNION {answer[c].images : c \in Calls}
               worked == UNION {job[w].images : w \in Workers}
    <2> SUFFICES ASSUME Passed, NEW i \in saved PROVE i \in got \cup excused \cup answered \cup worked
      BY DEF ImagesAreClaimed
    <2>1. Claimed(i) \/ \E w \in Workers : i \in job[w].images
      BY DEF Passed
    <2>2. (\E c \in Calls : i \in answer[c].images) => i \in answered
      OBVIOUS
    <2>3. (\E w \in Workers : i \in job[w].images) => i \in worked
      OBVIOUS
    <2> HIDE DEF answered, worked
    <2> QED
      BY <2>1, <2>2, <2>3 DEF Claimed
  <1> QED
    BY <1>1, <1>2, NextPassed, RPCTypeCorrect, PTL DEF Spec
=============================================================================
