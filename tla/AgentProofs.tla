----------------------------- MODULE AgentProofs ------------------------------
(***************************************************************************)
(* Theorems about what a client waits for: AgentEngine for every limit, set*)
(* of tools and set of replies (its types, its budget of steps, and that an*)
(* answer is reviewed); AgentStream for any number of streams, publishers  *)
(* and events (that no event reaches a client twice, and that none falls   *)
(* between the replay and the channel, although Publish sends to the       *)
(* channels it has copied after it has unlocked the hub); RoomSync for any *)
(* senders, messages, pages and faults (that the cursor of the desktop     *)
(* client passes nothing but what the property names); and AuthSession for *)
(* any calls and sessions (its types).                                     *)
(*                                                                         *)
(* The modules share nothing but this one, which proves about each by      *)
(* itself.                                                                 *)
(***************************************************************************)
EXTENDS AgentEngine, AgentStream, RoomSync, AuthSession, FiniteSetTheorems, SequenceTheorems, TLAPS

-----------------------------------------------------------------------------
(* AgentEngine.  The invariants are inductive only together, and with       *)
(* Planned.  That a step never passes MaxSteps + 1 (EngineTypeOK) needs     *)
(* that a running one is within MaxSteps (BudgetIsExact); that a salvaged   *)
(* answer has used up its steps (AnswersAreReviewed) needs the same bound   *)
(* from above.                                                              *)

\* An outline has been made before any other node runs, so the floor of one
\* in coordinator_think never changes the step.
Planned == node # "planner" => plans >= 1

EngineInv == EngineTypeOK /\ BudgetIsExact /\ AnswersAreReviewed /\ Planned

\* The name and the input taken out of a reply are of their types, also when
\* the reply lacks a key.
LEMMA ReplyTypes ==
    ASSUME NEW reply \in Replies
    PROVE  NameIn(reply) \in Names \cup {""} /\ InputIn(reply) \in Inputs \cup {""}
<1>1. reply \in [tool : Tools \cup {"finish", "replan", "", Absent},
                 input : {"", "plain", "final", Absent},
                 name : Tools \cup {"finish", "replan", "", Absent},
                 arguments : {"plain", "final", Absent}]
    BY RepliesAssumption
<1>2. /\ reply.tool \in Tools \cup {"finish", "replan", "", Absent}
      /\ reply.name \in Tools \cup {"finish", "replan", "", Absent}
    BY <1>1
<1>3. /\ reply.input \in {"", "plain", "final", Absent}
      /\ reply.arguments \in {"plain", "final", Absent}
    BY <1>1
<1>4. NameIn(reply) \in Names \cup {""}
    BY <1>2 DEF NameIn, Sprint, Names
<1>5. InputIn(reply) \in Inputs \cup {""}
    BY <1>3 DEF InputIn, Sprint, Inputs, Absent, Nil
<1> QED
    BY <1>4, <1>5

\* A counted transition keeps the step one more than it was, and within the
\* limit unless the run fails.
LEMMA AdvanceCounts ==
    ASSUME EngineInv, status = "running", Advance
    PROVE  /\ step' = step + 1 /\ step' \in 0 .. MaxSteps + 1
           /\ node' \in Nodes /\ status' \in {"running", "failed"}
           /\ status' # "failed" => step' <= MaxSteps
<1>1. MaxSteps \in Nat
    BY LimitAssumption
<1>2. step \in 0 .. MaxSteps + 1
    BY DEF EngineInv, EngineTypeOK, CountersOK
<1>3. step <= MaxSteps
    BY DEF EngineInv, BudgetIsExact
<1>4. node \in Nodes
    BY DEF EngineInv, EngineTypeOK, FieldsOK
<1>5. step' = step + 1
    BY DEF Advance
<1>6. step' \in 0 .. MaxSteps + 1
    BY <1>1, <1>2, <1>3, <1>5
<1>7. node' \in Nodes /\ status' \in {"running", "failed"}
    BY <1>4 DEF Advance, Nodes
<1>8. status' # "failed" => step + 1 <= MaxSteps
    BY <1>1, <1>2 DEF Advance
<1> QED
    BY <1>5, <1>6, <1>7, <1>8

\* An action that counts preserves the counters if it adds one to one of
\* them.
LEMMA CountedStep ==
    ASSUME EngineInv, status = "running", Advance,
           \/ plans' = plans + 1 /\ UNCHANGED <<toolFailures, rejections>>
           \/ toolFailures' = toolFailures + 1 /\ UNCHANGED <<plans, rejections>>
           \/ rejections' = rejections + 1 /\ UNCHANGED <<plans, toolFailures>>
    PROVE  CountersOK' /\ BudgetIsExact' /\ AnswersAreReviewed' /\ plans' >= plans
<1>1. /\ step' = step + 1 /\ step' \in 0 .. MaxSteps + 1
      /\ status' \in {"running", "failed"}
      /\ status' # "failed" => step' <= MaxSteps
    BY AdvanceCounts
<1>2. plans \in Nat /\ toolFailures \in Nat /\ rejections \in Nat
    BY DEF EngineInv, EngineTypeOK, CountersOK
<1>3. step = plans + toolFailures + rejections
    BY DEF EngineInv, BudgetIsExact
<1>4. /\ plans' \in Nat /\ toolFailures' \in Nat /\ rejections' \in Nat
      /\ step' = plans' + toolFailures' + rejections'
      /\ plans' >= plans
    BY <1>1, <1>2, <1>3
<1>5. CountersOK'
    BY <1>1, <1>4 DEF CountersOK
<1>6. BudgetIsExact'
    BY <1>1, <1>4 DEF BudgetIsExact
<1> QED
    BY <1>1, <1>4, <1>5, <1>6 DEF AnswersAreReviewed

\* An action that leaves the counters alone and does not answer preserves
\* them.
LEMMA UncountedStep ==
    ASSUME EngineInv, status = "running", status' \in {"running", "failed"},
           UNCHANGED <<step, plans, toolFailures, rejections>>
    PROVE  CountersOK' /\ BudgetIsExact' /\ AnswersAreReviewed' /\ plans' >= plans
BY DEF EngineInv, EngineTypeOK, CountersOK, BudgetIsExact, AnswersAreReviewed

\* Every step of a run preserves the invariant.
LEMMA EngineStep ==
    ASSUME EngineInv, [EngineNext]_engineVars
    PROVE  EngineInv'
<1>a. CountersOK /\ OutlineOK /\ FieldsOK /\ Planned
    BY DEF EngineInv, EngineTypeOK
<1>b. UNCHANGED planVars => OutlineOK'
    BY <1>a DEF planVars, OutlineOK
<1>c. plans \in Nat /\ step \in Nat
    BY <1>a, LimitAssumption DEF CountersOK
<1>d. ASSUME node # "planner", plans' >= plans, CountersOK'
      PROVE  Planned'
    BY <1>a, <1>c, <1>d DEF Planned, CountersOK
<1>1. ASSUME NEW n \in 1 .. MaxSteps, Planner(n)
      PROVE  EngineInv'
    <2>1. status = "running" /\ Advance /\ plans' = plans + 1
        BY <1>1 DEF Planner, At
    <2>2. CountersOK' /\ BudgetIsExact' /\ AnswersAreReviewed'
        BY <1>1, <2>1, CountedStep DEF Planner
    <2>3. outline' = n /\ index' = 0 /\ current' = 0
        BY <1>1 DEF Planner
    <2>4. OutlineOK'
        BY <2>3, LimitAssumption DEF OutlineOK
    <2>5. FieldsOK'
        BY <1>1, <1>a, <2>1, AdvanceCounts DEF Planner, toolVars, FieldsOK
    <2>6. Planned'
        BY <1>c, <2>1 DEF Planned
    <2> QED
        BY <2>2, <2>4, <2>5, <2>6 DEF EngineInv, EngineTypeOK
<1>2. CASE CoordinatorThink
    <2>1. node # "planner" /\ status = "running" /\ status' = "running"
        BY <1>2 DEF CoordinatorThink, At
    <2>2. plans >= 1 /\ toolFailures \in Nat /\ rejections \in Nat
        BY <1>a, <2>1 DEF Planned, CountersOK
    <2>3. step # 0
        BY <1>c, <2>2 DEF EngineInv, BudgetIsExact
    <2>4. UNCHANGED <<step, plans, toolFailures, rejections, planVars, verdict>>
        BY <1>2, <2>3 DEF CoordinatorThink, history
    <2>5. CountersOK' /\ BudgetIsExact' /\ AnswersAreReviewed' /\ plans' >= plans
        BY <2>1, <2>4, UncountedStep
    <2>6. FieldsOK'
        BY <1>2, <1>a, <2>1, <2>4 DEF CoordinatorThink, FieldsOK, Nodes
    <2> QED
        BY <1>b, <1>d, <2>1, <2>4, <2>5, <2>6 DEF EngineInv, EngineTypeOK
<1>3. ASSUME NEW reply \in Replies, CoordinatorAct(reply)
      PROVE  EngineInv'
    <2>1. node # "planner" /\ status = "running" /\ status' \in {"running", "failed"}
        BY <1>3 DEF CoordinatorAct, At, Fail, Goto
    <2>2. UNCHANGED <<step, plans, toolFailures, rejections, planVars, verdict>>
        BY <1>3 DEF CoordinatorAct, Fail, Goto, history
    <2>3. CountersOK' /\ BudgetIsExact' /\ AnswersAreReviewed' /\ plans' >= plans
        BY <2>1, <2>2, UncountedStep
    <2>4. node' \in Nodes
        BY <1>3, <1>a DEF CoordinatorAct, Fail, Goto, Nodes, FieldsOK
    <2>5. tool' \in Names \cup {""} /\ input' \in Inputs \cup {""} /\ output' \in BOOLEAN
        BY <1>3, <1>a, ReplyTypes DEF CoordinatorAct, toolVars, FieldsOK
    <2>6. FieldsOK'
        BY <1>a, <2>1, <2>2, <2>4, <2>5 DEF FieldsOK
    <2> QED
        BY <1>b, <1>d, <2>1, <2>2, <2>3, <2>6 DEF EngineInv, EngineTypeOK
<1>4. CASE CallFails
    <2>1. status = "running" /\ status' = "failed" /\ node' = node
        BY <1>4 DEF CallFails, At, Fail
    <2>2. UNCHANGED <<step, plans, toolFailures, rejections, planVars, toolVars, verdict>>
        BY <1>4 DEF CallFails, Fail, history
    <2>3. CountersOK' /\ BudgetIsExact' /\ AnswersAreReviewed'
        BY <2>1, <2>2, UncountedStep
    <2>4. FieldsOK' /\ Planned'
        BY <1>a, <2>1, <2>2 DEF FieldsOK, toolVars, Planned
    <2> QED
        BY <1>b, <2>2, <2>3, <2>4 DEF EngineInv, EngineTypeOK
<1>5. ASSUME Finish \/ Replan \/ ToolResponse \/ GuardContinues \/ GuardFinishes
                 \/ FinalThinkRetries \/ NothingToJudge
      PROVE  EngineInv'
    <2>1. node # "planner" /\ status = "running" /\ status' \in {"running", "failed"}
        BY <1>5 DEF Finish, Replan, ToolResponse, GuardContinues, GuardFinishes,
                    FinalThinkRetries, NothingToJudge, At, Goto, Fail
    <2>2. node' \in Nodes
        BY <1>5, <1>a DEF Finish, Replan, ToolResponse, GuardContinues, GuardFinishes,
                    FinalThinkRetries, NothingToJudge, Goto, Fail, FieldsOK, Nodes
    <2>3. UNCHANGED <<step, plans, toolFailures, rejections, planVars, toolVars, verdict>>
        BY <1>5 DEF Finish, Replan, ToolResponse, GuardContinues, GuardFinishes,
                    FinalThinkRetries, NothingToJudge, Goto, Fail, history
    <2>4. CountersOK' /\ BudgetIsExact' /\ AnswersAreReviewed' /\ plans' >= plans
        BY <2>1, <2>3, UncountedStep
    <2>5. FieldsOK'
        BY <1>a, <2>1, <2>2, <2>3 DEF FieldsOK, toolVars
    <2> QED
        BY <1>b, <1>d, <2>1, <2>3, <2>4, <2>5 DEF EngineInv, EngineTypeOK
<1>6. CASE ToolFails
    <2>1. node # "planner" /\ status = "running" /\ Advance
        BY <1>6 DEF ToolFails, At
    <2>2. toolFailures' = toolFailures + 1 /\ UNCHANGED <<plans, rejections>>
        BY <1>6 DEF ToolFails
    <2>3. CountersOK' /\ BudgetIsExact' /\ AnswersAreReviewed' /\ plans' >= plans
        BY <2>1, <2>2, CountedStep
    <2>4. FieldsOK'
        BY <1>6, <1>a, <2>1, AdvanceCounts DEF ToolFails, FieldsOK
    <2>5. OutlineOK'
        BY <1>6, <1>b DEF ToolFails
    <2> QED
        BY <1>d, <2>1, <2>3, <2>4, <2>5 DEF EngineInv, EngineTypeOK
<1>7. ASSUME NEW some \in BOOLEAN, ToolSucceeds(some)
      PROVE  EngineInv'
    <2>1. node # "planner" /\ status = "running" /\ status' = "running" /\ node' \in Nodes
        BY <1>7 DEF ToolSucceeds, At, Goto, Nodes
    <2>2. UNCHANGED <<step, plans, toolFailures, rejections>>
        BY <1>7 DEF ToolSucceeds, Goto, history
    <2>3. CountersOK' /\ BudgetIsExact' /\ AnswersAreReviewed' /\ plans' >= plans
        BY <2>1, <2>2, UncountedStep
    <2>4. /\ index' = IF index + 1 < outline THEN index + 1 ELSE index
          /\ UNCHANGED <<outline, current>>
        BY <1>7 DEF ToolSucceeds
    <2>5. OutlineOK'
        BY <1>a, <2>4, LimitAssumption DEF OutlineOK
    <2>6. FieldsOK'
        BY <1>7, <1>a, <2>1 DEF ToolSucceeds, FieldsOK
    <2> QED
        BY <1>d, <2>1, <2>3, <2>5, <2>6 DEF EngineInv, EngineTypeOK
<1>8. CASE FinalThink
    <2>1. /\ node # "planner" /\ status = "running" /\ status' = "running"
          /\ node' \in Nodes /\ tool' = "finish" /\ input' = "final"
        BY <1>8 DEF FinalThink, At, Goto, Nodes
    <2>2. UNCHANGED <<step, plans, toolFailures, rejections, planVars, output, verdict>>
        BY <1>8 DEF FinalThink, Goto, history
    <2>3. CountersOK' /\ BudgetIsExact' /\ AnswersAreReviewed' /\ plans' >= plans
        BY <2>1, <2>2, UncountedStep
    <2>4. FieldsOK'
        BY <1>a, <2>1, <2>2 DEF FieldsOK, Names, Inputs
    <2> QED
        BY <1>b, <1>d, <2>1, <2>2, <2>3, <2>4 DEF EngineInv, EngineTypeOK
<1>9. CASE Accept
    <2>1. /\ status = "running" /\ status' = "answered" /\ verdict' = "pass"
          /\ UNCHANGED <<node, step, planVars, toolVars, history>>
        BY <1>9 DEF Accept, At
    <2>2. CountersOK' /\ Planned'
        BY <1>a, <2>1 DEF history, CountersOK, Planned
    <2>3. BudgetIsExact' /\ AnswersAreReviewed'
        BY <2>1 DEF history, EngineInv, BudgetIsExact, AnswersAreReviewed
    <2>4. FieldsOK'
        BY <1>a, <2>1 DEF FieldsOK, toolVars
    <2> QED
        BY <1>b, <2>1, <2>2, <2>3, <2>4 DEF EngineInv, EngineTypeOK
<1>10. ASSUME ReviewFails \/ Reject
       PROVE  EngineInv'
    <2>1. node # "planner" /\ status = "running" /\ Advance
        BY <1>10 DEF ReviewFails, Reject, At
    <2>2. /\ rejections' = rejections + 1 /\ verdict' \in {"error", "reject"}
          /\ UNCHANGED <<planVars, toolVars, plans, toolFailures>>
        BY <1>10 DEF ReviewFails, Reject
    <2>3. CountersOK' /\ BudgetIsExact' /\ AnswersAreReviewed' /\ plans' >= plans
        BY <2>1, <2>2, CountedStep
    <2>4. FieldsOK'
        BY <1>a, <2>1, <2>2, AdvanceCounts DEF FieldsOK, toolVars
    <2> QED
        BY <1>b, <1>d, <2>1, <2>2, <2>3, <2>4 DEF EngineInv, EngineTypeOK
<1>11. ASSUME NEW written \in BOOLEAN, Salvage(written)
       PROVE  EngineInv'
    <2>1. /\ status = "running" /\ step >= MaxSteps
          /\ verdict' = "reject" /\ status' \in {"answered", "failed"}
          /\ UNCHANGED <<node, step, planVars, toolVars, history>>
        BY <1>11 DEF Salvage, At
    <2>2. step <= MaxSteps
        BY <2>1 DEF EngineInv, BudgetIsExact
    <2>3. step = MaxSteps
        BY <1>c, <2>1, <2>2, LimitAssumption
    <2>4. CountersOK' /\ Planned'
        BY <1>a, <2>1 DEF history, CountersOK, Planned
    <2>5. BudgetIsExact' /\ AnswersAreReviewed'
        BY <2>1, <2>2, <2>3 DEF history, EngineInv, BudgetIsExact, AnswersAreReviewed
    <2>6. FieldsOK'
        BY <1>a, <2>1 DEF FieldsOK, toolVars
    <2> QED
        BY <1>b, <2>1, <2>4, <2>5, <2>6 DEF EngineInv, EngineTypeOK
<1>12. CASE UNCHANGED engineVars
    <2>1. CountersOK' /\ Planned' /\ BudgetIsExact' /\ AnswersAreReviewed'
        BY <1>12, <1>a
        DEF engineVars, history, CountersOK, Planned, EngineInv, BudgetIsExact, AnswersAreReviewed
    <2>2. FieldsOK'
        BY <1>12, <1>a DEF engineVars, toolVars, FieldsOK
    <2> QED
        BY <1>12, <1>b, <2>1, <2>2 DEF engineVars, EngineInv, EngineTypeOK
<1> QED
    BY <1>1, <1>2, <1>3, <1>4, <1>5, <1>6, <1>7, <1>8, <1>9, <1>10, <1>11, <1>12 DEF EngineNext

\* The invariant holds in every reachable state.
LEMMA EngineInvariant == EngineSpec => []EngineInv
<1>0. MaxSteps \in Nat /\ MaxSteps >= 1
    BY LimitAssumption
<1>1. ASSUME EngineInit PROVE EngineInv
    <2>0. /\ step = 0 /\ plans = 0 /\ toolFailures = 0 /\ rejections = 0
          /\ outline = 0 /\ index = 0 /\ current = 0
          /\ status = "running" /\ node = "planner"
        BY <1>1 DEF EngineInit
    <2>1. CountersOK /\ OutlineOK
        BY <1>0, <2>0 DEF CountersOK, OutlineOK
    <2>2. FieldsOK
        BY <1>1 DEF EngineInit, FieldsOK, Nodes
    <2>3. BudgetIsExact /\ AnswersAreReviewed /\ Planned
        BY <1>0, <2>0 DEF BudgetIsExact, AnswersAreReviewed, Planned
    <2> QED
        BY <2>1, <2>2, <2>3 DEF EngineInv, EngineTypeOK
<1>2. EngineInv /\ [EngineNext]_engineVars => EngineInv'
    BY EngineStep
<1> QED
    BY <1>1, <1>2, PTL DEF EngineSpec

-----------------------------------------------------------------------------
\* The state is of its type, the step at most one past the limit, and the
\* marked outline step one of the outline's, also after a shorter outline has
\* replaced a longer one.
THEOREM EngineTypeCorrect == EngineSpec => []EngineTypeOK
BY EngineInvariant, PTL DEF EngineInv

\* The steps are the outlines, failed tools and refused reviews, at most
\* MaxSteps of them in a run that has not failed.
THEOREM BudgetExact == EngineSpec => []BudgetIsExact
BY EngineInvariant, PTL DEF EngineInv

\* No answer leaves a run that a review has not passed, or refused at the
\* last step.
THEOREM AnswersReviewed == EngineSpec => []AnswersAreReviewed
BY EngineInvariant, PTL DEF EngineInv

-----------------------------------------------------------------------------
(* AgentStream.  The ids of a sequence of events.                           *)
LEMMA IdsFacts ==
    ASSUME NEW q \in Seq(Events)
    PROVE  /\ Ids(q) \subseteq Nat
           /\ q = <<>> => Ids(q) = {}
           /\ \A e \in Events : Ids(Append(q, e)) = Ids(q) \cup {e.id}
           /\ q # <<>> => Ids(q) = {Head(q).id} \cup Ids(Tail(q))
<1>1. Len(q) \in Nat /\ \A i \in 1 .. Len(q) : q[i] \in Events
    BY ElementOfSeq, LenProperties
<1>2. Ids(q) \subseteq Nat
    BY <1>1 DEF Ids, Events
<1>3. q = <<>> => Ids(q) = {}
    BY DEF Ids
<1>4. ASSUME NEW e \in Events
      PROVE  Ids(Append(q, e)) = Ids(q) \cup {e.id}
  <2> DEFINE r == Append(q, e)
  <2>1. /\ Len(r) = Len(q) + 1
        /\ \A i \in 1 .. Len(q) : r[i] = q[i]
        /\ r[Len(q) + 1] = e
    BY AppendProperties
  <2>2. \A i \in 1 .. Len(q) + 1 : i \in 1 .. Len(q) \/ i = Len(q) + 1
    BY <1>1
  <2>3. 1 .. Len(q) \subseteq 1 .. Len(q) + 1 /\ Len(q) + 1 \in 1 .. Len(q) + 1
    BY <1>1
  <2> HIDE DEF r
  <2>4. Ids(r) = Ids(q) \cup {e.id}
    BY <2>1, <2>2, <2>3 DEF Ids
  <2> QED
    BY <2>4 DEF r
<1>5. ASSUME q # <<>>
      PROVE  Ids(q) = {Head(q).id} \cup Ids(Tail(q))
  <2> DEFINE r == Tail(q)
  <2>1. /\ Len(r) = Len(q) - 1
        /\ \A i \in 1 .. Len(r) : r[i] = q[i + 1]
        /\ Head(q) = q[1]
    BY <1>5, HeadTailProperties
  <2>2. Len(q) >= 1
    BY <1>1, <1>5, EmptySeq
  <2> HIDE DEF r
  <2>3. \A i \in 1 .. Len(q) : i = 1 \/ (i - 1 \in 1 .. Len(r) /\ r[i - 1] = q[i])
    BY <1>1, <2>1
  <2>4. \A i \in 1 .. Len(r) : i + 1 \in 1 .. Len(q)
    BY <1>1, <2>1
  <2>5. 1 \in 1 .. Len(q)
    BY <1>1, <2>2
  <2>6. Ids(q) = {q[1].id} \cup Ids(r)
    BY <2>1, <2>3, <2>4, <2>5 DEF Ids
  <2> QED
    BY <2>1, <2>6 DEF r
<1> QED
    BY <1>2, <1>3, <1>4, <1>5

(* LastOf keeps the newest n events in their order.                          *)
LEMMA LastOfFacts ==
    ASSUME NEW q \in Seq(Events), NEW n \in Nat \ {0}
    PROVE  LET r == LastOf(q, n) IN
           /\ r \in Seq(Events)
           /\ Len(r) <= n /\ Len(r) <= Len(q)
           /\ \A i \in 1 .. Len(r) : r[i] = q[Len(q) - Len(r) + i]
<1>1. Len(q) \in Nat /\ \A i \in 1 .. Len(q) : q[i] \in Events
    BY ElementOfSeq, LenProperties
<1>2. CASE Len(q) > n
  <2> DEFINE m == Len(q) - n + 1
             r == SubSeq(q, m, Len(q))
  <2>1. /\ m \in Int /\ Len(q) \in Int /\ m <= Len(q)
        /\ \A i \in m .. Len(q) : q[i] \in Events
        /\ Len(q) - m + 1 = n
    BY <1>1, <1>2
  <2>2. /\ r \in Seq(Events)
        /\ Len(r) = IF m <= Len(q) THEN Len(q) - m + 1 ELSE 0
        /\ \A i \in 1 .. Len(q) - m + 1 : r[i] = q[m + i - 1]
    <3> HIDE DEF m
    <3> QED
      BY <2>1, SubSeqProperties DEF r
  <2>3. Len(r) = n /\ \A i \in 1 .. Len(r) : r[i] = q[Len(q) - Len(r) + i]
    <3>1. Len(r) = n /\ \A i \in 1 .. n : r[i] = q[m + i - 1]
      BY <2>1, <2>2
    <3>2. \A i \in 1 .. n : m + i - 1 = Len(q) - n + i
      BY <1>1
    <3> QED
      BY <3>1, <3>2
  <2>4. LastOf(q, n) = r
    BY <1>2 DEF LastOf
  <2> QED
    BY <1>1, <1>2, <2>2, <2>3, <2>4
<1>3. CASE ~(Len(q) > n)
    BY <1>1, <1>3 DEF LastOf
<1> QED
    BY <1>2, <1>3

-----------------------------------------------------------------------------
(* The invariant.                                                            *)

\* The replay buffer holds the newest events, numbered without a gap.
Numbered ==
    /\ Len(recent) <= nextID
    /\ \A i \in 1 .. Len(recent) : recent[i].id = nextID - Len(recent) + i

\* No event is numbered beyond the hub's counter.
SendingPast == \A p \in Publishers : sending[p].event.id <= nextID

Shown(s) == Ids(out[s]) \cup Ids(replay[s]) \cup Ids(chan[s])

\* A stream that is open is subscribed, and nobody knows one that is not yet.
RegisteredOf(s) ==
    /\ pc[s] \in {"replay", "live"} => s \in subscribers
    /\ pc[s] = "off" =>
         /\ s \notin subscribers
         /\ out[s] = <<>> /\ replay[s] = <<>> /\ chan[s] = <<>>
         /\ \A p \in Publishers : s \notin sending[p].to

PastOf(s) == \A id \in Shown(s) : id <= nextID

\* What is being sent to a stream has not reached it yet, and is sent by one
\* publisher only.
FreshOf(s) ==
    \A p \in Publishers : s \in sending[p].to =>
        /\ sending[p].event.id \notin Shown(s)
        /\ \A q \in Publishers \ {p} :
              s \in sending[q].to => sending[q].event.id # sending[p].event.id

\* NothingTwice and NothingLost of one stream.
OnceOf(s) == Cardinality(Shown(s)) = Len(out[s]) + Len(replay[s]) + Len(chan[s])

ReachedOf(s) ==
    pc[s] \in {"replay", "live"} =>
        \A id \in base[s] + 1 .. nextID :
            \/ id \in Shown(s) \cup missed[s]
            \/ \E p \in Publishers : s \in sending[p].to /\ sending[p].event.id = id

InvOf(s) == RegisteredOf(s) /\ PastOf(s) /\ FreshOf(s) /\ OnceOf(s) /\ ReachedOf(s)

StreamInv == Numbered /\ SendingPast /\ \A s \in Streams : InvOf(s)

\* The types of one stream's queues, and that its ids can be counted.
LEMMA ShownFacts ==
    ASSUME TypeOK, NEW s \in Streams, PastOf(s)
    PROVE  /\ out[s] \in Seq(Events) /\ replay[s] \in Seq(Events) /\ chan[s] \in Seq(Events)
           /\ Len(out[s]) \in Nat /\ Len(replay[s]) \in Nat /\ Len(chan[s]) \in Nat
           /\ Shown(s) \subseteq Nat
           /\ IsFiniteSet(Shown(s))
<1>1. /\ out[s] \in Seq(Events) /\ replay[s] \in Seq(Events) /\ chan[s] \in Seq(Events)
      /\ nextID \in Nat
    BY DEF TypeOK
<1>2. Shown(s) \in SUBSET Nat
    BY <1>1, IdsFacts DEF Shown
<1>3. IsFiniteSet(Shown(s))
    BY <1>1, <1>2, FS_BoundedSetOfNaturals DEF PastOf
<1> QED
    BY <1>1, <1>2, <1>3, LenProperties

\* The replay buffer covers the ids base + 1 .. nextID of a new subscription.
LEMMA RecentIds ==
    ASSUME TypeOK, Numbered
    PROVE  /\ nextID - Len(recent) \in Nat
           /\ Ids(recent) = nextID - Len(recent) + 1 .. nextID
           /\ Cardinality(Ids(recent)) = Len(recent)
<1>1. Len(recent) \in Nat /\ nextID \in Nat
    BY LenProperties DEF TypeOK
<1>2. nextID - Len(recent) \in Nat
    BY <1>1 DEF Numbered
<1>3. Ids(recent) = nextID - Len(recent) + 1 .. nextID
  <2>1. ASSUME NEW i \in 1 .. Len(recent)
        PROVE  recent[i].id \in nextID - Len(recent) + 1 .. nextID
    <3>1. recent[i].id = nextID - Len(recent) + i
      BY DEF Numbered
    <3>2. nextID - Len(recent) + i \in nextID - Len(recent) + 1 .. nextID
      BY <1>1, <1>2
    <3> QED
      BY <3>1, <3>2
  <2>2. \A n \in nextID - Len(recent) + 1 .. nextID :
           /\ n - (nextID - Len(recent)) \in 1 .. Len(recent)
           /\ recent[n - (nextID - Len(recent))].id = n
    BY <1>1, <1>2 DEF Numbered
  <2> QED
    BY <2>1, <2>2 DEF Ids
<1>4. Cardinality(Ids(recent)) = Len(recent)
  <2> DEFINE a == nextID - Len(recent) + 1
  <2>1. /\ a \in Int /\ nextID \in Int
        /\ (IF a > nextID THEN 0 ELSE nextID - a + 1) = Len(recent)
    BY <1>1, <1>2
  <2>2. Cardinality(a .. nextID) = IF a > nextID THEN 0 ELSE nextID - a + 1
    <3> HIDE DEF a
    <3> QED
      BY <2>1, FS_Interval
  <2> QED
    BY <1>3, <2>1, <2>2
<1> QED
    BY <1>2, <1>3, <1>4

-----------------------------------------------------------------------------
(* Type correctness.  That a subscription's base is a number needs Numbered. *)
LEMMA TypeStep ==
    ASSUME TypeOK, StreamInv, [Next]_vars
    PROVE  TypeOK'
<1> USE DEF hubVars
<1>1. CASE UNCHANGED vars
    BY <1>1 DEF TypeOK, vars
<1>2. ASSUME NEW p \in Publishers, Publish(p) PROVE TypeOK'
  <2> DEFINE e == [id |-> nextID + 1, from |-> p, type |-> Head(script[p])]
  <2>1. script[p] \in Seq(Types) /\ script[p] # <<>>
    BY <1>2 DEF TypeOK, Publish
  <2>2. Head(script[p]) \in Types /\ Tail(script[p]) \in Seq(Types)
    BY <2>1, HeadTailProperties
  <2>3. e \in Events
    BY <2>2 DEF TypeOK, Events
  <2>4. Append(recent, e) \in Seq(Events)
    BY <2>3, AppendProperties DEF TypeOK
  <2>5. recent' \in Seq(Events) /\ Len(recent') <= RecentMax
    BY <1>2, <2>4, LastOfFacts, StreamAssumption DEF Publish
  <2>6. sending' \in [Publishers -> [event : Events, to : SUBSET Streams]]
    <3>1. [event |-> e, to |-> subscribers] \in [event : Events, to : SUBSET Streams]
      BY <2>3 DEF TypeOK
    <3>2. sending' = [sending EXCEPT ![p] = [event |-> e, to |-> subscribers]]
      BY <1>2 DEF Publish
    <3> HIDE DEF e
    <3> QED
      BY <3>1, <3>2 DEF TypeOK
  <2> QED
    BY <1>2, <2>2, <2>5, <2>6 DEF TypeOK, Publish
<1>3. ASSUME NEW p \in Publishers, NEW s \in Streams, Send(p, s) PROVE TypeOK'
  <2>1. /\ sending[p] \in [event : Events, to : SUBSET Streams]
        /\ sending[p].event \in Events /\ sending[p].event.id \in Nat
    BY DEF TypeOK, Events
  <2>2. sending' \in [Publishers -> [event : Events, to : SUBSET Streams]]
    <3>1. [sending[p] EXCEPT !.to = @ \ {s}] \in [event : Events, to : SUBSET Streams]
      BY <2>1
    <3>2. sending' = [sending EXCEPT ![p] = [sending[p] EXCEPT !.to = @ \ {s}]]
      BY <1>3 DEF Send, TypeOK
    <3> QED
      BY <3>1, <3>2 DEF TypeOK
  <2>3. /\ Append(chan[s], sending[p].event) \in Seq(Events)
        /\ Len(Append(chan[s], sending[p].event)) = Len(chan[s]) + 1
    BY <2>1, AppendProperties DEF TypeOK
  <2>4. Len(chan[s]) < Cap => Len(chan[s]) + 1 <= Cap
    BY LenProperties, StreamAssumption DEF TypeOK
  <2>5. chan' \in [Streams -> Seq(Events)] /\ \A o \in Streams : Len(chan'[o]) <= Cap
    <3>1. \/ chan' = chan
          \/ Len(chan[s]) < Cap /\ chan' = [chan EXCEPT ![s] = Append(chan[s], sending[p].event)]
      BY <1>3 DEF Send
    <3> QED
      BY <2>3, <2>4, <3>1 DEF TypeOK
  <2>6. crashed' \in BOOLEAN /\ missed' \in [Streams -> SUBSET Nat]
    <3>1. missed[s] \cup {sending[p].event.id} \in SUBSET Nat
      BY <2>1 DEF TypeOK
    <3>2. /\ crashed' \in {TRUE, crashed}
          /\ \/ missed' = missed
             \/ missed' = [missed EXCEPT ![s] = missed[s] \cup {sending[p].event.id}]
      BY <1>3 DEF Send
    <3> QED
      BY <3>1, <3>2 DEF TypeOK
  <2> QED
    BY <1>3, <2>2, <2>5, <2>6 DEF TypeOK, Send
<1>4. ASSUME NEW s \in Streams, Open(s) PROVE TypeOK'
  <2>1. nextID - Len(recent) \in Nat
    BY RecentIds DEF StreamInv
  <2> QED
    BY <1>4, <2>1 DEF TypeOK, Open, Phases
<1>5. ASSUME NEW s \in Streams, Replay(s) PROVE TypeOK'
  <2>1. CASE replay[s] = <<>>
    BY <1>5, <2>1 DEF TypeOK, Replay, Phases
  <2>2. CASE replay[s] # <<>>
    <3>1. Head(replay[s]) \in Events /\ Tail(replay[s]) \in Seq(Events)
      BY <2>2, HeadTailProperties DEF TypeOK
    <3>2. Append(out[s], Head(replay[s])) \in Seq(Events)
      BY <3>1, AppendProperties DEF TypeOK
    <3> QED
      BY <1>5, <2>2, <3>1, <3>2 DEF TypeOK, Replay
  <2> QED
    BY <2>1, <2>2
<1>6. ASSUME NEW s \in Streams, Follow(s) PROVE TypeOK'
  <2>1. chan[s] \in Seq(Events) /\ chan[s] # <<>> /\ Len(chan[s]) <= Cap
    BY <1>6 DEF TypeOK, Follow
  <2>2. /\ Head(chan[s]) \in Events /\ Tail(chan[s]) \in Seq(Events)
        /\ Len(Tail(chan[s])) = Len(chan[s]) - 1
    BY <2>1, HeadTailProperties
  <2>3. Len(Tail(chan[s])) <= Cap
    BY <2>1, <2>2, LenProperties, StreamAssumption
  <2>4. Append(out[s], Head(chan[s])) \in Seq(Events)
    BY <2>2, AppendProperties DEF TypeOK
  <2>5. pc' \in [Streams -> Phases]
    BY <1>6 DEF TypeOK, Follow, Phases
  <2> QED
    BY <1>6, <2>2, <2>3, <2>4, <2>5 DEF TypeOK, Follow
<1>7. ASSUME NEW s \in Streams, Leave(s) \/ Unsubscribe(s) \/ Close(s) PROVE TypeOK'
  <2>1. pc' \in [Streams -> Phases]
    <3>1. \E l \in Phases : pc' = [pc EXCEPT ![s] = l]
      BY <1>7 DEF Leave, Unsubscribe, Close, Phases
    <3> QED
      BY <3>1 DEF TypeOK
  <2>3. subscribers' \subseteq Streams /\ leaves' \in Nat
    BY <1>7 DEF TypeOK, Leave, Unsubscribe, Close
  <2>2. UNCHANGED <<script, sending, nextID, recent, crashed, replay, chan, out, base, missed>>
    BY <1>7 DEF Leave, Unsubscribe, Close
  <2> QED
    BY <2>1, <2>2, <2>3 DEF TypeOK
<1> QED
    BY <1>1, <1>2, <1>3, <1>4, <1>5, <1>6, <1>7 DEF Next, PublisherStep, HandlerStep

-----------------------------------------------------------------------------
(* What the steps do to one stream.                                          *)

\* A step of another stream, or of a publisher sending elsewhere.
LEMMA Untouched ==
    ASSUME TypeOK, NEW s \in Streams, InvOf(s),
           nextID' = nextID, pc'[s] = pc[s], replay'[s] = replay[s],
           chan'[s] = chan[s], out'[s] = out[s], base'[s] = base[s],
           missed'[s] = missed[s], s \in subscribers' <=> s \in subscribers,
           \A p \in Publishers : /\ sending'[p].event = sending[p].event
                                 /\ s \in sending'[p].to <=> s \in sending[p].to
    PROVE  InvOf(s)'
<1>1. Shown(s)' = Shown(s)
    BY DEF Shown, Ids
<1>2. RegisteredOf(s)'
    BY DEF InvOf, RegisteredOf
<1>3. PastOf(s)' /\ OnceOf(s)'
    BY <1>1 DEF InvOf, PastOf, OnceOf
<1>4. FreshOf(s)'
    BY <1>1 DEF InvOf, FreshOf
<1>5. ReachedOf(s)'
    BY <1>1 DEF InvOf, ReachedOf
<1> QED
    BY <1>2, <1>3, <1>4, <1>5 DEF InvOf

\* What one queue loses another gains.
LEMMA SumKept ==
    ASSUME NEW a \in Nat, NEW b \in Nat, NEW c \in Nat
    PROVE  /\ (a + 1) + (b - 1) + c = a + b + c
           /\ (a + 1) + b + (c - 1) = a + b + c
    OBVIOUS

LEMMA SumGrows ==
    ASSUME NEW a \in Nat, NEW b \in Nat, NEW c \in Nat
    PROVE  a + b + (c + 1) = (a + b + c) + 1
    OBVIOUS

LEMMA OneMore ==
    ASSUME NEW S, IsFiniteSet(S), NEW x, x \notin S
    PROVE  Cardinality(S \cup {x}) = Cardinality(S) + 1
    BY FS_AddElement

\* An event moves from the replay, or from the channel, to the client, and
\* the stream stays open or is about to leave.
LEMMA Moved ==
    ASSUME TypeOK, NEW s \in Streams, InvOf(s),
           pc[s] \in {"replay", "live"}, pc'[s] \in {"replay", "live", "leaving"},
           nextID' = nextID, sending' = sending, base' = base, missed' = missed,
           subscribers' = subscribers,
           Shown(s)' = Shown(s),
           Len(out'[s]) + Len(replay'[s]) + Len(chan'[s])
               = Len(out[s]) + Len(replay[s]) + Len(chan[s])
    PROVE  InvOf(s)'
<1>1. RegisteredOf(s)'
    BY DEF InvOf, RegisteredOf
<1>2. PastOf(s)' /\ OnceOf(s)'
    BY DEF InvOf, PastOf, OnceOf
<1>3. FreshOf(s)'
    BY DEF InvOf, FreshOf
<1>4. ReachedOf(s)'
    BY DEF InvOf, ReachedOf
<1> QED
    BY <1>1, <1>2, <1>3, <1>4 DEF InvOf

\* The handler's own steps that write nothing.
LEMMA WaitInv ==
    ASSUME TypeOK, NEW s \in Streams, InvOf(s),
           Leave(s) \/ Unsubscribe(s) \/ Close(s)
    PROVE  InvOf(s)'
<1>1. /\ pc[s] # "off" /\ pc'[s] \in {"leaving", "closing", "closed"}
      /\ UNCHANGED <<nextID, sending, replay, chan, out, base, missed>>
    BY DEF TypeOK, Leave, Unsubscribe, Close, hubVars
<1>2. RegisteredOf(s)' /\ ReachedOf(s)'
    BY <1>1 DEF RegisteredOf, ReachedOf
<1>3. Shown(s)' = Shown(s)
    BY <1>1 DEF Shown, Ids
<1>4. PastOf(s)' /\ OnceOf(s)'
    BY <1>1, <1>3 DEF InvOf, PastOf, OnceOf
<1>5. FreshOf(s)'
    BY <1>1, <1>3 DEF InvOf, FreshOf
<1> QED
    BY <1>2, <1>4, <1>5 DEF InvOf

LEMMA ReplayInv ==
    ASSUME TypeOK, NEW s \in Streams, InvOf(s), Replay(s)
    PROVE  InvOf(s)'
<1>0. /\ out[s] \in Seq(Events) /\ replay[s] \in Seq(Events)
      /\ Len(out[s]) \in Nat /\ Len(replay[s]) \in Nat /\ Len(chan[s]) \in Nat
    BY ShownFacts DEF InvOf
<1>1. /\ pc[s] = "replay" /\ pc'[s] \in {"replay", "live"}
      /\ nextID' = nextID /\ sending' = sending /\ base' = base /\ missed' = missed
      /\ subscribers' = subscribers /\ chan' = chan
    BY DEF TypeOK, Replay, hubVars
<1>2. CASE replay[s] = <<>>
  <2>1. replay' = replay /\ out' = out
    BY <1>2 DEF Replay
  <2>2. Shown(s)' = Shown(s)
    BY <1>1, <2>1 DEF Shown, Ids
  <2> QED
    BY <1>1, <2>1, <2>2, Moved
<1>3. CASE replay[s] # <<>>
  <2>1. out'[s] = Append(out[s], Head(replay[s])) /\ replay'[s] = Tail(replay[s])
    BY <1>3 DEF Replay, TypeOK
  <2>2. /\ Head(replay[s]) \in Events
        /\ Len(Tail(replay[s])) = Len(replay[s]) - 1
        /\ Ids(replay[s]) = {Head(replay[s]).id} \cup Ids(Tail(replay[s]))
    BY <1>0, <1>3, HeadTailProperties, IdsFacts
  <2>3. /\ Len(out'[s]) = Len(out[s]) + 1
        /\ Ids(out'[s]) = Ids(out[s]) \cup {Head(replay[s]).id}
    BY <1>0, <2>1, <2>2, AppendProperties, IdsFacts
  <2>4. Shown(s)' = Shown(s)
    <3>1. Shown(s)' = Ids(out'[s]) \cup Ids(replay'[s]) \cup Ids(chan'[s])
      BY DEF Shown, Ids
    <3> QED
      BY <1>1, <2>1, <2>2, <2>3, <3>1 DEF Shown
  <2>5. Len(out'[s]) + Len(replay'[s]) + Len(chan'[s])
            = Len(out[s]) + Len(replay[s]) + Len(chan[s])
    <3>1. /\ Len(out'[s]) = Len(out[s]) + 1
          /\ Len(replay'[s]) = Len(replay[s]) - 1
          /\ Len(chan'[s]) = Len(chan[s])
      BY <1>1, <2>1, <2>2, <2>3
    <3>2. (Len(out[s]) + 1) + (Len(replay[s]) - 1) + Len(chan[s])
              = Len(out[s]) + Len(replay[s]) + Len(chan[s])
      BY <1>0, SumKept
    <3> QED
      BY <3>1, <3>2
  <2> QED
    BY <1>1, <2>4, <2>5, Moved
<1> QED
    BY <1>2, <1>3

LEMMA FollowInv ==
    ASSUME TypeOK, NEW s \in Streams, InvOf(s), Follow(s)
    PROVE  InvOf(s)'
<1>0. /\ out[s] \in Seq(Events) /\ chan[s] \in Seq(Events)
      /\ Len(out[s]) \in Nat /\ Len(replay[s]) \in Nat /\ Len(chan[s]) \in Nat
    BY ShownFacts DEF InvOf
<1>1. /\ pc[s] = "live" /\ pc'[s] \in {"live", "leaving"} /\ chan[s] # <<>>
      /\ nextID' = nextID /\ sending' = sending /\ base' = base /\ missed' = missed
      /\ subscribers' = subscribers /\ replay' = replay
    BY DEF TypeOK, Follow, hubVars
<1>2. out'[s] = Append(out[s], Head(chan[s])) /\ chan'[s] = Tail(chan[s])
    BY DEF Follow, TypeOK
<1>3. /\ Head(chan[s]) \in Events
      /\ Len(Tail(chan[s])) = Len(chan[s]) - 1
      /\ Ids(chan[s]) = {Head(chan[s]).id} \cup Ids(Tail(chan[s]))
    BY <1>0, <1>1, HeadTailProperties, IdsFacts
<1>4. /\ Len(out'[s]) = Len(out[s]) + 1
      /\ Ids(out'[s]) = Ids(out[s]) \cup {Head(chan[s]).id}
    BY <1>0, <1>2, <1>3, AppendProperties, IdsFacts
<1>5. Shown(s)' = Shown(s)
  <2>1. Shown(s)' = Ids(out'[s]) \cup Ids(replay'[s]) \cup Ids(chan'[s])
    BY DEF Shown, Ids
  <2> QED
    BY <1>1, <1>2, <1>3, <1>4, <2>1 DEF Shown
<1>6. Len(out'[s]) + Len(replay'[s]) + Len(chan'[s])
          = Len(out[s]) + Len(replay[s]) + Len(chan[s])
  <2>1. /\ Len(out'[s]) = Len(out[s]) + 1
        /\ Len(replay'[s]) = Len(replay[s])
        /\ Len(chan'[s]) = Len(chan[s]) - 1
    BY <1>1, <1>2, <1>3, <1>4
  <2> QED
    <3>1. (Len(out[s]) + 1) + Len(replay[s]) + (Len(chan[s]) - 1)
              = Len(out[s]) + Len(replay[s]) + Len(chan[s])
      BY <1>0, SumKept
    <3> QED
      BY <2>1, <3>1
<1> QED
    BY <1>1, <1>5, <1>6, Moved

\* Subscribing owes the stream what the hub still holds.
LEMMA OpenInv ==
    ASSUME TypeOK, Numbered, NEW s \in Streams, InvOf(s), Open(s)
    PROVE  InvOf(s)'
<1>0. Len(recent) \in Nat /\ nextID \in Nat
    BY LenProperties DEF TypeOK
<1>1. /\ pc[s] = "off" /\ pc'[s] = "replay"
      /\ nextID' = nextID /\ sending' = sending
      /\ subscribers' = subscribers \cup {s}
      /\ replay'[s] = recent /\ base'[s] = nextID - Len(recent)
      /\ out' = out /\ chan' = chan
    BY DEF TypeOK, Open, hubVars
<1>2. /\ out[s] = <<>> /\ chan[s] = <<>>
      /\ \A p \in Publishers : s \notin sending[p].to
    BY <1>1 DEF InvOf, RegisteredOf
<1>3. Ids(<<>>) = {} /\ Len(<<>>) = 0
    BY EmptySeq DEF Ids
<1>4. Shown(s)' = Ids(recent)
  <2>1. Shown(s)' = Ids(out'[s]) \cup Ids(replay'[s]) \cup Ids(chan'[s])
    BY DEF Shown, Ids
  <2> QED
    BY <1>1, <1>2, <1>3, <2>1
<1>5. RegisteredOf(s)' /\ FreshOf(s)'
    BY <1>1, <1>2 DEF RegisteredOf, FreshOf
<1>6. PastOf(s)'
    BY <1>0, <1>1, <1>4, RecentIds DEF PastOf
<1>7. OnceOf(s)'
    BY <1>0, <1>1, <1>2, <1>3, <1>4, RecentIds DEF OnceOf
<1>8. ReachedOf(s)'
    BY <1>1, <1>4, RecentIds DEF ReachedOf
<1> QED
    BY <1>5, <1>6, <1>7, <1>8 DEF InvOf

\* The send reaches the stream, or finds its channel full or closed.
LEMMA SendInv ==
    ASSUME TypeOK, SendingPast, NEW p \in Publishers, NEW s \in Streams, InvOf(s), Send(p, s)
    PROVE  InvOf(s)'
<1> DEFINE id == sending[p].event.id
<1>0. /\ chan[s] \in Seq(Events) /\ sending[p].event \in Events /\ id \in Nat /\ id <= nextID
      /\ Len(out[s]) \in Nat /\ Len(replay[s]) \in Nat /\ Len(chan[s]) \in Nat
      /\ IsFiniteSet(Shown(s)) /\ nextID \in Nat
  <2>1. sending[p].event \in Events /\ nextID \in Nat
    BY DEF TypeOK
  <2> QED
    BY <2>1, ShownFacts DEF InvOf, SendingPast, Events
<1>1. /\ s \in sending[p].to
      /\ nextID' = nextID /\ subscribers' = subscribers /\ pc' = pc
      /\ replay' = replay /\ out' = out /\ base' = base
    BY DEF Send
<1>2. /\ \A q \in Publishers : sending'[q].event = sending[q].event
      /\ \A q \in Publishers \ {p} : sending'[q].to = sending[q].to
      /\ sending'[p].to = sending[p].to \ {s}
    BY DEF Send, TypeOK
<1>3. id \notin Shown(s)
    BY <1>1 DEF InvOf, FreshOf
<1>4. pc[s] # "off"
    BY <1>1 DEF InvOf, RegisteredOf
<1>5. RegisteredOf(s)'
    BY <1>1, <1>4 DEF InvOf, RegisteredOf
<1>6. CASE chan'[s] = Append(chan[s], sending[p].event) /\ missed'[s] = missed[s]
  <2>1. Len(chan'[s]) = Len(chan[s]) + 1 /\ Ids(chan'[s]) = Ids(chan[s]) \cup {id}
    BY <1>0, <1>6, AppendProperties, IdsFacts
  <2>2. Shown(s)' = Shown(s) \cup {id}
    <3>1. Shown(s)' = Ids(out'[s]) \cup Ids(replay'[s]) \cup Ids(chan'[s])
      BY DEF Shown, Ids
    <3> QED
      BY <1>1, <2>1, <3>1 DEF Shown
  <2>3. Cardinality(Shown(s) \cup {id}) = Cardinality(Shown(s)) + 1
    BY <1>0, <1>3, OneMore
  <2>4. OnceOf(s)'
    <3>1. Cardinality(Shown(s)) = Len(out[s]) + Len(replay[s]) + Len(chan[s])
      BY DEF InvOf, OnceOf
    <3>2. Cardinality(Shown(s)') = Cardinality(Shown(s)) + 1
      BY <2>2, <2>3
    <3>3. Len(out[s]) + Len(replay[s]) + (Len(chan[s]) + 1)
              = (Len(out[s]) + Len(replay[s]) + Len(chan[s])) + 1
      <4>1. Len(out[s]) \in Nat /\ Len(replay[s]) \in Nat /\ Len(chan[s]) \in Nat
        BY <1>0
      <4> QED
        BY <4>1, SumGrows
    <3>4. Len(out'[s]) + Len(replay'[s]) + Len(chan'[s])
              = Len(out[s]) + Len(replay[s]) + (Len(chan[s]) + 1)
      BY <1>1, <2>1
    <3> QED
      BY <3>1, <3>2, <3>3, <3>4 DEF OnceOf
  <2>5. PastOf(s)'
    BY <1>0, <1>1, <2>2 DEF InvOf, PastOf
  <2>6. FreshOf(s)'
    BY <1>1, <1>2, <2>2 DEF InvOf, FreshOf
  <2>7. ReachedOf(s)'
    BY <1>1, <1>2, <1>6, <2>2 DEF InvOf, ReachedOf
  <2> QED
    BY <1>5, <2>4, <2>5, <2>6, <2>7 DEF InvOf
<1>7. CASE chan'[s] = chan[s] /\ (missed'[s] = missed[s] \cup {id} \/ pc[s] = "closed")
  <2>1. Shown(s)' = Shown(s)
    <3>1. Shown(s)' = Ids(out'[s]) \cup Ids(replay'[s]) \cup Ids(chan'[s])
      BY DEF Shown, Ids
    <3> QED
      BY <1>1, <1>7, <3>1 DEF Shown
  <2>2. OnceOf(s)' /\ PastOf(s)'
    BY <1>1, <1>7, <2>1 DEF InvOf, OnceOf, PastOf
  <2>3. FreshOf(s)'
    BY <1>1, <1>2, <2>1 DEF InvOf, FreshOf
  <2>4. ReachedOf(s)'
    BY <1>1, <1>2, <1>7, <2>1 DEF InvOf, ReachedOf
  <2> QED
    BY <1>5, <2>2, <2>3, <2>4 DEF InvOf
<1> QED
    BY <1>6, <1>7 DEF Send, TypeOK

\* A new event is fresh for everybody, and owed to whoever is subscribed.
LEMMA PublishInv ==
    ASSUME TypeOK, SendingPast, NEW p \in Publishers, Publish(p),
           NEW s \in Streams, InvOf(s)
    PROVE  InvOf(s)'
<1>0. nextID \in Nat /\ subscribers \subseteq Streams /\ Shown(s) \subseteq Nat
    BY ShownFacts DEF TypeOK, InvOf
<1>1. /\ sending[p].to = {} /\ nextID' = nextID + 1
      /\ UNCHANGED <<subscribers, pc, replay, chan, out, base, missed>>
    BY DEF Publish
<1>2. /\ sending'[p].event.id = nextID + 1 /\ sending'[p].to = subscribers
      /\ \A q \in Publishers \ {p} : sending'[q] = sending[q]
    BY DEF Publish, TypeOK
<1>3. \A q \in Publishers : sending[q].event.id \in Nat /\ sending[q].event.id <= nextID
    BY DEF SendingPast, TypeOK, Events
<1>4. Shown(s)' = Shown(s)
    BY <1>1 DEF Shown, Ids
<1>5. RegisteredOf(s)'
    BY <1>1, <1>2 DEF InvOf, RegisteredOf
<1>6. PastOf(s)' /\ OnceOf(s)'
    BY <1>0, <1>1, <1>4 DEF InvOf, PastOf, OnceOf
<1>7. FreshOf(s)'
  <2>1. nextID + 1 \notin Shown(s)
    BY <1>0 DEF InvOf, PastOf
  <2>2. \A q \in Publishers \ {p} : sending'[q].event.id # nextID + 1
    BY <1>0, <1>2, <1>3
  <2> QED
    BY <1>2, <1>4, <2>1, <2>2 DEF InvOf, FreshOf
<1>8. ReachedOf(s)'
  <2> SUFFICES ASSUME pc[s] \in {"replay", "live"}, NEW id \in base[s] + 1 .. nextID + 1
               PROVE  \/ id \in Shown(s) \cup missed[s]
                      \/ \E q \in Publishers : s \in sending'[q].to /\ sending'[q].event.id = id
    BY <1>1, <1>4 DEF ReachedOf
  <2>1. CASE id = nextID + 1
    BY <1>2, <2>1 DEF InvOf, RegisteredOf
  <2>2. CASE id # nextID + 1
    <3>1. id \in base[s] + 1 .. nextID
      BY <1>0, <2>2 DEF TypeOK
    <3>2. CASE id \in Shown(s) \cup missed[s]
      BY <3>2
    <3>3. CASE \E q \in Publishers : s \in sending[q].to /\ sending[q].event.id = id
      BY <1>1, <1>2, <3>3
    <3> QED
      BY <3>1, <3>2, <3>3 DEF InvOf, ReachedOf
  <2> QED
    BY <2>1, <2>2
<1> QED
    BY <1>5, <1>6, <1>7, <1>8 DEF InvOf

\* The buffer stays numbered when it takes an event and lets the oldest go.
LEMMA PublishNumbered ==
    ASSUME TypeOK, Numbered, SendingPast, NEW p \in Publishers, Publish(p)
    PROVE  Numbered' /\ SendingPast'
<1> DEFINE e == [id |-> nextID + 1, from |-> p, type |-> Head(script[p])]
           q == Append(recent, e)
<1>1. /\ recent' = LastOf(q, RecentMax)
      /\ sending' = [sending EXCEPT ![p] = [event |-> e, to |-> subscribers]]
      /\ nextID' = nextID + 1
    BY DEF Publish
<1>2. e \in Events /\ e.id = nextID + 1
  <2>1. script[p] \in Seq(Types) /\ script[p] # <<>>
    BY DEF TypeOK, Publish
  <2>2. Head(script[p]) \in Types
    BY <2>1, HeadTailProperties
  <2> QED
    BY <2>2 DEF TypeOK, Events
<1> HIDE DEF e
<1>3. /\ nextID \in Nat /\ Len(recent) \in Nat /\ q \in Seq(Events)
      /\ Len(q) = Len(recent) + 1
      /\ \A i \in 1 .. Len(recent) : q[i] = recent[i]
      /\ q[Len(recent) + 1] = e
    BY <1>2, AppendProperties, LenProperties DEF TypeOK
<1> HIDE DEF q
<1>4. ASSUME NEW i \in 1 .. Len(q) PROVE q[i].id = nextID + 1 - Len(q) + i
  <2>1. CASE i \in 1 .. Len(recent)
    <3>1. q[i].id = nextID - Len(recent) + i
      BY <1>3, <2>1 DEF Numbered
    <3> QED
      BY <1>3, <3>1
  <2>2. CASE i = Len(recent) + 1
    <3>1. q[i].id = nextID + 1
      BY <1>2, <1>3, <2>2
    <3> QED
      BY <1>3, <2>2, <3>1
  <2> QED
    BY <1>3, <2>1, <2>2
<1>5. /\ recent' \in Seq(Events) /\ Len(recent') \in Nat /\ Len(recent') <= Len(q)
      /\ \A i \in 1 .. Len(recent') : recent'[i] = q[Len(q) - Len(recent') + i]
    BY <1>1, <1>3, LastOfFacts, LenProperties, StreamAssumption
<1>6. Len(recent') <= nextID'
    BY <1>1, <1>3, <1>5 DEF Numbered
<1>7. ASSUME NEW i \in 1 .. Len(recent') PROVE recent'[i].id = nextID' - Len(recent') + i
  <2> DEFINE j == Len(q) - Len(recent') + i
  <2>1. j \in 1 .. Len(q) /\ recent'[i] = q[j]
    BY <1>3, <1>5
  <2>2. recent'[i].id = nextID + 1 - Len(q) + j
    <3> HIDE DEF j
    <3> QED
      BY <1>4, <2>1
  <2> QED
    BY <1>1, <1>3, <1>5, <2>2
<1>8. SendingPast'
  <2>1. \A r \in Publishers : sending[r].event.id \in Nat
    BY DEF TypeOK, Events
  <2> QED
    BY <1>1, <1>2, <1>3, <2>1 DEF SendingPast, TypeOK
<1> QED
    BY <1>6, <1>7, <1>8 DEF Numbered

\* Every step keeps the invariant.
LEMMA StreamInvStep ==
    ASSUME TypeOK, StreamInv, [Next]_vars
    PROVE  StreamInv'
<1> USE DEF StreamInv
<1>1. CASE UNCHANGED vars
  <2>1. Numbered' /\ SendingPast'
    BY <1>1 DEF vars, Numbered, SendingPast
  <2>2. \A s \in Streams : InvOf(s)'
    BY <1>1, Untouched DEF vars
  <2> QED
    BY <2>1, <2>2
<1>2. ASSUME NEW p \in Publishers, Publish(p) PROVE StreamInv'
    BY <1>2, PublishInv, PublishNumbered
<1>3. ASSUME NEW p \in Publishers, NEW s \in Streams, Send(p, s) PROVE StreamInv'
  <2>1. /\ nextID' = nextID /\ recent' = recent
        /\ \A q \in Publishers : sending'[q].event = sending[q].event
        /\ \A q \in Publishers : \A o \in Streams \ {s} :
              o \in sending'[q].to <=> o \in sending[q].to
        /\ UNCHANGED <<subscribers, pc, replay, out, base>>
        /\ \A o \in Streams \ {s} : chan'[o] = chan[o] /\ missed'[o] = missed[o]
    BY <1>3 DEF Send, TypeOK
  <2>2. Numbered' /\ SendingPast'
    BY <2>1 DEF Numbered, SendingPast
  <2>3. InvOf(s)'
    BY <1>3, SendInv
  <2>4. \A o \in Streams \ {s} : InvOf(o)'
    BY <2>1, Untouched
  <2> QED
    BY <2>2, <2>3, <2>4
<1>4. ASSUME NEW s \in Streams,
             \/ Open(s) \/ Leave(s)
             \/ Replay(s) \/ Follow(s) \/ Unsubscribe(s) \/ Close(s)
      PROVE  StreamInv'
  <2>1. /\ UNCHANGED <<script, sending, nextID, recent>>
        /\ \A o \in Streams \ {s} :
              /\ pc'[o] = pc[o] /\ replay'[o] = replay[o] /\ chan'[o] = chan[o]
              /\ out'[o] = out[o] /\ base'[o] = base[o] /\ missed'[o] = missed[o]
              /\ o \in subscribers' <=> o \in subscribers
    BY <1>4 DEF TypeOK, Open, Leave, Replay, Follow, Unsubscribe, Close, hubVars
  <2>2. Numbered' /\ SendingPast'
    BY <2>1 DEF Numbered, SendingPast
  <2>3. InvOf(s)'
    BY <1>4, OpenInv, ReplayInv, FollowInv, WaitInv
  <2>4. \A o \in Streams \ {s} : InvOf(o)'
    BY <2>1, Untouched
  <2> QED
    BY <2>2, <2>3, <2>4
<1> QED
    BY <1>1, <1>2, <1>3, <1>4 DEF Next, PublisherStep, HandlerStep

LEMMA StreamInductive == Spec => [](TypeOK /\ StreamInv)
<1>1. Init => TypeOK /\ StreamInv
  <2> SUFFICES ASSUME Init PROVE TypeOK /\ StreamInv
    OBVIOUS
  <2>1. ASSUME NEW p \in Publishers PROVE NoEvent \in Events
    <3>1. (CHOOSE q \in Publishers : TRUE) \in Publishers
      BY <2>1
    <3> QED
      BY <3>1 DEF NoEvent, Events, Types
  <2>2. Len(<<>>) = 0 /\ Ids(<<>>) = {} /\ Cardinality({}) = 0 /\ <<>> \in Seq(Events)
    <3>1. Len(<<>>) = 0 /\ <<>> \in Seq(Events)
      BY EmptySeq
    <3> QED
      BY <3>1, FS_EmptySet DEF Ids
  <2>3. TypeOK
    <3>1. script \in [Publishers -> Seq(Types)]
      BY StreamAssumption DEF Init
    <3>2. sending \in [Publishers -> [event : Events, to : SUBSET Streams]]
      BY <2>1 DEF Init, Idle
    <3>3. pc \in [Streams -> Phases]
      BY DEF Init, Phases
    <3>4. Len(<<>>) <= RecentMax /\ Len(<<>>) <= Cap
      BY <2>2, StreamAssumption
    <3> QED
      BY <2>2, <3>1, <3>2, <3>3, <3>4 DEF Init, TypeOK
  <2>4. Numbered /\ SendingPast
    BY <2>2 DEF Init, Numbered, SendingPast, Idle, NoEvent
  <2>5. ASSUME NEW s \in Streams PROVE InvOf(s)
    <3>1. Shown(s) = {}
      BY <2>2 DEF Init, Shown
    <3>2. RegisteredOf(s)
      BY DEF Init, RegisteredOf, Idle
    <3>3. PastOf(s) /\ OnceOf(s)
      BY <2>2, <3>1 DEF Init, PastOf, OnceOf
    <3>4. FreshOf(s) /\ ReachedOf(s)
      BY DEF Init, FreshOf, ReachedOf, Idle
    <3> QED
      BY <3>2, <3>3, <3>4 DEF InvOf
  <2> QED
    BY <2>3, <2>4, <2>5 DEF StreamInv
<1>2. TypeOK /\ StreamInv /\ [Next]_vars => (TypeOK /\ StreamInv)'
    BY TypeStep, StreamInvStep
<1> QED
    BY <1>1, <1>2, PTL DEF Spec

\* Every variable keeps its type.
THEOREM StreamTypeCorrect == Spec => []TypeOK
    BY StreamInductive, PTL

\* What the replay holds never comes on the channel as well, whoever publishes
\* while a stream subscribes (NothingTwice).
THEOREM ShownOnce == Spec => []NothingTwice
<1>1. StreamInv => NothingTwice
    BY DEF StreamInv, InvOf, OnceOf, Shown, NothingTwice
<1> QED
    BY <1>1, StreamInductive, PTL

\* Every event since the oldest replayed is written, on its way, or was
\* dropped from a full channel (NothingLost).
THEOREM NothingFallsBetween == Spec => []NothingLost
<1>1. StreamInv => NothingLost
    BY DEF StreamInv, InvOf, ReachedOf, Shown, NothingLost
<1> QED
    BY <1>1, StreamInductive, PTL

-----------------------------------------------------------------------------
(* RoomSync.  That the cursor skips nothing is inductive with four facts:   *)
(* every row is stored, given up or on its way (Known), the cursor has      *)
(* passed only what is stored or jumped (Passed), a handler marks only what *)
(* it has stored (Marking), and the page that sync works through holds what *)
(* lies between the cursor it read and the one it will write (PageIsWhole), *)
(* although handlers move the cursor meanwhile.                             *)

SyncTypes ==
    /\ rows \in 0..MaxMessages /\ routing \in [Senders -> 0..rows]
    /\ frames \in Seq(Nat) /\ ToSet(frames) \subseteq 1..rows
    /\ page \in Seq(Nat) /\ ToSet(page) \subseteq 1..rows
    /\ cursor \in 0..rows /\ upTo \in 0..rows
    /\ handling \in [Messages -> {"no", "saving", "marking", "showing"}]
    /\ \A s \in Messages : handling[s] # "no" => s <= rows

Known ==
    \A s \in 1..rows : s \in stored \/ s \in UNION {unheard, failed, cut} \/ OnItsWay(s)

Passed == \A s \in 1..cursor : s \in stored \/ s \in jumped

Marking == \A s \in Messages : handling[s] = "marking" => s \in stored

PageIsWhole ==
    window = "saving" => \A s \in 1..upTo : s \in stored \/ s \in jumped \/ s \in ToSet(page)

CopyInv == SyncTypes /\ Known /\ Passed /\ Marking /\ PageIsWhole

\* A queue with one more element, and one without its first.
LEMMA QueueGrows ==
    ASSUME NEW q \in Seq(Nat), NEW n \in Nat
    PROVE  Append(q, n) \in Seq(Nat) /\ ToSet(Append(q, n)) = ToSet(q) \cup {n}
<1>1. Append(q, n) \in Seq(Nat) /\ Len(Append(q, n)) = Len(q) + 1
  BY AppendProperties
<1>2. /\ \A i \in 1..Len(q) : Append(q, n)[i] = q[i]
      /\ Append(q, n)[Len(q) + 1] = n
  BY AppendProperties
<1>3. Len(q) \in Nat /\ DOMAIN q = 1..Len(q) /\ DOMAIN Append(q, n) = 1..(Len(q) + 1)
  BY <1>1, LenProperties
<1>4. ASSUME NEW x PROVE x \in ToSet(Append(q, n)) <=> x \in ToSet(q) \/ x = n
  <2>1. x \in ToSet(Append(q, n)) <=> \E i \in 1..(Len(q) + 1) : Append(q, n)[i] = x
    BY <1>3 DEF ToSet
  <2>2. x \in ToSet(q) <=> \E i \in 1..Len(q) : q[i] = x
    BY <1>3 DEF ToSet
  <2>3. \A i : i \in 1..(Len(q) + 1) <=> i \in 1..Len(q) \/ i = Len(q) + 1
    BY <1>3
  <2> QED  BY <2>1, <2>2, <2>3, <1>2
<1> QED  BY <1>1, <1>4

LEMMA QueueShrinks ==
    ASSUME NEW q \in Seq(Nat), q # <<>>
    PROVE  /\ Tail(q) \in Seq(Nat) /\ Head(q) \in Nat
           /\ ToSet(q) = ToSet(Tail(q)) \cup {Head(q)}
<1>1. /\ Tail(q) \in Seq(Nat) /\ Head(q) \in Nat /\ Head(q) = q[1]
      /\ Len(q) \in Nat /\ Len(q) > 0 /\ Len(Tail(q)) = Len(q) - 1
      /\ \A i \in 1..(Len(q) - 1) : Tail(q)[i] = q[i + 1]
  BY HeadTailProperties, EmptySeq, LenProperties, ElementOfSeq
<1>2. DOMAIN q = 1..Len(q) /\ DOMAIN Tail(q) = 1..(Len(q) - 1)
  BY <1>1, LenProperties
<1>3. ASSUME NEW x PROVE x \in ToSet(q) <=> x \in ToSet(Tail(q)) \/ x = Head(q)
  <2>1. x \in ToSet(q) <=> \E i \in 1..Len(q) : q[i] = x
    BY <1>2 DEF ToSet
  <2>2. x \in ToSet(Tail(q)) <=> \E i \in 1..(Len(q) - 1) : Tail(q)[i] = x
    BY <1>2 DEF ToSet
  <2>3. \A i \in 1..Len(q) : i = 1 \/ (i - 1 \in 1..(Len(q) - 1) /\ (i - 1) + 1 = i)
    BY <1>1
  <2>4. \A i \in 1..(Len(q) - 1) : i + 1 \in 1..Len(q)
    BY <1>1
  <2>5. 1 \in 1..Len(q)
    BY <1>1
  <2>6. x \in ToSet(q) => x \in ToSet(Tail(q)) \/ x = Head(q)
    <3>1. SUFFICES ASSUME NEW i \in 1..Len(q), q[i] = x
                   PROVE  x \in ToSet(Tail(q)) \/ x = Head(q)
      BY <2>1
    <3>2. CASE i = 1
      BY <3>1, <3>2, <1>1
    <3>3. CASE i - 1 \in 1..(Len(q) - 1) /\ (i - 1) + 1 = i
      BY <3>1, <3>3, <1>1, <2>2
    <3> QED  BY <3>2, <3>3, <2>3
  <2>7. x \in ToSet(Tail(q)) \/ x = Head(q) => x \in ToSet(q)
    BY <2>1, <2>2, <2>4, <2>5, <1>1
  <2> QED  BY <2>6, <2>7
<1> QED  BY <1>1, <1>3

LEMMA EmptyQueue == <<>> \in Seq(Nat) /\ ToSet(<<>>) = {}
BY EmptySeq DEF ToSet

\* The page of the rows after a number holds the next rows without a gap.
LEMMA AfterFacts ==
    ASSUME rows \in Nat, NEW s \in 0..rows
    PROVE  /\ After(s) \in Seq(Nat) /\ ToSet(After(s)) \subseteq 1..rows
           /\ After(s) # <<>> =>
                 /\ Last(After(s)) \in s..rows
                 /\ \A t \in (s + 1)..Last(After(s)) : t \in ToSet(After(s))
<1> DEFINE n == Min({rows - s, HistoryLimit})
<1>1. HistoryLimit \in Nat /\ HistoryLimit > 0
  BY SyncAssumption
<1>2. n \in Nat /\ n <= rows - s
  <2>1. \E x \in {rows - s, HistoryLimit} : \A y \in {rows - s, HistoryLimit} : x <= y
    BY <1>1
  <2>2. n \in {rows - s, HistoryLimit} /\ \A y \in {rows - s, HistoryLimit} : n <= y
    BY <2>1 DEF Min
  <2> QED  BY <2>2, <1>1
<1> HIDE DEF n
<1>3. After(s) = [i \in 1..n |-> s + i]
  BY DEF After, n
<1>4. /\ After(s) \in Seq(Nat) /\ Len(After(s)) = n /\ DOMAIN After(s) = 1..n
      /\ \A i \in 1..n : After(s)[i] = s + i
  <2>1. \A i \in 1..n : s + i \in Nat
    BY <1>2
  <2>2. After(s) \in [1..n -> Nat]
    BY <1>3, <2>1
  <2>3. After(s) \in Seq(Nat)
    BY <1>2, <2>2 DEF Seq
  <2>4. Len(After(s)) \in Nat /\ DOMAIN After(s) = 1..Len(After(s))
    BY <2>3, LenProperties
  <2>5. DOMAIN After(s) = 1..n
    BY <1>3
  <2>6. Len(After(s)) = n
    <3>1. ASSUME NEW m \in Nat, NEW l \in Nat, 1..m = 1..l PROVE m <= l
      <4>1. m = 0 \/ m \in 1..l
        BY <3>1
      <4>2. CASE m \in 1..l
        BY <4>2
      <4>3. CASE m = 0
        BY <4>3
      <4> QED  BY <4>1, <4>2, <4>3
    <3> DEFINE k == Len(After(s))
    <3>2. k \in Nat /\ 1..k = 1..n
      BY <2>4, <2>5
    <3> HIDE DEF k
    <3>3. k <= n /\ n <= k
      BY <3>1, <3>2, <1>2
    <3>4. k = n
      BY <3>2, <3>3, <1>2
    <3> QED  BY <3>4 DEF k
  <2> QED  BY <2>3, <2>5, <2>6, <1>3
<1>5. ToSet(After(s)) \subseteq 1..rows
  BY <1>2, <1>4 DEF ToSet
<1>6. ASSUME After(s) # <<>>
      PROVE  /\ Last(After(s)) \in s..rows
             /\ \A t \in (s + 1)..Last(After(s)) : t \in ToSet(After(s))
  <2>1. n > 0
    BY <1>2, <1>4, <1>6, EmptySeq
  <2>2. Last(After(s)) = s + n
    BY <2>1, <1>2, <1>4 DEF Last
  <2>3. ASSUME NEW t \in (s + 1)..(s + n) PROVE t \in ToSet(After(s))
    <3>1. t - s \in 1..n /\ s + (t - s) = t
      BY <1>2
    <3> QED  BY <3>1, <1>4 DEF ToSet
  <2> QED  BY <2>2, <2>3, <1>2
<1> QED  BY <1>4, <1>5, <1>6

LEMMA CopyInitially == SyncInit => CopyInv
<1> SUFFICES ASSUME SyncInit PROVE CopyInv
  OBVIOUS
<1>1. MaxMessages \in Nat
  BY SyncAssumption
<1>2. /\ rows = 0 /\ routing = [a \in Senders |-> 0] /\ frames = <<>> /\ page = <<>>
      /\ cursor = 0 /\ upTo = 0 /\ handling = [s \in Messages |-> "no"] /\ window = "closed"
  BY DEF SyncInit
<1>3. SyncTypes
  BY <1>1, <1>2, EmptyQueue DEF SyncTypes
<1>4. Known /\ Passed /\ PageIsWhole
  BY <1>2 DEF Known, Passed, PageIsWhole
<1>5. Marking
  BY <1>2 DEF Marking
<1> QED  BY <1>3, <1>4, <1>5 DEF CopyInv

\* What is given up, stored or jumped stays so.
LEMMA CopyTypesStep == CopyInv /\ SyncNext => SyncTypes'
<1> SUFFICES ASSUME CopyInv, SyncNext PROVE SyncTypes'
  OBVIOUS
<1>0. /\ rows \in 0..MaxMessages /\ routing \in [Senders -> 0..rows]
      /\ frames \in Seq(Nat) /\ ToSet(frames) \subseteq 1..rows
      /\ page \in Seq(Nat) /\ ToSet(page) \subseteq 1..rows
      /\ cursor \in 0..rows /\ upTo \in 0..rows
      /\ handling \in [Messages -> {"no", "saving", "marking", "showing"}]
      /\ \A s \in Messages : handling[s] # "no" => s <= rows
  BY DEF CopyInv, SyncTypes
<1> USE SyncAssumption
<1>1. ASSUME NEW a \in Senders, Save(a) PROVE SyncTypes'
  <2>1. /\ rows < MaxMessages /\ rows' = rows + 1
        /\ routing' = [routing EXCEPT ![a] = rows + 1]
        /\ UNCHANGED <<frames, page, cursor, upTo, handling>>
    BY <1>1 DEF Save, wireVars, sqliteVars, windowVars
  <2>2. rows' \in 0..MaxMessages /\ 0..rows \subseteq 0..rows' /\ 1..rows \subseteq 1..rows'
    BY <1>0, <2>1
  <2>3. routing' \in [Senders -> 0..rows']
    BY <1>0, <2>1, <2>2
  <2>4. \A s \in Messages : handling[s] # "no" => s <= rows'
    BY <1>0, <2>1 DEF Messages
  <2> QED  BY <1>0, <2>1, <2>2, <2>3, <2>4 DEF SyncTypes
<1>2. ASSUME NEW a \in Senders, Route(a) PROVE SyncTypes'
  <2>1. /\ routing' = [routing EXCEPT ![a] = 0] /\ routing[a] # 0
        /\ frames' = Append(frames, routing[a]) \/ frames' = frames
        /\ UNCHANGED <<rows, page, cursor, upTo, handling>>
    BY <1>2 DEF Route, sqliteVars, windowVars
  <2>2. routing[a] \in 1..rows /\ routing' \in [Senders -> 0..rows]
    BY <1>0, <2>1
  <2>3. routing[a] \in Nat /\ frames \in Seq(Nat) /\ ToSet(frames) \subseteq 1..rows
    BY <1>0, <2>2
  <2>4. frames' \in Seq(Nat) /\ ToSet(frames') \subseteq 1..rows
    <3>1. CASE frames' = frames
      BY <2>3, <3>1
    <3>2. CASE frames' = Append(frames, routing[a])
      BY <2>2, <2>3, <3>2, QueueGrows
    <3> QED  BY <2>1, <3>1, <3>2
  <2> QED  BY <1>0, <2>1, <2>2, <2>4 DEF SyncTypes
<1>3. CASE Break
  BY <1>0, <1>3, EmptyQueue DEF Break, SyncTypes, serverVars, sqliteVars, windowVars
<1>4. CASE OpenWindow
  BY <1>0, <1>4 DEF OpenWindow, SyncTypes, serverVars, wireVars, sqliteVars
<1>5. CASE Ask
  <2>1. /\ page' = After(cursor)
        /\ upTo' = IF page' = <<>> THEN cursor ELSE Last(page')
        /\ UNCHANGED <<rows, routing, frames, cursor, handling>>
    BY <1>5 DEF Ask, serverVars, wireVars, sqliteVars
  <2>2. page' \in Seq(Nat) /\ ToSet(page') \subseteq 1..rows /\ upTo' \in 0..rows
    BY <1>0, <2>1, AfterFacts
  <2> QED  BY <1>0, <2>1, <2>2 DEF SyncTypes
<1>6. CASE SavePage
  <2>1. /\ page # <<>> /\ page' = Tail(page)
        /\ UNCHANGED <<rows, routing, frames, cursor, upTo, handling>>
    BY <1>6 DEF SavePage, serverVars, wireVars
  <2> QED  BY <1>0, <2>1, QueueShrinks DEF SyncTypes
<1>7. CASE MarkPage
  BY <1>0, <1>7 DEF MarkPage, SyncTypes, serverVars, wireVars
<1>8. CASE SyncFails \/ InitFails \/ Connect
  <2>1. /\ page' = <<>> \/ page' = page
        /\ UNCHANGED <<rows, routing, frames, cursor, upTo, handling>>
    BY <1>8 DEF SyncFails, InitFails, Connect, serverVars, wireVars, sqliteVars, windowVars
  <2> QED  BY <1>0, <2>1, EmptyQueue DEF SyncTypes
<1>9. CASE Arrive
  <2>1. /\ frames # <<>> /\ frames' = Tail(frames)
        /\ handling' = [handling EXCEPT ![Head(frames)] = "saving"]
        /\ UNCHANGED <<rows, routing, page, cursor, upTo>>
    BY <1>9 DEF Arrive, serverVars, sqliteVars, windowVars
  <2>2. /\ frames' \in Seq(Nat) /\ ToSet(frames') \subseteq 1..rows
        /\ Head(frames) \in 1..rows
    BY <1>0, <2>1, QueueShrinks
  <2>3. \A s \in Messages : handling'[s] # "no" => s <= rows
    BY <1>0, <2>1, <2>2 DEF Messages
  <2> QED  BY <1>0, <2>1, <2>2, <2>3 DEF SyncTypes
<1>10. ASSUME NEW l \in Loaders, Query(l) \/ ShowLoad(l) \/ LoadFails(l) PROVE SyncTypes'
  <2>1. UNCHANGED <<rows, routing, frames, page, cursor, upTo, handling>>
    BY <1>10 DEF Query, ShowLoad, LoadFails, serverVars, wireVars, sqliteVars
  <2> QED  BY <1>0, <2>1 DEF SyncTypes
<1>11. ASSUME NEW s \in Messages, SaveIncoming(s) \/ IncomingFails(s) \/ Show(s)
       PROVE  SyncTypes'
  <2>1. /\ handling[s] # "no"
        /\ \E p \in {"no", "marking", "showing"} : handling' = [handling EXCEPT ![s] = p]
        /\ UNCHANGED <<rows, routing, frames, page, cursor, upTo>>
    BY <1>11 DEF SaveIncoming, IncomingFails, Show, serverVars, wireVars, sqliteVars, windowVars
  <2> QED  BY <1>0, <2>1 DEF SyncTypes
<1>12. ASSUME NEW s \in Messages, MarkIncoming(s) PROVE SyncTypes'
  <2>1. /\ handling[s] = "marking" /\ handling' = [handling EXCEPT ![s] = "showing"]
        /\ cursor' = s
        /\ UNCHANGED <<rows, routing, frames, page, upTo>>
    BY <1>12 DEF MarkIncoming, serverVars, wireVars, windowVars
  <2>2. cursor' \in 0..rows
    BY <1>0, <2>1 DEF Messages
  <2> QED  BY <1>0, <2>1, <2>2 DEF SyncTypes
<1>13. CASE CloseWindow
  BY <1>0, <1>13, EmptyQueue DEF CloseWindow, SyncTypes, serverVars, sqliteVars
<1> QED  BY <1>1, <1>2, <1>3, <1>4, <1>5, <1>6, <1>7, <1>8, <1>9, <1>10, <1>11, <1>12, <1>13
         DEF SyncNext


\* What is stored, given up or jumped stays so.
LEMMA PastGrows ==
    CopyInv /\ SyncNext =>
       /\ stored \subseteq stored' /\ jumped \subseteq jumped'
       /\ unheard \subseteq unheard' /\ failed \subseteq failed' /\ cut \subseteq cut'
BY Zenon DEF SyncNext, Save, Route, Break, OpenWindow, Ask, SavePage, MarkPage, SyncFails,
   InitFails, Query, ShowLoad, LoadFails, Connect, Arrive, SaveIncoming, MarkIncoming,
   IncomingFails, Show, CloseWindow, sqliteVars, pastVars

\* A row that is on its way stays so, or is stored or given up.
LEMMA KnownStep == CopyInv /\ SyncNext => Known'
<1> SUFFICES ASSUME CopyInv, SyncNext PROVE Known'
  OBVIOUS
<1>0. /\ rows \in 0..MaxMessages /\ routing \in [Senders -> 0..rows]
      /\ frames \in Seq(Nat) /\ ToSet(frames) \subseteq 1..rows
      /\ handling \in [Messages -> {"no", "saving", "marking", "showing"}]
  BY DEF CopyInv, SyncTypes
<1>a. \A s \in 1..rows : s \in stored \/ s \in UNION {unheard, failed, cut} \/ OnItsWay(s)
  BY DEF CopyInv, Known
<1>b. /\ stored \subseteq stored'
      /\ UNION {unheard, failed, cut} \subseteq UNION {unheard', failed', cut'}
  BY PastGrows
<1>c. \A s \in 1..rows : s \in Messages
  BY <1>0, SyncAssumption DEF Messages
<1> DEFINE Settled(s) == s \in stored' \/ s \in UNION {unheard', failed', cut'} \/ OnItsWay(s)'
<1>d. ASSUME rows' = rows, \A s \in 1..rows : OnItsWay(s) => Settled(s) PROVE Known'
  BY <1>a, <1>b, <1>d DEF Known
<1>1. ASSUME NEW a \in Senders, Save(a) PROVE Known'
  <2>1. /\ routing[a] = 0 /\ rows' = rows + 1
        /\ routing' = [routing EXCEPT ![a] = rows + 1]
        /\ UNCHANGED <<frames, handling>>
    BY <1>1 DEF Save, wireVars
  <2>2. \A s \in 1..rows : OnItsWay(s) => OnItsWay(s)'
    BY <1>0, <2>1 DEF OnItsWay
  <2>3. routing'[a] = rows'
    BY <1>0, <2>1
  <2>4. \A s \in 1..rows' : s \in 1..rows \/ s = rows'
    BY <1>0, <2>1
  <2>5. ASSUME NEW s \in 1..rows' PROVE Settled(s)
    <3>1. CASE s \in 1..rows
      BY <1>a, <1>b, <2>2, <3>1
    <3>2. CASE s = rows'
      BY <2>3, <3>2 DEF OnItsWay
    <3> QED  BY <2>4, <3>1, <3>2
  <2> QED  BY <2>5 DEF Known
<1>2. ASSUME NEW a \in Senders, Route(a) PROVE Known'
  <2>1. /\ routing' = [routing EXCEPT ![a] = 0] /\ routing[a] # 0 /\ routing[a] \in 0..rows
        /\ \/ frames' = Append(frames, routing[a])
           \/ unheard' = unheard \cup {routing[a]} /\ frames' = frames
        /\ UNCHANGED <<rows, handling>>
    BY <1>0, <1>2 DEF Route
  <2>n. routing[a] \in Nat /\ frames \in Seq(Nat)
    BY <1>0, <2>1
  <2>g. ToSet(Append(frames, routing[a])) = ToSet(frames) \cup {routing[a]}
    BY <2>n, QueueGrows
  <2>2. ToSet(frames) \subseteq ToSet(frames')
    BY <2>1, <2>g
  <2>3. routing[a] \in ToSet(frames') \/ routing[a] \in unheard'
    BY <2>1, <2>g
  <2>4. ASSUME NEW s \in 1..rows, OnItsWay(s) PROVE Settled(s)
    <3>1. CASE s = routing[a]
      BY <2>3, <3>1 DEF OnItsWay
    <3>2. CASE \E b \in Senders : b # a /\ routing[b] = s
      BY <1>0, <2>1, <3>2 DEF OnItsWay
    <3>3. CASE s \in ToSet(frames) \/ handling[s] = "saving"
      BY <2>1, <2>2, <3>3 DEF OnItsWay
    <3> QED  BY <2>4, <3>1, <3>2, <3>3 DEF OnItsWay
  <2> QED  BY <1>d, <2>1, <2>4
<1>3. CASE Break \/ CloseWindow
  <2>1. /\ UNCHANGED <<rows, routing>> /\ unheard' = unheard \cup ToSet(frames)
        /\ \/ UNCHANGED handling
           \/ cut' = cut \cup {s \in Messages : handling[s] = "saving"}
    BY <1>3 DEF Break, CloseWindow, serverVars
  <2>2. ASSUME NEW s \in 1..rows, OnItsWay(s) PROVE Settled(s)
    BY <1>c, <2>1, <2>2 DEF OnItsWay
  <2> QED  BY <1>d, <2>1, <2>2
<1>4. CASE \/ OpenWindow \/ Ask \/ SavePage \/ MarkPage \/ SyncFails \/ InitFails \/ Connect
           \/ \E l \in Loaders : Query(l) \/ ShowLoad(l) \/ LoadFails(l)
  <2>1. UNCHANGED <<rows, routing, frames, handling>>
    BY <1>4 DEF OpenWindow, Ask, SavePage, MarkPage, SyncFails, InitFails, Connect, Query,
       ShowLoad, LoadFails, serverVars, wireVars
  <2>2. ASSUME NEW s \in 1..rows, OnItsWay(s) PROVE Settled(s)
    BY <2>1, <2>2 DEF OnItsWay
  <2> QED  BY <1>d, <2>1, <2>2
<1>5. CASE Arrive
  <2>1. /\ frames # <<>> /\ frames' = Tail(frames)
        /\ handling' = [handling EXCEPT ![Head(frames)] = "saving"]
        /\ UNCHANGED <<rows, routing>>
    BY <1>5 DEF Arrive, serverVars
  <2>2. ToSet(frames) = ToSet(frames') \cup {Head(frames)}
    BY <1>0, <2>1, QueueShrinks
  <2>3. \A s \in 1..rows : handling[s] = "saving" \/ s = Head(frames) => handling'[s] = "saving"
    BY <1>0, <1>c, <2>1
  <2>4. ASSUME NEW s \in 1..rows, OnItsWay(s) PROVE Settled(s)
    BY <2>1, <2>2, <2>3, <2>4 DEF OnItsWay
  <2> QED  BY <1>d, <2>1, <2>4
<1>6. ASSUME NEW m \in Messages, SaveIncoming(m) \/ MarkIncoming(m) \/ IncomingFails(m) \/ Show(m)
      PROVE  Known'
  <2>1. UNCHANGED <<rows, routing, frames>>
    BY <1>6 DEF SaveIncoming, MarkIncoming, IncomingFails, Show, serverVars, wireVars
  <2>2. \A s \in Messages : s # m => handling'[s] = handling[s]
    BY <1>0, <1>6 DEF SaveIncoming, MarkIncoming, IncomingFails, Show
  <2>3. handling[m] = "saving" => m \in stored' \/ m \in failed'
    BY <1>6 DEF SaveIncoming, MarkIncoming, IncomingFails, Show
  <2>4. ASSUME NEW s \in 1..rows, OnItsWay(s) PROVE Settled(s)
    BY <1>c, <2>1, <2>2, <2>3, <2>4 DEF OnItsWay
  <2> QED  BY <1>d, <2>1, <2>4
<1> QED  BY <1>1, <1>2, <1>3, <1>4, <1>5, <1>6 DEF SyncNext

\* What the cursor has passed, and what the page holds.
LEMMA CursorStep == CopyInv /\ SyncNext => Passed' /\ Marking' /\ PageIsWhole'
<1> SUFFICES ASSUME CopyInv, SyncNext PROVE Passed' /\ Marking' /\ PageIsWhole'
  OBVIOUS
<1>0. /\ rows \in 0..MaxMessages /\ frames \in Seq(Nat) /\ page \in Seq(Nat)
      /\ cursor \in 0..rows /\ upTo \in 0..rows
      /\ handling \in [Messages -> {"no", "saving", "marking", "showing"}]
  BY DEF CopyInv, SyncTypes
<1>a. stored \subseteq stored' /\ jumped \subseteq jumped'
  BY PastGrows
<1>b. /\ \A s \in 1..cursor : s \in stored \/ s \in jumped
      /\ \A s \in Messages : handling[s] = "marking" => s \in stored
      /\ window = "saving" => \A s \in 1..upTo : s \in stored \/ s \in jumped \/ s \in ToSet(page)
  BY DEF CopyInv, Passed, Marking, PageIsWhole
<1>c. ASSUME cursor' = cursor PROVE Passed'
  BY <1>a, <1>b, <1>c DEF Passed
<1>d. ASSUME \A s \in Messages : handling'[s] = "marking" => handling[s] = "marking" PROVE Marking'
  BY <1>a, <1>b, <1>d DEF Marking
<1>e. ASSUME window' = "saving" => window = "saving" /\ page' = page /\ upTo' = upTo
      PROVE  PageIsWhole'
  BY <1>a, <1>b, <1>e DEF PageIsWhole
<1>1. ASSUME NEW a \in Senders, Save(a) \/ Route(a) PROVE Passed' /\ Marking' /\ PageIsWhole'
  <2>1. UNCHANGED <<cursor, handling, window, page, upTo>>
    BY <1>1 DEF Save, Route, sqliteVars, windowVars
  <2> QED  BY <1>c, <1>d, <1>e, <2>1
<1>2. CASE Break \/ OpenWindow \/ SyncFails \/ InitFails \/ Connect \/ CloseWindow
  <2>1. /\ cursor' = cursor
        /\ \A s \in Messages : handling'[s] = "marking" => handling[s] = "marking"
        /\ window' = "saving" => window = "saving" /\ page' = page /\ upTo' = upTo
    BY <1>2 DEF Break, OpenWindow, SyncFails, InitFails, Connect, CloseWindow, sqliteVars,
       windowVars
  <2> QED  BY <1>c, <1>d, <1>e, <2>1
<1>3. CASE Ask
  <2>1. /\ page' = After(cursor)
        /\ upTo' = IF page' = <<>> THEN cursor ELSE Last(page')
        /\ window' = "saving" => page' # <<>>
        /\ UNCHANGED <<cursor, stored, jumped, handling>>
    BY <1>3 DEF Ask, sqliteVars, pastVars
  <2>2. ASSUME window' = "saving", NEW s \in 1..upTo'
        PROVE  s \in stored' \/ s \in jumped' \/ s \in ToSet(page')
    <3>1. /\ Last(After(cursor)) \in cursor..rows /\ upTo' = Last(After(cursor))
          /\ \A t \in (cursor + 1)..Last(After(cursor)) : t \in ToSet(After(cursor))
      BY <1>0, <2>1, <2>2, AfterFacts
    <3>2. s \in 1..cursor \/ s \in (cursor + 1)..Last(After(cursor))
      BY <1>0, <3>1
    <3> QED  BY <1>b, <2>1, <3>1, <3>2
  <2>3. PageIsWhole'
    BY <2>2 DEF PageIsWhole
  <2> QED  BY <1>c, <1>d, <2>1, <2>3
<1>4. CASE SavePage
  <2>1. /\ window = "saving" /\ page # <<>> /\ page' = Tail(page)
        /\ stored' = stored \cup {Head(page)}
        /\ UNCHANGED <<cursor, upTo, handling>>
    BY <1>4 DEF SavePage
  <2>2. ToSet(page) = ToSet(page') \cup {Head(page)}
    BY <1>0, <2>1, QueueShrinks
  <2>3. PageIsWhole'
    BY <1>a, <1>b, <2>1, <2>2 DEF PageIsWhole
  <2> QED  BY <1>c, <1>d, <2>1, <2>3
<1>5. CASE MarkPage
  <2>1. /\ window = "saving" /\ page = <<>> /\ cursor' = upTo /\ window' = "loading"
        /\ UNCHANGED handling
    BY <1>5 DEF MarkPage
  <2>2. Passed'
    BY <1>a, <1>b, <2>1, EmptyQueue DEF Passed
  <2>3. PageIsWhole'
    BY <2>1 DEF PageIsWhole
  <2> QED  BY <1>d, <2>1, <2>2, <2>3
<1>6. ASSUME NEW l \in Loaders, Query(l) \/ ShowLoad(l) \/ LoadFails(l)
      PROVE  Passed' /\ Marking' /\ PageIsWhole'
  <2>1. /\ UNCHANGED <<cursor, handling, page, upTo>>
        /\ window' = "saving" => window = "saving"
    BY <1>6 DEF Query, ShowLoad, LoadFails, sqliteVars
  <2> QED  BY <1>c, <1>d, <1>e, <2>1
<1>7. CASE Arrive
  <2>1. /\ UNCHANGED <<cursor, window, page, upTo>>
        /\ handling' = [handling EXCEPT ![Head(frames)] = "saving"]
    BY <1>7 DEF Arrive, sqliteVars, windowVars
  <2>2. \A s \in Messages : handling'[s] = "marking" => handling[s] = "marking"
    BY <1>0, <2>1
  <2> QED  BY <1>c, <1>d, <1>e, <2>1, <2>2
<1>8. ASSUME NEW m \in Messages, SaveIncoming(m) PROVE Passed' /\ Marking' /\ PageIsWhole'
  <2>1. /\ UNCHANGED <<cursor, window, page, upTo>> /\ m \in stored'
        /\ handling' = [handling EXCEPT ![m] = "marking"]
    BY <1>8 DEF SaveIncoming, windowVars
  <2>2. Marking'
    BY <1>0, <1>a, <1>b, <2>1 DEF Marking
  <2> QED  BY <1>c, <1>e, <2>1, <2>2
<1>9. ASSUME NEW m \in Messages, MarkIncoming(m) PROVE Passed' /\ Marking' /\ PageIsWhole'
  <2>1. /\ UNCHANGED <<stored, window, page, upTo>> /\ handling[m] = "marking"
        /\ cursor' = m /\ jumped' = jumped \cup ((1..(m - 1)) \ stored)
        /\ handling' = [handling EXCEPT ![m] = "showing"]
    BY <1>9 DEF MarkIncoming, windowVars
  <2>2. \A s \in 1..m : s = m \/ s \in 1..(m - 1)
    BY DEF Messages
  <2>3. Passed'
    BY <1>b, <2>1, <2>2 DEF Passed
  <2>4. \A s \in Messages : handling'[s] = "marking" => handling[s] = "marking"
    BY <1>0, <2>1
  <2> QED  BY <1>d, <1>e, <2>1, <2>3, <2>4
<1>10. ASSUME NEW m \in Messages, IncomingFails(m) \/ Show(m)
       PROVE  Passed' /\ Marking' /\ PageIsWhole'
  <2>1. /\ UNCHANGED <<cursor, window, page, upTo>>
        /\ \E p \in {"no", "showing"} : handling' = [handling EXCEPT ![m] = p]
    BY <1>10 DEF IncomingFails, Show, sqliteVars, windowVars
  <2>2. \A s \in Messages : handling'[s] = "marking" => handling[s] = "marking"
    BY <1>0, <2>1
  <2> QED  BY <1>c, <1>d, <1>e, <2>1, <2>2
<1> QED  BY <1>1, <1>2, <1>3, <1>4, <1>5, <1>6, <1>7, <1>8, <1>9, <1>10 DEF SyncNext

\* The room copy's invariant, for any senders, messages, faults and sizes of a page.
LEMMA CopyInductive == SyncSpec => []CopyInv
<1>1. CopyInv /\ UNCHANGED syncVars => CopyInv'
  <2> SUFFICES ASSUME CopyInv, UNCHANGED syncVars PROVE CopyInv'
    OBVIOUS
  <2>1. UNCHANGED <<rows, routing, frames, stored, cursor, window, page, upTo, handling,
                    unheard, failed, cut, jumped>>
    BY DEF syncVars, serverVars, wireVars, sqliteVars, windowVars, pastVars
  <2> QED  BY <2>1 DEF CopyInv, SyncTypes, Known, Passed, Marking, PageIsWhole, OnItsWay
<1>2. CopyInv /\ [SyncNext]_syncVars => CopyInv'
  BY <1>1, CopyTypesStep, KnownStep, CursorStep DEF CopyInv
<1> QED  BY <1>2, CopyInitially, PTL DEF SyncSpec

\* Whatever the sync cursor has passed is in SQLite, on its way, or was given up and
\* then jumped over by an incoming message (chatStore.ts:626).
THEOREM NothingSlips == SyncSpec => []NothingSlipsPast
<1>1. CopyInv => NothingSlipsPast
  BY DEF CopyInv, SyncTypes, Known, Passed, NothingSlipsPast
<1> QED  BY <1>1, CopyInductive, PTL

-----------------------------------------------------------------------------
(* AuthSession.  Its types are inductive with RefreshNamed: the row that    *)
(* Refresh inserts descends from the session that its request names.        *)

\* A request to refresh names a session: the client sends none without a pair.
RefreshNamed == \A c \in Calls : handler[c].op = "refresh" => handler[c].token \in Sessions

AuthTyped == AuthTypeOK /\ RefreshNamed

HandlersTyped == handler \in [Calls -> HandlerType] /\ RefreshNamed

LEMMA AnswerTypes ==
    ASSUME AuthTyped, NEW c \in Calls, NEW p \in {"ok", "expired", "found", "revoked", "refused"},
           Reply(c, p)
    PROVE  HandlersTyped'
<1>1. handler \in [Calls -> HandlerType]
  BY DEF AuthTyped, AuthTypeOK
<1>2. handler' \in [Calls -> HandlerType]
  BY <1>1 DEF Reply, HandlerType
<1>3. \A d \in Calls : handler'[d].op = handler[d].op /\ handler'[d].token = handler[d].token
  BY <1>1 DEF Reply, HandlerType
<1> QED  BY <1>2, <1>3 DEF HandlersTyped, RefreshNamed, AuthTyped

LEMMA RequestType ==
    ASSUME NEW op \in {"fetch", "login", "logout", "refresh"}, NEW b \in Pairs, NEW t \in Pairs
    PROVE  Request(op, b, t) \in HandlerType
BY AuthAssumption DEF Request, HandlerType, Pairs

LEMMA NothingTypes == NoCall \in CallType /\ NoRequest \in HandlerType
BY AuthAssumption DEF NoCall, NoRequest, CallType, HandlerType, Pairs

LEMMA ExcusedTypes ==
    ASSUME AuthTypeOK, NEW S, NEW why \in {"quit", "unheard", "failed", "crossed"}
    PROVE  Excused(S, why) \subseteq Pairs \X {"quit", "unheard", "failed", "crossed"}
BY DEF AuthTypeOK, Excused

LEMMA EndCallsType == ASSUME AuthTypeOK, NEW C, EndCalls(C) PROVE call' \in [Calls -> CallType]
BY NothingTypes DEF AuthTypeOK, EndCalls

LEMMA StoreTypes ==
    ASSUME AuthTypeOK, NEW new \in Pairs, NEW about, Store(new, about)
    PROVE  held' \in Pairs /\ excuse' \subseteq Pairs \X {"quit", "unheard", "failed", "crossed"}
<1>1. excuse \subseteq Pairs \X {"quit", "unheard", "failed", "crossed"}
  BY DEF AuthTypeOK
<1>2. Excused({held} \ {new, about}, "crossed") \subseteq
         Pairs \X {"quit", "unheard", "failed", "crossed"}
  BY ExcusedTypes
<1> QED  BY <1>1, <1>2 DEF Store

LEMMA RevokeTypes ==
    ASSUME AuthTypeOK, NEW s, Revoke(s)
    PROVE  session' \in [Sessions -> {"none", "live", "revoked"}]
BY DEF AuthTypeOK, Revoke

LEMMA InsertTypes ==
    ASSUME AuthTypeOK, NEW c \in Calls, NEW n \in Sessions, Insert(c, n),
           handler[c].op # "login" => handler[c].token \in Sessions
    PROVE  /\ session' \in [Sessions -> {"none", "live", "revoked"}]
           /\ origin' \in [Sessions -> Pairs] /\ n \in Pairs
<1>1. n \in Pairs
  BY AuthAssumption DEF Sessions, Pairs
<1>2. /\ session' = [session EXCEPT ![n] = "live"]
      /\ origin' = [origin EXCEPT ![n] = IF handler[c].op = "login" THEN n
                                         ELSE origin[handler[c].token]]
  BY DEF Insert
<1>3. (IF handler[c].op = "login" THEN n ELSE origin[handler[c].token]) \in Pairs
  BY <1>1 DEF AuthTypeOK
<1> QED  BY <1>1, <1>2, <1>3 DEF AuthTypeOK

\* What every step leaves typed, whether it is the API's, the client's or the clock's.
ApiTyped == /\ session \in [Sessions -> {"none", "live", "revoked"}]
            /\ origin \in [Sessions -> Pairs]
ClientTyped == held \in Pairs /\ isRefreshing \in BOOLEAN /\ call \in [Calls -> CallType]
ClockTyped == stale \subseteq Pairs /\ outdated \subseteq Sessions
HistoryTyped == /\ excuse \subseteq (Pairs \X {"quit", "unheard", "failed", "crossed"})
                /\ faults \in 0..MaxFaults

LEMMA TypedInParts ==
    AuthTyped <=> ApiTyped /\ ClientTyped /\ ClockTyped /\ HistoryTyped /\ HandlersTyped
BY Zenon DEF AuthTyped, AuthTypeOK, ApiTyped, ClientTyped, ClockTyped, HistoryTyped, HandlersTyped

LEMMA TypedInPartsNext ==
    AuthTyped' <=> ApiTyped' /\ ClientTyped' /\ ClockTyped' /\ HistoryTyped' /\ HandlersTyped'
BY TypedInParts, PTL

\* The handlers' steps that answer, read, revoke or insert.
LEMMA HandleTypes == ASSUME AuthTyped, NEW c \in Calls, Handle(c) PROVE AuthTyped'
<1>0. ApiTyped /\ ClientTyped /\ ClockTyped /\ HistoryTyped /\ HandlersTyped
  BY TypedInParts
<1>1. CASE JWTAuth(c) \/ Serve(c) \/ LogoutLooks(c) \/ RefreshLooks(c)
  <2>1. HandlersTyped'
    BY <1>1, AnswerTypes DEF JWTAuth, Serve, LogoutLooks, RefreshLooks
  <2>2. UNCHANGED <<apiVars, clockVars, clientVars, excuse, faults>>
    BY <1>1 DEF JWTAuth, Serve, LogoutLooks, RefreshLooks
  <2> QED  BY <1>0, <2>1, <2>2, TypedInPartsNext
           DEF ApiTyped, ClientTyped, ClockTyped, HistoryTyped, apiVars, clientVars, clockVars
<1>2. CASE LogoutRevokes(c) \/ RefreshRevokes(c)
  <2>1. HandlersTyped'
    BY <1>2, AnswerTypes DEF LogoutRevokes, RefreshRevokes
  <2>2. UNCHANGED <<origin, clockVars, clientVars, excuse, faults>>
    BY <1>2 DEF LogoutRevokes, RefreshRevokes
  <2>3. session' \in [Sessions -> {"none", "live", "revoked"}]
    BY <1>2, RevokeTypes DEF LogoutRevokes, RefreshRevokes, AuthTyped
  <2> QED  BY <1>0, <2>1, <2>2, <2>3, TypedInPartsNext
           DEF ApiTyped, ClientTyped, ClockTyped, HistoryTyped, clientVars, clockVars
<1>3. CASE Issue(c)
  <2>0. UNCHANGED <<clockVars, clientVars, excuse, faults>> /\ Inserting(c)
    BY <1>3 DEF Issue
  <2>1. CASE Reply(c, "refused") /\ UNCHANGED apiVars
    BY <1>0, <2>0, <2>1, AnswerTypes, TypedInPartsNext
    DEF ApiTyped, ClientTyped, ClockTyped, HistoryTyped, apiVars, clientVars, clockVars
  <2>2. ASSUME NEW n \in Sessions, Insert(c, n),
               handler' = [handler EXCEPT ![c].phase = "ok", ![c].heir = n]
        PROVE  AuthTyped'
    <3>0. handler[c].op # "login" => handler[c].token \in Sessions
      BY <1>0, <2>0 DEF Inserting, HandlerAt, HandlersTyped, RefreshNamed
    <3>1. ApiTyped' /\ n \in Pairs
      BY <2>2, <3>0, InsertTypes DEF AuthTyped, ApiTyped
    <3>2. handler \in [Calls -> HandlerType] /\ RefreshNamed
      BY <1>0 DEF HandlersTyped
    <3>3. handler' \in [Calls -> HandlerType]
      BY <2>2, <3>1, <3>2 DEF HandlerType
    <3>4. \A d \in Calls : handler'[d].op = handler[d].op /\ handler'[d].token = handler[d].token
      BY <2>2, <3>2 DEF HandlerType
    <3>5. HandlersTyped'
      BY <3>2, <3>3, <3>4 DEF HandlersTyped, RefreshNamed
    <3> QED  BY <1>0, <2>0, <3>1, <3>5, TypedInPartsNext
             DEF ClientTyped, ClockTyped, HistoryTyped, clientVars, clockVars
  <2> QED  BY <1>3, <2>1, <2>2 DEF Issue
<1>4. CASE Unheard(c)
  <2>1. HandlersTyped'
    BY <1>0, <1>4, NothingTypes DEF Unheard, HandlersTyped, RefreshNamed, NoRequest
  <2>2. Excused({handler[c].heir}, "unheard") \subseteq
           Pairs \X {"quit", "unheard", "failed", "crossed"}
    BY ExcusedTypes DEF AuthTyped
  <2>3. HistoryTyped'
    BY <1>0, <1>4, <2>2 DEF Unheard, HistoryTyped
  <2> QED  BY <1>0, <1>4, <2>1, <2>3, TypedInPartsNext
           DEF Unheard, ApiTyped, ClientTyped, ClockTyped, apiVars, clientVars, clockVars
<1> QED  BY <1>1, <1>2, <1>3, <1>4 DEF Handle

LEMMA StatementFailsTypes == ASSUME AuthTyped, NEW c \in Calls, StatementFails(c) PROVE AuthTyped'
<1>0. ApiTyped /\ ClientTyped /\ ClockTyped /\ HistoryTyped /\ HandlersTyped
  BY TypedInParts
<1>1. HandlersTyped'
  BY AnswerTypes DEF StatementFails
<1>2. faults' \in 0..MaxFaults
  BY <1>0, AuthAssumption DEF StatementFails, Fault, HistoryTyped
<1>3. UNCHANGED <<clockVars, clientVars>>
  BY DEF StatementFails
<1>4. excuse \subseteq (Pairs \X {"quit", "unheard", "failed", "crossed"})
  BY <1>0 DEF HistoryTyped
<1>5. ApiTyped' /\ excuse' \subseteq (Pairs \X {"quit", "unheard", "failed", "crossed"})
  <2>1. CASE excuse' = excuse \cup Excused({handler[c].token}, "failed") /\ UNCHANGED apiVars
    <3>1. Excused({handler[c].token}, "failed") \subseteq
             Pairs \X {"quit", "unheard", "failed", "crossed"}
      BY ExcusedTypes DEF AuthTyped
    <3> QED  BY <1>0, <1>4, <2>1, <3>1 DEF ApiTyped, apiVars
  <2>2. CASE Revoke(handler[c].token) /\ UNCHANGED <<origin, excuse>>
    BY <1>0, <1>4, <2>2, RevokeTypes DEF AuthTyped, ApiTyped
  <2>3. ASSUME Inserting(c), NEW n \in Sessions, Insert(c, n),
               excuse' = excuse \cup {<<origin'[n], "failed">>}
        PROVE  ApiTyped' /\ excuse' \subseteq (Pairs \X {"quit", "unheard", "failed", "crossed"})
    <3>1. ApiTyped'
      BY <2>3, InsertTypes DEF Inserting, HandlerAt, AuthTyped, RefreshNamed, ApiTyped
    <3> QED  BY <1>4, <2>3, <3>1 DEF ApiTyped
  <2> QED  BY <2>1, <2>2, <2>3 DEF StatementFails
<1> QED  BY <1>0, <1>1, <1>2, <1>3, <1>5, TypedInPartsNext
         DEF ClientTyped, ClockTyped, HistoryTyped, clientVars, clockVars

\* The client's steps.
LEMMA StartTypes ==
    ASSUME AuthTyped, NEW c \in Calls, NEW op \in {"fetch", "login", "logout"}, NEW b \in Pairs,
           Start(c, op, b)
    PROVE  AuthTyped'
<1>0. ApiTyped /\ ClientTyped /\ ClockTyped /\ HistoryTyped /\ HandlersTyped
  BY TypedInParts
<1>1. [NoCall EXCEPT !.phase = "asking", !.op = op, !.body = b] \in CallType
  BY NothingTypes DEF CallType
<1>2. Request(op, held, b) \in HandlerType /\ Request(op, held, b).op # "refresh"
  BY <1>0, RequestType DEF ClientTyped, Request
<1>3. HandlersTyped'
  BY <1>0, <1>2 DEF Start, HandlersTyped, RefreshNamed
<1>4. ClientTyped'
  BY <1>0, <1>1 DEF Start, ClientTyped
<1> QED  BY <1>0, <1>3, <1>4, TypedInPartsNext
         DEF Start, ApiTyped, ClockTyped, HistoryTyped, apiVars, clockVars

LEMMA ReceiveTypes == ASSUME AuthTyped, NEW c \in Calls, Receive(c) PROVE AuthTyped'
<1>0. ApiTyped /\ ClientTyped /\ ClockTyped /\ HistoryTyped /\ HandlersTyped
  BY TypedInParts
<1>1. EndCalls({c}) /\ UNCHANGED <<apiVars, clockVars, isRefreshing, faults>>
  BY DEF Receive, Answered
<1>2. call' \in [Calls -> CallType]
  BY <1>1, EndCallsType DEF AuthTyped
<1>3. handler[c].heir \in Pairs /\ 0 \in Pairs
  BY <1>0, AuthAssumption DEF HandlersTyped, HandlerType, Pairs
<1>4. /\ held' \in Pairs
      /\ excuse' \subseteq Pairs \X {"quit", "unheard", "failed", "crossed"}
  <2>1. CASE Store(0, call[c].body) \/ Store(handler[c].heir, 0)
    BY <1>3, <2>1, StoreTypes DEF AuthTyped
  <2>2. CASE UNCHANGED <<held, excuse>>
    BY <1>0, <2>2 DEF ClientTyped, HistoryTyped
  <2> QED  BY <2>1, <2>2 DEF Receive, Answered
<1>5. HandlersTyped'
  BY <1>0, NothingTypes DEF Receive, HandlersTyped, RefreshNamed, NoRequest
<1> QED  BY <1>0, <1>1, <1>2, <1>4, <1>5, TypedInPartsNext
         DEF ApiTyped, ClientTyped, ClockTyped, HistoryTyped, apiVars, clockVars

LEMMA RenewTypes == ASSUME AuthTyped, NEW c \in Calls, Renew(c) PROVE AuthTyped'
<1>0. ApiTyped /\ ClientTyped /\ ClockTyped /\ HistoryTyped /\ HandlersTyped
  BY TypedInParts
<1>1. UNCHANGED <<apiVars, clockVars, held, excuse, faults>>
  BY DEF Renew
<1>2. CASE /\ call' = [call EXCEPT ![c].phase = "waiting"]
           /\ handler' = [handler EXCEPT ![c] = NoRequest]
           /\ UNCHANGED isRefreshing
  <2>1. ClientTyped'
    BY <1>0, <1>1, <1>2 DEF ClientTyped, CallType
  <2>2. HandlersTyped'
    BY <1>0, <1>2, NothingTypes DEF HandlersTyped, RefreshNamed, NoRequest
  <2> QED  BY <1>0, <1>1, <2>1, <2>2, TypedInPartsNext
           DEF ApiTyped, ClockTyped, HistoryTyped, apiVars, clockVars
<1>3. CASE /\ held # 0 /\ isRefreshing' = TRUE
           /\ call' = [call EXCEPT ![c].phase = "renewing", ![c].retried = TRUE]
           /\ handler' = [handler EXCEPT ![c] = Request("refresh", 0, held)]
  <2>1. ClientTyped'
    BY <1>0, <1>1, <1>3 DEF ClientTyped, CallType
  <2>2. held \in Pairs /\ held \in Sessions /\ 0 \in Pairs
    BY <1>0, <1>3, AuthAssumption DEF ClientTyped, Pairs, Sessions
  <2>3. Request("refresh", 0, held) \in HandlerType /\ Request("refresh", 0, held).token = held
    BY <2>2, RequestType DEF Request
  <2>4. HandlersTyped'
    BY <1>0, <1>3, <2>2, <2>3 DEF HandlersTyped, RefreshNamed
  <2> QED  BY <1>0, <1>1, <2>1, <2>4, TypedInPartsNext
           DEF ApiTyped, ClockTyped, HistoryTyped, apiVars, clockVars
<1> QED  BY <1>2, <1>3 DEF Renew

LEMMA RenewedTypes == ASSUME AuthTyped, NEW c \in Calls, Renewed(c) PROVE AuthTyped'
<1>0. ApiTyped /\ ClientTyped /\ ClockTyped /\ HistoryTyped /\ HandlersTyped
  BY TypedInParts
<1>1. /\ Store(handler[c].heir, handler[c].token) /\ isRefreshing' = FALSE
      /\ UNCHANGED <<apiVars, clockVars, faults>>
  BY DEF Renewed
<1>2. handler[c].heir \in Pairs
  BY <1>0 DEF HandlersTyped, HandlerType
<1>3. /\ held' \in Pairs
      /\ excuse' \subseteq Pairs \X {"quit", "unheard", "failed", "crossed"}
  BY <1>1, <1>2, StoreTypes DEF AuthTyped
<1>4. call' \in [Calls -> CallType]
  BY <1>0 DEF Renewed, ClientTyped, CallType
<1>5. \A d \in Calls : /\ Request(call[d].op, handler[c].heir, call[d].body) \in HandlerType
                       /\ Request(call[d].op, handler[c].heir, call[d].body).op # "refresh"
  <2>1. \A d \in Calls : call[d].op \in {"fetch", "login", "logout"} /\ call[d].body \in Pairs
    BY <1>0 DEF ClientTyped, CallType
  <2> QED  BY <1>2, <2>1, RequestType DEF Request
<1>6. HandlersTyped'
  <2>1. PICK again : handler' = [d \in Calls |->
                       IF d \in again THEN Request(call[d].op, handler[c].heir, call[d].body)
                       ELSE handler[d]]
    BY DEF Renewed
  <2> QED  BY <1>0, <1>5, <2>1 DEF HandlersTyped, RefreshNamed
<1> QED  BY <1>0, <1>1, <1>3, <1>4, <1>6, TypedInPartsNext
         DEF ApiTyped, ClientTyped, ClockTyped, HistoryTyped, apiVars, clockVars

LEMMA NotRenewedTypes == ASSUME AuthTyped, NEW c \in Calls, NotRenewed(c) PROVE AuthTyped'
<1>0. ApiTyped /\ ClientTyped /\ ClockTyped /\ HistoryTyped /\ HandlersTyped
  BY TypedInParts
<1>1. /\ Store(0, handler[c].token) /\ isRefreshing' = FALSE /\ EndCalls({c} \cup Waiting)
      /\ UNCHANGED <<apiVars, clockVars, faults>>
  BY DEF NotRenewed, GiveUp
<1>2. /\ held' \in Pairs
      /\ excuse' \subseteq Pairs \X {"quit", "unheard", "failed", "crossed"}
  BY <1>1, StoreTypes, AuthAssumption DEF AuthTyped, Pairs
<1>3. call' \in [Calls -> CallType]
  BY <1>1, EndCallsType DEF AuthTyped
<1>4. HandlersTyped'
  BY <1>0, NothingTypes DEF NotRenewed, HandlersTyped, RefreshNamed, NoRequest
<1> QED  BY <1>0, <1>1, <1>2, <1>3, <1>4, TypedInPartsNext
         DEF ApiTyped, ClientTyped, ClockTyped, HistoryTyped, apiVars, clockVars

LEMMA MayBeLostTypes == ASSUME AuthTyped, NEW C, MayBeLost(C) PROVE HandlersTyped'
<1>1. PICK lost : handler' = [c \in Calls |-> IF c \in lost THEN NoRequest ELSE handler[c]]
  BY DEF MayBeLost
<1> QED  BY <1>1, NothingTypes, TypedInParts DEF HandlersTyped, RefreshNamed, NoRequest

LEMMA BreaksTypes == ASSUME AuthTyped, NEW c \in Calls, Breaks(c) PROVE AuthTyped'
<1>0. ApiTyped /\ ClientTyped /\ ClockTyped /\ HistoryTyped /\ HandlersTyped
  BY TypedInParts
<1>1. HandlersTyped'
  BY MayBeLostTypes DEF Breaks
<1>2. faults' \in 0..MaxFaults
  BY <1>0, AuthAssumption DEF Breaks, Fault, HistoryTyped
<1>3. isRefreshing' \in BOOLEAN /\ call' \in [Calls -> CallType]
  BY <1>0, EndCallsType DEF Breaks, ClientTyped, AuthTyped
<1>4. /\ held' \in Pairs
      /\ excuse' \subseteq Pairs \X {"quit", "unheard", "failed", "crossed"}
  <2>1. PICK cleared :
           /\ excuse' = excuse \cup Excused(cleared, "unheard") \cup
                           (IF cleared = {} THEN {} ELSE Excused({held} \ cleared, "crossed"))
           /\ held' = IF cleared = {} THEN held ELSE 0
    BY DEF Breaks
  <2>2. /\ Excused(cleared, "unheard") \subseteq
              Pairs \X {"quit", "unheard", "failed", "crossed"}
        /\ Excused({held} \ cleared, "crossed") \subseteq
              Pairs \X {"quit", "unheard", "failed", "crossed"}
    BY ExcusedTypes DEF AuthTyped
  <2>3. held' \in Pairs
    BY <1>0, <2>1, AuthAssumption DEF ClientTyped, Pairs
  <2> QED  BY <1>0, <2>1, <2>2, <2>3 DEF HistoryTyped
<1>5. UNCHANGED <<apiVars, clockVars>>
  BY DEF Breaks
<1> QED  BY <1>0, <1>1, <1>2, <1>3, <1>4, <1>5, TypedInPartsNext
         DEF ApiTyped, ClientTyped, ClockTyped, HistoryTyped, apiVars, clockVars

LEMMA QuitTypes == ASSUME AuthTyped, Quit PROVE AuthTyped'
<1>0. ApiTyped /\ ClientTyped /\ ClockTyped /\ HistoryTyped /\ HandlersTyped
  BY TypedInParts
<1>1. HandlersTyped' /\ call' \in [Calls -> CallType]
  BY MayBeLostTypes, EndCallsType DEF Quit, AuthTyped
<1>2. Excused({handler[c].token : c \in Calls}, "quit") \subseteq
         Pairs \X {"quit", "unheard", "failed", "crossed"}
  BY ExcusedTypes DEF AuthTyped
<1>3. HistoryTyped'
  BY <1>0, <1>2, AuthAssumption DEF Quit, Fault, HistoryTyped
<1> QED  BY <1>0, <1>1, <1>3, TypedInPartsNext
         DEF Quit, ApiTyped, ClientTyped, ClockTyped, apiVars, clockVars

LEMMA ExpireTypes ==
    ASSUME AuthTyped, NEW s \in Sessions, AccessExpires(s) \/ SessionExpires(s) PROVE AuthTyped'
<1>0. ApiTyped /\ ClientTyped /\ ClockTyped /\ HistoryTyped /\ HandlersTyped
  BY TypedInParts
<1>1. UNCHANGED <<apiVars, clientVars, handler, excuse, faults>>
  BY DEF AccessExpires, SessionExpires
<1>2. ClockTyped'
  <2>1. s \in Pairs /\ stale \subseteq Pairs /\ outdated \subseteq Sessions
    BY <1>0, AuthAssumption DEF ClockTyped, Sessions, Pairs
  <2>2. CASE AccessExpires(s)
    BY <2>1, <2>2 DEF AccessExpires, ClockTyped
  <2>3. CASE SessionExpires(s)
    BY <2>1, <2>3 DEF SessionExpires, ClockTyped
  <2> QED  BY <2>2, <2>3
<1>3. ApiTyped' /\ ClientTyped' /\ HistoryTyped' /\ HandlersTyped'
  BY <1>0, <1>1 DEF ApiTyped, ClientTyped, HistoryTyped, HandlersTyped, RefreshNamed,
                    apiVars, clientVars
<1> QED  BY <1>2, <1>3, TypedInPartsNext

\* The sessions, tokens and calls of auth_handler.go and api.ts have their types, and
\* a refresh in work names a session.
THEOREM AuthTypeCorrect == AuthSpec => []AuthTypeOK
<1>1. AuthInit => AuthTyped
  <2> SUFFICES ASSUME AuthInit PROVE AuthTyped
    OBVIOUS
  <2>1. 0 \in Pairs /\ 0 \in 0..MaxFaults
    BY AuthAssumption DEF Pairs
  <2>2. ApiTyped
    BY <2>1 DEF AuthInit, ApiTyped
  <2>3. ClientTyped
    BY <2>1, NothingTypes DEF AuthInit, ClientTyped
  <2>4. ClockTyped /\ HistoryTyped
    BY <2>1 DEF AuthInit, ClockTyped, HistoryTyped
  <2>5. HandlersTyped
    BY NothingTypes DEF AuthInit, HandlersTyped, RefreshNamed, NoRequest
  <2> QED  BY <2>2, <2>3, <2>4, <2>5, TypedInParts
<1>2. AuthTyped /\ [AuthNext]_authVars => AuthTyped'
  <2> SUFFICES ASSUME AuthTyped, [AuthNext]_authVars PROVE AuthTyped'
    OBVIOUS
  <2>1. CASE UNCHANGED authVars
    BY <2>1 DEF authVars, apiVars, clockVars, clientVars, AuthTyped, AuthTypeOK, RefreshNamed
  <2>2. ASSUME NEW c \in Calls, Fetch(c) \/ Login(c) \/ Logout(c) PROVE AuthTyped'
    <3>1. 0 \in Pairs /\ held \in Pairs
      BY AuthAssumption DEF AuthTyped, AuthTypeOK, Pairs
    <3> QED  BY <2>2, <3>1, StartTypes DEF Fetch, Login, Logout
  <2>3. ASSUME NEW c \in Calls, Handle(c) PROVE AuthTyped'
    BY <2>3, HandleTypes
  <2>4. ASSUME NEW c \in Calls, React(c) PROVE AuthTyped'
    BY <2>4, ReceiveTypes, RenewTypes, RenewedTypes, NotRenewedTypes DEF React
  <2>5. ASSUME NEW c \in Calls, StatementFails(c) \/ Breaks(c) PROVE AuthTyped'
    BY <2>5, StatementFailsTypes, BreaksTypes
  <2> QED  BY <2>1, <2>2, <2>3, <2>4, <2>5, QuitTypes, ExpireTypes DEF AuthNext
<1> QED  BY <1>1, <1>2, PTL DEF AuthSpec, AuthTyped

=============================================================================
