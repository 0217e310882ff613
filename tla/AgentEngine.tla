------------------------------ MODULE AgentEngine -----------------------------
(***************************************************************************)
(* One agent run: the workflow of planner, coordinator, tools and judges   *)
(* that internal/taskservice/task/agent drives, one node at a time, until  *)
(* an answer is accepted or the run fails (routing/router.go,              *)
(* routing/policy.go, the node_runner files).  Every model reply and every *)
(* tool result is an input.  The run has one goroutine; the judges of the  *)
(* termination guard run concurrently but share nothing until they have    *)
(* all answered.                                                           *)
(***************************************************************************)
EXTENDS Naturals, FiniteSets

CONSTANTS
    MaxSteps,       \* state.MaxSteps after clamping
    LocalTools,     \* tools run in the process
    McpTools,       \* tools with a ":" in their name
    Replies,        \* JSON objects the coordinator's model may reply
    Judges          \* the guard's judges (3)

Absent == "absent"      \* a key the reply does not have
Nil == "<nil>"          \* what fmt.Sprint makes of it

Tools == LocalTools \cup McpTools
Names == Tools \cup {"finish", "replan", Nil}
Inputs == {Nil, "plain", "final"}       \* "final": it holds a final answer
Votes == {"finish", "continue", "invalid"}

ASSUME LimitAssumption == MaxSteps \in 1 .. 20

ASSUME RepliesAssumption ==
    /\ (Tools \cap {"finish", "replan", Nil, Absent, ""}) = {}
    /\ Replies \subseteq
         [tool : Tools \cup {"finish", "replan", "", Absent},
          input : {"", "plain", "final", Absent},
          name : Tools \cup {"finish", "replan", "", Absent},
          arguments : {"plain", "final", Absent}]

VARIABLES
    node,           \* CurrentNode
    status,         \* "running", "answered" (Done), "failed" (Failed)
    step,           \* Step
    outline,        \* number of steps in Outline
    index,          \* OutlineIndex, from 0
    current,        \* the outline step whose text CurrentTask holds
    tool,           \* ToolName
    input,          \* ActionInput
    output,         \* ToolOutput or ToolOutputRaw is not empty
    verdict,        \* what the last review said
    plans,          \* history: outlines made
    toolFailures,   \* history: tools that failed
    rejections      \* history: reviews that sent the run back

planVars == <<outline, index, current>>
toolVars == <<tool, input, output>>
history == <<plans, toolFailures, rejections>>
engineVars == <<node, status, step, planVars, toolVars, verdict, history>>

Nodes == {"planner", "coordinator_think", "coordinator_act", "executor",
          "tool_response", "termination_guard", "final_think", "final_judge"}

EngineInit ==
    /\ node = "planner" /\ status = "running" /\ step = 0
    /\ outline = 0 /\ index = 0 /\ current = 0
    /\ tool = "" /\ input = "" /\ output = FALSE
    /\ verdict = "none"
    /\ plans = 0 /\ toolFailures = 0 /\ rejections = 0

At(n) == status = "running" /\ node = n

-----------------------------------------------------------------------------
(* AgentPolicy.Decide.                                                      *)

\* A transition that is not counted.
Goto(next) == node' = next /\ UNCHANGED <<status, step>>

\* One that is (shouldAdvanceStep), all of them to coordinator_think: over
\* the limit the run fails.
Advance ==
    /\ step' = step + 1
    /\ IF step + 1 > MaxSteps
       THEN status' = "failed" /\ UNCHANGED node
       ELSE node' = "coordinator_think" /\ UNCHANGED status

\* A node returns an error.
Fail == status' = "failed" /\ UNCHANGED <<node, step>>

-----------------------------------------------------------------------------
\* RunPlannerNode, at the start and for a replan: an outline of n steps.
Planner(n) ==
    /\ At("planner")
    /\ outline' = n /\ index' = 0 /\ current' = 0
    /\ plans' = plans + 1
    /\ Advance
    /\ UNCHANGED <<toolVars, verdict, toolFailures, rejections>>

\* RunCoordinatorThinkNode: a thought for CurrentTask, which is refreshed
\* from the index only when it is empty, and so never: an outline's tasks are
\* not.  What the previous round left of the tool is cleared.
CoordinatorThink ==
    /\ At("coordinator_think")
    /\ tool' = "" /\ input' = "" /\ output' = FALSE
    /\ node' = "coordinator_act"
    /\ step' = IF step = 0 THEN 1 ELSE step
    /\ UNCHANGED <<status, planVars, verdict, history>>

\* parseCoordinatorAction: fmt.Sprint makes a name of a key that is missing.
\* (Its tool_calls branch, which needs both keys present and empty, is left
\* out.)
Sprint(value) == IF value = Absent THEN Nil ELSE value

NameIn(reply) ==
    IF Sprint(reply.tool) # "" THEN Sprint(reply.tool) ELSE Sprint(reply.name)

InputIn(reply) ==
    CASE Sprint(reply.input) # "" -> Sprint(reply.input)
      [] OTHER -> IF reply.arguments = Absent THEN "" ELSE reply.arguments

\* RunCoordinatorActNode, with a client that has no function calling (the
\* deployed one has none).
CoordinatorAct(reply) ==
    /\ At("coordinator_act")
    /\ IF NameIn(reply) = "" \/ InputIn(reply) = ""
       THEN Fail /\ UNCHANGED toolVars
       ELSE /\ tool' = NameIn(reply) /\ input' = InputIn(reply)
            /\ Goto("executor")
            /\ UNCHANGED output
    /\ UNCHANGED <<planVars, verdict, history>>

\* The model cannot be reached, or its reply makes no outline, thought or
\* JSON object.
CallFails ==
    /\ node \in {"planner", "coordinator_think", "coordinator_act"} /\ At(node)
    /\ Fail
    /\ UNCHANGED <<planVars, toolVars, verdict, history>>

-----------------------------------------------------------------------------
(* RunExecutorNode.                                                         *)

Finish ==
    /\ At("executor") /\ tool = "finish"
    /\ Goto("final_judge")
    /\ UNCHANGED <<planVars, toolVars, verdict, history>>

\* Mutant of Replan: back to the coordinator instead of the planner.
ReplanInPlace ==
    /\ At("executor") /\ tool = "replan"
    /\ Goto("coordinator_think")
    /\ UNCHANGED <<planVars, toolVars, verdict, history>>

Replan ==
    /\ At("executor") /\ tool = "replan"
    /\ Goto("planner")
    /\ UNCHANGED <<planVars, toolVars, verdict, history>>

\* The tool fails, or there is none of that name.
ToolFails ==
    /\ At("executor") /\ tool \notin {"finish", "replan"}
    /\ output' = FALSE
    /\ toolFailures' = toolFailures + 1
    /\ Advance
    /\ UNCHANGED <<planVars, tool, input, verdict, plans, rejections>>

\* It succeeds, with a result that may be empty.
ToolSucceeds(some) ==
    /\ At("executor") /\ tool \in Tools
    /\ output' = some
    /\ index' = IF index + 1 < outline THEN index + 1 ELSE index
    /\ Goto(IF tool \in McpTools THEN "tool_response" ELSE "termination_guard")
    /\ UNCHANGED <<outline, current, tool, input, verdict, history>>

\* RunToolResponseNode: the summary, or the result itself when the model
\* fails or says nothing.
ToolResponse ==
    /\ At("tool_response")
    /\ Goto("termination_guard")
    /\ UNCHANGED <<planVars, toolVars, verdict, history>>

-----------------------------------------------------------------------------
(* RunTerminationGuardNode: a majority of the valid votes.                  *)

CanFinish(votes) ==
    LET Said(v) == Cardinality({j \in Judges : votes[j] = v})
    IN  Said("finish") * 2 > Said("finish") + Said("continue")

GuardContinues ==
    /\ At("termination_guard")
    /\ \E votes \in [Judges -> Votes] : ~CanFinish(votes)
    /\ Goto("coordinator_think")
    /\ UNCHANGED <<planVars, toolVars, verdict, history>>

GuardFinishes ==
    /\ At("termination_guard")
    /\ \E votes \in [Judges -> Votes] : CanFinish(votes)
    /\ Goto("final_think")
    /\ UNCHANGED <<planVars, toolVars, verdict, history>>

(* RunFinalThinkNode: an answer out of the tool's result.                   *)

FinalThink ==
    /\ At("final_think") /\ output
    /\ tool' = "finish" /\ input' = "final"
    /\ Goto("final_judge")
    /\ UNCHANGED <<output, planVars, verdict, history>>

\* There is no result, or the model fails or says nothing.
FinalThinkRetries ==
    /\ At("final_think")
    /\ Goto("coordinator_think")
    /\ UNCHANGED <<planVars, toolVars, verdict, history>>

-----------------------------------------------------------------------------
(* RunFinalJudgeNode.                                                       *)

\* The coordinator's finish holds no final answer.
NothingToJudge ==
    /\ At("final_judge") /\ input # "final"
    /\ Fail
    /\ UNCHANGED <<planVars, toolVars, verdict, history>>

Accept ==
    /\ At("final_judge") /\ input = "final"
    /\ verdict' = "pass"
    /\ status' = "answered" /\ UNCHANGED <<node, step>>
    /\ UNCHANGED <<planVars, toolVars, history>>

\* The review cannot be had or read.
ReviewFails ==
    /\ At("final_judge") /\ input = "final"
    /\ verdict' = "error"
    /\ rejections' = rejections + 1
    /\ Advance
    /\ UNCHANGED <<planVars, toolVars, plans, toolFailures>>

Reject ==
    /\ At("final_judge") /\ input = "final" /\ step < MaxSteps
    /\ verdict' = "reject"
    /\ rejections' = rejections + 1
    /\ Advance
    /\ UNCHANGED <<planVars, toolVars, plans, toolFailures>>

\* At the limit a rejected answer is rewritten and given all the same, unless
\* the model fails or says nothing.
Salvage(written) ==
    /\ At("final_judge") /\ input = "final" /\ step >= MaxSteps
    /\ verdict' = "reject"
    /\ status' = IF written THEN "answered" ELSE "failed"
    /\ UNCHANGED <<node, step, planVars, toolVars, history>>

-----------------------------------------------------------------------------
EngineNext ==
    \/ \E n \in 1 .. MaxSteps : Planner(n)
    \/ CoordinatorThink
    \/ \E reply \in Replies : CoordinatorAct(reply)
    \/ CallFails
    \/ Finish \/ Replan \/ ToolFails
    \/ \E some \in BOOLEAN : ToolSucceeds(some)
    \/ ToolResponse
    \/ GuardContinues \/ GuardFinishes
    \/ FinalThink \/ FinalThinkRetries
    \/ NothingToJudge \/ Accept \/ ReviewFails \/ Reject
    \/ \E written \in BOOLEAN : Salvage(written)

EngineSpec == EngineInit /\ [][EngineNext]_engineVars

\* Run is a loop: it goes on to the next node as long as the run is neither
\* done nor failed.  Every call it waits for has a timeout.
FairEngineSpec == EngineSpec /\ WF_engineVars(EngineNext)

-----------------------------------------------------------------------------
CountersOK ==
    /\ step \in 0 .. MaxSteps + 1
    /\ plans \in Nat /\ toolFailures \in Nat /\ rejections \in Nat

OutlineOK ==
    /\ outline \in 0 .. MaxSteps
    /\ index \in 0 .. MaxSteps - 1 /\ (outline > 0 => index < outline)
    /\ current \in 0 .. MaxSteps - 1

FieldsOK ==
    /\ node \in Nodes /\ status \in {"running", "answered", "failed"}
    /\ tool \in Names \cup {""} /\ input \in Inputs \cup {""}
    /\ output \in BOOLEAN
    /\ verdict \in {"none", "pass", "reject", "error"}

EngineTypeOK == CountersOK /\ OutlineOK /\ FieldsOK

\* The step is the number of outlines, failed tools and reviews that sent the
\* run back, whichever way they interleave; a run that is still going, or has
\* answered, is within MaxSteps of them.
BudgetIsExact ==
    /\ step = plans + toolFailures + rejections
    /\ status # "failed" => step <= MaxSteps

\* No answer leaves the run unreviewed: the last review passed it, or refused
\* it when no step was left for another attempt.  A review that failed never
\* lets an answer through.
AnswersAreReviewed ==
    status = "answered" =>
        \/ verdict = "pass"
        \/ verdict = "reject" /\ step = MaxSteps

\* A run that never ends is sent back by the termination guard or by
\* final_think for ever: no other cycle of the workflow is endless.
EndsOrLoops ==
    \/ <>(status # "running")
    \/ []<><<GuardContinues \/ FinalThinkRetries>>_engineVars

-----------------------------------------------------------------------------
(* What the code says of itself and does not do.                            *)

\* "达到最大循环次数仍未完成" (routing/policy.go:84): a run that has gone round
\* MaxSteps times fails, so every run ends.
LoopIsBounded == <>(status # "running")

\* A prompt marks one outline step "[当前] " (planner.go:333) and names the
\* task to do now "当前优先小任务：" (services/prompt_service.go:62): they are
\* the same.
PromptIsConsistent == At("coordinator_think") => current = index
==============================================================================
