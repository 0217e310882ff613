---------------------------- MODULE TaskLifecycle ----------------------------
(***************************************************************************)
(* What the task subsystem promises to the rest of the program, with       *)
(* neither queue, worker nor retry in sight: a request has at most one     *)
(* task, a task only moves forward, its work is begun at most once, and    *)
(* what is reported of it is its final status.                             *)
(***************************************************************************)
EXTENDS Naturals, TaskStore

CONSTANTS Tasks,        \* task ids
          Requests,     \* request ids, unique in task_jobs
          RequestOf     \* the request id each task is submitted with

VARIABLES status,       \* the task_jobs row of each task
          runs,         \* how often the executor was started for each task
          reports       \* <<task, status>> pairs handed to the done queue

abstractVars == <<status, runs, reports>>

LifecycleInit ==
    /\ status = [t \in Tasks |-> "none"]
    /\ runs = [t \in Tasks |-> 0]
    /\ reports = {}

\* A row appears for a request that has none.
Submit(t) ==
    /\ \A u \in Tasks : RequestOf[u] = RequestOf[t] => status[u] = "none"
    /\ status' = [status EXCEPT ![t] = "pending"]
    /\ UNCHANGED <<runs, reports>>

\* The row is claimed; the claimer begins the work now or never.
Claim(t) ==
    /\ status[t] = "pending"
    /\ status' = [status EXCEPT ![t] = "running"]
    /\ \/ runs' = [runs EXCEPT ![t] = @ + 1]
       \/ UNCHANGED runs
    /\ UNCHANGED reports

Finish(t) ==
    /\ status[t] = "running"
    /\ \E s \in Terminal : status' = [status EXCEPT ![t] = s]
    /\ UNCHANGED <<runs, reports>>

Report(t) ==
    /\ status[t] \in Terminal
    /\ reports' = reports \cup {<<t, status[t]>>}
    /\ UNCHANGED <<status, runs>>

LifecycleNext == \E t \in Tasks : Submit(t) \/ Claim(t) \/ Finish(t) \/ Report(t)

LifecycleSpec == LifecycleInit /\ [][LifecycleNext]_abstractVars
==============================================================================
