------------------------------ MODULE TaskStore ------------------------------
(***************************************************************************)
(* The status machine of one task_jobs row: the mutate closures that       *)
(* internal/taskservice/task/db_store.go runs inside a SELECT ... FOR      *)
(* UPDATE transaction, which makes each of them one atomic step.           *)
(*                                                                         *)
(* An operator maps the status the transaction reads to the status it      *)
(* writes and to the error class it returns.  "none" is a row that does    *)
(* not exist.                                                              *)
(***************************************************************************)

Terminal == {"succeeded", "failed"}
Statuses == {"none", "pending", "running"} \cup Terminal

Refuse(s) ==
    IF s = "none" THEN "not_found"
    ELSE IF s \in Terminal THEN "already_completed" ELSE "already_started"

\* Mutant of MarkRunning: a running row may be claimed again.
MarkRunningAgain(s) ==
    IF s \in {"pending", "running"} THEN [to |-> "running", err |-> "nil"]
                                    ELSE [to |-> s, err |-> Refuse(s)]

\* MarkRunning accepts a pending row only.
MarkRunning(s) ==
    IF s = "pending" THEN [to |-> "running", err |-> "nil"]
                     ELSE [to |-> s, err |-> Refuse(s)]

\* MarkSucceeded accepts a running row, and a succeeded one without touching it.
MarkSucceeded(s) ==
    IF s \in {"running", "succeeded"} THEN [to |-> "succeeded", err |-> "nil"]
                                      ELSE [to |-> s, err |-> Refuse(s)]

\* Mutant of MarkFailed: overwrites a succeeded row.
MarkFailedAlways(s) ==
    IF s \in {"running"} \cup Terminal THEN [to |-> "failed", err |-> "nil"]
                                       ELSE [to |-> s, err |-> Refuse(s)]

\* MarkFailed accepts a running row, and a failed one without touching it: a
\* row still pending cannot be failed.
MarkFailed(s) ==
    IF s \in {"running", "failed"} THEN [to |-> "failed", err |-> "nil"]
                                   ELSE [to |-> s, err |-> Refuse(s)]
==============================================================================
