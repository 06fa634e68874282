--------------------------- MODULE WorkflowStore ---------------------------
(***************************************************************************)
(* The workflow_executions table of the workflow store                     *)
(* (SQLiteWorkflowStore): at most one execution per Run, identified by the *)
(* hash of its input.  Each method is one transaction of the database that *)
(* also holds the Run, so every write checks the Run's lease where it      *)
(* commits.                                                                *)
(***************************************************************************)
EXTENDS RunStore

VARIABLE workflow  \* workflow_executions.status, error_code and input_hash

WorkflowStatus == {"none", "pending", "running", "ready", "blocked", "failed"}

NoExecution == [status |-> "none", error_code |-> "none", input |-> "none"]

\* CREATED, or the execution of an earlier attempt; the caller compares inputs.
create_or_get_execution(r, t, input) ==
  /\ assert_current_run_lease(r, t)
  /\ workflow' = IF workflow[r].status = "none"
                 THEN [workflow EXCEPT ![r] =
                         [status |-> "pending", error_code |-> "none", input |-> input]]
                 ELSE workflow
  /\ UNCHANGED vars

mark_running(r, t) ==
  /\ assert_current_run_lease(r, t)
  /\ workflow[r].status = "pending"
  /\ workflow' = [workflow EXCEPT ![r].status = "running"]
  /\ UNCHANGED vars

\* A second finalization matches no running row and changes nothing.
_finalize_execution(r, t, s, code) ==
  /\ assert_current_run_lease(r, t)
  /\ workflow' = IF workflow[r].status = "running"
                 THEN [workflow EXCEPT ![r] =
                         [status |-> s, error_code |-> code, input |-> @.input]]
                 ELSE workflow
  /\ UNCHANGED vars
=============================================================================
