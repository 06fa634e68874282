----------------------------- MODULE ToolSteps -----------------------------
(***************************************************************************)
(* The tool steps of a workflow execution (tool_calls) and the evidence of *)
(* it: the evidence events of the workflow ledger and their mirror in the  *)
(* public event stream of the Run (EvidenceProjector).  Every operation is *)
(* one transaction that checks the lease of the Run it writes.             *)
(*                                                                         *)
(* The n-th claim of a step draws attempt token n; a row copied by a       *)
(* replay has claim count 0 and no token.                                  *)
(***************************************************************************)
EXTENDS WorkflowStore, SequencesExt

CONSTANTS
  StepId,       \* step ids of an execution
  max_attempts  \* claims of one step (2 in both runtimes)

ASSUME ToolStepsAssumption == max_attempts \in Nat \ {0}

VARIABLES
  steps,     \* tool_calls: status, attempt_count (= attempt_token), input_hash,
             \* result_json and error_code of each step
  evidence,  \* workflow_events that carry an evidence_id, in sequence order
  mirrored   \* evidence ids of the Run's public events, in sequence order

stepVars == <<workflow, steps, evidence, mirrored>>

NoStep == [status |-> "none", attempt_count |-> 0, input |-> <<>>,
           result |-> "none", error_code |-> "none"]

StepsInit ==
  /\ workflow = [r \in Run |-> NoExecution]
  /\ steps = [r \in Run |-> [s \in StepId |-> NoStep]]
  /\ evidence = [r \in Run |-> <<>>]
  /\ mirrored = [r \in Run |-> <<>>]

-----------------------------------------------------------------------------
(* Claiming a step. *)

\* A step is identified by its tool and input whatever its status.
ClaimOutcome(r, s, input) ==
  LET row == steps[r][s]
  IN  CASE row.status = "none" -> "claimed"
        [] row.status # "none" /\ row.input # input -> "mismatch"
        [] row.status = "completed" /\ row.input = input -> "cached"
        [] row.status = "running" /\ row.input = input -> "already_running"
        [] row.status = "failed" /\ row.input = input ->
             IF row.attempt_count >= max_attempts THEN "exhausted" ELSE "claimed"

claim_step(r, t, s, input) ==
  /\ assert_current_run_lease(r, t)
  /\ workflow[r].status # "none"
  /\ steps' = IF ClaimOutcome(r, s, input) = "claimed"
              THEN [steps EXCEPT ![r][s] =
                      [NoStep EXCEPT !.status = "running", !.input = input,
                                     !.attempt_count = steps[r][s].attempt_count + 1]]
              ELSE steps
  /\ UNCHANGED <<vars, workflow, evidence, mirrored>>

\* The claim that drew token n still runs.
HoldsStep(r, s, n) == steps[r][s].status = "running" /\ steps[r][s].attempt_count = n

complete_step(r, t, s, n, result) ==
  /\ assert_current_run_lease(r, t)
  /\ HoldsStep(r, s, n)
  /\ steps' = [steps EXCEPT ![r][s].status = "completed", ![r][s].result = result]
  /\ UNCHANGED <<vars, workflow, evidence, mirrored>>

fail_step(r, t, s, n, code) ==
  /\ assert_current_run_lease(r, t)
  /\ HoldsStep(r, s, n)
  /\ steps' = [steps EXCEPT ![r][s].status = "failed", ![r][s].error_code = code]
  /\ UNCHANGED <<vars, workflow, evidence, mirrored>>

\* A running step is declared abandoned; its claim still counts.
recover_interrupted_step(r, t, s) ==
  /\ assert_current_run_lease(r, t)
  /\ steps' = IF steps[r][s].status = "running"
              THEN [steps EXCEPT ![r][s].status = "failed",
                                 ![r][s].error_code = "interrupted"]
              ELSE steps
  /\ UNCHANGED <<vars, workflow, evidence, mirrored>>

-----------------------------------------------------------------------------
(* Reusing a completed step of another execution. *)

\* Mutant: the arguments of the source's step are not compared.
ReuseOutcome_any_input(q, r, s, input) ==
  IF steps[q][s].status # "completed" THEN "not_reusable"
  ELSE IF steps[r][s].status = "none" THEN "copied"
  ELSE IF steps[r][s].status = "completed" THEN "existing" ELSE "not_reusable"

\* The source is consulted first: a node that was not reusable stays so after
\* a recovery, whatever the target has executed meanwhile.
ReuseOutcome(q, r, s, input) ==
  LET source == steps[q][s]
      target == steps[r][s]
  IN  CASE source.status # "completed" \/ source.input # input -> "not_reusable"
        [] source.status = "completed" /\ source.input = input ->
             IF target.status = "none" THEN "copied"
             ELSE IF target.status = "completed" /\ target.input = input
             THEN "existing" ELSE "not_reusable"

reuse_completed_step(q, r, t, s, input) ==
  /\ assert_current_run_lease(r, t)
  /\ workflow[q].status \in {"ready", "blocked"}
  /\ workflow[r].status = "running"
  /\ steps' = IF ReuseOutcome(q, r, s, input) = "copied"
              THEN [steps EXCEPT ![r][s] = [steps[q][s] EXCEPT !.attempt_count = 0]]
              ELSE steps
  /\ UNCHANGED <<vars, workflow, evidence, mirrored>>

-----------------------------------------------------------------------------
(* EvidenceProjector: the ledger first, then its public mirror. *)

Nothing == [id |-> <<"none", 0>>, outcome |-> "none", what |-> "none"]

\* The first evidence event with this id, or Nothing.
workflow_evidence(r, id) ==
  LET found == SelectSeq(evidence[r], LAMBDA e : e.id = id)
  IN  IF found = <<>> THEN Nothing ELSE Head(found)

append_evidence(r, t, item) ==
  /\ assert_current_run_lease(r, t)
  /\ evidence' = [evidence EXCEPT ![r] = Append(@, item)]
  /\ UNCHANGED <<vars, workflow, steps, mirrored>>

Mirrored(r, id) == Contains(mirrored[r], id)

append_run_event(r, t, id) ==
  /\ assert_current_run_lease(r, t)
  /\ mirrored' = [mirrored EXCEPT ![r] = Append(@, id)]
  /\ UNCHANGED <<vars, workflow, steps, evidence>>
=============================================================================
