---------------------------- MODULE ActionLedger ----------------------------
(***************************************************************************)
(* The external-action ledger of the workflow store (SQLiteWorkflowStore): *)
(* the one external-write tool step of a Run and the external_actions row  *)
(* of that step.                                                           *)
(*                                                                         *)
(* The n-th dispatch of an action draws dispatch token n; 0 is NULL.  The  *)
(* step is claimed once (max_attempts = 1), so its attempt token never     *)
(* changes and every attempt that reads the running step presents it.      *)
(***************************************************************************)
EXTENDS WorkflowStore

CONSTANTS
  RetryMode,     \* retry modes a registered tool may declare
  Provider,      \* identities of provider accounts
  MaxDispatches  \* bound: dispatches of one action that are explored

NoProvider == "none"

ASSUME LedgerAssumption ==
  /\ RetryMode \subseteq {"unsafe", "provider_idempotent"}
  /\ NoProvider \notin Provider
  /\ MaxDispatches \in Nat \ {0}

VARIABLES
  retry_mode,  \* external_actions.retry_mode, fixed by the registered tool
  step,        \* tool_calls.status of the external-write step
  action       \* external_actions: status, dispatch_count (= dispatch token)
               \* and provider_identity

actionRows == <<retry_mode, step, action>>
ledgerVars == <<workflow, actionRows>>

\* What the execution of an Action is identified by: the Run's own input, which
\* every attempt reads from the same row.
ActionInput == "request"

ActionTerminal == {"succeeded", "failed", "outcome_unknown"}
ActionStatus == {"none", "prepared", "dispatching"} \cup ActionTerminal

StepOf(s) == IF s = "succeeded" THEN "completed" ELSE "failed"

\* has_external_action_requiring_reconciliation
Dispatched(r) == action[r].dispatch_count > 0

-----------------------------------------------------------------------------
(* The tool step and the action row. *)

claim_step(r, t) ==
  /\ assert_current_run_lease(r, t)
  /\ workflow[r].status # "none"
  /\ step[r] = "none"
  /\ step' = [step EXCEPT ![r] = "running"]
  /\ UNCHANGED <<vars, retry_mode, workflow, action>>

\* CREATED, or EXISTING for the row of an earlier attempt, which must be bound
\* to the same provider identity.
prepare_external_action(r, t, p) ==
  /\ assert_current_run_lease(r, t)
  /\ step[r] = "running"
  /\ action[r].provider \in {NoProvider, p}
  /\ action' = IF action[r].status = "none"
               THEN [action EXCEPT ![r].status = "prepared", ![r].provider = p]
               ELSE action
  /\ UNCHANGED <<vars, retry_mode, workflow, step>>

Redispatch(r) ==
  /\ action' = [action EXCEPT ![r].status = "dispatching", ![r].dispatch_count = @ + 1]
  /\ UNCHANGED <<vars, retry_mode, workflow, step>>

\* Cancellation and the first dispatch are arbitrated in this transaction.
begin_external_action_dispatch(r, t) ==
  /\ assert_current_run_lease(r, t)
  /\ action[r].status = "prepared"
  /\ ~cancel_requested[r]
  /\ step[r] = "running"
  /\ Redispatch(r)

retry_external_action_dispatch(r, t, d) ==
  /\ assert_current_run_lease(r, t)
  /\ action[r].status = "dispatching"
  /\ retry_mode[r] # "unsafe"
  /\ action[r].dispatch_count = d
  /\ step[r] = "running"
  /\ d < MaxDispatches
  /\ Redispatch(r)

\* Dispatch token d still owns the in-flight action.
HoldsDispatch(r, d) ==
  action[r].status = "dispatching" /\ action[r].dispatch_count = d

\* Mutant: the tool step is left to a transaction that never follows.
Settle_action_only(r, d, s) ==
  /\ HoldsDispatch(r, d)
  /\ action' = [action EXCEPT ![r].status = s]
  /\ UNCHANGED <<vars, retry_mode, workflow, step>>

\* The terminal state of the action and of its step commit together.
Settle(r, d, s) ==
  /\ HoldsDispatch(r, d)
  /\ step[r] = "running"
  /\ action' = [action EXCEPT ![r].status = s]
  /\ step' = [step EXCEPT ![r] = StepOf(s)]
  /\ UNCHANGED <<vars, retry_mode, workflow>>

\* Repeating a finalization that already committed answers without a write.
ExactDuplicate(r, d, s) == action[r].status = s /\ action[r].dispatch_count = d

\* A provider's answer is recorded whoever holds the lease by now ...
_finalize_external_action(r, d, s) ==
  \/ Settle(r, d, s)
  \/ ExactDuplicate(r, d, s) /\ UNCHANGED <<vars, ledgerVars>>

\* ... while a decision of the runtime itself needs the lease
\* (finalize_external_action_reconciliation_unknown and
\* finalize_unsafe_interrupted_action).
finalize_reconciliation_unknown(r, t, d) ==
  /\ assert_current_run_lease(r, t)
  /\ _finalize_external_action(r, d, "outcome_unknown")

-----------------------------------------------------------------------------

LedgerInit ==
  /\ Init
  /\ retry_mode \in [Run -> RetryMode]
  /\ workflow = [r \in Run |-> NoExecution]
  /\ step = [r \in Run |-> "none"]
  /\ action = [r \in Run |-> [status |-> "none", dispatch_count |-> 0,
                              provider |-> NoProvider]]

\* Any attempt may present its lease token, and any dispatch token it drew.
LedgerStep(r, t) ==
  \/ /\ \/ create_or_get_execution(r, t, ActionInput)
        \/ mark_running(r, t)
        \/ _finalize_execution(r, t, "ready", "none")
        \/ \E code \in {EXECUTION, SAFETY} : _finalize_execution(r, t, "failed", code)
     /\ UNCHANGED actionRows
  \/ claim_step(r, t)
  \/ \E p \in Provider : prepare_external_action(r, t, p)
  \/ begin_external_action_dispatch(r, t)
  \/ \E d \in 1 .. action[r].dispatch_count :
       \/ retry_external_action_dispatch(r, t, d)
       \/ \E s \in ActionTerminal : _finalize_external_action(r, d, s)
       \/ finalize_reconciliation_unknown(r, t, d)

LedgerNext ==
  \/ Next /\ UNCHANGED ledgerVars
  \/ \E r \in Run, t \in 1 .. MaxAttempts : t \in Tokens(r) /\ LedgerStep(r, t)

allLedgerVars == <<vars, ledgerVars>>

LedgerSpec == LedgerInit /\ [][LedgerNext]_allLedgerVars

-----------------------------------------------------------------------------
(* Properties. *)

\* Every row holds values of its columns' types.
LedgerTypeOK ==
  /\ retry_mode \in [Run -> RetryMode]
  /\ workflow \in [Run -> [status : WorkflowStatus, error_code : ErrorCode,
                            input : {"none", ActionInput}]]
  /\ step \in [Run -> {"none", "running", "completed", "failed"}]
  /\ action \in [Run -> [status : ActionStatus, dispatch_count : Nat,
                          provider : Provider \cup {NoProvider}]]

\* The action row and its tool step never disagree, although stale attempts
\* and late provider answers write them: an unfinished action has a running
\* step, a finished one a step of the same outcome, and only a dispatched
\* action has an outcome.
StepAgreesWithAction ==
  \A r \in Run :
    /\ action[r].status \in {"prepared", "dispatching"} => step[r] = "running"
    /\ action[r].status \in ActionTerminal => step[r] = StepOf(action[r].status)
    /\ step[r] \in {"completed", "failed"} => action[r].status \in ActionTerminal
    /\ Dispatched(r) <=> action[r].status \notin {"none", "prepared"}

\* However many attempts run, crash and recover, an action whose tool is
\* declared unsafe is handed to its provider at most once.
UnsafeDispatchedOnce ==
  \A r \in Run : retry_mode[r] = "unsafe" => action[r].dispatch_count <= 1

\* The first recorded outcome of an action stands: no late answer, takeover or
\* retry changes it, its step or its dispatch token afterwards.
OutcomeIsFinal ==
  [][\A r \in Run : action[r].status \in ActionTerminal =>
       action'[r] = action[r] /\ step'[r] = step[r]]_allLedgerVars
=============================================================================
