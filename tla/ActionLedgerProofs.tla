------------------------- MODULE ActionLedgerProofs -------------------------
(***************************************************************************)
(* Proofs about ActionLedger for every set of Runs, attempts, providers    *)
(* and dispatches.  Ledger writes leave the Run tables alone, so the       *)
(* ledger also keeps every theorem of RunStore.                            *)
(***************************************************************************)
EXTENDS ActionLedger, TLAPS

\* The inductive invariant.  StepAgreesWithAction is what makes the dispatch
\* counts provable: it ties a prepared action to zero dispatches.
LedgerInv == LedgerTypeOK /\ StepAgreesWithAction /\ UnsafeDispatchedOnce

\* A database without workflows satisfies the invariant.
LEMMA LedgerInitInv == LedgerInit => LedgerInv
BY LedgerAssumption DEF LedgerInit, LedgerInv, LedgerTypeOK, StepAgreesWithAction,
   UnsafeDispatchedOnce, Dispatched, ActionStatus, ActionTerminal, WorkflowStatus,
   NoExecution, ErrorCode

\* Every workflow-store transaction, by a live or a stale attempt, keeps it.
LEMMA StepKeepsInv ==
  ASSUME LedgerInv, NEW r \in Run, NEW t \in Nat, LedgerStep(r, t)
  PROVE  LedgerInv'
<1> USE LedgerAssumption DEF LedgerInv
<1>1. ASSUME create_or_get_execution(r, t, ActionInput), UNCHANGED actionRows
      PROVE  LedgerInv'
  <2>1. LedgerTypeOK'
    BY <1>1 DEF create_or_get_execution, actionRows, LedgerTypeOK, WorkflowStatus, ErrorCode
  <2>2. StepAgreesWithAction' /\ UnsafeDispatchedOnce'
    BY <1>1 DEF actionRows, StepAgreesWithAction, UnsafeDispatchedOnce, Dispatched
  <2> QED BY <2>1, <2>2
<1>2. ASSUME mark_running(r, t), UNCHANGED actionRows
      PROVE  LedgerInv'
  <2>1. LedgerTypeOK'
    BY <1>2 DEF mark_running, actionRows, LedgerTypeOK, WorkflowStatus
  <2>2. StepAgreesWithAction' /\ UnsafeDispatchedOnce'
    BY <1>2 DEF actionRows, StepAgreesWithAction, UnsafeDispatchedOnce, Dispatched
  <2> QED BY <2>1, <2>2
<1>3. ASSUME NEW s \in {"ready", "failed"}, NEW code \in {"none", EXECUTION, SAFETY},
             _finalize_execution(r, t, s, code), UNCHANGED actionRows
      PROVE  LedgerInv'
  <2>1. LedgerTypeOK'
    BY <1>3 DEF _finalize_execution, actionRows, LedgerTypeOK, WorkflowStatus, ErrorCode
  <2>2. StepAgreesWithAction' /\ UnsafeDispatchedOnce'
    BY <1>3 DEF actionRows, StepAgreesWithAction, UnsafeDispatchedOnce, Dispatched
  <2> QED BY <2>1, <2>2
<1>4. CASE claim_step(r, t)
  BY <1>4 DEF claim_step, LedgerTypeOK, StepAgreesWithAction, StepOf,
     UnsafeDispatchedOnce, Dispatched, ActionStatus, ActionTerminal
<1>5. ASSUME NEW p \in Provider, prepare_external_action(r, t, p)
      PROVE  LedgerInv'
  <2>1. CASE action[r].status = "none"
    <3>1. /\ action' = [action EXCEPT ![r].status = "prepared", ![r].provider = p]
          /\ step[r] = "running"
          /\ UNCHANGED <<retry_mode, workflow, step>>
      BY <1>5, <2>1 DEF prepare_external_action
    <3>2. LedgerTypeOK'
      <4> DEFINE Row == [status : ActionStatus, dispatch_count : Nat,
                         provider : Provider \cup {NoProvider}]
      <4>1. action \in [Run -> Row] /\ "prepared" \in ActionStatus
        BY DEF LedgerTypeOK, ActionStatus
      <4>2. \A row \in Row : [row EXCEPT !.status = "prepared", !.provider = p] \in Row
        BY Zenon, <4>1
      <4>3. action' = [action EXCEPT ![r] = [@ EXCEPT !.status = "prepared", !.provider = p]]
        BY Zenon, <3>1
      <4>4. action' \in [Run -> Row]
        <5> HIDE DEF Row
        <5> QED
          BY Zenon, <4>1, <4>2, <4>3
      <4> QED
        BY <3>1, <4>4 DEF LedgerTypeOK
    <3>3. StepAgreesWithAction' /\ UnsafeDispatchedOnce'
      BY <3>1, <2>1 DEF LedgerTypeOK, StepAgreesWithAction, UnsafeDispatchedOnce,
         Dispatched, ActionTerminal
    <3> QED BY <3>2, <3>3
  <2>2. CASE UNCHANGED ledgerVars
    BY <2>2 DEF ledgerVars, actionRows, LedgerTypeOK, StepAgreesWithAction,
       UnsafeDispatchedOnce, Dispatched
  <2> QED BY <1>5, <2>1, <2>2 DEF prepare_external_action, ledgerVars, actionRows
<1>6. CASE begin_external_action_dispatch(r, t)
  BY <1>6 DEF begin_external_action_dispatch, Redispatch, LedgerTypeOK, StepOf,
     StepAgreesWithAction, UnsafeDispatchedOnce, Dispatched, ActionStatus,
     ActionTerminal
<1>7. ASSUME NEW d \in Nat, retry_external_action_dispatch(r, t, d)
      PROVE  LedgerInv'
  BY <1>7 DEF retry_external_action_dispatch, Redispatch, LedgerTypeOK, StepOf,
     StepAgreesWithAction, UnsafeDispatchedOnce, Dispatched, ActionStatus,
     ActionTerminal
<1>8. ASSUME NEW d \in Nat, NEW s \in ActionTerminal, _finalize_external_action(r, d, s)
      PROVE  LedgerInv'
  <2>1. CASE Settle(r, d, s)
    BY <1>8, <2>1 DEF Settle, HoldsDispatch, LedgerTypeOK, StepAgreesWithAction,
       StepOf, UnsafeDispatchedOnce, Dispatched, ActionStatus, ActionTerminal
  <2>2. CASE UNCHANGED ledgerVars
    BY <2>2 DEF ledgerVars, actionRows, LedgerTypeOK, StepAgreesWithAction,
       UnsafeDispatchedOnce, Dispatched
  <2> QED BY <1>8, <2>1, <2>2 DEF _finalize_external_action
<1>9. \A d \in 1 .. action[r].dispatch_count : d \in Nat
  BY DEF LedgerTypeOK
<1> QED
  BY <1>1, <1>2, <1>3, <1>4, <1>5, <1>6, <1>7, <1>8, <1>9
     DEF LedgerStep, finalize_reconciliation_unknown, ActionTerminal

\* Run-store transactions do not touch the ledger, so every step keeps it.
LEMMA NextKeepsInv == LedgerInv /\ [LedgerNext]_allLedgerVars => LedgerInv'
<1> SUFFICES ASSUME LedgerInv, [LedgerNext]_allLedgerVars PROVE LedgerInv'
  OBVIOUS
<1>1. CASE UNCHANGED ledgerVars
  BY <1>1 DEF ledgerVars, actionRows, LedgerInv, LedgerTypeOK, StepAgreesWithAction,
     UnsafeDispatchedOnce, Dispatched
<1>2. ASSUME NEW r \in Run, NEW t \in 1 .. MaxAttempts, LedgerStep(r, t)
      PROVE  LedgerInv'
  BY <1>2, StepKeepsInv, RunStoreAssumption
<1> QED BY <1>1, <1>2 DEF LedgerNext, allLedgerVars

\* The inductive invariant holds of every behaviour of the ledger.
THEOREM LedgerInvariance == LedgerSpec => []LedgerInv
BY LedgerInitInv, NextKeepsInv, PTL DEF LedgerSpec

\* The rows of the ledger keep their types.
THEOREM LedgerTypeCorrect == LedgerSpec => []LedgerTypeOK
BY LedgerInvariance, PTL DEF LedgerInv

\* _finalize_external_action and claim_step keep the action and its tool step
\* in agreement, whichever stale attempts write.
THEOREM LedgerAgrees == LedgerSpec => []StepAgreesWithAction
BY LedgerInvariance, PTL DEF LedgerInv

\* retry_external_action_dispatch never repeats an unsafe dispatch.
THEOREM UnsafeIsNotRepeated == LedgerSpec => []UnsafeDispatchedOnce
BY LedgerInvariance, PTL DEF LedgerInv

\* No workflow-store transaction replaces a recorded outcome.
LEMMA StepKeepsOutcome ==
  ASSUME LedgerInv, NEW r \in Run, NEW t \in Nat, LedgerStep(r, t),
         NEW q \in Run, action[q].status \in ActionTerminal
  PROVE  action'[q] = action[q] /\ step'[q] = step[q]
<1> USE DEF LedgerInv, LedgerTypeOK, StepAgreesWithAction, StepOf, ActionTerminal
<1>1. CASE UNCHANGED actionRows
  BY <1>1 DEF actionRows
<1>4. CASE claim_step(r, t)
  BY <1>4 DEF claim_step
<1>5. ASSUME NEW p \in Provider, prepare_external_action(r, t, p)
      PROVE  action'[q] = action[q] /\ step'[q] = step[q]
  BY <1>5 DEF prepare_external_action
<1>6. CASE begin_external_action_dispatch(r, t)
  BY <1>6 DEF begin_external_action_dispatch, Redispatch
<1>7. ASSUME NEW d, retry_external_action_dispatch(r, t, d)
      PROVE  action'[q] = action[q] /\ step'[q] = step[q]
  BY <1>7 DEF retry_external_action_dispatch, Redispatch
<1>8. ASSUME NEW d, NEW s, _finalize_external_action(r, d, s)
      PROVE  action'[q] = action[q] /\ step'[q] = step[q]
  BY <1>8 DEF _finalize_external_action, Settle, HoldsDispatch, ledgerVars, actionRows
<1> QED
  BY <1>1, <1>4, <1>5, <1>6, <1>7, <1>8
     DEF LedgerStep, finalize_reconciliation_unknown

\* The first recorded outcome of an external action is never replaced.
THEOREM OutcomesAreFinal == LedgerSpec => OutcomeIsFinal
<1>1. LedgerInv /\ [LedgerNext]_allLedgerVars =>
        [\A r \in Run : action[r].status \in ActionTerminal =>
           action'[r] = action[r] /\ step'[r] = step[r]]_allLedgerVars
  <2> SUFFICES ASSUME LedgerInv, LedgerNext, NEW q \in Run,
                      action[q].status \in ActionTerminal
               PROVE  action'[q] = action[q] /\ step'[q] = step[q]
    OBVIOUS
  <2>1. CASE UNCHANGED ledgerVars
    BY <2>1 DEF ledgerVars, actionRows
  <2>2. ASSUME NEW r \in Run, NEW t \in 1 .. MaxAttempts, LedgerStep(r, t)
        PROVE  action'[q] = action[q] /\ step'[q] = step[q]
    BY <2>2, StepKeepsOutcome, RunStoreAssumption
  <2> QED BY <2>1, <2>2 DEF LedgerNext
<1> QED BY <1>1, LedgerInvariance, PTL DEF LedgerSpec, OutcomeIsFinal

\* Every ledger method is a stuttering step of the Run store, so leases,
\* threads and checkpoints behave as RunStore specifies.
THEOREM LedgerKeepsRunStore == LedgerSpec => Spec
<1>1. LedgerInit => Init
  BY DEF LedgerInit
<1>2. ASSUME NEW r, NEW t, LedgerStep(r, t) PROVE UNCHANGED vars
  BY <1>2 DEF LedgerStep, create_or_get_execution, mark_running, _finalize_execution,
     claim_step, prepare_external_action, begin_external_action_dispatch, Redispatch,
     retry_external_action_dispatch, _finalize_external_action, Settle,
     finalize_reconciliation_unknown
<1>3. [LedgerNext]_allLedgerVars => [Next]_vars
  BY <1>2 DEF LedgerNext, allLedgerVars
<1> QED BY <1>1, <1>3, PTL DEF LedgerSpec, Spec
=============================================================================
