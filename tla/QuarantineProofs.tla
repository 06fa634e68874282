------------------------- MODULE QuarantineProofs -------------------------
(***************************************************************************)
(* Proofs about quarantine and its resolution, for every set of Runs,      *)
(* threads, operators and revisions.                                       *)
(***************************************************************************)
EXTENDS Quarantine, ActionLedgerProofs, RunStoreProofs, FiniteSetTheorems

Base == Nat \cup {NoRevision}

Plans ==
  [run : Run, attempt : Nat, cancel_requested : BOOLEAN, base : Base, revision : Nat,
   conflict : [expected : Base, observed : Base],
   evidence : [status : WorkflowStatus, error_code : ErrorCode, input : {"none", ActionInput}]
              \X {"none", "running", "completed", "failed"}
              \X [status : ActionStatus, dispatch_count : Nat,
                  provider : Provider \cup {NoProvider}]]

Stage == {"planned", "committed", "verified", "incomplete", "stale"}

DeskTypeOK ==
  /\ conflict \in [Run -> [expected : Base, observed : Base]]
  /\ resolution \in [Run -> Seq(Plans)]
  /\ desk \in [Operator -> {NoCommand} \cup [stage : Stage, plan : Plans]]

\* A tool step and its action exist only under an execution.
StepHasExecution ==
  \A r \in Run :
    /\ action[r].status # "none" => step[r] # "none"
    /\ step[r] # "none" => workflow[r].status # "none"

\* A parked Run has no lease, and the conflict on record is the one it met.
Parked ==
  \A r \in Run : Quarantined(r) =>
    /\ lease_token[r] = NoToken
    /\ conflict[r].expected = base[r]
    /\ conflict[r].observed # base[r]

\* The inductive invariant.  Parked and OneRunningPerThread make the quarantine
\* hold; StepAgreesWithAction, in LedgerInv, makes settled evidence complete.
QInv ==
  /\ TypeOK /\ LedgerInv /\ DeskTypeOK
  /\ OneRunningPerThread /\ StepHasExecution /\ Parked
  /\ ReleasedOnSettledEvidence

\* What the store derives for a Run is a plan about it.
LEMMA PlanType ==
  ASSUME QInv, NEW r \in Run
  PROVE  /\ _derive_quarantine_plan(r) \in Plans
         /\ _derive_quarantine_plan(r).run = r
         /\ _derive_quarantine_plan(r).evidence = _workflow_evidence_fingerprint(r)
         /\ _derive_quarantine_plan(r).cancel_requested = cancel_requested[r]
<1> USE DEF QInv
<1>1. /\ attempt[r] \in Nat /\ cancel_requested[r] \in BOOLEAN
      /\ base[r] \in Base /\ _thread_revision(r) \in Nat
  BY DEF TypeOK, Base, _thread_revision
<1>2. conflict[r] \in [expected : Base, observed : Base]
  BY DEF DeskTypeOK
<1>3. /\ workflow[r] \in [status : WorkflowStatus, error_code : ErrorCode,
                          input : {"none", ActionInput}]
      /\ step[r] \in {"none", "running", "completed", "failed"}
      /\ action[r] \in [status : ActionStatus, dispatch_count : Nat,
                        provider : Provider \cup {NoProvider}]
  BY DEF LedgerInv, LedgerTypeOK
<1> QED
  BY Zenon, <1>1, <1>2, <1>3 DEF _derive_quarantine_plan, _workflow_evidence_fingerprint, Plans

\* A plan on an operator's desk that is about to be applied.
LEMMA DeskPlan ==
  ASSUME QInv, NEW o \in Operator, desk[o].stage # "idle"
  PROVE  desk[o].stage \in Stage /\ desk[o].plan \in Plans /\ desk[o].plan.run \in Run
BY DEF QInv, DeskTypeOK, NoCommand, Plans

\* Moving a command on keeps its plan.
LEMMA DeskMoves ==
  ASSUME QInv, NEW o \in Operator, desk[o].stage # "idle", NEW s \in Stage, At(o, s)
  PROVE  desk' \in [Operator -> {NoCommand} \cup [stage : Stage, plan : Plans]]
<1>1. desk[o] \in [stage : Stage, plan : Plans]
  BY DEF QInv, DeskTypeOK, NoCommand
<1>2. [desk[o] EXCEPT !.stage = s] \in [stage : Stage, plan : Plans]
  BY <1>1
<1> QED
  BY <1>2 DEF At, QInv, DeskTypeOK

-----------------------------------------------------------------------------
(* Steps of the Run store. *)

\* No operation of the Run store itself blocks a Run or moves its base.
LEMMA StoreNeverParks ==
  ASSUME TypeOK, [Next]_vars, NEW r \in Run, Quarantined(r)'
  PROVE  Quarantined(r) /\ base'[r] = base[r]
<1> USE DEF TypeOK, requestVars, leaseVars, Quarantined, BLOCKED, PENDING, CONFLICT, SAFETY,
        EXECUTION
<1>1. CASE UNCHANGED vars \/ AdvanceClock
  BY <1>1 DEF vars, AdvanceClock
<1>2. ASSUME NEW q \in Run,
             \/ create_run_with_event(q) \/ request_cancel_atomically(q)
             \/ append_control_plane_event(q)
      PROVE  Quarantined(r) /\ base'[r] = base[r]
  BY Zenon, <1>2 DEF create_run_with_event, _insert_run, request_cancel_atomically,
     append_control_plane_event
<1>3. ASSUME NEW q \in Run, claim_next_run(q) PROVE Quarantined(r) /\ base'[r] = base[r]
  BY Zenon, <1>3 DEF claim_next_run, Lease
<1>4. ASSUME NEW q \in Run, NEW s \in Terminal, NEW code, NEW es, _terminalize(q, s, code, es)
      PROVE  Quarantined(r) /\ base'[r] = base[r]
  BY Zenon, <1>4 DEF _terminalize, Terminal
<1>5. ASSUME NEW q \in Run, NEW t \in Tokens(q), AttemptStep(q, t)
      PROVE  Quarantined(r) /\ base'[r] = base[r]
  <2>1. CASE \/ renew_run_lease(q, t) \/ expire_run_lease(q, t)
             \/ append_attempt_event(q, t) \/ commit_reconciliation_pending(q, t)
    BY Zenon, <2>1 DEF renew_run_lease, expire_run_lease, append_attempt_event,
       commit_reconciliation_pending
  <2>2. CASE ~(\/ renew_run_lease(q, t) \/ expire_run_lease(q, t)
               \/ append_attempt_event(q, t) \/ commit_reconciliation_pending(q, t))
    <3>1. "cancelled" \in Terminal /\ "failed" \in Terminal /\ "completed" \in Terminal
      BY DEF Terminal
    <3>2. CASE commit_cancelled_run(q, t)
      BY <1>4, <3>1, <3>2 DEF commit_cancelled_run
    <3>3. CASE \/ commit_failed_run(q, t, EXECUTION, FALSE)
               \/ commit_failed_run(q, t, SAFETY, TRUE)
      BY <1>4, <3>1, <3>3 DEF commit_failed_run
    <3>4. CASE _fail_checkpoint_conflict(q, t)
      BY <1>4, <3>1, <3>4 DEF _fail_checkpoint_conflict
    <3>5. CASE SaveCheckpoint(q, t)
      BY <1>4, <3>1, <3>5 DEF SaveCheckpoint
    <3> QED
      BY Zenon, <1>5, <2>2, <3>2, <3>3, <3>4, <3>5
      DEF AttemptStep, commit_checkpoint_conflict, commit_completed_run, RejectStaleResult
  <2> QED
    BY <2>1, <2>2
<1>6. ASSUME NEW q \in Run, finalize_next_queued_cancellation(q)
      PROVE  Quarantined(r) /\ base'[r] = base[r]
  BY <1>4, <1>6 DEF finalize_next_queued_cancellation, Terminal
<1> QED
  BY <1>1, <1>2, <1>3, <1>5, <1>6 DEF Next

\* Nor does one of them release a parked Run or start another on its thread.
LEMMA StoreNeverReleases ==
  ASSUME TypeOK, OneRunningPerThread, [Next]_vars, NEW r \in Run, Quarantined(r),
         lease_token[r] = NoToken
  PROVE  /\ Quarantined(r)' /\ lease_token'[r] = NoToken
         /\ \A q \in Run \ {r} : SameThread(q, r) => status'[q] # "running"
<1>1. Untouched(r) \/ Noted(r)
  BY Zenon, RowShape DEF Leased, Kept, Ended, Candidate, FreshCandidate, ExpiredCandidate,
     Quarantined, LiveLease
<1>2. Quarantined(r)' /\ lease_token'[r] = NoToken
  BY <1>1 DEF Untouched, Noted, Quarantined
<1>3. ASSUME NEW q \in Run \ {r}, SameThread(q, r) PROVE status'[q] # "running"
  <2>1. status[q] # "running"
    BY <1>3 DEF OneRunningPerThread, Quarantined
  <2>2. ~Leased(q)
    BY Zenon, <1>3, <2>1 DEF Leased, Candidate, FreshCandidate, ExpiredCandidate, SameThread, Quarantined
  <2> QED
    BY Zenon, <1>3, <2>1, <2>2, RowShape DEF Untouched, Kept, Ended, Noted, Terminal
<1> QED
  BY <1>2, <1>3

\* A thread keeps one running Run.
LEMMA StoreKeepsSerial ==
  ASSUME TypeOK, OneRunningPerThread, [Next]_vars
  PROVE  OneRunningPerThread'
<1> SUFFICES ASSUME NEW q \in Run, NEW r \in Run, status'[q] = "running",
                    status'[r] = "running", SameThread(q, r)', q # r
             PROVE  FALSE
  BY DEF OneRunningPerThread
<1>1. SameThread(q, r)
  <2>1. UNCHANGED thread_id
    BY StepShape DEF Quiet, Dropped, Created, Claimed, Saved
  <2> QED
    BY <2>1 DEF SameThread
<1>2. ASSUME NEW p \in Run, status'[p] = "running" PROVE status[p] = "running" \/ Leased(p)
  BY Zenon, <1>2, RowShape DEF Untouched, Kept, Ended, Noted, Terminal
<1>3. ~(Leased(q) /\ Leased(r))
  BY RunStoreAssumption DEF Leased
<1>4. ~(status[q] = "running" /\ status[r] = "running")
  BY <1>1 DEF OneRunningPerThread
<1>5. ASSUME NEW p \in Run, NEW s \in Run, SameThread(p, s), Leased(p), status[s] = "running"
      PROVE  status[p] = "running"
  BY Zenon, <1>5 DEF Leased, Candidate, FreshCandidate, ExpiredCandidate, SameThread
<1> QED
  BY <1>1, <1>2, <1>3, <1>4, <1>5 DEF SameThread

\* They keep the whole invariant: a released Run is failed for good.
LEMMA StoreStepKeeps ==
  ASSUME QInv, [Next]_vars, UNCHANGED <<ledgerVars, deskVars>>
  PROVE  QInv'
<1> USE DEF QInv
<1>1. TypeOK' /\ OneRunningPerThread'
  BY TypeStep, StoreKeepsSerial
<1>2. LedgerInv' /\ StepHasExecution'
  BY DEF ledgerVars, actionRows, LedgerInv, LedgerTypeOK, StepAgreesWithAction,
     UnsafeDispatchedOnce, Dispatched, StepHasExecution
<1>3. DeskTypeOK'
  BY DEF DeskTypeOK, deskVars
<1>4. ASSUME NEW r \in Run, Quarantined(r)'
      PROVE  /\ lease_token'[r] = NoToken
             /\ conflict'[r].expected = base'[r] /\ conflict'[r].observed # base'[r]
  <2>1. Quarantined(r) /\ base'[r] = base[r]
    BY <1>4, StoreNeverParks
  <2>2. lease_token'[r] = NoToken
    BY <2>1, StoreNeverReleases DEF Parked
  <2> QED
    BY <2>1, <2>2 DEF Parked, deskVars
<1>5. ASSUME NEW r \in Run, resolution[r] # <<>>
      PROVE  /\ status'[r] = "failed" /\ error_code'[r] = CONFLICT
             /\ cancel_requested'[r] = cancel_requested[r]
  BY Zenon, <1>5, RowShape DEF ReleasedOnSettledEvidence, Untouched, Leased, Kept, Ended, Noted,
     Candidate, FreshCandidate, ExpiredCandidate, Nonterminal
<1>6. ReleasedOnSettledEvidence'
  BY Zenon, <1>5 DEF ReleasedOnSettledEvidence, _workflow_evidence_fingerprint, ledgerVars,
     actionRows, deskVars
<1> QED
  BY <1>1, <1>2, <1>3, <1>4, <1>6 DEF Parked

-----------------------------------------------------------------------------
(* Steps of the ledger. *)

\* A ledger step leaves the Runs alone, and writes the execution of a Run only
\* under its live lease.
LEMMA LedgerTouches ==
  ASSUME QInv, NEW r \in Run, NEW t \in Nat, LedgerStep(r, t), NEW q \in Run
  PROVE  /\ UNCHANGED vars
         /\ workflow'[q] # workflow[q] => status[q] = "running"
         /\ workflow[q].status # "none" => workflow'[q].status # "none"
<1> USE DEF QInv, LedgerInv, LedgerTypeOK
<1>1. CASE create_or_get_execution(r, t, ActionInput) \/ mark_running(r, t)
  BY <1>1 DEF create_or_get_execution, mark_running, assert_current_run_lease
<1>2. ASSUME NEW s \in {"ready", "failed"}, NEW code, _finalize_execution(r, t, s, code)
      PROVE  /\ UNCHANGED vars
             /\ workflow'[q] # workflow[q] => status[q] = "running"
             /\ workflow[q].status # "none" => workflow'[q].status # "none"
  BY <1>2 DEF _finalize_execution, assert_current_run_lease
<1>3. CASE UNCHANGED <<vars, workflow>>
  BY <1>3
<1> QED
  BY <1>1, <1>2, <1>3 DEF LedgerStep, claim_step, prepare_external_action,
     begin_external_action_dispatch, Redispatch, retry_external_action_dispatch,
     _finalize_external_action, Settle, finalize_reconciliation_unknown, ledgerVars

\* The step and the action of a Run appear in order.
LEMMA LedgerKeepsOrder ==
  ASSUME QInv, NEW r \in Run, NEW t \in Nat, LedgerStep(r, t)
  PROVE  StepHasExecution'
<1> USE DEF QInv, LedgerInv, LedgerTypeOK, StepHasExecution
<1> SUFFICES ASSUME NEW q \in Run
             PROVE  /\ action'[q].status # "none" => step'[q] # "none"
                    /\ step'[q] # "none" => workflow'[q].status # "none"
  BY Zenon
<1>1. workflow[q].status # "none" => workflow'[q].status # "none"
  BY LedgerTouches
<1>2. CASE UNCHANGED actionRows
  BY Zenon, <1>1, <1>2 DEF actionRows
<1>3. CASE claim_step(r, t)
  BY <1>1, <1>3 DEF claim_step
<1>4. ASSUME NEW p \in Provider, prepare_external_action(r, t, p)
      PROVE  /\ action'[q].status # "none" => step'[q] # "none"
             /\ step'[q] # "none" => workflow'[q].status # "none"
  BY <1>1, <1>4 DEF prepare_external_action
<1>5. CASE Redispatch(r) /\ step[r] = "running"
  BY <1>1, <1>5 DEF Redispatch
<1>6. ASSUME NEW d, NEW s \in ActionTerminal, _finalize_external_action(r, d, s)
      PROVE  /\ action'[q].status # "none" => step'[q] # "none"
             /\ step'[q] # "none" => workflow'[q].status # "none"
  BY <1>1, <1>6 DEF _finalize_external_action, Settle, StepOf, ledgerVars, actionRows
<1>7. "outcome_unknown" \in ActionTerminal
  BY DEF ActionTerminal
<1> QED
  BY Zenon, <1>2, <1>3, <1>4, <1>5, <1>6, <1>7 DEF LedgerStep, begin_external_action_dispatch,
     retry_external_action_dispatch, finalize_reconciliation_unknown

\* Late answers reach the ledger while a Run is parked or released, and change
\* nothing that its release rested on.
LEMMA LateAnswerKeeps ==
  ASSUME QInv, NEW r \in Run, NEW t \in Nat, LedgerStep(r, t), UNCHANGED deskVars
  PROVE  QInv'
<1> USE DEF QInv
<1>1. UNCHANGED vars
  BY LedgerTouches
<1>2. TypeOK' /\ OneRunningPerThread' /\ Parked' /\ DeskTypeOK'
  BY Zenon, <1>1 DEF vars, requestVars, leaseVars, TypeOK, OneRunningPerThread, SameThread, Parked,
     Quarantined, DeskTypeOK, deskVars
<1>3. LedgerInv' /\ StepHasExecution'
  BY StepKeepsInv, LedgerKeepsOrder
<1>4. ASSUME NEW q \in Run, resolution[q] # <<>>
      PROVE  workflow'[q] = workflow[q] /\ action'[q] = action[q] /\ step'[q] = step[q]
  BY Zenon, <1>4, LedgerTouches, StepKeepsOutcome DEF ReleasedOnSettledEvidence
<1>5. ReleasedOnSettledEvidence'
  BY Zenon, <1>1, <1>4 DEF ReleasedOnSettledEvidence, _workflow_evidence_fingerprint, vars, deskVars
<1> QED
  BY <1>2, <1>3, <1>5

-----------------------------------------------------------------------------
(* Parking, foreign writes and the operators' commands. *)

\* Parking takes the lease away and records the conflict it met.
LEMMA ParkingKeeps ==
  ASSUME QInv, NEW r \in Run, NEW t \in Nat,
         quarantine_checkpoint_conflict_for_reconciliation(r, t)
  PROVE  QInv'
<1> USE DEF QInv, quarantine_checkpoint_conflict_for_reconciliation, requestVars, leaseVars
<1>1. status[r] = "running" /\ base[r] # _thread_revision(r)
  BY DEF assert_current_run_lease, load_thread_state_snapshot
<1>2. events' \in [Run -> Seq(EventType)]
  BY DEF _append_event, TypeOK, EventType
<1>3. TypeOK'
  <2>1. error_code' \in [Run -> ErrorCode]
    BY Zenon DEF TypeOK, ErrorCode
  <2>2. lease_token' \in [Run -> Nat] /\ lease_expires_at' \in [Run -> Int]
    BY DEF TypeOK, _clear_lease, NoToken
  <2> QED
    BY Zenon, <1>2, <2>1, <2>2 DEF TypeOK
<1>4. OneRunningPerThread'
  BY Zenon DEF OneRunningPerThread, SameThread
<1>5. LedgerInv' /\ StepHasExecution'
  BY Zenon DEF ledgerVars, actionRows, LedgerInv, LedgerTypeOK, StepAgreesWithAction,
     UnsafeDispatchedOnce, Dispatched, StepHasExecution
<1>6. DeskTypeOK'
  BY Zenon DEF DeskTypeOK, TypeOK, Base, _thread_revision
<1>7. Parked'
  BY Zenon, <1>1 DEF Parked, Quarantined, _clear_lease, TypeOK, DeskTypeOK
<1>8. ReleasedOnSettledEvidence'
  <2>1. resolution[r] = <<>>
    BY Zenon, <1>1 DEF ReleasedOnSettledEvidence
  <2> QED
    BY Zenon, <2>1 DEF ReleasedOnSettledEvidence, _workflow_evidence_fingerprint, ledgerVars,
       actionRows, TypeOK
<1> QED
  BY <1>3, <1>4, <1>5, <1>6, <1>7, <1>8

\* A foreign writer moves the checkpoint and nothing else.
LEMMA ForeignWriteKeeps ==
  ASSUME QInv, NEW th \in Thread, ForeignWrite(th)
  PROVE  QInv'
<1> USE DEF QInv, ForeignWrite, requestVars, leaseVars, ledgerVars, actionRows, deskVars
<1>1. TypeOK' /\ OneRunningPerThread'
  BY DEF TypeOK, OneRunningPerThread, SameThread
<1>2. LedgerInv' /\ StepHasExecution'
  BY Zenon DEF LedgerInv, LedgerTypeOK, StepAgreesWithAction, UnsafeDispatchedOnce, Dispatched,
     StepHasExecution
<1>3. DeskTypeOK' /\ Parked' /\ ReleasedOnSettledEvidence'
  BY Zenon DEF DeskTypeOK, Parked, Quarantined, ReleasedOnSettledEvidence,
     _workflow_evidence_fingerprint
<1> QED
  BY Zenon, <1>1, <1>2, <1>3

\* A command that writes nothing leaves the invariant alone.
LEMMA ReadingKeeps ==
  ASSUME QInv, StoreUnchanged,
         desk' \in [Operator -> {NoCommand} \cup [stage : Stage, plan : Plans]]
  PROVE  QInv'
<1> USE DEF QInv, StoreUnchanged, vars, requestVars, leaseVars, ledgerVars, actionRows
<1>1. TypeOK' /\ OneRunningPerThread'
  BY Zenon DEF TypeOK, OneRunningPerThread, SameThread
<1>2. LedgerInv' /\ StepHasExecution'
  BY Zenon DEF LedgerInv, LedgerTypeOK, StepAgreesWithAction, UnsafeDispatchedOnce, Dispatched,
     StepHasExecution
<1>3. DeskTypeOK' /\ Parked' /\ ReleasedOnSettledEvidence'
  BY Zenon DEF DeskTypeOK, Parked, Quarantined, ReleasedOnSettledEvidence,
     _workflow_evidence_fingerprint
<1> QED
  BY Zenon, <1>1, <1>2, <1>3

\* The resolution of an eligible Run is its first, and ends it on the evidence
\* the plan named.
LEMMA ResolvingKeeps ==
  ASSUME QInv, NEW r \in Run, NEW plan, plan = _derive_quarantine_plan(r), eligible(r),
         Resolve(plan),
         desk' \in [Operator -> {NoCommand} \cup [stage : Stage, plan : Plans]]
  PROVE  QInv' /\ Len(resolution'[r]) > Len(resolution[r])
         /\ \A q \in Run \ {r} : status'[q] = status[q] /\ error_code'[q] = error_code[q]
                                 /\ lease_token'[q] = lease_token[q]
<1> USE DEF QInv, requestVars, leaseVars
<1>1. /\ plan \in Plans /\ plan.run = r
      /\ plan.evidence = _workflow_evidence_fingerprint(r)
      /\ plan.cancel_requested = cancel_requested[r]
  BY Zenon, PlanType
<1>2. /\ status[r] = "running" /\ resolution[r] = <<>>
      /\ action[r].status \in ActionTerminal
  BY Zenon DEF eligible, Quarantined, ReleasedOnSettledEvidence,
     _terminal_external_action_evidence_is_consistent
<1>3. /\ resolution' = [resolution EXCEPT ![r] = Append(@, plan)]
      /\ status' = [status EXCEPT ![r] = "failed"]
      /\ error_code' = [error_code EXCEPT ![r] = CONFLICT]
      /\ lease_token' = [lease_token EXCEPT ![r] = NoToken]
      /\ lease_expires_at' = [lease_expires_at EXCEPT ![r] = 0]
      /\ events' = [events EXCEPT ![r] = @ \o <<"quarantine.resolution_applied", "run.failed">>]
      /\ UNCHANGED <<thread_id, has_state, cancel_requested, base, attempt, now, revision,
                     workflow, retry_mode, step, action, conflict>>
  BY Zenon, <1>1 DEF Resolve, _terminalize, _clear_lease, _append_event, ledgerVars, actionRows
<1>4. events' \in [Run -> Seq(EventType)]
  BY <1>3 DEF TypeOK, EventType
<1>5. TypeOK'
  <2>1. status' \in [Run -> Status] /\ error_code' \in [Run -> ErrorCode]
    BY Zenon, <1>3 DEF TypeOK, Status, Terminal, ErrorCode
  <2>2. lease_token' \in [Run -> Nat] /\ lease_expires_at' \in [Run -> Int]
    BY <1>3 DEF TypeOK, NoToken
  <2> QED
    BY Zenon, <1>3, <1>4, <2>1, <2>2 DEF TypeOK
<1>6. OneRunningPerThread'
  BY Zenon, <1>3 DEF OneRunningPerThread, SameThread, TypeOK
<1>7. LedgerInv' /\ StepHasExecution'
  BY Zenon, <1>3 DEF LedgerInv, LedgerTypeOK, StepAgreesWithAction, UnsafeDispatchedOnce, Dispatched,
     StepHasExecution
<1>8. resolution'[r] = <<plan>> /\ \A q \in Run \ {r} : resolution'[q] = resolution[q]
  <2>1. resolution \in [Run -> Seq(Plans)]
    BY Zenon DEF DeskTypeOK
  <2>2. /\ resolution'[r] = Append(resolution[r], plan)
        /\ \A q \in Run \ {r} : resolution'[q] = resolution[q]
    BY Zenon, <1>3, <2>1
  <2> QED
    BY SMTT(30), <1>2, <2>2
<1>9. DeskTypeOK'
  <2>1. resolution \in [Run -> Seq(Plans)] /\ Append(resolution[r], plan) \in Seq(Plans)
    BY SMTT(30), <1>1 DEF DeskTypeOK
  <2>2. resolution' \in [Run -> Seq(Plans)]
    BY Zenon, <1>3, <2>1
  <2> QED
    BY Zenon, <1>1, <1>3, <2>2 DEF DeskTypeOK
<1>10. Parked'
  BY Zenon, <1>3 DEF Parked, Quarantined, TypeOK
<1>11. ReleasedOnSettledEvidence'
  <2>1. \A q \in Run : /\ _workflow_evidence_fingerprint(q)' = _workflow_evidence_fingerprint(q)
                       /\ action'[q] = action[q] /\ cancel_requested'[q] = cancel_requested[q]
    BY Zenon, <1>3 DEF _workflow_evidence_fingerprint
  <2>2. /\ status'[r] = "failed" /\ error_code'[r] = CONFLICT
        /\ \A q \in Run \ {r} : status'[q] = status[q] /\ error_code'[q] = error_code[q]
    BY Zenon, <1>3 DEF TypeOK
  <2>3. Len(resolution'[r]) = 1 /\ resolution'[r][1] = plan
    BY <1>8
  <2>4. ASSUME NEW q \in Run, resolution'[q] # <<>>
        PROVE  /\ Len(resolution'[q]) = 1 /\ status'[q] = "failed" /\ error_code'[q] = CONFLICT
               /\ action'[q].status \in ActionTerminal
               /\ resolution'[q][1].evidence = _workflow_evidence_fingerprint(q)'
               /\ resolution'[q][1].cancel_requested = cancel_requested'[q]
    <3>1. CASE q = r
      BY Zenon, <3>1, <1>1, <1>2, <2>1, <2>2, <2>3
    <3>2. CASE q # r
      <4>1. resolution'[q] = resolution[q] /\ resolution[q] # <<>>
        BY Zenon, <3>2, <2>4, <1>8
      <4>2. /\ Len(resolution[q]) = 1 /\ status[q] = "failed" /\ error_code[q] = CONFLICT
            /\ action[q].status \in ActionTerminal
            /\ resolution[q][1].evidence = _workflow_evidence_fingerprint(q)
            /\ resolution[q][1].cancel_requested = cancel_requested[q]
        BY Zenon, <4>1 DEF ReleasedOnSettledEvidence
      <4> QED
        BY Zenon, <3>2, <4>1, <4>2, <2>1, <2>2
    <3> QED
      BY Zenon, <3>1, <3>2
  <2> QED
    BY Zenon, <2>4 DEF ReleasedOnSettledEvidence
<1>12. Len(resolution'[r]) > Len(resolution[r])
  BY SMTT(30), <1>2, <1>8
<1>13. \A q \in Run \ {r} : status'[q] = status[q] /\ error_code'[q] = error_code[q]
                           /\ lease_token'[q] = lease_token[q]
  BY Zenon, <1>3 DEF TypeOK
<1> QED
  BY <1>5, <1>6, <1>7, <1>9, <1>10, <1>11, <1>12, <1>13

\* Every command of an operator reads, or resolves one Run.
LEMMA CommandShape ==
  ASSUME QInv, NEW o \in Operator, Command(o)
  PROVE  /\ desk' \in [Operator -> {NoCommand} \cup [stage : Stage, plan : Plans]]
         /\ \/ StoreUnchanged
            \/ \E r \in Run : eligible(r) /\ Resolve(_derive_quarantine_plan(r))
<1> DEFINE Desk == desk' \in [Operator -> {NoCommand} \cup [stage : Stage, plan : Plans]]
<1>1. ASSUME NEW r \in Run, plan_quarantine_resolution(o, r) PROVE Desk /\ StoreUnchanged
  <2>1. _derive_quarantine_plan(r) \in Plans
    BY Zenon, PlanType
  <2>2. [stage |-> "planned", plan |-> _derive_quarantine_plan(r)] \in [stage : Stage, plan : Plans]
    BY <2>1 DEF Stage
  <2> QED
    BY Zenon, <1>1, <2>2 DEF plan_quarantine_resolution, QInv, DeskTypeOK
<1>2. ASSUME NEW s \in Stage, At(o, s), desk[o].stage # "idle" PROVE Desk
  BY Zenon, <1>2, DeskMoves
<1>3. \A s \in {"planned", "committed", "verified", "incomplete", "stale"} : s \in Stage
  BY DEF Stage
<1>4. CASE apply_quarantine_resolution(o)
  <2>1. desk[o].stage # "idle" /\ desk[o].plan.run \in Run
    BY Zenon, <1>4, DeskPlan DEF apply_quarantine_resolution
  <2>2. Desk
    BY Zenon, <1>2, <1>3, <1>4, <2>1 DEF apply_quarantine_resolution
  <2> QED
    BY Zenon, <1>4, <2>1, <2>2 DEF apply_quarantine_resolution
<1>5. CASE verify_quarantine_resolution(o)
  <2>1. desk[o].stage # "idle"
    BY Zenon, <1>5 DEF verify_quarantine_resolution
  <2> QED
    BY Zenon, <1>2, <1>3, <1>5, <2>1 DEF verify_quarantine_resolution
<1>6. CASE ResponseLost(o)
  <2>1. desk[o].stage # "idle"
    BY Zenon, <1>6 DEF ResponseLost
  <2> QED
    BY Zenon, <1>2, <1>3, <1>6, <2>1 DEF ResponseLost
<1> QED
  BY Zenon, <1>1, <1>4, <1>5, <1>6 DEF Command

-----------------------------------------------------------------------------
(* The theorems. *)

\* A database without Runs satisfies the invariant.
LEMMA QInit == QuarantineInit => QInv
<1> SUFFICES ASSUME QuarantineInit PROVE QInv
  OBVIOUS
<1> USE DEF QuarantineInit
<1>1. TypeOK /\ OneRunningPerThread
  BY Zenon, InitIInv DEF LedgerInit, IInv
<1>2. LedgerInv
  BY LedgerInitInv
<1>3. DeskTypeOK
  BY DEF DeskTypeOK, NoConflict, Base, NoCommand
<1>4. StepHasExecution /\ Parked
  BY Zenon DEF StepHasExecution, Parked, Quarantined, LedgerInit, Init, NoExecution
<1>5. ReleasedOnSettledEvidence
  BY Zenon DEF ReleasedOnSettledEvidence
<1> QED
  BY <1>1, <1>2, <1>3, <1>4, <1>5 DEF QInv

\* A parked Run is held against one step of anybody but a resolving operator.
Held(r) ==
  \/ /\ Quarantined(r)' /\ lease_token'[r] = NoToken
     /\ \A q \in Run \ {r} : SameThread(q, r) => status'[q] # "running"
  \/ Len(resolution'[r]) > Len(resolution[r])

\* The step of any Manager, writer or operator keeps the invariant, and holds
\* every parked Run.
LEMMA QStep ==
  ASSUME QInv, [QuarantineNext]_quarantineVars
  PROVE  QInv' /\ \A r \in Run : Quarantined(r) => Held(r)
<1>1. ASSUME NEW r \in Run, Quarantined(r)
      PROVE  /\ lease_token[r] = NoToken
             /\ \A q \in Run \ {r} : SameThread(q, r) => status[q] # "running"
  BY Zenon, <1>1 DEF QInv, Parked, OneRunningPerThread, Quarantined
<1>2. CASE [Next]_vars /\ UNCHANGED <<ledgerVars, deskVars>>
  <2>1. QInv'
    BY <1>2, StoreStepKeeps
  <2>2. ASSUME NEW r \in Run, Quarantined(r) PROVE Held(r)
    BY Zenon, <1>1, <1>2, <2>2, StoreNeverReleases DEF Held, QInv
  <2> QED
    BY <2>1, <2>2
<1>3. ASSUME UNCHANGED <<status, error_code, lease_token>>, NEW r \in Run, Quarantined(r)
      PROVE  Held(r)
  BY Zenon, <1>1, <1>3 DEF Held, Quarantined
<1>4. ASSUME NEW r \in Run, NEW t \in Nat, LedgerStep(r, t), UNCHANGED deskVars
      PROVE  QInv' /\ \A q \in Run : Quarantined(q) => Held(q)
  <2>1. QInv' /\ UNCHANGED vars
    BY Zenon, <1>4, LateAnswerKeeps, LedgerTouches
  <2> QED
    BY Zenon, <1>3, <2>1 DEF vars, leaseVars
<1>5. ASSUME NEW r \in Run, NEW t \in Tokens(r), t \in Nat,
             quarantine_checkpoint_conflict_for_reconciliation(r, t)
      PROVE  QInv' /\ \A q \in Run : Quarantined(q) => Held(q)
  <2>1. QInv'
    BY <1>5, ParkingKeeps
  <2>2. lease_token[r] # NoToken /\ ~Quarantined(r)
    <3>1. t # NoToken /\ lease_token[r] = t
      BY <1>5 DEF Tokens, NoToken, quarantine_checkpoint_conflict_for_reconciliation,
         assert_current_run_lease, CurrentLease, QInv, TypeOK
    <3> QED
      BY Zenon, <1>1, <3>1
  <2>3. ASSUME NEW q \in Run, Quarantined(q) PROVE Held(q)
    BY Zenon, <1>1, <1>5, <2>2, <2>3 DEF Held, Quarantined, _clear_lease, QInv, TypeOK,
       quarantine_checkpoint_conflict_for_reconciliation
  <2> QED
    BY <2>1, <2>3
<1>6. ASSUME NEW th \in Thread, ForeignWrite(th)
      PROVE  QInv' /\ \A q \in Run : Quarantined(q) => Held(q)
  BY Zenon, <1>3, <1>6, ForeignWriteKeeps DEF ForeignWrite, leaseVars
<1>7. ASSUME NEW o \in Operator, Command(o)
      PROVE  QInv' /\ \A q \in Run : Quarantined(q) => Held(q)
  <2>1. desk' \in [Operator -> {NoCommand} \cup [stage : Stage, plan : Plans]]
    BY <1>7, CommandShape
  <2>2. CASE StoreUnchanged
    BY Zenon, <1>3, <2>1, <2>2, ReadingKeeps DEF StoreUnchanged, vars, leaseVars
  <2>3. ASSUME NEW r \in Run, eligible(r), Resolve(_derive_quarantine_plan(r))
        PROVE  QInv' /\ \A q \in Run : Quarantined(q) => Held(q)
    <3>1. /\ QInv' /\ Len(resolution'[r]) > Len(resolution[r])
          /\ \A q \in Run \ {r} : status'[q] = status[q] /\ error_code'[q] = error_code[q]
                                  /\ lease_token'[q] = lease_token[q]
      BY Zenon, <2>1, <2>3, ResolvingKeeps
    <3>2. status'[r] # "running"
      BY <2>3, PlanType DEF Resolve, _terminalize, QInv, TypeOK
    <3>3. ASSUME NEW q \in Run, Quarantined(q) PROVE Held(q)
      BY Zenon, <1>1, <3>1, <3>2, <3>3 DEF Held, Quarantined
    <3> QED
      BY Zenon, <3>1, <3>3
  <2> QED
    BY Zenon, <1>7, <2>2, <2>3, CommandShape
<1> QED
  BY <1>2, <1>4, <1>5, <1>6, <1>7, QuarantineAssumption, RunStoreAssumption
  DEF QuarantineNext, quarantineVars

\* The invariant of quarantine, for every number of Managers' attempts, foreign
\* writes and operators.
THEOREM QuarantineInvariance == QuarantineSpec => []QInv
<1>1. QInv /\ [QuarantineNext]_quarantineVars => QInv'
  BY QStep
<1> QED
  BY <1>1, QInit, PTL DEF QuarantineSpec

\* apply_quarantine_resolution releases a Run once, and on evidence that
\* neither a late answer nor a repeated command changes any more.
THEOREM ReleaseRestsOnEvidence == QuarantineSpec => []ReleasedOnSettledEvidence
BY QuarantineInvariance, PTL DEF QInv

\* Nothing but apply_quarantine_resolution ends a parked Run, leases it, or starts
\* another Run of its thread.
THEOREM ParkedRunIsHeld == QuarantineSpec => QuarantineHolds
<1> DEFINE A == \A r \in Run : Quarantined(r) =>
       \/ /\ Quarantined(r)' /\ lease_token'[r] = NoToken
          /\ \A q \in Run \ {r} : SameThread(q, r) => status'[q] # "running"
       \/ Len(resolution'[r]) > Len(resolution[r])
<1>1. ASSUME QInv, [QuarantineNext]_quarantineVars PROVE A
  BY Zenon, <1>1, QStep DEF Held
<1> QED
  BY <1>1, QuarantineInvariance, PTL DEF QuarantineSpec, QuarantineHolds

\* _derive_quarantine_plan finds a parked Run with a settled action eligible,
\* unless the checkpoint was replaced once more.
THEOREM SettledCanBeReleased == QuarantineSpec => []SettledIsEligible
<1>1. ASSUME QInv, NEW r \in Run, Quarantined(r), action[r].status \in ActionTerminal,
             conflict[r].observed = _thread_revision(r)
      PROVE  eligible(r)
  <2>1. /\ lease_token[r] = NoToken
        /\ conflict[r].expected = base[r] /\ base[r] # _thread_revision(r)
    BY Zenon, <1>1 DEF QInv, Parked
  <2>2. conflict[r] = [expected |-> base[r], observed |-> _thread_revision(r)]
    BY Zenon, <1>1, <2>1 DEF QInv, DeskTypeOK
  <2>3. workflow[r].status # "none"
    BY Zenon, <1>1 DEF QInv, StepHasExecution, ActionTerminal
  <2>4. Dispatched(r) /\ step[r] = StepOf(action[r].status)
    BY Zenon, <1>1 DEF QInv, LedgerInv, StepAgreesWithAction, ActionTerminal
  <2> QED
    BY Zenon, <1>1, <2>1, <2>2, <2>3, <2>4
    DEF eligible, _terminal_external_action_evidence_is_consistent
<1>2. QInv => SettledIsEligible
  BY Zenon, <1>1 DEF SettledIsEligible
<1> QED
  BY <1>2, QuarantineInvariance, PTL

-----------------------------------------------------------------------------
(* Repeating and reading back a command. *)

\* A command's plan was derived at a revision the thread has reached; once it is
\* committed, it is the one resolution of its Run.  A released Run has no lease.
Unleased == \A r \in Run : resolution[r] # <<>> => lease_token[r] = NoToken

DeskInv ==
  \A o \in Operator : desk[o].stage # "idle" =>
    /\ desk[o].stage # "incomplete"
    /\ _checkpoint_progress_is_valid(desk[o].plan)
    /\ desk[o].stage \in {"committed", "verified"}
       => resolution[desk[o].plan.run] = <<desk[o].plan>>

\* A plan on record is the only one, and the rows it names still stand.
LEMMA OnRecord ==
  ASSUME QInv, NEW plan \in Plans, _find_resolution_event(plan) # {}
  PROVE  /\ resolution[plan.run] = <<plan>>
         /\ Cardinality(_find_resolution_event(plan)) = 1
         /\ _workflow_evidence_fingerprint(plan.run) = plan.evidence
         /\ status[plan.run] = "failed" /\ error_code[plan.run] = CONFLICT
<1> USE DEF QInv
<1>1. plan.run \in Run
  BY Zenon DEF Plans
<1>2. resolution[plan.run] \in Seq(Plans) /\ resolution[plan.run] # <<>>
  BY <1>1 DEF _find_resolution_event, DeskTypeOK
<1>3. Len(resolution[plan.run]) = 1
  BY Zenon, <1>1, <1>2 DEF ReleasedOnSettledEvidence
<1>4. resolution[plan.run][1] = plan /\ _find_resolution_event(plan) = {1}
  BY <1>2, <1>3 DEF _find_resolution_event
<1>5. resolution[plan.run] = <<plan>>
  BY <1>2, <1>3, <1>4
<1>6. Cardinality(_find_resolution_event(plan)) = 1
  BY Zenon, <1>4, FS_Singleton
<1> QED
  BY Zenon, <1>1, <1>2, <1>4, <1>5, <1>6 DEF ReleasedOnSettledEvidence

\* A committed resolution can be found.
LEMMA Recorded ==
  ASSUME QInv, NEW plan \in Plans, resolution[plan.run] = <<plan>>
  PROVE  _find_resolution_event(plan) # {}
<1>1. 1 \in DOMAIN resolution[plan.run] /\ resolution[plan.run][1] = plan
  OBVIOUS
<1> QED
  BY Zenon, <1>1 DEF _find_resolution_event

\* Revisions grow and resolutions stay.
LEMMA Onward ==
  ASSUME QInv, [QuarantineNext]_quarantineVars
  PROVE  /\ \A r \in Run : _thread_revision(r)' >= _thread_revision(r)
         /\ \A r \in Run : resolution[r] # <<>> => resolution'[r] = resolution[r]
<1> USE DEF QInv, _thread_revision
<1>1. CASE [Next]_vars /\ UNCHANGED <<ledgerVars, deskVars>>
  <2>1. /\ UNCHANGED <<thread_id, resolution>>
        /\ \/ UNCHANGED revision
           \/ \E th \in Thread : revision' = [revision EXCEPT ![th] = @ + 1]
    <3>1. TypeOK
      OBVIOUS
    <3>2. \A r \in Run : thread_id[r] \in Thread
      BY Zenon DEF TypeOK
    <3> QED
      BY Zenon, <1>1, <3>1, <3>2, StepShape DEF Quiet, Dropped, Created, Claimed, Saved, deskVars
  <2>2. ASSUME NEW r \in Run PROVE _thread_revision(r)' >= _thread_revision(r)
    <3>1. thread_id[r] \in Thread /\ revision \in [Thread -> Nat]
      BY Zenon DEF TypeOK
    <3>2. revision[thread_id[r]] \in Nat
      BY Zenon, <3>1
    <3> QED
      BY <2>1, <3>1, <3>2
  <2> QED
    BY Zenon, <2>1, <2>2
<1>2. CASE UNCHANGED <<thread_id, revision, resolution>>
  BY <1>2 DEF TypeOK
<1>3. ASSUME NEW r \in Run, NEW t \in Nat, LedgerStep(r, t), UNCHANGED deskVars
      PROVE  UNCHANGED <<thread_id, revision, resolution>>
  BY Zenon, <1>3, LedgerTouches DEF vars, requestVars, deskVars
<1>4. ASSUME NEW th \in Thread, ForeignWrite(th)
      PROVE  /\ \A r \in Run : _thread_revision(r)' >= _thread_revision(r)
             /\ \A r \in Run : resolution[r] # <<>> => resolution'[r] = resolution[r]
  <2>1. /\ revision' = [revision EXCEPT ![th] = @ + 1] /\ revision \in [Thread -> Nat]
        /\ UNCHANGED <<thread_id, resolution>>
    BY Zenon, <1>4 DEF ForeignWrite, requestVars, deskVars, TypeOK
  <2>2. \A u \in Thread : revision'[u] >= revision[u]
    BY <2>1
  <2>3. \A r \in Run : thread_id[r] \in Thread
    BY Zenon DEF TypeOK
  <2> QED
    BY Zenon, <2>1, <2>2, <2>3 DEF _thread_revision
<1>5. ASSUME NEW o \in Operator, Command(o)
      PROVE  /\ \A r \in Run : _thread_revision(r)' >= _thread_revision(r)
             /\ \A r \in Run : resolution[r] # <<>> => resolution'[r] = resolution[r]
  <2>1. CASE StoreUnchanged
    BY Zenon, <1>2, <2>1 DEF StoreUnchanged, vars, requestVars
  <2>2. ASSUME NEW r \in Run, eligible(r), Resolve(_derive_quarantine_plan(r))
        PROVE  /\ UNCHANGED <<thread_id, revision>>
               /\ \A q \in Run : resolution[q] # <<>> => resolution'[q] = resolution[q]
    <3>1. _derive_quarantine_plan(r).run = r /\ resolution[r] = <<>>
      BY Zenon, <2>2, PlanType DEF eligible, Quarantined, ReleasedOnSettledEvidence
    <3> QED
      BY Zenon, <2>2, <3>1 DEF Resolve, _terminalize, requestVars, DeskTypeOK
  <2>3. ASSUME NEW r \in Run, UNCHANGED <<thread_id, revision>>
        PROVE  _thread_revision(r)' >= _thread_revision(r)
    BY <2>3 DEF TypeOK
  <2> QED
    BY Zenon, <1>5, <2>1, <2>2, <2>3, CommandShape
<1>6. ASSUME NEW r \in Run, NEW t \in Nat,
             quarantine_checkpoint_conflict_for_reconciliation(r, t)
      PROVE  UNCHANGED <<thread_id, revision, resolution>>
  BY Zenon, <1>6 DEF quarantine_checkpoint_conflict_for_reconciliation, requestVars
<1> HIDE DEF QInv, _thread_revision
<1> QED
  BY SMTT(30), <1>1, <1>2, <1>3, <1>4, <1>5, <1>6, QuarantineAssumption, RunStoreAssumption
  DEF QuarantineNext, quarantineVars

\* Nobody leases a released Run.
LEMMA StaysUnleased ==
  ASSUME QInv, Unleased, [QuarantineNext]_quarantineVars
  PROVE  Unleased'
<1> USE DEF Unleased
<1>1. CASE [Next]_vars /\ UNCHANGED <<ledgerVars, deskVars>>
  BY Zenon, <1>1, RowShape DEF QInv, ReleasedOnSettledEvidence, Untouched, Leased, Kept, Ended, Noted,
     Candidate, FreshCandidate, ExpiredCandidate, Nonterminal, deskVars
<1>2. CASE UNCHANGED <<lease_token, resolution>>
  BY Zenon, <1>2
<1>3. ASSUME NEW r \in Run, NEW t \in Nat, LedgerStep(r, t), UNCHANGED deskVars
      PROVE  UNCHANGED <<lease_token, resolution>>
  BY Zenon, <1>3, LedgerTouches DEF vars, leaseVars, deskVars
<1>4. ASSUME NEW r \in Run, NEW t \in Nat,
             quarantine_checkpoint_conflict_for_reconciliation(r, t)
      PROVE  Unleased'
  BY Zenon, <1>4 DEF quarantine_checkpoint_conflict_for_reconciliation, _clear_lease, QInv, TypeOK
<1>5. ASSUME NEW th \in Thread, ForeignWrite(th) PROVE UNCHANGED <<lease_token, resolution>>
  BY Zenon, <1>5 DEF ForeignWrite, leaseVars, deskVars
<1>6. ASSUME NEW o \in Operator, Command(o) PROVE Unleased'
  <2>1. CASE StoreUnchanged
    BY Zenon, <1>2, <2>1 DEF StoreUnchanged, vars, leaseVars
  <2>2. ASSUME NEW r \in Run, Resolve(_derive_quarantine_plan(r)) PROVE Unleased'
    <3>1. _derive_quarantine_plan(r).run = r
      BY Zenon, PlanType
    <3> QED
      BY Zenon, <2>2, <3>1 DEF Resolve, _terminalize, _clear_lease, QInv, TypeOK, DeskTypeOK
  <2> QED
    BY Zenon, <1>6, <2>1, <2>2, CommandShape
<1> QED
  BY SMTT(30), <1>1, <1>2, <1>3, <1>4, <1>5, <1>6, QuarantineAssumption, RunStoreAssumption
  DEF QuarantineNext, quarantineVars

\* What one entry of the desk owes.
Sound(c) ==
  c.stage # "idle" =>
    /\ c.stage # "incomplete"
    /\ _checkpoint_progress_is_valid(c.plan)
    /\ c.stage \in {"committed", "verified"} => resolution[c.plan.run] = <<c.plan>>

\* A command whose entry is left alone stays sound.
LEMMA StaysSound ==
  ASSUME QInv, DeskInv, [QuarantineNext]_quarantineVars, NEW o \in Operator,
         desk'[o] = desk[o]
  PROVE  Sound(desk[o])'
<1> SUFFICES ASSUME desk[o].stage # "idle"
             PROVE  /\ desk[o].stage # "incomplete"
                    /\ _checkpoint_progress_is_valid(desk[o].plan)'
                    /\ desk[o].stage \in {"committed", "verified"}
                       => resolution'[desk[o].plan.run] = <<desk[o].plan>>
  BY Zenon DEF Sound, _checkpoint_progress_is_valid
<1>1. desk[o].plan \in Plans /\ desk[o].plan.run \in Run
  BY Zenon, DeskPlan
<1>2. /\ desk[o].plan.revision \in Nat
      /\ _thread_revision(desk[o].plan.run) \in Nat
      /\ _thread_revision(desk[o].plan.run)' \in Nat
  <2>1. TypeOK'
    BY Zenon, QStep DEF QInv
  <2> QED
    BY Zenon, <1>1, <2>1 DEF Plans, QInv, TypeOK, _thread_revision
<1>3. _checkpoint_progress_is_valid(desk[o].plan)'
  BY SMTT(30), <1>1, <1>2, Onward DEF DeskInv, _checkpoint_progress_is_valid
<1>4. ASSUME desk[o].stage \in {"committed", "verified"}
      PROVE  resolution'[desk[o].plan.run] = <<desk[o].plan>>
  <2>1. resolution[desk[o].plan.run] = <<desk[o].plan>>
    BY Zenon, <1>4 DEF DeskInv
  <2>2. resolution[desk[o].plan.run] # <<>>
    BY SMTT(30), <2>1
  <2> QED
    BY Zenon, <1>1, <2>1, <2>2, Onward
<1>5. desk[o].stage # "incomplete"
  BY Zenon DEF DeskInv
<1> QED
  BY Zenon, <1>3, <1>4, <1>5

\* A command of an operator leaves their own entry sound.
LEMMA CommandSound ==
  ASSUME QInv, DeskInv, Unleased, NEW o \in Operator, Command(o)
  PROVE  Sound(desk[o])'
<1> DEFINE plan == desk[o].plan
<1>1. ASSUME NEW s \in Stage, At(o, s), desk[o].stage # "idle"
      PROVE  desk'[o].stage = s /\ desk'[o].plan = plan
  <2>1. desk[o] \in [stage : Stage, plan : Plans] /\ desk \in [Operator -> {NoCommand} \cup [stage : Stage, plan : Plans]]
    BY <1>1 DEF QInv, DeskTypeOK, NoCommand
  <2> QED
    BY <1>1, <2>1 DEF At
<1>2. \A s \in {"planned", "committed", "verified", "incomplete", "stale"} : s \in Stage
  BY DEF Stage
<1>3. ASSUME desk[o].stage # "idle"
      PROVE  plan \in Plans /\ plan.run \in Run /\ _checkpoint_progress_is_valid(plan)
  BY Zenon, <1>3, DeskPlan DEF DeskInv
<1>4. ASSUME StoreUnchanged
      PROVE  /\ resolution' = resolution
             /\ \A p : _checkpoint_progress_is_valid(p)' <=> _checkpoint_progress_is_valid(p)
  BY Zenon, <1>4 DEF StoreUnchanged, vars, requestVars, _checkpoint_progress_is_valid, _thread_revision
<1>5. ASSUME NEW s \in {"planned", "committed", "verified", "stale"}, At(o, s),
             StoreUnchanged, desk[o].stage # "idle",
             s \in {"committed", "verified"} => resolution[plan.run] = <<plan>>
      PROVE  Sound(desk[o])'
  <2>1. desk'[o].stage = s /\ desk'[o].plan = plan
    BY Zenon, <1>1, <1>2, <1>5
  <2> QED
    BY Zenon, <1>3, <1>4, <1>5, <2>1 DEF Sound, _checkpoint_progress_is_valid
<1>6. ASSUME NEW r \in Run, plan_quarantine_resolution(o, r) PROVE Sound(desk[o])'
  <2>1. desk'[o].stage = "planned" /\ desk'[o].plan = _derive_quarantine_plan(r)
    BY Zenon, <1>6 DEF plan_quarantine_resolution, QInv, DeskTypeOK
  <2>2. desk'[o].plan.run = r /\ desk'[o].plan.revision = _thread_revision(r)
    <3>1. /\ _derive_quarantine_plan(r).run = r
          /\ _derive_quarantine_plan(r).revision = _thread_revision(r)
      BY DEF _derive_quarantine_plan
    <3> QED
      BY Zenon, <2>1, <3>1
  <2>3. _thread_revision(r)' = _thread_revision(r) /\ _thread_revision(r) \in Nat
    BY Zenon, <1>6 DEF plan_quarantine_resolution, StoreUnchanged, vars, requestVars,
       _thread_revision, QInv, TypeOK
  <2> QED
    BY SMTT(30), <2>1, <2>2, <2>3 DEF Sound, _checkpoint_progress_is_valid
<1>7. CASE apply_quarantine_resolution(o)
  <2>1. desk[o].stage = "planned"
    BY Zenon, <1>7 DEF apply_quarantine_resolution
  <2>2. CASE _find_resolution_event(plan) # {}
    <3>1. At(o, "committed") /\ StoreUnchanged
      BY Zenon, <1>3, <1>7, <2>1, <2>2, OnRecord DEF apply_quarantine_resolution
    <3> QED
      BY <1>3, <1>5, <2>1, <2>2, <3>1, OnRecord
  <2>3. CASE /\ Resolve(plan) /\ At(o, "committed")
             /\ eligible(plan.run) /\ _derive_quarantine_plan(plan.run) = plan
    <3>1. desk'[o].stage = "committed" /\ desk'[o].plan = plan
      BY Zenon, <1>1, <1>2, <2>1, <2>3
    <3>2. resolution[plan.run] = <<>> /\ plan.run \in Run
      BY Zenon, <1>3, <2>1, <2>3 DEF eligible, Quarantined, QInv, ReleasedOnSettledEvidence
    <3>3. resolution'[plan.run] = <<plan>>
      <4>1. /\ resolution' = [resolution EXCEPT ![plan.run] = Append(@, plan)]
            /\ resolution \in [Run -> Seq(Plans)]
        BY Zenon, <2>3 DEF Resolve, QInv, DeskTypeOK
      <4>2. resolution'[plan.run] = Append(resolution[plan.run], plan)
        BY <3>2, <4>1
      <4>3. resolution'[plan.run] = Append(<<>>, plan)
        BY Zenon, <3>2, <4>2
      <4> QED
        BY <4>3
    <3>4. _checkpoint_progress_is_valid(plan)'
      BY Zenon, <1>3, <2>1, <2>3, <3>1
      DEF _checkpoint_progress_is_valid, _thread_revision, Resolve, _terminalize, requestVars
    <3> QED
      BY <3>1, <3>3, <3>4 DEF Sound, _checkpoint_progress_is_valid
  <2>4. CASE At(o, "stale") /\ StoreUnchanged
    BY <1>5, <2>1, <2>4
  <2> QED
    BY Zenon, <1>7, <2>2, <2>3, <2>4 DEF apply_quarantine_resolution
<1>8. CASE verify_quarantine_resolution(o)
  <2>1. desk[o].stage = "committed" /\ resolution[plan.run] = <<plan>>
    BY Zenon, <1>8 DEF verify_quarantine_resolution, DeskInv
  <2>2. _find_resolution_event(plan) # {} /\ resolution[plan.run] # <<>>
    <3>1. \A p : <<p>> # <<>>
      OBVIOUS
    <3> QED
      BY Zenon, <1>3, <2>1, <3>1, Recorded
  <2>3. lease_token[plan.run] = NoToken
    BY Zenon, <1>3, <2>1, <2>2 DEF Unleased
  <2>4. At(o, "verified") /\ StoreUnchanged
    BY <1>3, <1>8, <2>1, <2>2, <2>3, OnRecord DEF verify_quarantine_resolution
  <2> QED
    BY Zenon, <1>5, <2>1, <2>4
<1>9. CASE ResponseLost(o)
  BY Zenon, <1>5, <1>9 DEF ResponseLost
<1> QED
  BY Zenon, <1>6, <1>7, <1>8, <1>9 DEF Command

\* "Replay does not append another event or terminalize again", and the readback
\* of a committed resolution succeeds, whichever Runs of the thread follow and
\* whatever other operators do: verify_quarantine_resolution never reports
\* incomplete evidence.
THEOREM ReadbackSucceeds == QuarantineSpec => []CommittedResolutionVerifies
<1> DEFINE I == QInv /\ DeskInv /\ Unleased
<1>1. QuarantineInit => I
  <2>0. NoCommand.stage = "idle"
    BY DEF NoCommand
  <2>1. QuarantineInit => DeskInv /\ Unleased
    BY Zenon, <2>0 DEF QuarantineInit, DeskInv, Unleased
  <2> QED
    BY <2>1, QInit
<1>2. I /\ [QuarantineNext]_quarantineVars => I'
  <2> SUFFICES ASSUME I, [QuarantineNext]_quarantineVars PROVE I'
    BY Zenon
  <2>1. QInv' /\ Unleased'
    BY Zenon, QStep, StaysUnleased
  <2>2. CASE UNCHANGED desk
    <3>1. ASSUME NEW o \in Operator PROVE Sound(desk[o])'
      BY Zenon, <2>2, StaysSound
    <3> QED
      BY Zenon, <2>1, <3>1 DEF DeskInv, Sound
  <2>3. ASSUME NEW p \in Operator, Command(p) PROVE DeskInv'
    <3>1. ASSUME NEW o \in Operator \ {p} PROVE desk'[o] = desk[o]
      BY Zenon, <2>3, <3>1 DEF Command, plan_quarantine_resolution, apply_quarantine_resolution,
         verify_quarantine_resolution, ResponseLost, At, QInv, DeskTypeOK
    <3>2. ASSUME NEW o \in Operator PROVE Sound(desk[o])'
      BY Zenon, <2>3, <3>1, StaysSound, CommandSound
    <3> QED
      BY Zenon, <3>2 DEF DeskInv, Sound
  <2> QED
    BY Zenon, <2>1, <2>2, <2>3 DEF QuarantineNext, quarantineVars, deskVars, ForeignWrite,
       quarantine_checkpoint_conflict_for_reconciliation
<1>3. I => CommittedResolutionVerifies
  BY Zenon DEF DeskInv, CommittedResolutionVerifies
<1> QED
  BY <1>1, <1>2, <1>3, PTL DEF QuarantineSpec
=============================================================================
