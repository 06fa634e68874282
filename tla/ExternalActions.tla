-------------------------- MODULE ExternalActions --------------------------
(***************************************************************************)
(* One external write per Run, from submission to settlement: the attempts *)
(* of the Run (RuntimeManager), the private single-step Action workflow    *)
(* they execute (DurableActionRuntime), the ExternalActionCoordinator that *)
(* prepares, dispatches, retries and reconciles the write, and the         *)
(* provider behind the network.                                            *)
(*                                                                         *)
(* Attempt k of a Run is the worker that claimed it under lease token k.   *)
(* Each of its steps is one transaction, one provider call or one answer;  *)
(* an attempt that lost its lease keeps running.  The clock stands still   *)
(* and Lapse is the lease running out (a starved heartbeat, a crash).      *)
(***************************************************************************)
EXTENDS ActionLedger

CONSTANTS
  max_dispatches,   \* dispatch budget of the coordinator
  RefusalBindsKey,  \* provider contract: a refused key is never applied, and an
                    \* applied key is never refused
  MaxFaults,        \* bound: store exceptions
  MaxDrifts         \* bound: changes of the provider registration

ASSUME ActionsAssumption ==
  /\ max_dispatches \in Nat \ {0}
  /\ RefusalBindsKey \in BOOLEAN
  /\ MaxFaults \in Nat
  /\ MaxDrifts \in Nat

VARIABLES
  pc,          \* where each attempt stands
  frame,       \* what each attempt knows
  registered,  \* identity of the registered provider, NoProvider if there is none
  sent,        \* requests on their way to a provider
  answer,      \* the provider's answer to each dispatch
  applied,     \* effects of the write at the providers
  refused,     \* keys a provider refused for good
  faults,      \* store exceptions so far
  drifts       \* registration changes so far

attemptVars == <<pc, frame>>
providerVars == <<sent, answer, applied, refused>>
worldVars == <<registered, providerVars, faults, drifts>>
actionVars == <<vars, ledgerVars, attemptVars, worldVars>>

Attempt == 1 .. MaxAttempts
Dispatch == 1 .. MaxDispatches

\* Codes that settle the Run as failed even when it was cancelled, and codes
\* that may end a reconciliation.
SafetyCode == {"outcome_unknown", "evidence_incomplete", "failed"}
ResolutionCode == SafetyCode \cup {"run_cancel_requested"}
Exception == ResolutionCode \cup {"reconciliation_pending", "rejected", "other"}

\* reconcile: recovered, with a dispatch to reconcile before cancelling.  cancel:
\* the claim found a cancellation.  recovered: continues an earlier step claim.
\* identity, token: provider identity and dispatch token in use.  exc: the
\* exception under way.  hosted: past the handlers of the runtime.
NoFrame == [reconcile |-> FALSE, cancel |-> FALSE, recovered |-> FALSE,
            identity |-> NoProvider, token |-> NoToken, exc |-> "none", hosted |-> FALSE]

Current(r, k) == assert_current_run_lease(r, k)

-----------------------------------------------------------------------------
(* Control flow of an attempt. *)

GotoWith(r, k, label, f) ==
  /\ pc' = [pc EXCEPT ![r][k] = label]
  /\ frame' = [frame EXCEPT ![r][k] = f]

Goto(r, k, label) == GotoWith(r, k, label, frame[r][k])
Finish(r, k) == GotoWith(r, k, "done", NoFrame)

\* Continue at a label with dispatch token d.
With(r, k, label, d) == GotoWith(r, k, label, [frame[r][k] EXCEPT !.token = d])

\* What is left of an attempt's knowledge once an exception is under way.
Thrown(f, code) ==
  [NoFrame EXCEPT !.reconcile = f.reconcile, !.hosted = f.hosted, !.exc = code]

\* An exception first reaches the handlers of the runtime, then the Manager.
Raise(r, k, code) ==
  GotoWith(r, k, IF frame[r][k].hosted THEN "manager" ELSE "host",
           Thrown(frame[r][k], code))

\* Close the workflow, then raise the code: "fail_safely" raises it even if
\* closing fails.
Closing(r, k, label, code) == GotoWith(r, k, label, Thrown(frame[r][k], code))

ReadOnly == UNCHANGED <<vars, ledgerVars>>

\* A lease-fenced ledger write commits, or finds the lease lost.
Fenced(r, k, Commit, label) ==
  \/ Commit /\ Goto(r, k, label)
  \/ ~Current(r, k) /\ Raise(r, k, "other") /\ ReadOnly

-----------------------------------------------------------------------------
(* RuntimeManager: the claim and the cancellation boundary before execution. *)

Claim(r) ==
  /\ claim_next_run(r)
  /\ GotoWith(r, attempt'[r], "boundary",
       [NoFrame EXCEPT !.cancel = cancel_requested[r],
                       !.reconcile = error_code'[r] = PENDING])
  /\ UNCHANGED ledgerVars

\* Mutant: a recovered attempt honours the cancellation before the ledger.
Boundary_cancels_first(r, k) ==
  /\ pc[r][k] = "boundary"
  /\ Goto(r, k, IF frame[r][k].cancel THEN "cancel" ELSE "open")
  /\ ReadOnly

\* A recovered Run with a dispatched action is reconciled before it may be
\* cancelled.
Boundary(r, k) ==
  /\ pc[r][k] = "boundary"
  /\ LET reconcile == k > 1 /\ (frame[r][k].reconcile \/ Dispatched(r))
     IN  GotoWith(r, k, IF frame[r][k].cancel /\ ~reconcile THEN "cancel" ELSE "open",
                  [NoFrame EXCEPT !.reconcile = reconcile])
  /\ ReadOnly

-----------------------------------------------------------------------------
(* DurableActionRuntime: the workflow around the one step. *)

\* reconcile_dispatched_action: an action still in flight is settled as unknown,
\* a settled one reported as what the ledger proves.
Reconcile(r, k) ==
  CASE action[r].status = "dispatching" ->
         With(r, k, "unknown_leased", action[r].dispatch_count)
    [] action[r].status = "succeeded" -> Closing(r, k, "fail_safely", "evidence_incomplete")
    [] action[r].status \in {"failed", "outcome_unknown"} ->
         Closing(r, k, "fail_safely", action[r].status)

Open(r, k) ==
  /\ pc[r][k] = "open"
  /\ \/ /\ create_or_get_execution(r, k, ActionInput) /\ UNCHANGED actionRows
        /\ CASE workflow[r].status \in {"none", "pending"} -> Goto(r, k, "mark")
             [] workflow[r].status = "running" -> Goto(r, k, "resolve")
             [] workflow[r].status = "ready" -> Goto(r, k, "result")
             [] workflow[r].status = "failed" ->
                  IF Dispatched(r) THEN Reconcile(r, k)
                  ELSE Raise(r, k, IF workflow[r].error_code = SAFETY
                                   THEN "evidence_incomplete" ELSE "rejected")
     \/ ~Current(r, k) /\ Raise(r, k, "other") /\ ReadOnly

Mark(r, k) ==
  /\ pc[r][k] = "mark"
  /\ Fenced(r, k, mark_running(r, k) /\ UNCHANGED actionRows, "resolve")

\* The destination must still have a provider.
Resolve(r, k) ==
  /\ pc[r][k] = "resolve"
  /\ IF registered[r] # NoProvider THEN Goto(r, k, "step")
     ELSE IF Dispatched(r) THEN Reconcile(r, k)
     ELSE Closing(r, k, "fail", "rejected")
  /\ ReadOnly

Finalize(r, k) ==
  /\ pc[r][k] = "finalize"
  /\ Fenced(r, k, _finalize_execution(r, k, "ready", "none") /\ UNCHANGED actionRows,
            "result")

\* _fail closes a running workflow under the lease and raises the code.
Fail(r, k) ==
  /\ pc[r][k] \in {"fail", "fail_safely"}
  /\ LET code == frame[r][k].exc
     IN  \/ /\ workflow[r].status = "running"
            /\ _finalize_execution(r, k, "failed",
                                   IF code \in SafetyCode THEN SAFETY ELSE EXECUTION)
            /\ UNCHANGED actionRows
            /\ Raise(r, k, code)
         \/ /\ workflow[r].status # "running"
            /\ Raise(r, k, code) /\ ReadOnly
         \/ /\ workflow[r].status = "running" /\ ~Current(r, k)
            /\ Raise(r, k, IF pc[r][k] = "fail" THEN "other" ELSE code) /\ ReadOnly

\* Mutant: the runtime hands every exception on as it is.
Host_without_net(r, k) ==
  /\ pc[r][k] = "host"
  /\ GotoWith(r, k, "manager", [frame[r][k] EXCEPT !.hosted = TRUE])
  /\ ReadOnly

\* The except clauses of execute: no exception leaves a dispatch in flight.
Host(r, k) ==
  /\ pc[r][k] = "host"
  /\ LET f == [frame[r][k] EXCEPT !.hosted = TRUE]
     IN  CASE f.exc = "reconciliation_pending" -> GotoWith(r, k, "manager", f)
           [] f.exc # "reconciliation_pending" /\ action[r].status = "dispatching" ->
                GotoWith(r, k, "unknown_leased",
                         [f EXCEPT !.token = action[r].dispatch_count])
           [] f.exc = "other" /\ action[r].status # "dispatching" ->
                GotoWith(r, k, "fail", [f EXCEPT !.exc = "evidence_incomplete"])
           [] OTHER -> GotoWith(r, k, "manager", f)
  /\ ReadOnly

-----------------------------------------------------------------------------
(* ExternalActionCoordinator.execute: from the tool step to the dispatch. *)

Step(r, k) ==
  /\ pc[r][k] = "step"
  /\ LET f == [frame[r][k] EXCEPT !.identity = registered[r]]
     IN  IF registered[r] = NoProvider \/ (step[r] = "running" /\ k = 1)
         THEN Closing(r, k, "fail", "rejected")
         ELSE CASE step[r] = "none" -> GotoWith(r, k, "claim", f)
                [] step[r] = "running" ->
                     GotoWith(r, k, "prepare", [f EXCEPT !.recovered = TRUE])
                [] step[r] \in {"completed", "failed"} -> Goto(r, k, "restore")
  /\ ReadOnly

ClaimStep(r, k) == pc[r][k] = "claim" /\ Fenced(r, k, claim_step(r, k), "prepare")

\* A failed preparation is an ordinary failure before the step was claimed by an
\* earlier attempt, and leaves the Run to the next attempt afterwards.
PrepareFailed(r, k) ==
  IF frame[r][k].recovered
  THEN Raise(r, k, "reconciliation_pending")
  ELSE Closing(r, k, "fail", "rejected")

\* TOOL_ATTEMPT_MISMATCH or IDENTITY_MISMATCH.
Mismatch(r, k) ==
  step[r] # "running" \/ action[r].provider \notin {NoProvider, frame[r][k].identity}

Prepare(r, k) ==
  /\ pc[r][k] = "prepare"
  /\ \/ /\ prepare_external_action(r, k, frame[r][k].identity)
        /\ GotoWith(r, k, IF action[r].status = "dispatching" THEN "recover" ELSE "begin",
                    [frame[r][k] EXCEPT !.identity = NoProvider, !.recovered = FALSE,
                                        !.token = action[r].dispatch_count])
     \/ /\ Current(r, k) /\ Mismatch(r, k)
        /\ IF action[r].status = "dispatching"
           THEN With(r, k, "unknown_leased", action[r].dispatch_count)
           ELSE Closing(r, k, "fail", "rejected")
        /\ ReadOnly
     \/ ~Current(r, k) /\ PrepareFailed(r, k) /\ ReadOnly

Begin(r, k) ==
  /\ pc[r][k] = "begin"
  /\ \/ begin_external_action_dispatch(r, k) /\ With(r, k, "send", action'[r].dispatch_count)
     \/ Current(r, k) /\ cancel_requested[r] /\ Raise(r, k, "run_cancel_requested") /\ ReadOnly
     \/ ~Current(r, k) /\ Raise(r, k, "other") /\ ReadOnly

Exhausted(r, k) == retry_mode[r] = "unsafe" \/ frame[r][k].token >= max_dispatches

_recover_external_dispatch(r, k) ==
  /\ pc[r][k] = "recover"
  /\ Goto(r, k, IF Exhausted(r, k) THEN "unknown_leased" ELSE "retry")
  /\ ReadOnly

\* The dispatch is repeated in recovery ("retry") or after an ambiguous answer,
\* unless a late answer settled the action first.
Retry(r, k) ==
  /\ pc[r][k] \in {"retry", "retry_ambiguous"}
  /\ \/ /\ retry_external_action_dispatch(r, k, frame[r][k].token)
        /\ With(r, k, "send", action'[r].dispatch_count)
     \/ /\ Current(r, k) /\ action[r].status \in ActionTerminal
        /\ IF pc[r][k] = "retry" THEN Goto(r, k, "restore")
           ELSE Closing(r, k, "fail", "rejected")
        /\ ReadOnly
     \/ ~Current(r, k) /\ Raise(r, k, "other") /\ ReadOnly

\* restore_success and restore_failure replay what the ledger proves.
Restore(r, k) ==
  /\ pc[r][k] = "restore"
  /\ IF action[r].status = "succeeded" THEN Goto(r, k, "evidence")
     ELSE Closing(r, k, "fail_safely", action[r].status)
  /\ ReadOnly

-----------------------------------------------------------------------------
(* _dispatch_external_action: the provider call and its answer. *)

\* The dispatch is mirrored to the Run's events under the lease, then sent to
\* the registered provider p.
Call(r, k, p) ==
  sent' = [sent EXCEPT ![r] = @ \cup {[token |-> frame[r][k].token, to |-> p]}]

\* Mutant: the request goes to whichever provider is registered by now.
Send_rerouting(r, k) ==
  /\ pc[r][k] = "send"
  /\ \/ ~Current(r, k) /\ Raise(r, k, "other") /\ UNCHANGED sent
     \/ /\ Current(r, k)
        /\ IF registered[r] = NoProvider
           THEN Goto(r, k, "unknown_leased") /\ UNCHANGED sent
           ELSE Goto(r, k, "await") /\ Call(r, k, registered[r])
  /\ ReadOnly
  /\ UNCHANGED <<answer, applied, refused>>

Send(r, k) ==
  /\ pc[r][k] = "send"
  /\ \/ ~Current(r, k) /\ Raise(r, k, "other") /\ UNCHANGED sent
     \/ /\ Current(r, k)
        /\ IF registered[r] # action[r].provider
           THEN Goto(r, k, "unknown_leased") /\ UNCHANGED sent
           ELSE Goto(r, k, "await") /\ Call(r, k, registered[r])
  /\ ReadOnly
  /\ UNCHANGED <<answer, applied, refused>>

Answered(r, k) ==
  /\ pc[r][k] = "await"
  /\ \/ answer[r][frame[r][k].token] = "ok" /\ Goto(r, k, "succeeded")
     \/ answer[r][frame[r][k].token] = "refused" /\ Goto(r, k, "failed")
  /\ ReadOnly

\* Mutant: silence is taken for a refusal.
Ambiguous_as_refusal(r, k) ==
  /\ pc[r][k] = "await"
  /\ Goto(r, k, "failed")
  /\ ReadOnly

\* A timeout, a broken connection or an invalid response proves nothing.
Ambiguous(r, k) ==
  /\ pc[r][k] = "await"
  /\ Goto(r, k, IF Exhausted(r, k) THEN "unknown" ELSE "retry_ambiguous")
  /\ ReadOnly

\* Mutant: an answer is written without comparing dispatch tokens.
Record_blind(r, k) ==
  /\ pc[r][k] \in {"succeeded", "failed"}
  /\ action' = [action EXCEPT ![r].status = pc[r][k]]
  /\ step' = [step EXCEPT ![r] = StepOf(pc[r][k])]
  /\ IF pc[r][k] = "succeeded" THEN Goto(r, k, "evidence")
     ELSE Closing(r, k, "fail_safely", "failed")
  /\ UNCHANGED <<vars, retry_mode, workflow>>

\* finalize_external_action_succeeded and _failed need no lease; a token that no
\* longer holds the action leaves the outcome unknown.
Record(r, k) ==
  /\ pc[r][k] \in {"succeeded", "failed"}
  /\ LET d == frame[r][k].token
     IN  \/ /\ _finalize_external_action(r, d, pc[r][k])
            /\ IF pc[r][k] = "succeeded" THEN Goto(r, k, "evidence")
               ELSE Closing(r, k, "fail_safely", "failed")
         \/ /\ ~HoldsDispatch(r, d) /\ ~ExactDuplicate(r, d, pc[r][k])
            /\ Goto(r, k, "unknown") /\ ReadOnly

\* Only a committed outcome is reported; an action that another write settled
\* leaves the Run to the next attempt.
_raise_external_outcome_unknown(r, k) ==
  /\ pc[r][k] \in {"unknown", "unknown_leased"}
  /\ LET d == frame[r][k].token
         leased == pc[r][k] = "unknown_leased"
     IN  \/ /\ IF leased THEN finalize_reconciliation_unknown(r, k, d)
               ELSE _finalize_external_action(r, d, "outcome_unknown")
            /\ Closing(r, k, "fail_safely", "outcome_unknown")
         \/ leased /\ ~Current(r, k) /\ Raise(r, k, "other") /\ ReadOnly
         \/ /\ leased => Current(r, k)
            /\ ~HoldsDispatch(r, d) /\ ~ExactDuplicate(r, d, "outcome_unknown")
            /\ Raise(r, k, "reconciliation_pending") /\ ReadOnly

\* _record_external_success_evidence appends Run events under the lease.
Evidence(r, k) ==
  /\ pc[r][k] \in {"evidence", "evidence_again"}
  /\ IF Current(r, k) THEN Goto(r, k, "finalize") ELSE Raise(r, k, "evidence_incomplete")
  /\ ReadOnly

-----------------------------------------------------------------------------
(* RuntimeManager: the end of an attempt.  A commit without the lease changes *)
(* nothing.                                                                   *)

LeaseLost(r, k) == ~Current(r, k) /\ Finish(r, k) /\ UNCHANGED vars

Result(r, k) ==
  /\ pc[r][k] = "result"
  /\ \/ commit_completed_run(r, k) /\ Finish(r, k)
     \/ Current(r, k) /\ cancel_requested[r] /\ Goto(r, k, "cancel_result") /\ UNCHANGED vars
     \/ LeaseLost(r, k)
  /\ UNCHANGED ledgerVars

Cancel(r, k) ==
  /\ pc[r][k] \in {"cancel", "cancel_result"}
  /\ (commit_cancelled_run(r, k) /\ Finish(r, k)) \/ LeaseLost(r, k)
  /\ UNCHANGED ledgerVars

\* Mutant: every failure gives way to a cancellation.
Manager_cancelling(r, k) ==
  /\ pc[r][k] = "manager"
  /\ \/ cancel_requested[r] /\ Goto(r, k, "cancel") /\ UNCHANGED vars
     \/ commit_failed_run(r, k, EXECUTION, FALSE) /\ Finish(r, k)
     \/ LeaseLost(r, k)
  /\ UNCHANGED ledgerVars

\* The except clauses of _execute_owned_run.
Manager(r, k) ==
  /\ pc[r][k] = "manager"
  /\ LET exc == frame[r][k].exc
         safety == exc \in SafetyCode
         pending == \/ exc = "reconciliation_pending"
                    \/ frame[r][k].reconcile /\ exc \notin ResolutionCode
     IN  \/ pending /\ commit_reconciliation_pending(r, k) /\ Finish(r, k)
         \/ ~pending /\ safety /\ commit_failed_run(r, k, SAFETY, TRUE) /\ Finish(r, k)
         \/ /\ ~pending /\ ~safety /\ cancel_requested[r]
            /\ Goto(r, k, "cancel") /\ UNCHANGED vars
         \/ /\ ~pending /\ ~safety
            /\ commit_failed_run(r, k, EXECUTION, FALSE) /\ Finish(r, k)
         \/ LeaseLost(r, k)
  /\ UNCHANGED ledgerVars

-----------------------------------------------------------------------------
(* Disturbances of an attempt.  The last attempt that is explored is neither *)
(* killed nor deprived of its lease.                                         *)

Busy(r, k) == pc[r][k] \notin {"idle", "done"}

\* The process dies, or a heartbeat that failed makes the attempt give up.
Crash(r, k) ==
  /\ Busy(r, k) /\ k < MaxAttempts
  /\ Finish(r, k)
  /\ UNCHANGED <<vars, ledgerVars, worldVars>>

\* An exception that the runtime's handlers do not see.
Escape(r, k) ==
  GotoWith(r, k, "manager", [Thrown(frame[r][k], "other") EXCEPT !.hosted = TRUE])

\* Where an exception of the store leads, per step.
Faulted(r, k) ==
  CASE pc[r][k] \in {"mark", "resolve", "step", "claim", "begin", "retry", "send",
                     "retry_ambiguous", "restore", "finalize", "fail"} -> Raise(r, k, "other")
    [] pc[r][k] = "open" -> Raise(r, k, "other") \/ Escape(r, k)
    [] pc[r][k] = "prepare" -> PrepareFailed(r, k)
    [] pc[r][k] \in {"succeeded", "failed"} -> Goto(r, k, "unknown")
    [] pc[r][k] \in {"unknown", "unknown_leased"} -> Raise(r, k, "reconciliation_pending")
    [] pc[r][k] = "evidence" -> Goto(r, k, "evidence_again")
    [] pc[r][k] = "evidence_again" -> Raise(r, k, "evidence_incomplete")
    [] pc[r][k] = "fail_safely" -> Raise(r, k, frame[r][k].exc)
    [] pc[r][k] \in {"host", "result", "cancel_result"} -> Escape(r, k)
    [] pc[r][k] \in {"boundary", "cancel", "manager"} -> Finish(r, k)

StoreFault(r, k) ==
  /\ Busy(r, k) /\ pc[r][k] \notin {"recover", "await"}
  /\ ~(pc[r][k] = "host" /\ frame[r][k].exc = "reconciliation_pending")
  /\ faults < MaxFaults
  /\ faults' = faults + 1
  /\ Faulted(r, k)
  /\ UNCHANGED <<vars, ledgerVars, registered, providerVars, drifts>>

-----------------------------------------------------------------------------
(* The surroundings: clients, leases, the registry and the providers. *)

Client(r) ==
  /\ \/ create_run_with_event(r)
     \/ request_cancel_atomically(r)
     \/ finalize_next_queued_cancellation(r)
  /\ UNCHANGED <<ledgerVars, attemptVars, worldVars>>

\* The lease of attempt k runs out.
Lapse(r, k) ==
  /\ k < MaxAttempts
  /\ Current(r, k)
  /\ expire_run_lease(r, k)
  /\ UNCHANGED <<ledgerVars, attemptVars, worldVars>>

Drift(r) ==
  /\ drifts < MaxDrifts
  /\ drifts' = drifts + 1
  /\ \E p \in (Provider \cup {NoProvider}) \ {registered[r]} :
       registered' = [registered EXCEPT ![r] = p]
  /\ UNCHANGED <<vars, ledgerVars, attemptVars, providerVars, faults>>

\* A provider that supports idempotency keeps one effect per key; any other
\* provider makes every request an effect of its own.
Key(r, m) == IF retry_mode[r] = "unsafe" THEN m ELSE [token |-> NoToken, to |-> m.to]

Apply(r, m) ==
  /\ ~(RefusalBindsKey /\ Key(r, m) \in refused[r])
  /\ applied' = [applied EXCEPT ![r] = @ \cup {Key(r, m)}]
  /\ answer' = [answer EXCEPT ![r][m.token] = "ok"]
  /\ UNCHANGED refused

Refuse(r, m) ==
  /\ ~(RefusalBindsKey /\ Key(r, m) \in applied[r])
  /\ refused' = [refused EXCEPT ![r] = @ \cup {Key(r, m)}]
  /\ answer' = [answer EXCEPT ![r][m.token] = "refused"]
  /\ UNCHANGED applied

\* A request may arrive at any later time, or never.
Deliver(r) ==
  \E m \in sent[r] :
    /\ sent' = [sent EXCEPT ![r] = @ \ {m}]
    /\ Apply(r, m) \/ Refuse(r, m)
    /\ UNCHANGED <<vars, ledgerVars, attemptVars, registered, faults, drifts>>

-----------------------------------------------------------------------------

\* One step of an attempt that is not disturbed.
Local(r, k) ==
  \/ Boundary(r, k) \/ Open(r, k) \/ Mark(r, k) \/ Resolve(r, k)
  \/ Step(r, k) \/ ClaimStep(r, k) \/ Prepare(r, k) \/ Begin(r, k)
  \/ _recover_external_dispatch(r, k) \/ Retry(r, k) \/ Restore(r, k)
  \/ Answered(r, k) \/ Ambiguous(r, k)
  \/ Record(r, k) \/ _raise_external_outcome_unknown(r, k) \/ Evidence(r, k)
  \/ Finalize(r, k) \/ Fail(r, k) \/ Host(r, k)
  \/ Result(r, k) \/ Cancel(r, k) \/ Manager(r, k)

Work(r, k) ==
  \/ Local(r, k) /\ UNCHANGED worldVars
  \/ Send(r, k) /\ UNCHANGED <<registered, faults, drifts>>

ClaimNext(r) == Claim(r) /\ UNCHANGED worldVars

ActionsInit ==
  /\ LedgerInit
  /\ has_state = [r \in Run |-> FALSE]
  /\ pc = [r \in Run |-> [k \in Attempt |-> "idle"]]
  /\ frame = [r \in Run |-> [k \in Attempt |-> NoFrame]]
  /\ registered \in [Run -> Provider]
  /\ sent = [r \in Run |-> {}]
  /\ answer = [r \in Run |-> [d \in Dispatch |-> "none"]]
  /\ applied = [r \in Run |-> {}]
  /\ refused = [r \in Run |-> {}]
  /\ faults = 0
  /\ drifts = 0

ActionsNext ==
  \E r \in Run :
    \/ Client(r)
    \/ ClaimNext(r)
    \/ Drift(r)
    \/ Deliver(r)
    \/ \E k \in Attempt : Work(r, k) \/ Crash(r, k) \/ StoreFault(r, k) \/ Lapse(r, k)

\* A worker that lives goes on, some worker claims what is claimable, and the
\* lease of an attempt that ended runs out.
ActionsFairness ==
  \A r \in Run :
    /\ WF_actionVars(ClaimNext(r))
    /\ \A k \in Attempt :
         /\ WF_actionVars(Work(r, k))
         /\ WF_actionVars(pc[r][k] = "done" /\ Lapse(r, k))

ActionsSpec == ActionsInit /\ [][ActionsNext]_actionVars /\ ActionsFairness

-----------------------------------------------------------------------------
(* Properties. *)

\* The write happens at most once: retries, takeovers, late requests and a
\* changed registration never produce a second effect.
AtMostOneEffect == \A r \in Run : \A k, l \in applied[r] : k = l

\* The ledger never claims more than happened: a succeeded action was applied, a
\* failed one "is known not to have completed" (DefinitiveExternalActionError)
\* nor will it, and nothing is sent before the dispatch is recorded.  Over all
\* attempts no action is dispatched more often than the coordinator's budget
\* allows (_recover_external_dispatch, _retry_after_ambiguous_result).
LedgerTellsTruth ==
  \A r \in Run :
    /\ action[r].status = "succeeded" => applied[r] # {}
    /\ action[r].status = "failed" => applied[r] = {}
    /\ ~Dispatched(r) => sent[r] = {} /\ applied[r] = {}
    /\ action[r].dispatch_count <= max_dispatches

\* A Run "is not marked terminal while the action is still dispatching"
\* (docs/durable-external-actions.md): otherwise no attempt would ever
\* reconcile it.  One store exception does not break this.  A second one inside
\* the handlers of DurableActionRuntime.execute does: it replaces the
\* reconciliation by an ordinary failure of the Run.
NoDispatchBehindTerminalRun ==
  faults <= 1 => \A r \in Run : status[r] \in Terminal => action[r].status # "dispatching"

\* An unknown outcome is not converted "to success, ordinary failure, or
\* cancellation" (docs/durable-external-actions.md).
UnknownIsPreserved ==
  \A r \in Run : status[r] \in Terminal /\ action[r].status = "outcome_unknown" =>
    status[r] = "failed" /\ error_code[r] = SAFETY

\* The Run tells the outcome of its write: a completed Run has a recorded
\* success, whatever exceptions the store raises; without them a cancelled Run
\* wrote nothing or a recorded success, and an unknown or failed write shows as a
\* safety failure even if the Run was cancelled (_execute_owned_run, _mark_cancelled).
RunTellsOutcome ==
  /\ faults = 0 => UnknownIsPreserved
  /\ \A r \in Run :
       /\ status[r] = "completed" =>
            action[r].status = "succeeded" /\ workflow[r].status = "ready"
       /\ status[r] = "cancelled" /\ faults = 0 =>
            action[r].status \in {"none", "prepared", "succeeded"}
       /\ status[r] \in Terminal /\ action[r].status = "failed" /\ faults = 0
          => status[r] = "failed" /\ error_code[r] = SAFETY

\* Whatever attempts, crashes, faults and providers do, the ledger only takes the
\* steps of its own specification, so everything shown of ActionLedger and of
\* RunStore holds of the whole system.
ImplementsLedger == LedgerSpec

\* A dispatched action is eventually settled, whichever attempts crash, lose
\* their lease or meet an exception of the store on the way; only an exception
\* can end the last attempt that is explored before it has settled the action.
EveryDispatchSettles ==
  \A r \in Run :
    action[r].status = "dispatching" ~>
      \/ action[r].status \in ActionTerminal
      \/ faults > 0 /\ pc[r][MaxAttempts] = "done"
=============================================================================
