----------------------------- MODULE Quarantine -----------------------------
(***************************************************************************)
(* Quarantine of a Run and its resolution by an operator.                  *)
(*                                                                         *)
(* A recovered Run that has a dispatched external action and finds the     *)
(* revision of its thread's checkpoint changed can neither execute nor     *)
(* end.  It is parked: running, without a lease, holding its thread.  An   *)
(* operator asks for a plan, which names the evidence it was derived from, *)
(* applies it and reads the result back; planning, applying and reading    *)
(* back are a transaction each, with everything else going on in between.  *)
(*                                                                         *)
(* A plan_id is the hash of the evidence, so it is modelled as the         *)
(* evidence.  updated_at changes with every write to a Run's row: while a  *)
(* Run is parked that is a cancellation, which the evidence shows anyway.  *)
(***************************************************************************)
EXTENDS ActionLedger

CONSTANTS
  Writer,      \* Runs whose agent has an external-write step
  Operator,    \* operators with the permission quarantine:resolve
  MaxRevision  \* bound: revisions that a foreign writer brings about

ASSUME QuarantineAssumption ==
  /\ Writer \subseteq Run
  /\ MaxRevision \in Nat

VARIABLES
  conflict,    \* the last checkpoint.conflict event that parked a Run
  resolution,  \* the quarantine.resolution_applied events of a Run
  desk         \* the command an operator is working on

deskVars == <<conflict, resolution, desk>>
quarantineVars == <<vars, ledgerVars, deskVars>>

NoConflict == [expected |-> NoRevision, observed |-> NoRevision]
NoCommand == [stage |-> "idle"]

Quarantined(r) == status[r] = "running" /\ error_code[r] = BLOCKED

-----------------------------------------------------------------------------
(* The Manager parks a Run whose checkpoint moved. *)

\* reconcile_before_cancelling: a recovered attempt that has to settle an
\* external action first.
MustReconcile(r, t) == t > 1 /\ (error_code[r] = PENDING \/ Dispatched(r))

\* Mutant: parking forgets to clear the lease.
quarantine_keeping_lease(r, t) ==
  /\ MustReconcile(r, t)
  /\ assert_current_run_lease(r, t)
  /\ ~load_thread_state_snapshot(r)
  /\ error_code' = [error_code EXCEPT ![r] = BLOCKED]
  /\ _append_event(r, <<"checkpoint.conflict">>)
  /\ conflict' = [conflict EXCEPT ![r] =
                    [expected |-> base[r], observed |-> _thread_revision(r)]]
  /\ UNCHANGED <<requestVars, status, cancel_requested, base, leaseVars, attempt,
                 revision, now, ledgerVars, resolution, desk>>

quarantine_checkpoint_conflict_for_reconciliation(r, t) ==
  /\ MustReconcile(r, t)
  /\ assert_current_run_lease(r, t)
  /\ ~load_thread_state_snapshot(r)
  /\ error_code' = [error_code EXCEPT ![r] = BLOCKED]
  /\ _clear_lease(r)
  /\ _append_event(r, <<"checkpoint.conflict">>)
  /\ conflict' = [conflict EXCEPT ![r] =
                    [expected |-> base[r], observed |-> _thread_revision(r)]]
  /\ UNCHANGED <<requestVars, status, cancel_requested, base, attempt, revision,
                 now, ledgerVars, resolution, desk>>

-----------------------------------------------------------------------------
(* What a plan is derived from. *)

_workflow_evidence_fingerprint(r) == <<workflow[r], step[r], action[r]>>

\* The step and the terminal events commit with the action, so what is left to
\* disagree is the outcome of the step.
_terminal_external_action_evidence_is_consistent(r) ==
  /\ action[r].status \in ActionTerminal
  /\ Dispatched(r)
  /\ step[r] = StepOf(action[r].status)

\* Mutant: an action in flight does not stand in the way.
eligible_in_flight(r) ==
  /\ Quarantined(r)
  /\ lease_token[r] = NoToken
  /\ conflict[r] = [expected |-> base[r], observed |-> _thread_revision(r)]
  /\ base[r] # _thread_revision(r)
  /\ workflow[r].status # "none"
  /\ action[r].status # "none"

\* No reason of _derive_quarantine_plan makes the Run ineligible.
eligible(r) ==
  /\ Quarantined(r)
  /\ lease_token[r] = NoToken
  /\ conflict[r] = [expected |-> base[r], observed |-> _thread_revision(r)]
  /\ base[r] # _thread_revision(r)
  /\ workflow[r].status # "none"
  /\ _terminal_external_action_evidence_is_consistent(r)

_derive_quarantine_plan(r) ==
  [run |-> r,
   attempt |-> attempt[r],
   cancel_requested |-> cancel_requested[r],
   base |-> base[r],
   revision |-> _thread_revision(r),
   conflict |-> conflict[r],
   evidence |-> _workflow_evidence_fingerprint(r)]

\* A later Run may have moved the checkpoint on, never back.
_checkpoint_progress_is_valid(plan) == _thread_revision(plan.run) >= plan.revision

_find_resolution_event(plan) ==
  {i \in DOMAIN resolution[plan.run] : resolution[plan.run][i] = plan}

-----------------------------------------------------------------------------
(* The operator's command. *)

At(o, stage) == desk' = [desk EXCEPT ![o] = [@ EXCEPT !.stage = stage]]

StoreUnchanged == UNCHANGED <<vars, ledgerVars, conflict, resolution>>

\* A dry run writes nothing; only an eligible plan has a plan_id.
plan_quarantine_resolution(o, r) ==
  /\ eligible(r)
  /\ desk' = [desk EXCEPT ![o] = [stage |-> "planned", plan |-> _derive_quarantine_plan(r)]]
  /\ StoreUnchanged

\* The UPDATE of the Run and the two events.
Resolve(plan) ==
  /\ Quarantined(plan.run)
  /\ lease_token[plan.run] = NoToken
  /\ resolution' = [resolution EXCEPT ![plan.run] = Append(@, plan)]
  /\ _terminalize(plan.run, "failed", CONFLICT,
                  <<"quarantine.resolution_applied", "run.failed">>)
  /\ UNCHANGED <<revision, ledgerVars, conflict>>

\* Mutant: a committed resolution is only confirmed at the planned revision.
apply_quarantine_resolution_frozen(o) ==
  /\ desk[o].stage = "planned"
  /\ LET plan == desk[o].plan
     IN  IF _find_resolution_event(plan) # {}
         THEN /\ At(o, IF _thread_revision(plan.run) = plan.revision
                       THEN "committed" ELSE "incomplete")
              /\ StoreUnchanged
         ELSE IF eligible(plan.run) /\ _derive_quarantine_plan(plan.run) = plan
         THEN Resolve(plan) /\ At(o, "committed")
         ELSE At(o, "stale") /\ StoreUnchanged

\* A plan whose resolution is on record is confirmed; any other must be what the
\* store derives now.
apply_quarantine_resolution(o) ==
  /\ desk[o].stage = "planned"
  /\ LET plan == desk[o].plan
         r == plan.run
     IN  IF _find_resolution_event(plan) # {}
         THEN /\ At(o, IF /\ Cardinality(_find_resolution_event(plan)) = 1
                          /\ _workflow_evidence_fingerprint(r) = plan.evidence
                          /\ _checkpoint_progress_is_valid(plan)
                       THEN "committed" ELSE "incomplete")
              /\ StoreUnchanged
         ELSE IF eligible(r) /\ _derive_quarantine_plan(r) = plan
         THEN Resolve(plan) /\ At(o, "committed")
         ELSE At(o, "stale") /\ StoreUnchanged

verify_quarantine_resolution(o) ==
  /\ desk[o].stage = "committed"
  /\ LET plan == desk[o].plan
         r == plan.run
     IN  At(o, IF /\ status[r] = "failed" /\ error_code[r] = CONFLICT
                  /\ lease_token[r] = NoToken
                  /\ _checkpoint_progress_is_valid(plan)
                  /\ _workflow_evidence_fingerprint(r) = plan.evidence
                  /\ Cardinality(_find_resolution_event(plan)) = 1
               THEN "verified" ELSE "incomplete")
  /\ StoreUnchanged

\* The process died or the response was lost after the commit: the operator
\* repeats the command.
ResponseLost(o) ==
  /\ desk[o].stage \in {"committed", "verified"}
  /\ At(o, "planned")
  /\ StoreUnchanged

-----------------------------------------------------------------------------

\* A writer outside the lease boundary replaces the checkpoint of a thread.
\* Bound: from the first dispatch on; before it a Run is not parked.
ForeignWrite(th) ==
  /\ revision[th] < MaxRevision
  /\ \E r \in Writer : thread_id[r] = th /\ Dispatched(r)
  /\ revision' = [revision EXCEPT ![th] = @ + 1]
  /\ UNCHANGED <<requestVars, status, cancel_requested, base, leaseVars, attempt,
                 error_code, events, now, ledgerVars, deskVars>>

QuarantineInit ==
  /\ LedgerInit
  /\ has_state = [r \in Run |-> FALSE]
  /\ conflict = [r \in Run |-> NoConflict]
  /\ resolution = [r \in Run |-> <<>>]
  /\ desk = [o \in Operator |-> NoCommand]

Command(o) ==
  \/ \E r \in Run : plan_quarantine_resolution(o, r)
  \/ apply_quarantine_resolution(o)
  \/ verify_quarantine_resolution(o)
  \/ ResponseLost(o)

QuarantineNext ==
  \/ Next /\ UNCHANGED <<ledgerVars, deskVars>>
  \/ \E r \in Writer, t \in 1 .. MaxAttempts :
       /\ t \in Tokens(r)
       /\ \/ LedgerStep(r, t) /\ UNCHANGED deskVars
          \/ quarantine_checkpoint_conflict_for_reconciliation(r, t)
  \/ \E th \in Thread : ForeignWrite(th)
  \/ \E o \in Operator : Command(o)

QuarantineSpec == QuarantineInit /\ [][QuarantineNext]_quarantineVars

-----------------------------------------------------------------------------
(* Properties. *)

\* A parked Run keeps its thread: late attempts, expired leases, cancellations
\* and answers of the provider neither end it nor take it over, and no other Run
\* of the thread starts.  Only an operator's resolution releases it.
QuarantineHolds ==
  [][\A r \in Run : Quarantined(r) =>
       \/ /\ Quarantined(r)' /\ lease_token'[r] = NoToken
          /\ \A q \in Run \ {r} : SameThread(q, r) => status'[q] # "running"
       \/ Len(resolution'[r]) > Len(resolution[r])]_quarantineVars

\* A Run is released once, on evidence that cannot change any more: its action
\* was settled, and the rows the plan was derived from still stand, although
\* late answers and a repeated command may follow.
ReleasedOnSettledEvidence ==
  \A r \in Run : resolution[r] # <<>> =>
    /\ Len(resolution[r]) = 1
    /\ status[r] = "failed" /\ error_code[r] = CONFLICT
    /\ action[r].status \in ActionTerminal
    /\ resolution[r][1].evidence = _workflow_evidence_fingerprint(r)
    /\ resolution[r][1].cancel_requested = cancel_requested[r]

\* "Replay does not append another event or terminalize again", and neither a
\* successor of the thread nor a second operator makes the readback of a
\* committed resolution fail (docs/operator-quarantine-resolution.md).
CommittedResolutionVerifies ==
  \A o \in Operator : desk[o].stage # "incomplete"

\* Once the action of a parked Run is settled, only a further foreign write
\* keeps an operator from releasing the thread.
SettledIsEligible ==
  \A r \in Run :
    /\ Quarantined(r)
    /\ action[r].status \in ActionTerminal
    /\ conflict[r].observed = _thread_revision(r)
    => eligible(r)
=============================================================================
