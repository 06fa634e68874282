------------------------- MODULE ReleaseValidation -------------------------
(***************************************************************************)
(* The release-validation agent: ReleaseValidationWorkflow runs a static   *)
(* graph of read-only checks serially in topological order, retries a      *)
(* timed-out check once, and may replay part of an earlier Run, copying    *)
(* the steps that are still valid.                                         *)
(***************************************************************************)
EXTENDS AgentAttempts, WorkflowDag

CONSTANTS
  dependencies,     \* the workflow graph
  Bad,              \* results on which a readiness rule finds fault
  step_loop_guard   \* _STEP_LOOP_GUARD: claims tried for one step

ASSUME ReleaseAssumption ==
  /\ DOMAIN dependencies \subseteq StepId
  /\ Bad \subseteq Output
  /\ step_loop_guard \in Nat

VARIABLES
  manifest,  \* what a Run's manifest says about each check
  replay     \* the source Run and the requested steps; no source for a full Run

releaseVars == <<manifest, replay>>

Node == DOMAIN dependencies
Order == topological_order(dependencies)
NoSource == 0
Replaying(r) == replay[r].source # NoSource

\* The step an attempt has come to, and its arguments: what the manifest says
\* about it and the results it depends on.
StepAt(r, k) == Order[Position(r, k)]
Arguments(r, n, result) == <<manifest[r][n], [m \in dependencies[n] |-> result[m]]>>
ArgumentsAt(r, k) ==
  Arguments(r, StepAt(r, k),
            [m \in dependencies[StepAt(r, k)] |->
               frame[r][k].obs[CHOOSE i \in DOMAIN Order : Order[i] = m]])

\* The serial schedule: what is done after the steps in f.obs.
Schedule(r, f) ==
  LET n == Order[Len(f.obs) + 1]
  IN  IF Len(f.obs) = Len(Order) THEN "conclude"
      ELSE IF ~(dependencies[n] \subseteq {Order[i] : i \in DOMAIN f.obs}) THEN "unscheduled"
      ELSE IF Replaying(r) /\ n \notin f.invalid THEN "reuse" ELSE "claim_release"

\* A fenced write of the workflow goes on with frame f.
Step(r, k, op, label, f) ==
  \/ op /\ GotoWith(r, k, label, f) /\ UNCHANGED <<memoryVars, verdict>>
  \/ LeaseLost(r, k)

Scheduled(r, k, f) == GotoWith(r, k, Schedule(r, f), f)

ClosingRelease(r, k, code) == GotoWith(r, k, "fail_release", [NoFrame EXCEPT !.code = code])

-----------------------------------------------------------------------------

OpenRelease(r, k) ==
  LET input == <<manifest[r], replay[r]>>
      row == workflow[r]
      opened == /\ create_or_get_execution(r, k, input)
                /\ UNCHANGED <<steps, evidence, mirrored, memoryVars, verdict>>
  IN  /\ pc[r][k] = "open_release"
      /\ \/ /\ opened
            /\ CASE row.status = "none" -> Goto(r, k, "mark_release")
                 [] row.status # "none" /\ row.input # input -> Raise(r, k, "mismatch")
                 [] row.status = "pending" /\ row.input = input -> Goto(r, k, "mark_release")
                 [] row.status = "running" /\ row.input = input -> Goto(r, k, "validate")
                 [] row.status \in {"ready", "blocked"} /\ row.input = input ->
                      Goto(r, k, "reuse_result")
                 [] row.status = "failed" /\ row.input = input -> Raise(r, k, row.error_code)
         \/ LeaseLost(r, k)

MarkRelease(r, k) ==
  /\ pc[r][k] = "mark_release"
  /\ Step(r, k, mark_running(r, k) /\ UNCHANGED <<steps, evidence, mirrored>>, "validate",
          frame[r][k])

\* A replay needs a finished source; the requested steps and whatever depends
\* on them are invalid from the start.
Validate(r, k) ==
  /\ pc[r][k] = "validate"
  /\ IF Replaying(r) /\ workflow[replay[r].source].status \notin {"ready", "blocked"}
     THEN ClosingRelease(r, k, "replay_rejected")
     ELSE Scheduled(r, k, [NoFrame EXCEPT
            !.invalid = IF Replaying(r) THEN descendants(dependencies, replay[r].steps) ELSE {}])
  /\ ReadOnly

\* A step that cannot be reused invalidates whatever depends on it.
Invalidate(f, n) == [f EXCEPT !.invalid = @ \cup descendants(dependencies, {n})]

Reuse(r, k) ==
  LET f == frame[r][k]
      n == StepAt(r, k)
      q == replay[r].source
      reusable == ReuseOutcome(q, r, n, ArgumentsAt(r, k)) # "not_reusable"
      g == IF reusable THEN Observed([f EXCEPT !.reused = @ \cup {n}], steps[q][n].result)
           ELSE Invalidate(f, n)
  IN  /\ pc[r][k] = "reuse"
      /\ Step(r, k, reuse_completed_step(q, r, k, n, ArgumentsAt(r, k)),
              Schedule(r, g), g)

\* _run_step: every outcome but a fresh claim ends or repeats the round.  The
\* event step.cache_reused changes no modelled state.
ClaimRelease(r, k) ==
  LET f == frame[r][k]
      n == StepAt(r, k)
      row == steps[r][n]
      outcome == ClaimOutcome(r, n, ArgumentsAt(r, k))
      claimed == claim_step(r, k, n, ArgumentsAt(r, k)) /\ UNCHANGED <<memoryVars, verdict>>
  IN  /\ pc[r][k] = "claim_release"
      /\ \/ /\ f.tries >= step_loop_guard
            /\ ClosingRelease(r, k, "loop_guard") /\ ReadOnly
         \/ /\ f.tries < step_loop_guard
            /\ claimed
            /\ CASE outcome = "claimed" ->
                     GotoWith(r, k, "tool", [f EXCEPT !.tries = @ + 1,
                                                      !.token = row.attempt_count + 1])
                 [] outcome = "cached" -> Scheduled(r, k, Observed(f, row.result))
                 [] outcome \in {"mismatch", "exhausted"} -> ClosingRelease(r, k, outcome)
                 [] outcome = "already_running" ->
                     IF k = 1 THEN Raise(r, k, outcome)
                     ELSE GotoWith(r, k, "recover_release", [f EXCEPT !.tries = @ + 1])
         \/ f.tries < step_loop_guard /\ LeaseLost(r, k)

RecoverRelease(r, k) ==
  /\ pc[r][k] = "recover_release"
  /\ Step(r, k, recover_interrupted_step(r, k, StepAt(r, k)), "claim_release", frame[r][k])

\* Only a timeout is transient.
ReturnedRelease(r, k) ==
  LET f == frame[r][k]
      n == StepAt(r, k)
  IN  /\ pc[r][k] = "returned"
      /\ \/ f.out \in Output
            /\ Step(r, k, complete_step(r, k, n, f.token, f.out),
                    Schedule(r, Observed(f, f.out)), Observed(f, f.out))
         \/ f.out = "tool_timeout"
            /\ Step(r, k, fail_step(r, k, n, f.token, f.out), "claim_release",
                    [f EXCEPT !.token = 0, !.out = "none"])
         \/ f.out = "tool_execution_failed"
            /\ Step(r, k, fail_step(r, k, n, f.token, f.out), "fail_release",
                    [NoFrame EXCEPT !.code = "permanent"])

\* The step is left running.
RaisedRelease(r, k) ==
  /\ pc[r][k] = "executor_raised"
  /\ ClosingRelease(r, k, "executor_raised") /\ ReadOnly

validate_release_readiness(obs) == IF Range(obs) \cap Bad = {} THEN "ready" ELSE "blocked"

Conclude(r, k) ==
  LET outcome == validate_release_readiness(frame[r][k].obs)
  IN  /\ pc[r][k] = "conclude"
      /\ \/ /\ _finalize_execution(r, k, outcome, "none")
            /\ verdict' = [verdict EXCEPT ![r] = [outcome |-> outcome,
                                                  reused |-> frame[r][k].reused]]
            /\ GotoWith(r, k, "commit", NoFrame)
            /\ UNCHANGED <<steps, evidence, mirrored, memoryVars>>
         \/ LeaseLost(r, k)

FailRelease(r, k) ==
  /\ pc[r][k] = "fail_release"
  /\ Step(r, k, _finalize_execution(r, k, "failed", frame[r][k].code)
                /\ UNCHANGED <<steps, evidence, mirrored>>, "raise", frame[r][k])

\* workflow.result_reused is appended under the lease.
ReuseResult(r, k) ==
  /\ pc[r][k] = "reuse_result"
  /\ \/ Current(r, k) /\ Goto(r, k, "commit") /\ ReadOnly
     \/ LeaseLost(r, k)

ReleaseStep(r, k) ==
  /\ \/ OpenRelease(r, k) \/ MarkRelease(r, k) \/ Validate(r, k)
     \/ Reuse(r, k) \/ ClaimRelease(r, k) \/ RecoverRelease(r, k)
     \/ ReturnedRelease(r, k) \/ RaisedRelease(r, k)
     \/ Conclude(r, k) \/ FailRelease(r, k) \/ ReuseResult(r, k)
  /\ UNCHANGED <<child, boundVars>>

\* An exception of the store in the step loop closes the execution as failed;
\* one before the loop (mark_running raising after its commit included), or of
\* that closing write, escapes.
ReleaseRaises(r, k) ==
  \/ /\ pc[r][k] \in {"validate", "reuse", "claim_release", "recover_release", "returned",
                      "conclude"}
     /\ StoreRaises(r, k, ClosingRelease(r, k, "store_error"))
  \/ /\ pc[r][k] \in {"open_release", "mark_release", "validate", "reuse_result",
                      "fail_release"}
     /\ StoreRaises(r, k, Raise(r, k, "store_error"))

-----------------------------------------------------------------------------
(* Properties. *)

\* A finished validation is grounded: every check completed under exactly the
\* arguments that the Run's manifest and the results of its dependencies give,
\* whether it ran here, was cached by an earlier attempt or copied from another
\* Run, and the verdict is the one these results call for.
ChecksAreGrounded ==
  \A r \in DOMAIN manifest : workflow[r].status \in {"ready", "blocked"} =>
    /\ \A n \in Node :
         /\ steps[r][n].status = "completed"
         /\ steps[r][n].input = Arguments(r, n, [m \in Node |-> steps[r][m].result])
    /\ workflow[r].status = verdict[r].outcome
    /\ workflow[r].status = "blocked" <=> \E n \in Node : steps[r][n].result \in Bad

\* A copied step depends only on copied steps, was not asked to run again, and
\* is the source's row; and the summary in the result names the copied steps
\* and no others, however many attempts the replay took.
ReplayIsSound ==
  \A r \in DOMAIN manifest : Replaying(r) =>
    LET copied == {n \in Node : steps[r][n].status = "completed"
                                 /\ steps[r][n].attempt_count = 0}
    IN  /\ \A n \in copied :
             /\ dependencies[n] \subseteq copied
             /\ n \notin replay[r].steps
             /\ steps[r][n].result = steps[replay[r].source][n].result
        /\ workflow[r].status \in {"ready", "blocked"} => verdict[r].reused = copied

\* The verdict of a validation, replayed or not, rests on checks that ran under
\* the arguments of this Run or were copied soundly.
VerdictIsGrounded == ChecksAreGrounded /\ ReplayIsSound

\* The graph is built at import, before any Run exists.  Whatever graph without
\* self-dependencies it is given, WorkflowDag finds as descendants exactly the
\* nodes a path leads to, and an order that is complete, without repetition and
\* respects every dependency; a cyclic graph (which the constructor rejects for
\* its incomplete order) is left incomplete.
DagIsRight == (\A r \in Run : status[r] = "absent") => EveryGraphIsRight
=============================================================================
