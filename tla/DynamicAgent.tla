---------------------------- MODULE DynamicAgent ----------------------------
(***************************************************************************)
(* The memory-aware travel agent: TravelDynamicRuntime around              *)
(* GovernedMemory and DynamicToolLoop.  An attempt retrieves the sealed    *)
(* memory snapshot, runs the planner loop over the workflow ledger,        *)
(* remembers what the message taught, and completes.                       *)
(*                                                                         *)
(* The planner and the tools may answer differently each time they are     *)
(* asked; a restarted attempt must not ask again what was recorded.  A     *)
(* decision is "finish", "clarify", or a call, named by its arguments.     *)
(***************************************************************************)
EXTENDS AgentAttempts

CONSTANTS
  Call,            \* argument choices of a CALL_TOOL decision
  InvalidCall,     \* those policy refuses: the tool is not registered or not
                   \* permitted, or its input model rejects the arguments
  Refused,         \* results on which the finish evaluator blocks
  max_tool_calls,  \* tool calls of one loop
  MaxForeign       \* bound: memory mutations made elsewhere

ASSUME AgentAssumption ==
  /\ InvalidCall \subseteq Call
  /\ Refused \subseteq Output
  /\ max_tool_calls \in Nat
  /\ 1 .. max_tool_calls \subseteq StepId
  /\ MaxForeign \in Nat

VARIABLE writes  \* the memory writes extracted from a Run's message, per key

Body(outcome, what) == [outcome |-> outcome, what |-> what]
Accepted == {Body("accepted", d) : d \in Call \cup {"finish", "clarify"}}
Rejected == {Body("rejected", c) : c \in {"invalid_planner_decision", "planner_provider_failed"}}

Item(kind, n, body) == [id |-> <<kind, n>>, outcome |-> body.outcome, what |-> body.what]
OutcomeId == <<"outcome", 0>>

Failing(code) == [NoFrame EXCEPT !.code = code]

\* A ledger write of the loop commits and goes on with frame f, or finds the
\* lease lost.
Write(r, k, op, label, f) ==
  \/ op /\ GotoWith(r, k, label, f) /\ UNCHANGED <<memoryVars, verdict>>
  \/ LeaseLost(r, k)

-----------------------------------------------------------------------------
(* GovernedMemory.retrieve, then the identity of the execution. *)

\* memory.retrieved is an event of the public stream only.
Retrieve(r, k) ==
  /\ pc[r][k] = "retrieve"
  /\ \/ /\ get_or_create_run_snapshot(r, k)
        /\ GotoWith(r, k, "publish",
             [frame[r][k] EXCEPT !.item = Item("retrieved", 0, Nothing), !.next = "open"])
        /\ UNCHANGED <<stepVars, verdict>>
     \/ LeaseLost(r, k)

\* The input hash covers the state overlaid with the retrieved memories.
Open(r, k) ==
  LET input == snapshot[r].memories
      same == workflow[r].status = "none" \/ workflow[r].input = input
  IN  /\ pc[r][k] = "open"
      /\ Write(r, k, create_or_get_execution(r, k, input)
                     /\ UNCHANGED <<steps, evidence, mirrored>>,
               IF same THEN "mirror" ELSE "raise",
               IF same THEN frame[r][k] ELSE Failing("mismatch"))

\* Evidence a crash left unpublished is published first; an exception of an
\* append escapes (LoopRaises).
Mirror(r, k) ==
  LET missing == SelectSeq(evidence[r], LAMBDA e : ~Mirrored(r, e.id))
  IN  /\ pc[r][k] = "mirror"
      /\ \/ /\ missing # <<>>
            /\ Write(r, k, append_run_event(r, k, Head(missing).id), "mirror", frame[r][k])
         \/ /\ missing = <<>>
            /\ CASE workflow[r].status = "pending" -> Goto(r, k, "mark")
                 [] workflow[r].status = "running" -> Goto(r, k, "restore")
                 [] workflow[r].status \in {"ready", "blocked"} -> Goto(r, k, "remember")
                 [] workflow[r].status = "failed" -> Raise(r, k, workflow[r].error_code)
            /\ ReadOnly

Mark(r, k) ==
  /\ pc[r][k] = "mark"
  /\ Write(r, k, mark_running(r, k) /\ UNCHANGED <<steps, evidence, mirrored>>,
           "restore", frame[r][k])

-----------------------------------------------------------------------------
(* The loop: restore, decide, act. *)

ToolItem(s, outcome, what) == Item("tool", s, Body(outcome, what))

\* The step is backed by the recorded decision that called it.
Backed(r, s) ==
  LET d == workflow_evidence(r, <<"planner", s>>)
  IN  d.outcome = "accepted" /\ d.what \in Call /\ steps[r][s].input = <<d.what>>

\* Completed steps become observations again; a real failure is final.
Restore(r, k) ==
  LET s == Position(r, k)
      row == IF s \in StepId THEN steps[r][s] ELSE NoStep
      settled == row.status \in {"completed", "failed"} /\ row.error_code # "interrupted"
  IN  /\ pc[r][k] = "restore"
      /\ CASE ~settled -> Goto(r, k, "decide")
           [] settled /\ ~Backed(r, s) -> GotoWith(r, k, "fail", Failing("mismatch"))
           [] row.status = "completed" /\ Backed(r, s) ->
                Recording(r, k, ToolItem(s, "completed", row.result), "restore",
                          Observed(frame[r][k], row.result))
           [] settled /\ row.status = "failed" /\ Backed(r, s) ->
                Recording(r, k, ToolItem(s, "failed", row.error_code), "fail",
                          Failing(row.error_code))
      /\ ReadOnly

\* Where a decision leads once it is recorded and published.
Decided(r, k, item, label) ==
  GotoWith(r, k, label,
    [frame[r][k] EXCEPT !.item = item,
       !.next = IF item.outcome = "rejected" THEN "fail" ELSE "act",
       !.code = IF item.outcome = "rejected" THEN item.what ELSE "none"])

\* Mutant: a restarted attempt asks the planner again.
Decide_anew(r, k) ==
  /\ pc[r][k] = "decide"
  /\ \E d \in Accepted \cup Rejected :
       Decided(r, k, Item("planner", Position(r, k), d), "record")
  /\ ReadOnly

\* A persisted decision is replayed; otherwise the planner is asked.
Decide(r, k) ==
  LET n == Position(r, k)
      persisted == workflow_evidence(r, <<"planner", n>>)
  IN  /\ pc[r][k] = "decide"
      /\ \/ persisted # Nothing /\ Decided(r, k, persisted, "publish")
         \/ /\ persisted = Nothing
            /\ \E d \in Accepted \cup Rejected :
                 Decided(r, k, Item("planner", n, d), "record")
      /\ ReadOnly

\* The finish evaluator rejects a plan without observations and blocks on some
\* results.
_evaluate_finish(obs) ==
  IF obs = <<>> THEN "invalid"
  ELSE IF Last(obs) \in Refused THEN "blocked" ELSE "finished"

\* The code with which policy denies a call, if it does.
_authorize_call(obs, d) ==
  IF Len(obs) >= max_tool_calls THEN "step_limit_exceeded"
  ELSE IF d \in InvalidCall THEN "call_refused" ELSE "none"

Denied(r, k, code) ==
  Recording(r, k, Item("policy", Position(r, k), Body("denied", code)), "fail", Failing(code))

Act(r, k) ==
  LET f == frame[r][k]
      d == workflow_evidence(r, <<"planner", Position(r, k)>>).what
      denial == _authorize_call(f.obs, d)
      Conclude(outcome) ==
        Recording(r, k, Item("outcome", 0, Body(outcome, "none")), "finalize", NoFrame)
  IN  /\ pc[r][k] = "act"
      /\ CASE d = "clarify" -> Conclude("clarification")
           [] d = "finish" /\ _evaluate_finish(f.obs) = "invalid" ->
                GotoWith(r, k, "fail", Failing("invalid_planner_decision"))
           [] d = "finish" /\ _evaluate_finish(f.obs) # "invalid" ->
                Conclude(_evaluate_finish(f.obs))
           [] d \in Call /\ denial # "none" -> Denied(r, k, denial)
           [] d \in Call /\ denial = "none" ->
                Recording(r, k, Item("policy", Position(r, k), Body("allowed", "none")),
                          "execute", f)
      /\ ReadOnly

-----------------------------------------------------------------------------
(* A read-only tool call. *)

\* A running step can only be one an earlier attempt left behind.
Execute(r, k) ==
  LET row == steps[r][Position(r, k)]
      real == row.status = "failed" /\ row.error_code # "interrupted"
  IN  /\ pc[r][k] = "execute"
      /\ CASE real -> Recording(r, k, ToolItem(Position(r, k), "failed", row.error_code),
                              "fail", Failing(row.error_code))
           [] row.status = "running" ->
                IF k = 1 THEN GotoWith(r, k, "fail", Failing("tool_execution_failed"))
                ELSE Goto(r, k, "recover")
           [] row.status # "running" /\ ~real -> Goto(r, k, "claim")
      /\ ReadOnly

Recover(r, k) ==
  /\ pc[r][k] = "recover"
  /\ Write(r, k, recover_interrupted_step(r, k, Position(r, k)), "claim", frame[r][k])

Claim(r, k) ==
  LET s == Position(r, k)
      input == <<workflow_evidence(r, <<"planner", s>>).what>>
      outcome == ClaimOutcome(r, s, input)
      claimed == claim_step(r, k, s, input) /\ UNCHANGED <<memoryVars, verdict>>
  IN  /\ pc[r][k] = "claim"
      /\ \/ /\ claimed
            /\ CASE outcome = "claimed" ->
                     GotoWith(r, k, "tool",
                       [frame[r][k] EXCEPT !.token = steps[r][s].attempt_count + 1])
                 [] outcome = "cached" ->
                     Recording(r, k, ToolItem(s, "completed", steps[r][s].result), "decide",
                               Observed(frame[r][k], steps[r][s].result))
                 [] outcome = "mismatch" -> GotoWith(r, k, "fail", Failing("mismatch"))
                 [] outcome \in {"already_running", "exhausted"} ->
                     GotoWith(r, k, "fail", Failing("tool_execution_failed"))
         \/ LeaseLost(r, k)

\* The step is settled before its evidence is recorded.
Returned(r, k) ==
  LET s == Position(r, k)
      f == frame[r][k]
      out == IF pc[r][k] = "returned" THEN f.out ELSE "tool_execution_failed"
  IN  /\ pc[r][k] \in {"returned", "executor_raised"}
      /\ \/ /\ out \in Output
            /\ complete_step(r, k, s, f.token, out)
            /\ Recording(r, k, ToolItem(s, "completed", out), "decide", Observed(f, out))
            /\ UNCHANGED <<memoryVars, verdict>>
         \/ /\ out \in FailureCode
            /\ fail_step(r, k, s, f.token, out)
            /\ Recording(r, k, ToolItem(s, "failed", out), "fail", Failing(out))
            /\ UNCHANGED <<memoryVars, verdict>>
         \/ LeaseLost(r, k)

-----------------------------------------------------------------------------
(* The end of the loop. *)

Finalize(r, k) ==
  LET outcome == workflow_evidence(r, OutcomeId).outcome
  IN  /\ pc[r][k] = "finalize"
      /\ \/ /\ _finalize_execution(r, k, IF outcome = "finished" THEN "ready" ELSE "blocked",
                                   "none")
            /\ verdict' = [verdict EXCEPT ![r].outcome = outcome]
            /\ Goto(r, k, "remember")
            /\ UNCHANGED <<steps, evidence, mirrored, memoryVars>>
         \/ LeaseLost(r, k)

\* _fail: an outcome recorded before a crash must be this very failure.
Fail(r, k) ==
  LET code == frame[r][k].code
      existing == workflow_evidence(r, OutcomeId)
      item == Item("outcome", 0, Body("failed", code))
  IN  /\ pc[r][k] = "fail"
      /\ CASE existing = Nothing -> Recording(r, k, item, "close", frame[r][k])
           [] existing = item -> GotoWith(r, k, "publish", [frame[r][k] EXCEPT
                                            !.item = item, !.next = "close"])
           [] existing \notin {Nothing, item} -> Raise(r, k, "mismatch")
      /\ ReadOnly

Close(r, k) ==
  /\ pc[r][k] = "close"
  /\ Write(r, k, _finalize_execution(r, k, "failed", frame[r][k].code)
                 /\ UNCHANGED <<steps, evidence, mirrored>>,
           "raise", Failing(frame[r][k].code))

-----------------------------------------------------------------------------
(* GovernedMemory.remember: one transaction per write (the order of the    *)
(* keys tells nothing apart here), then the mirror.                        *)

\* What the message teaches; the same for every attempt.
extract(r) == {x \in Key : writes[r][x] # "none"}

Remember(r, k) ==
  LET pending == extract(r) \ frame[r][k].written
  IN  /\ pc[r][k] = "remember"
      /\ \/ \E x \in pending :
              /\ upsert_from_run(r, k, x, writes[r][x])
              /\ GotoWith(r, k, "remember", [frame[r][k] EXCEPT !.written = @ \cup {x}])
              /\ UNCHANGED <<stepVars, verdict>>
         \/ pending # {} /\ LeaseLost(r, k)
         \/ pending = {} /\ Goto(r, k, "mutations") /\ ReadOnly

\* Mutant: only mutations of this very attempt are looked at, and it made none.
MirrorMutations_none(r, k) ==
  /\ pc[r][k] = "mutations"
  /\ Goto(r, k, "commit") /\ ReadOnly

\* Audit events of the Run that are not yet public, oldest first.
MirrorMutations(r, k) ==
  LET missing == {n \in EventsForRun(r) : ~Mirrored(r, <<"memory", n>>)}
      oldest == CHOOSE n \in missing : \A m \in missing : n <= m
  IN  /\ pc[r][k] = "mutations"
      /\ \/ /\ missing # {}
            /\ Write(r, k, append_run_event(r, k, <<"memory", oldest>>), "mutations",
                     frame[r][k])
         \/ missing = {} /\ Goto(r, k, "commit") /\ ReadOnly

LoopStep(r, k) ==
  /\ \/ Retrieve(r, k) \/ Open(r, k) \/ Mirror(r, k) \/ Mark(r, k)
     \/ Restore(r, k) \/ Decide(r, k) \/ Act(r, k)
     \/ Execute(r, k) \/ Recover(r, k) \/ Claim(r, k) \/ Returned(r, k)
     \/ Finalize(r, k) \/ Fail(r, k) \/ Close(r, k)
     \/ Remember(r, k) \/ MirrorMutations(r, k)
  /\ UNCHANGED <<child, boundVars, writes>>

\* An exception of the store escapes from every step of the loop and of the
\* memory around it: the execution stays as it is, evidence may stay
\* unpublished, and the Manager fails the Run.  (Reconciliation on the way out
\* finds no action to settle.)
LoopRaises(r, k) ==
  /\ pc[r][k] \in {"retrieve", "open", "mirror", "mark", "restore", "decide", "record",
                   "publish", "act", "execute", "recover", "claim", "returned",
                   "executor_raised", "finalize", "fail", "close", "remember", "mutations"}
  /\ StoreRaises(r, k, Raise(r, k, "store_error"))
  /\ UNCHANGED writes

\* The subject deletes a key, or another Run of the subject writes one.
ElsewhereMutates(x) ==
  /\ Cardinality(EventsForRun(Elsewhere)) < MaxForeign
  /\ forget_memory(x) \/ \E v \in Value : _upsert(x, v, Elsewhere)
  /\ UNCHANGED <<stepVars, verdict, attemptVars, child, boundVars, writes>>

-----------------------------------------------------------------------------
(* Properties. *)

\* The evidence of a loop and its ledger tell one story, although they are
\* written in separate transactions by attempts that die in between: evidence
\* is recorded once, a step exists only behind an accepted decision that policy
\* allowed, tool evidence repeats the settled row of its step, and a closed
\* execution has the outcome its evidence names.
EvidenceTellsLedger ==
  \A r \in DOMAIN writes :
    LET outcome == workflow_evidence(r, OutcomeId)
    IN  /\ \A i, j \in DOMAIN evidence[r] : i # j => evidence[r][i].id # evidence[r][j].id
        /\ \A s \in StepId : steps[r][s].status # "none" =>
             Backed(r, s) /\ workflow_evidence(r, <<"policy", s>>).outcome = "allowed"
        /\ \A e \in Range(evidence[r]) : e.id[1] = "tool" =>
             LET row == steps[r][e.id[2]]
             IN  /\ row.status = e.outcome
                 /\ e.what = IF e.outcome = "completed" THEN row.result ELSE row.error_code
        /\ CASE workflow[r].status = "ready" -> outcome.outcome = "finished"
             [] workflow[r].status = "blocked" -> outcome.outcome \in {"blocked", "clarification"}
             [] workflow[r].status = "failed" ->
                  outcome.outcome = "failed" /\ outcome.what = workflow[r].error_code
             [] OTHER -> TRUE

\* The public stream holds no piece of evidence twice, and it is complete where
\* the code relies on it: once an execution is closed, and when a Run ends, it
\* holds every piece of evidence, whichever attempt recorded it; that of a
\* completed Run, whose execution is always closed, every memory mutation too.
\* The one exception is a Run that an exception of the store ended (the mirror's
\* own, say): it fails with its execution open and its evidence unpublished.
TrailIsComplete ==
  \A r \in DOMAIN writes :
    LET closed == workflow[r].status \in {"ready", "blocked", "failed"}
    IN  /\ \A i, j \in DOMAIN mirrored[r] : i # j => mirrored[r][i] # mirrored[r][j]
        /\ closed \/ (status[r] = "failed" /\ faults = 0) =>
             {e.id : e \in Range(evidence[r])} \subseteq Range(mirrored[r])
        /\ status[r] = "completed" =>
             /\ workflow[r].status \in {"ready", "blocked"}
             /\ {<<"memory", n>> : n \in EventsForRun(r)} \subseteq Range(mirrored[r])
=============================================================================
