--------------------------- MODULE PostgresLedger ---------------------------
(***************************************************************************)
(* The workflow store, the quarantine resolution and the memory store on   *)
(* PostgreSQL, statement by statement.  A method is a transaction at READ  *)
(* COMMITTED: its statements read and lock one row after the other, each   *)
(* as of its own start, and the writes at its end rely on what was read    *)
(* before.  What a check of a row does not let pass ends the transaction   *)
(* without a write.  The lease clock is the timestamp of BEGIN.            *)
(*                                                                         *)
(* FOR UPDATE of a row that does not exist locks nothing; the method then  *)
(* relies on a lock of another row.  An UPDATE locks the rows it changes:  *)
(* where no SELECT did so before it is a statement here.                   *)
(*                                                                         *)
(* One external write and one plain step per Run suffice: both are the     *)
(* row tool_calls of the Run, with the action row of the former.           *)
(***************************************************************************)
EXTENDS Integers, Sequences

CONSTANTS
  Session,       \* connections
  Run,           \* Runs of the load
  Load,          \* what the sessions do: the methods that are called and the
                 \* Runs they are called for, what happens besides, the
                 \* max_attempts of the step and the bound on claims of a Run
  MaxDispatches, \* bound: dispatches of an action
  MaxRevision,   \* bound: revisions of a thread
  MaxVersions,   \* bound: versions of a memory key
  MaxEvents      \* bound: events at which append_event stops

Method ==
  {"create_or_get_execution", "mark_running", "_finalize_execution", "append_event",
   "claim_step", "_finalize_step", "recover_interrupted_step", "reuse_completed_step",
   "prepare_external_action", "begin_external_action_dispatch",
   "retry_external_action_dispatch", "finalize_external_action",
   "finalize_reconciliation_unknown", "commit_completed_run",
   "quarantine_checkpoint_conflict", "apply_quarantine_resolution",
   "upsert_from_run", "upsert", "forget_memory", "get_or_create_run_snapshot"}

\* Runs are numbered in the order of their submission, and any set of them has a
\* last one.
ASSUME PostgresLedgerAssumption ==
  /\ Run \subseteq Nat
  /\ \A S \in SUBSET Run : S # {} => \E last \in S : \A r \in S : r <= last
  /\ Load \subseteq [methods : SUBSET Method, runs : SUBSET Run,
                     besides : SUBSET {"cancel", "foreign"},
                     max_attempts : Nat, max_claims : Nat]
  /\ {MaxDispatches, MaxRevision, MaxVersions, MaxEvents} \subseteq Nat

\* The step of an external write is claimed with max_attempts=1 and finished with
\* its action, never by the methods of a plain step.
ASSUME ExternalStepsApart ==
  \A l \in Load : "prepare_external_action" \in l.methods =>
    /\ l.max_attempts <= 1
    /\ l.methods \cap {"_finalize_step", "recover_interrupted_step"} = {}

VARIABLES
  load,                 \* the load of this behaviour
  now,                  \* the database clock: 0 while the first lease lives
  runs,                 \* status, token (of the last of its claims), expires,
                        \* cancel, code, base and conflict (the revision observed)
  thread_states,        \* revision of the Run's thread
  workflow_executions,  \* status
  tool_calls,           \* status, attempt (= attempt_token) and the Run whose
                        \* execution produced the result, 0 without one
  external_actions,     \* status, dispatch (= dispatch_token), mode
  workflow_events,      \* MAX(sequence)
  memory_records,       \* versions of one key: status and value
  run_memory_snapshots, \* the sealed value, or "none"
  plan,                 \* the evidence of the operator's plan, <<>> without one
  resolved,             \* the evidence of quarantine.resolution_applied events
  txn                   \* the open transaction of each session

ledger == <<thread_states, workflow_executions, tool_calls, external_actions, workflow_events>>
memory == <<memory_records, run_memory_snapshots>>
tables == <<runs, ledger, memory, resolved>>
pgVars == <<load, now, tables, plan, txn>>

Outcome == {"succeeded", "failed", "outcome_unknown"}

StepOf(status) == IF status = "succeeded" THEN "completed" ELSE "failed"

NoCall == [name |-> "none", run |-> 0, token |-> 0, n |-> 0, what |-> "none"]
Idle == [stage |-> "idle", now |-> 0, call |-> NoCall, pc |-> 0, seen |-> <<>>]

-----------------------------------------------------------------------------
(* The statements of each method, in their order. *)

ForUpdate(table, r) == [table |-> table, run |-> r, lock |-> "update"]
ForShare(table, r) == [table |-> table, run |-> r, lock |-> "share"]
Select(table, r) == [table |-> table, run |-> r, lock |-> "none"]

\* _assert_current_run_lease locks the Run it reads.
_assert_current_run_lease(r) == <<ForUpdate("runs", r)>>

\* Mutant: the events of a Run have no mutex.
_lock_execution_for_events_not(r) == <<Select("workflow_executions", r)>>

_lock_execution_for_events(r) == <<ForUpdate("workflow_executions", r)>>

\* _append_event_with_connection: MAX(sequence) under the lock just taken.
NextSequence(r) == <<Select("workflow_events", r)>>

Fenced(r) == _assert_current_run_lease(r) \o _lock_execution_for_events(r)

create_or_get_execution(r) ==
  _assert_current_run_lease(r) \o <<ForUpdate("workflow_executions", r)>>

_transition_execution(r) ==
  _assert_current_run_lease(r) \o <<ForUpdate("workflow_executions", r)>> \o NextSequence(r)

claim_step(r) ==
  _assert_current_run_lease(r)
    \o <<ForUpdate("workflow_executions", r), ForUpdate("tool_calls", r)>> \o NextSequence(r)

_finalize_step(r) == Fenced(r) \o <<ForUpdate("tool_calls", r)>> \o NextSequence(r)

recover_interrupted_step(r) == Fenced(r) \o <<ForUpdate("tool_calls", r)>> \o NextSequence(r)

\* The source is consulted first, its rows shared with other replays.
reuse_completed_step(r, source) ==
  _assert_current_run_lease(r)
    \o <<ForShare("workflow_executions", source), ForUpdate("workflow_executions", r),
         ForShare("tool_calls", source), Select("external_actions", source),
         ForUpdate("tool_calls", r)>>
    \o NextSequence(r)

prepare_external_action(r) ==
  _assert_current_run_lease(r)
    \o <<ForUpdate("workflow_executions", r), ForUpdate("tool_calls", r),
         ForUpdate("external_actions", r)>>
    \o NextSequence(r)

begin_external_action_dispatch(r) ==
  Fenced(r) \o <<ForUpdate("external_actions", r), ForUpdate("tool_calls", r)>> \o NextSequence(r)

retry_external_action_dispatch(r) ==
  Fenced(r) \o <<ForUpdate("external_actions", r), ForUpdate("tool_calls", r)>> \o NextSequence(r)

\* Mutant: the action is locked before the execution.
_finalize_external_action_inverted(r) ==
  <<ForUpdate("external_actions", r)>> \o _lock_execution_for_events(r)
    \o <<ForUpdate("tool_calls", r)>> \o NextSequence(r)

\* "All terminal action writers lock the execution first."
_finalize_external_action(r) ==
  _lock_execution_for_events(r)
    \o <<ForUpdate("external_actions", r), ForUpdate("tool_calls", r)>> \o NextSequence(r)

append_event(r) == Fenced(r) \o NextSequence(r)

commit_completed_run(r) == <<ForUpdate("runs", r), ForUpdate("thread_states", r)>>

quarantine_checkpoint_conflict_for_reconciliation(r) ==
  <<ForUpdate("runs", r), ForUpdate("thread_states", r)>>

\* The evidence is derived from plain reads once every row of it is locked.
_lock_quarantine_evidence(r) ==
  <<ForUpdate("runs", r), ForUpdate("thread_states", r),
    ForUpdate("workflow_executions", r), ForUpdate("tool_calls", r),
    ForUpdate("external_actions", r), Select("evidence", r)>>

\* Mutant: there is no advisory lock.
_lock_memory_key_not == <<Select("memory_key", 0)>>

\* The advisory lock stands for every version of the key, also for the next.
_lock_memory_key == <<ForUpdate("memory_key", 0)>>

\* upsert, the administrative call, is not fenced.
_upsert(r, leased) ==
  (IF leased THEN _assert_current_run_lease(r) ELSE <<>>)
    \o _lock_memory_key \o <<Select("memory_records", 0)>>

forget_memory == _lock_memory_key \o <<Select("memory_records", 0)>>

\* The records are read as they are, and sealed.
_get_or_create_run_snapshot(r) ==
  _assert_current_run_lease(r) \o <<Select("run_memory_snapshots", r), Select("offered", r)>>

Program(c) ==
  CASE c.name = "create_or_get_execution" -> create_or_get_execution(c.run)
    [] c.name \in {"mark_running", "_finalize_execution"} -> _transition_execution(c.run)
    [] c.name = "claim_step" -> claim_step(c.run)
    [] c.name = "_finalize_step" -> _finalize_step(c.run)
    [] c.name = "recover_interrupted_step" -> recover_interrupted_step(c.run)
    [] c.name = "reuse_completed_step" -> reuse_completed_step(c.run, c.n)
    [] c.name = "prepare_external_action" -> prepare_external_action(c.run)
    [] c.name = "begin_external_action_dispatch" -> begin_external_action_dispatch(c.run)
    [] c.name = "retry_external_action_dispatch" -> retry_external_action_dispatch(c.run)
    [] c.name = "finalize_external_action" -> _finalize_external_action(c.run)
    [] c.name = "finalize_reconciliation_unknown" ->
         _assert_current_run_lease(c.run) \o _finalize_external_action(c.run)
    [] c.name = "append_event" -> append_event(c.run)
    [] c.name = "commit_completed_run" -> commit_completed_run(c.run)
    [] c.name = "quarantine_checkpoint_conflict" ->
         quarantine_checkpoint_conflict_for_reconciliation(c.run)
    [] c.name = "apply_quarantine_resolution" -> _lock_quarantine_evidence(c.run)
    [] c.name = "upsert_from_run" -> _upsert(c.run, TRUE)
    [] c.name = "upsert" -> _upsert(c.run, FALSE)
    [] c.name = "forget_memory" -> forget_memory
    [] c.name = "get_or_create_run_snapshot" -> _get_or_create_run_snapshot(c.run)

-----------------------------------------------------------------------------
(* Rows, locks and the checks of what was read. *)

_workflow_evidence_fingerprint(r) ==
  <<workflow_executions[r], tool_calls[r], external_actions[r], workflow_events[r]>>

_derive_quarantine_plan(r) ==
  <<runs[r], thread_states[r], _workflow_evidence_fingerprint(r)>>

Row(st) ==
  CASE st.table = "runs" -> runs[st.run]
    [] st.table = "thread_states" -> thread_states[st.run]
    [] st.table = "workflow_executions" -> workflow_executions[st.run]
    [] st.table = "tool_calls" -> tool_calls[st.run]
    [] st.table = "external_actions" -> external_actions[st.run]
    [] st.table = "workflow_events" -> workflow_events[st.run]
    [] st.table = "evidence" -> _derive_quarantine_plan(st.run)
    [] st.table = "memory_key" -> "key"
    [] st.table = "memory_records" -> memory_records
    [] st.table = "run_memory_snapshots" -> run_memory_snapshots[st.run]
    [] st.table = "offered" -> memory_records

Exists(table, row) ==
  CASE table \in {"workflow_executions", "tool_calls", "external_actions"} -> row.status # "none"
    [] table = "thread_states" -> row > 0
    [] OTHER -> TRUE

\* The statements that session s has executed, and what the i-th of them read.
Executed(s) == 1 .. txn[s].pc
Statement(s, i) == Program(txn[s].call)[i]
Read(s, table, r) == txn[s].seen[<<table, r>>]

\* A lock that session o holds keeps session s from executing statement st.
Excludes(o, st) ==
  /\ st.lock # "none"
  /\ \E i \in Executed(o) :
       LET held == Statement(o, i)
       IN  /\ held.table = st.table /\ held.run = st.run
           /\ "update" \in {held.lock, st.lock} /\ held.lock # "none"
           /\ Exists(held.table, Read(o, held.table, held.run))

Free(s, st) == \A o \in Session \ {s} : ~Excludes(o, st)

Unfenced == {"finalize_external_action", "apply_quarantine_resolution", "upsert", "forget_memory"}

CurrentLease(c, row, n) ==
  row.status = "running" /\ row.token = c.token /\ row.expires > n

\* Mutant: the source may still be running.
Replayable_running(execution) == execution.status # "none"

Replayable(execution) == execution.status \in {"ready", "blocked"}

\* The method goes on after reading this row in a transaction of timestamp n.
Passes(c, st, row, n, seen) ==
  CASE st.table = "runs" ->
         /\ c.name \in Unfenced \/ CurrentLease(c, row, n)
         /\ c.name = "commit_completed_run" => ~row.cancel
    [] st.table = "workflow_executions" ->
         /\ c.name # "create_or_get_execution" => row.status # "none"
         /\ c.name = "reuse_completed_step" /\ st.run = c.run =>
              row.status = "running" /\ Replayable(seen[<<"workflow_executions", c.n>>])
    [] st.table = "tool_calls" ->
         CASE c.name = "claim_step" ->
                \/ row.status = "none"
                \/ row.status = "failed" /\ row.attempt < load.max_attempts
           [] c.name \in {"prepare_external_action", "begin_external_action_dispatch",
                          "retry_external_action_dispatch"} -> row.status = "running"
           [] c.name = "_finalize_step" -> row.status = "running" /\ row.attempt = c.n
           [] c.name = "recover_interrupted_step" -> row.status = "running"
           [] c.name = "reuse_completed_step" ->
                row.status = IF st.run = c.run THEN "none" ELSE "completed"
           [] OTHER -> TRUE
    [] st.table = "external_actions" ->
         CASE c.name \in {"prepare_external_action", "reuse_completed_step"} -> row.status = "none"
           [] c.name = "begin_external_action_dispatch" ->
                row.status = "prepared" /\ ~seen[<<"runs", c.run>>].cancel
           [] c.name = "retry_external_action_dispatch" ->
                row.status = "dispatching" /\ row.dispatch = c.n /\ row.mode # "unsafe"
           [] OTHER -> row.status # "none"
    [] st.table = "run_memory_snapshots" -> row = "none"
    [] OTHER -> TRUE

-----------------------------------------------------------------------------
(* The writes.  x is what the transaction has read. *)

\* Events get the numbers after the maximum that was read; a number that was
\* given meanwhile is a UniqueViolation.
Events(c, x, k) ==
  /\ workflow_events[c.run] = x[<<"workflow_events", c.run>>]
  /\ workflow_events' = [workflow_events EXCEPT ![c.run] = @ + k]

Created(c) ==
  /\ workflow_executions[c.run].status = "none"
  /\ workflow_executions' = [workflow_executions EXCEPT ![c.run].status = "pending"]
  /\ UNCHANGED <<runs, thread_states, tool_calls, external_actions, workflow_events,
                 memory, resolved>>

Transitioned(c, x) ==
  /\ workflow_executions[c.run].status = IF c.name = "mark_running" THEN "pending" ELSE "running"
  /\ workflow_executions' = [workflow_executions EXCEPT ![c.run].status = c.what]
  /\ Events(c, x, 1)
  /\ UNCHANGED <<runs, thread_states, tool_calls, external_actions, memory, resolved>>

StepWritten(c, x, row) ==
  /\ tool_calls' = [tool_calls EXCEPT ![c.run] = row]
  /\ Events(c, x, 1)
  /\ UNCHANGED <<runs, thread_states, workflow_executions, external_actions, memory, resolved>>

\* _claim_fresh and _claim_retry: ON CONFLICT DO NOTHING, WHERE status = failed.
_claim_retry(c, x) ==
  LET row == tool_calls[c.run]
  IN  /\ row.status = x[<<"tool_calls", c.run>>].status
      /\ StepWritten(c, x, [status |-> "running", attempt |-> row.attempt + 1,
                            result |-> 0])

\* WHERE status = running AND attempt_token = the one presented.
StepFinished(c, x) ==
  LET row == tool_calls[c.run]
  IN  /\ row.status = "running" /\ row.attempt = c.n
      /\ StepWritten(c, x, [row EXCEPT !.status = c.what,
                                       !.result = IF c.what = "completed" THEN c.run ELSE 0])

Interrupted(c, x) ==
  /\ tool_calls[c.run].status = "running"
  /\ StepWritten(c, x, [tool_calls[c.run] EXCEPT !.status = "failed"])

Copied(c, x) ==
  /\ tool_calls[c.run].status = "none"
  /\ StepWritten(c, x, [status |-> "completed", attempt |-> 0,
                        result |-> x[<<"tool_calls", c.n>>].result])

ActionWritten(c, x, row) ==
  /\ external_actions' = [external_actions EXCEPT ![c.run] = row]
  /\ Events(c, x, 1)
  /\ UNCHANGED <<runs, thread_states, workflow_executions, tool_calls, memory, resolved>>

Prepared(c, x) ==
  /\ external_actions[c.run].status = "none"
  /\ ActionWritten(c, x, [external_actions[c.run] EXCEPT !.status = "prepared"])

Begun(c, x) ==
  /\ external_actions[c.run].status = "prepared"
  /\ ActionWritten(c, x, [external_actions[c.run] EXCEPT !.status = "dispatching",
                                                         !.dispatch = @ + 1])

Retried(c, x) ==
  /\ external_actions[c.run].status = "dispatching"
  /\ external_actions[c.run].dispatch = c.n
  /\ c.n < MaxDispatches
  /\ ActionWritten(c, x, [external_actions[c.run] EXCEPT !.dispatch = @ + 1])

\* Mutant: an outcome replaces whatever was recorded before.
Finalized_over(c, x) ==
  /\ external_actions' = [external_actions EXCEPT ![c.run].status = c.what]
  /\ tool_calls' = [tool_calls EXCEPT ![c.run].status = StepOf(c.what)]
  /\ Events(c, x, 2)
  /\ UNCHANGED <<runs, thread_states, workflow_executions, memory, resolved>>

\* Both rows and both events, or a StaleDispatchError or StaleAttemptError.
Finalized(c, x) ==
  /\ external_actions[c.run].status = "dispatching" /\ external_actions[c.run].dispatch = c.n
  /\ tool_calls[c.run].status = "running"
  /\ external_actions' = [external_actions EXCEPT ![c.run].status = c.what]
  /\ tool_calls' = [tool_calls EXCEPT ![c.run].status = StepOf(c.what)]
  /\ Events(c, x, 2)
  /\ UNCHANGED <<runs, thread_states, workflow_executions, memory, resolved>>

Appended(c, x) ==
  /\ workflow_events[c.run] < MaxEvents
  /\ Events(c, x, 1)
  /\ UNCHANGED <<runs, thread_states, workflow_executions, tool_calls, external_actions,
                 memory, resolved>>

RunWritten(c, row) ==
  /\ runs' = [runs EXCEPT ![c.run] = row]
  /\ UNCHANGED <<workflow_executions, tool_calls, external_actions, workflow_events, memory>>

\* The captured revision is still the thread's: the checkpoint advances.
Completed(c, x) ==
  /\ runs[c.run].base = x[<<"thread_states", c.run>>]
  /\ RunWritten(c, [runs[c.run] EXCEPT !.status = "completed", !.token = 0])
  /\ thread_states' = [thread_states EXCEPT ![c.run] = x[<<"thread_states", c.run>>] + 1]
  /\ UNCHANGED resolved

Parked(c, x) ==
  /\ runs[c.run].base # x[<<"thread_states", c.run>>]
  /\ RunWritten(c, [runs[c.run] EXCEPT !.code = "blocked", !.token = 0,
                                       !.conflict = x[<<"thread_states", c.run>>]])
  /\ UNCHANGED <<thread_states, resolved>>

\* Mutant: an action in flight does not stand in the way.
eligible_in_flight(p) ==
  /\ p[1].status = "running" /\ p[1].code = "blocked" /\ p[1].token = 0
  /\ p[1].conflict = p[2] /\ p[1].base # p[2]
  /\ p[3][3].status # "none"

_terminal_external_action_evidence_is_consistent(action, step) ==
  action.status \in Outcome /\ step.status = StepOf(action.status)

\* Nothing in the derived plan p stands in the way of a resolution of its Run.
eligible(p) ==
  LET run == p[1]
      execution == p[3][1]
      step == p[3][2]
      action == p[3][3]
  IN  /\ run.status = "running" /\ run.code = "blocked" /\ run.token = 0
      /\ run.conflict = p[2] /\ run.base # p[2]
      /\ execution.status # "none"
      /\ _terminal_external_action_evidence_is_consistent(action, step)

\* The operator's plan is the one derived under the locks.  A resolution on
\* record is answered without a write.
Resolved(c, x) ==
  LET current == x[<<"evidence", c.run>>]
  IN  /\ eligible(current) /\ plan = current
      /\ runs[c.run].status = "running" /\ runs[c.run].code = "blocked" /\ runs[c.run].token = 0
      /\ RunWritten(c, [runs[c.run] EXCEPT !.status = "failed", !.code = "conflict"])
      /\ resolved' = [resolved EXCEPT ![c.run] = Append(@, current[3])]
      /\ UNCHANGED thread_states

Active(records) == {i \in DOMAIN records : records[i].status = "active"}

\* The active version that was read is superseded, MAX(version) + 1 inserted.
Remembered(c, x) ==
  LET records == x[<<"memory_records", 0>>]
      active == Active(records)
  IN  /\ \A i \in active : records[i].value # c.what
      /\ Len(records) < MaxVersions
      /\ memory_records' =
           Append([i \in DOMAIN memory_records |->
                     IF i \in active THEN [memory_records[i] EXCEPT !.status = "superseded"]
                     ELSE memory_records[i]],
                  [version |-> Len(records) + 1, status |-> "active", value |-> c.what])
      /\ UNCHANGED <<runs, ledger, run_memory_snapshots, resolved>>

\* Every version that is not deleted yet.
Forgotten(c, x) ==
  /\ \E i \in DOMAIN x[<<"memory_records", 0>>] :
       x[<<"memory_records", 0>>][i].status # "deleted"
  /\ memory_records' = [i \in DOMAIN memory_records |->
                          [memory_records[i] EXCEPT !.status = "deleted", !.value = "null"]]
  /\ UNCHANGED <<runs, ledger, run_memory_snapshots, resolved>>

Sealed(c, x) ==
  LET records == x[<<"offered", c.run>>]
      values == {records[i].value : i \in Active(records)}
  IN  /\ run_memory_snapshots[c.run] = "none"
      /\ run_memory_snapshots' = [run_memory_snapshots EXCEPT ![c.run] =
           IF values = {} THEN "empty" ELSE CHOOSE v \in values : TRUE]
      /\ UNCHANGED <<runs, ledger, memory_records, resolved>>

Write(c, x) ==
  \/ c.name = "create_or_get_execution" /\ Created(c)
  \/ c.name \in {"mark_running", "_finalize_execution"} /\ Transitioned(c, x)
  \/ c.name = "claim_step" /\ _claim_retry(c, x)
  \/ c.name = "_finalize_step" /\ StepFinished(c, x)
  \/ c.name = "recover_interrupted_step" /\ Interrupted(c, x)
  \/ c.name = "reuse_completed_step" /\ Copied(c, x)
  \/ c.name = "prepare_external_action" /\ Prepared(c, x)
  \/ c.name = "begin_external_action_dispatch" /\ Begun(c, x)
  \/ c.name = "retry_external_action_dispatch" /\ Retried(c, x)
  \/ c.name \in {"finalize_external_action", "finalize_reconciliation_unknown"} /\ Finalized(c, x)
  \/ c.name = "append_event" /\ Appended(c, x)
  \/ c.name = "commit_completed_run" /\ Completed(c, x)
  \/ c.name = "quarantine_checkpoint_conflict" /\ Parked(c, x)
  \/ c.name = "apply_quarantine_resolution" /\ Resolved(c, x)
  \/ c.name \in {"upsert_from_run", "upsert"} /\ Remembered(c, x)
  \/ c.name = "forget_memory" /\ Forgotten(c, x)
  \/ c.name = "get_or_create_run_snapshot" /\ Sealed(c, x)

-----------------------------------------------------------------------------
(* Sessions. *)

\* The calls of one method: lease tokens that were drawn, tokens of the step or
\* of the action that were drawn, and outcomes.
Calls(name, r) ==
  LET Of(t, n, what) == [name |-> name, run |-> r, token |-> t, n |-> n, what |-> what]
  IN  CASE name = "mark_running" -> {Of(t, 0, "running") : t \in 1 .. runs[r].claims}
        [] name = "_finalize_execution" ->
             {Of(t, 0, what) : t \in 1 .. runs[r].claims, what \in {"ready", "failed"}}
        [] name = "_finalize_step" ->
             {Of(t, n, what) : t \in 1 .. runs[r].claims, n \in 1 .. tool_calls[r].attempt,
                                 what \in {"completed", "failed"}}
        [] name = "reuse_completed_step" ->
             {Of(t, q, "none") : t \in 1 .. runs[r].claims, q \in {q \in load.runs : q < r}}
        [] name = "retry_external_action_dispatch" ->
             {Of(t, n, "none") : t \in 1 .. runs[r].claims, n \in 1 .. external_actions[r].dispatch}
        [] name = "finalize_external_action" ->
             {Of(0, n, what) : n \in 1 .. external_actions[r].dispatch, what \in Outcome}
        [] name = "finalize_reconciliation_unknown" ->
             {Of(t, n, "outcome_unknown") : t \in 1 .. runs[r].claims,
                                              n \in 1 .. external_actions[r].dispatch}
        [] name \in {"apply_quarantine_resolution", "forget_memory"} -> {Of(0, 0, "none")}
        [] name = "upsert" -> {Of(0, 0, "w")}
        [] name = "upsert_from_run" -> {Of(t, 0, "v") : t \in 1 .. runs[r].claims}
        [] OTHER -> {Of(t, 0, "none") : t \in 1 .. runs[r].claims}

\* connection.transaction(); transaction_timestamp() is fixed here.
Begin(s) ==
  /\ txn[s].stage = "idle"
  /\ txn' = [txn EXCEPT ![s] = [stage |-> "open", now |-> now, call |-> NoCall, pc |-> 0,
                                seen |-> <<>>]]
  /\ UNCHANGED <<load, now, tables, plan>>

\* What the transaction knows once it has read the row of st.
Noted(seen, st, row) ==
  LET key == <<st.table, st.run>>
  IN  [k \in DOMAIN seen \cup {key} |-> IF k = key THEN row ELSE seen[k]]

\* The next statement of call c: wait for its row, read it, check it.
Execute(s, c) ==
  LET i == txn[s].pc + 1
      st == Program(c)[i]
      row == Row(st)
  IN  /\ Free(s, st)
      /\ Passes(c, st, row, txn[s].now, txn[s].seen)
      /\ txn' = [txn EXCEPT ![s] = [stage |-> "called", now |-> @.now, call |-> c, pc |-> i,
                                    seen |-> Noted(@.seen, st, row)]]
      /\ UNCHANGED <<load, now, tables, plan>>

Call(s) ==
  /\ txn[s].stage = "open"
  /\ \E name \in load.methods, r \in load.runs : \E c \in Calls(name, r) : Execute(s, c)

Continue(s) ==
  /\ txn[s].stage = "called"
  /\ txn[s].pc < Len(Program(txn[s].call))
  /\ Execute(s, txn[s].call)

Commit(s) ==
  /\ txn[s].stage = "called"
  /\ txn[s].pc = Len(Program(txn[s].call))
  /\ Write(txn[s].call, txn[s].seen)
  /\ txn' = [txn EXCEPT ![s] = Idle]
  /\ UNCHANGED <<load, now, plan>>

\* An error, a return without a write, a lock or statement timeout, a lost
\* connection or a deadlock victim.
Rollback(s) ==
  /\ txn[s].stage # "idle"
  /\ txn' = [txn EXCEPT ![s] = Idle]
  /\ UNCHANGED <<load, now, tables, plan>>

-----------------------------------------------------------------------------
(* Transactions that touch one row take effect when it is free. *)

RowFree(table, r) == \A s \in Session : ~Excludes(s, ForUpdate(table, r))

\* claim_next_run recovers a Run whose lease ran out or was released.
Takeover(r) ==
  /\ RowFree("runs", r)
  /\ runs[r].status = "running" /\ runs[r].code # "blocked"
  /\ runs[r].token = 0 \/ runs[r].expires <= now
  /\ runs[r].claims < load.max_claims
  /\ runs' = [runs EXCEPT ![r].token = runs[r].claims + 1, ![r].claims = @ + 1,
                          ![r].expires = now + 1]
  /\ UNCHANGED <<load, now, ledger, memory, resolved, plan, txn>>

request_cancel_atomically(r) ==
  /\ "cancel" \in load.besides
  /\ RowFree("runs", r)
  /\ runs[r].status = "running" /\ ~runs[r].cancel
  /\ runs' = [runs EXCEPT ![r].cancel = TRUE]
  /\ UNCHANGED <<load, now, ledger, memory, resolved, plan, txn>>

\* A writer outside the lease boundary replaces the checkpoint.
ForeignWrite(r) ==
  /\ "foreign" \in load.besides
  /\ RowFree("thread_states", r)
  /\ thread_states[r] < MaxRevision
  /\ thread_states' = [thread_states EXCEPT ![r] = @ + 1]
  /\ UNCHANGED <<load, now, runs, workflow_executions, tool_calls, external_actions,
                 workflow_events, memory, resolved, plan, txn>>

\* REPEATABLE READ: the plan is derived from one snapshot.
plan_quarantine_resolution(r) ==
  /\ eligible(_derive_quarantine_plan(r))
  /\ plan' = _derive_quarantine_plan(r)
  /\ UNCHANGED <<load, now, tables, txn>>

Tick ==
  /\ now = 0
  /\ now' = 1
  /\ UNCHANGED <<load, tables, plan, txn>>

-----------------------------------------------------------------------------

\* The Runs were claimed, in threads that have a checkpoint; a workflow that the
\* load does not create is running already, its first step still under way.
PgInit ==
  /\ load \in Load
  /\ now = 0
  /\ runs = [r \in Run |-> [status |-> "running", token |-> 1, claims |-> 1, expires |-> 1,
                            cancel |-> FALSE, code |-> "none", base |-> 1, conflict |-> 0]]
  /\ thread_states = [r \in Run |-> 1]
  /\ workflow_executions =
       [r \in Run |-> [status |-> IF "create_or_get_execution" \in load.methods
                                 THEN "none" ELSE "running"]]
  /\ tool_calls = [r \in Run |-> [status |-> "none", attempt |-> 0, result |-> 0]]
  /\ \E mode \in {"unsafe", "provider_idempotent"} :
       /\ mode = "unsafe" \/ "retry_external_action_dispatch" \in load.methods
       /\ external_actions = [r \in Run |-> [status |-> "none", dispatch |-> 0, mode |-> mode]]
  /\ workflow_events = [r \in Run |-> 0]
  /\ memory_records = <<>>
  /\ run_memory_snapshots = [r \in Run |-> "none"]
  /\ plan = <<>>
  /\ resolved = [r \in Run |-> <<>>]
  /\ txn = [s \in Session |-> Idle]

PgNext ==
  \/ \E s \in Session : Begin(s) \/ Call(s) \/ Continue(s) \/ Commit(s) \/ Rollback(s)
  \/ \E r \in load.runs :
       \/ Takeover(r) \/ request_cancel_atomically(r) \/ ForeignWrite(r)
       \/ plan_quarantine_resolution(r)
  \/ Tick

PgSpec == PgInit /\ [][PgNext]_pgVars

-----------------------------------------------------------------------------
(* Properties. *)

\* What a method has read is what it still finds when it writes: rows it locked,
\* rows it found missing and protects by the lock of another row, and the
\* maxima it numbers events and versions by.  So each method acts as one step,
\* as it does on SQLite, and no ON CONFLICT branch or unique index is met.  Only
\* the memories that a snapshot seals are as of the statement that read them.
ReadsAreCurrent ==
  \A s \in Session : \A i \in Executed(s) :
    LET st == Statement(s, i)
    IN  st.table # "offered" => Read(s, st.table, st.run) = Row(st)

\* No transactions wait for each other's locks in a circle: whatever set of them
\* is waiting, one waits for nobody in it.  "All terminal action writers lock
\* the execution first ... avoiding an action<->execution lock inversion."
NoLockCycle ==
  LET Waiting(s, o) ==
        /\ txn[s].stage = "called"
        /\ txn[s].pc < Len(Program(txn[s].call))
        /\ Excludes(o, Statement(s, txn[s].pc + 1))
  IN  \A S \in (SUBSET Session) \ {{}} : \E s \in S : \A o \in S \ {s} : ~Waiting(s, o)

\* The action and its step agree, and an unsafe action is dispatched once,
\* although answers of providers are recorded without the lease; and a copied
\* step has the result of a source that can no longer change.
RowsAgree ==
  \A r \in Run :
    /\ external_actions[r].status # "none" =>
         /\ external_actions[r].status \in {"prepared", "dispatching"} =>
              tool_calls[r].status = "running"
         /\ external_actions[r].status \in Outcome =>
              tool_calls[r].status = StepOf(external_actions[r].status)
         /\ external_actions[r].mode = "unsafe" => external_actions[r].dispatch <= 1
    /\ tool_calls[r].status = "completed" /\ tool_calls[r].attempt = 0 =>
         \E q \in Run \ {r} :
           /\ workflow_executions[q].status \in {"ready", "blocked"}
           /\ tool_calls[q].status = "completed" /\ tool_calls[q].result = tool_calls[r].result

\* The first outcome of an action and the first result of a step stand.
FirstOutcomeStands ==
  [][\A r \in Run :
       /\ external_actions[r].status \in Outcome => external_actions'[r] = external_actions[r]
       /\ tool_calls[r].status = "completed" => tool_calls'[r] = tool_calls[r]]_pgVars

\* A quarantined Run is released once, and the evidence on record is what the
\* ledger holds from then on, late answers of the provider notwithstanding.
ReleasedOnFrozenEvidence ==
  \A r \in Run : resolved[r] # <<>> =>
    /\ Len(resolved[r]) = 1
    /\ resolved[r][1] = _workflow_evidence_fingerprint(r)
    /\ external_actions[r].status \in Outcome

\* Versions of a key are numbered without gap or duplicate, the newest alone may
\* be active, and what was forgotten has no value left.
OneLineOfVersions ==
  \A i \in DOMAIN memory_records :
    /\ memory_records[i].version = i
    /\ memory_records[i].status = "active" => i = Len(memory_records)
    /\ memory_records[i].status = "deleted" <=> memory_records[i].value = "null"
=============================================================================
